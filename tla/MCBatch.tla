------------------------------- MODULE MCBatch -------------------------------
(***************************************************************************)
(* Batch for TLC: two fleets, of two vehicles that share the pool or of    *)
(* one that needs none.                                                    *)
(***************************************************************************)
EXTENDS Batch

MCFleet == 1 .. 2
MCSizes == 1 .. 2

\* The second vehicle of fleet 1 fails without the LLM, the first of fleet 2 always.
MCFails ==
  [v \in MCFleet \X (1 .. 2) |->
     IF v = <<1, 2>> THEN "plan" ELSE IF v = <<2, 1>> THEN "always" ELSE "never"]
=============================================================================
