--------------------------- MODULE MCDurationModel ---------------------------
(***************************************************************************)
(* Two requests of one step each and a health check, while the file is     *)
(* written, replaced and removed.                                          *)
(***************************************************************************)
EXTENDS DurationModel, TLC

CONSTANTS w1, w2, probe, flash

MCJobs == w1 :> <<flash>> @@ w2 :> <<flash>>
=============================================================================
