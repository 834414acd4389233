------------------------------ MODULE MCFrontend ------------------------------
(***************************************************************************)
(* Frontend for TLC: one sample and one spec of the user's own.            *)
(***************************************************************************)
EXTENDS Frontend

CONSTANTS sample, own

MCSpecs == {sample, own}
MCSamples == {sample}
=============================================================================
