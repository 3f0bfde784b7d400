------------------------------- MODULE MCDiffRun -------------------------------
(* Instances of DiffRun for TLC. *)
EXTENDS DiffRun
===============================================================================
