------------------------------- MODULE MCReaders -------------------------------
(* Instances of Readers for TLC. *)
EXTENDS Readers
===============================================================================
