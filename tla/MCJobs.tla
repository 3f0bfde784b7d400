--------------------------------- MODULE MCJobs ---------------------------------
(* Instances of Jobs for TLC. *)
EXTENDS Jobs, TLC

\* Jobs are interchangeable, and so are ports.
Symmetry == Permutations(Job) \cup Permutations(Port)
===============================================================================
