----------------------------- MODULE MCServerPool -----------------------------
(* Instances of ServerPool for TLC. *)
EXTENDS ServerPool, TLC

CONSTANTS r1, r2, r3   \* requests

\* Requests are interchangeable; used by the safety runs only.
Symmetry == Permutations(Request)
===============================================================================
