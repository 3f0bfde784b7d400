------------------------------- MODULE MCEngine -------------------------------
(* Instances of Engine for TLC. *)
EXTENDS Engine

CONSTANT MaxSteps   \* bound: length of a plan

\* Every plan of at most MaxSteps steps the runners of Modes can be given: with
\* declared IR any order of kinds and constraints is a plan.  The step that does
\* nothing but record its doubt is left out of plans of three.
MCPlans ==
  LET kinds == UNION {KindsOf[m] : m \in Modes}
      kindsIn(n) == IF n <= 2 THEN kinds ELSE kinds \ {"unsupported"}
  IN  UNION {[1..n -> [kind : kindsIn(n), cid : Constraint]] : n \in 0..MaxSteps}
===============================================================================
