------------------------------ MODULE MCVerdicts ------------------------------
(* A notebook that grows row by row, with the verdict it would have at every *)
(* moment: the rules of Verdicts over every small set of rows.               *)
EXTENDS Verdicts

CONSTANTS
  Last,     \* constraints C-0 .. C-Last
  MaxRows   \* bound: rows in the notebook

ASSUME NotebookAssumption == Last \in Nat

VARIABLE evidence

C == 0..Last
Rollup == BuildVerdict(evidence, C, 0)
Covered == \A c \in C : RowsOf(evidence, c) # {}

Init == evidence = {}

Next ==
  /\ Cardinality(evidence) < MaxRows
  /\ \E c \in C, r \in Results :
       evidence' = evidence \cup
         {[id |-> Cardinality(evidence) + 1, cid |-> c, result |-> r]}

Spec == Init /\ [][Next]_evidence

-------------------------------------------------------------------------------
\* What the README's table says of the other verdicts (README.md:186-192),
\* against the order in which roll_requirement asks its questions.
VerdictTable ==
  LET failing == {c \in C : \E e \in RowsOf(evidence, c) : e.result = "fail"}
  IN  /\ Rollup.verdict = "FAILED" <=> 0 \in failing
      /\ Rollup.verdict = "PARTIALLY_PROVEN" =>
           failing # {} /\ \A e \in RowsOf(evidence, 0) : e.result = "pass"
      /\ Rollup.verdict \in {"NOT_PROVEN", "INCONCLUSIVE"} =>
           ~Covered \/ \E e \in evidence : e.result = "inconclusive"

\* Once every constraint has a row, more rows can only take a claim away: no
\* retry or late row makes a requirement PROVEN that was not, and a FAILED one
\* stays FAILED.
DoubtIsMonotone ==
  [][Covered => /\ Rollup'.verdict = "PROVEN" => Rollup.verdict = "PROVEN"
                /\ Rollup.verdict = "FAILED" => Rollup'.verdict = "FAILED"]_evidence

\* README law 6, "timeouts cannot pad the pass rate": a row that adds no
\* conclusive result leaves the confidence alone (verdicts.py:82-87).
InconclusiveNeverPads ==
  [][(\A e \in evidence' \ evidence : e.result = "inconclusive")
       => Rollup'.confidence = Rollup.confidence]_evidence

-------------------------------------------------------------------------------
\* README.md:213: a constraint without coverage is INCONCLUSIVE "and the
\* requirement is NOT_PROVEN", here with a happy path that passes.  The code
\* lets a failing constraint win over an uncovered one.
UncoveredIsNotProven ==
  /\ \E c \in C : RowsOf(evidence, c) = {}
  /\ Rollup.rows[0] = "pass"
  => Rollup.verdict = "NOT_PROVEN"

===============================================================================
