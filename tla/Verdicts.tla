------------------------------- MODULE Verdicts -------------------------------
(***************************************************************************)
(* The rules of opentruth/verdicts.py: how recorded assertion results roll  *)
(* up to a constraint, then to the requirement, and how two runs compare.   *)
(* Pure operators.  A list of results is abstracted to the set of its       *)
(* members: every rule only asks which results occur in the list, never how *)
(* often or in which order.  (confidence() is the exception; it is taken    *)
(* over the set of assertion rows, which have distinct ids.)                *)
(***************************************************************************)
EXTENDS Naturals, FiniteSets, TLAPS

\* The result of one assertion row (E-*), and of a constraint (C-*).
Results == {"pass", "fail", "inconclusive"}

\* The verdict on the requirement (R-*).
VerdictNames ==
  {"PROVEN", "PARTIALLY_PROVEN", "FAILED", "NOT_PROVEN", "INCONCLUSIVE"}

\* How one constraint moved between two runs.
Deltas == {"improved", "regressed", "unchanged", "changed"}

-------------------------------------------------------------------------------
\* Mutant of RollConstraint: no row at all counts as "all rows pass".
RollConstraintVacuous(results) ==
  IF "fail" \in results THEN "fail"
  ELSE IF "inconclusive" \in results THEN "inconclusive" ELSE "pass"

\* Mutant of RollConstraint: one passing row makes up for an inconclusive one.
RollConstraintRetried(results) ==
  IF "fail" \in results THEN "fail"
  ELSE IF "pass" \in results THEN "pass" ELSE "inconclusive"

\* A constraint fails on one failing row, and passes only when it has rows
\* and all of them pass.
RollConstraint(results) ==
  IF "fail" \in results THEN "fail"
  ELSE IF results = {} \/ "inconclusive" \in results THEN "inconclusive"
  ELSE "pass"

\* Mutant of RollRequirement: the failing constraints are counted first.
RollRequirementCounting(happy, others) ==
  IF "fail" \in others /\ happy # "inconclusive" THEN "PARTIALLY_PROVEN"
  ELSE IF happy = "fail" THEN "FAILED"
  ELSE IF happy # "pass" THEN "INCONCLUSIVE"
  ELSE IF "inconclusive" \in others THEN "NOT_PROVEN"
  ELSE "PROVEN"

\* The happy path decides first; the other constraints only qualify it.
RollRequirement(happy, others) ==
  IF happy = "fail" THEN "FAILED"
  ELSE IF happy # "pass" THEN "INCONCLUSIVE"
  ELSE IF "fail" \in others THEN "PARTIALLY_PROVEN"
  ELSE IF "inconclusive" \in others THEN "NOT_PROVEN"
  ELSE "PROVEN"

\* Rows recorded for constraint c.
RowsOf(evidence, c) == {e \in evidence : e.cid = c}

\* by_c of build_verdict, rolled up.
ConstraintResult(evidence, c) ==
  RollConstraint({e.result : e \in RowsOf(evidence, c)})

\* Mutant of Confidence: the fraction is taken over all rows.
ConfidenceOverAll(evidence) ==
  <<Cardinality({e \in evidence : e.result = "pass"}), Cardinality(evidence)>>

\* confidence(): passing rows over conclusive rows, as the pair
\* <<numerator, denominator>>; <<0, 0>> is the code's 0.0.
Confidence(evidence) ==
  <<Cardinality({e \in evidence : e.result = "pass"}),
    Cardinality({e \in evidence : e.result \in {"pass", "fail"}})>>

\* build_verdict over the constraints C, of which `happy` is the one of kind
\* happy_path: the verdict on the requirement, its confidence and the row of each
\* constraint.
BuildVerdict(evidence, C, happy) ==
  [verdict |-> RollRequirement(ConstraintResult(evidence, happy),
                 {ConstraintResult(evidence, c) : c \in C \ {happy}}),
   confidence |-> Confidence(evidence),
   rows |-> [c \in C |-> ConstraintResult(evidence, c)]]

\* Exit code of `opentruth verify` and `opentruth diff`.
ExitCode(verdict) ==
  IF verdict = "PROVEN" THEN 0 ELSE IF verdict = "INCONCLUSIVE" THEN 2 ELSE 1

-------------------------------------------------------------------------------
\* delta(): None (a constraint the run does not have) is a result like any
\* other here, so `left = right` also covers the pair None, None.
Delta(left, right) ==
  IF left = right THEN "unchanged"
  ELSE IF right = "pass" THEN "improved"
  ELSE IF left = "pass" THEN "regressed"
  ELSE "changed"

\* Mutant of RollDiff: doubt is asked about before regressions are.
RollDiffDoubtFirst(deltas, rights, integrityOk) ==
  IF ~integrityOk THEN "INCONCLUSIVE"
  ELSE IF "inconclusive" \in rights \/ "changed" \in deltas THEN "NOT_PROVEN"
  ELSE IF "regressed" \in deltas THEN "FAILED"
  ELSE IF rights = {"pass"} THEN "PROVEN"
  ELSE IF "improved" \in deltas /\ "fail" \in rights THEN "PARTIALLY_PROVEN"
  ELSE "NOT_PROVEN"

\* roll_diff(): the verdict on "the change kept the requirement".
RollDiff(deltas, rights, integrityOk) ==
  IF ~integrityOk THEN "INCONCLUSIVE"
  ELSE IF "regressed" \in deltas THEN "FAILED"
  ELSE IF "inconclusive" \in rights \/ "changed" \in deltas THEN "NOT_PROVEN"
  ELSE IF rights = {"pass"} THEN "PROVEN"
  ELSE IF "improved" \in deltas /\ "fail" \in rights THEN "PARTIALLY_PROVEN"
  ELSE "NOT_PROVEN"

-------------------------------------------------------------------------------
(* What the rules guarantee for every notebook, over every set of constraints. *)

\* The rows of a notebook, as far as the rules look at them.
Notebook(evidence) == \A e \in evidence : e.result \in Results

\* roll_constraint: a constraint passes when it has rows and all of them pass,
\* and fails when one of them fails (verdicts.py:56-64).
THEOREM ConstraintRule ==
  ASSUME NEW evidence, Notebook(evidence), NEW c
  PROVE  /\ ConstraintResult(evidence, c) \in Results
         /\ ConstraintResult(evidence, c) = "pass" <=>
              /\ RowsOf(evidence, c) # {}
              /\ \A e \in RowsOf(evidence, c) : e.result = "pass"
         /\ ConstraintResult(evidence, c) = "fail" <=>
              \E e \in RowsOf(evidence, c) : e.result = "fail"
<1> DEFINE results == {e.result : e \in RowsOf(evidence, c)}
<1>1. results \subseteq {"pass", "fail", "inconclusive"}
  BY DEF Notebook, RowsOf, Results
<1>2. RowsOf(evidence, c) = {} <=> results = {}
  OBVIOUS
<1>3. \A v : v \in results <=> \E e \in RowsOf(evidence, c) : e.result = v
  OBVIOUS
<1>4. RollConstraint(results) = "pass" <=>
        results # {} /\ \A v \in results : v = "pass"
  BY <1>1 DEF RollConstraint
<1>5. RollConstraint(results) = "fail" <=> "fail" \in results
  BY DEF RollConstraint
<1>6. RollConstraint(results) \in Results
  BY DEF RollConstraint, Results
<1>7. ConstraintResult(evidence, c) = RollConstraint(results)
  BY DEF ConstraintResult
<1> HIDE DEF results
<1> QED
  BY <1>2, <1>3, <1>4, <1>5, <1>6, <1>7

\* roll_requirement: PROVEN is what is left when every constraint passes; none
\* of the early returns is another way there (verdicts.py:67-79).
THEOREM ProvenRule ==
  ASSUME NEW evidence, Notebook(evidence), NEW C, NEW happy \in C
  PROVE  BuildVerdict(evidence, C, happy).verdict = "PROVEN" <=>
           \A c \in C : ConstraintResult(evidence, c) = "pass"
<1> DEFINE others == {ConstraintResult(evidence, c) : c \in C \ {happy}}
<1>1. BuildVerdict(evidence, C, happy).verdict =
        RollRequirement(ConstraintResult(evidence, happy), others)
  BY DEF BuildVerdict
<1>2. \A c \in C : ConstraintResult(evidence, c) \in Results
  BY ConstraintRule
<1>3. RollRequirement(ConstraintResult(evidence, happy), others) = "PROVEN" <=>
        /\ ConstraintResult(evidence, happy) = "pass"
        /\ "fail" \notin others /\ "inconclusive" \notin others
  BY DEF RollRequirement
<1>4. "fail" \notin others /\ "inconclusive" \notin others <=>
        \A c \in C \ {happy} : ConstraintResult(evidence, c) = "pass"
  BY <1>2 DEF Results
<1> QED
  BY <1>1, <1>3, <1>4

\* Evidence is monotone against a claim: once every constraint has a row, no
\* further row makes a requirement PROVEN that was not.
THEOREM MoreRowsNeverProve ==
  ASSUME NEW evidence, NEW more, Notebook(evidence \cup more), NEW C, NEW happy \in C,
         \A c \in C : RowsOf(evidence, c) # {},
         BuildVerdict(evidence \cup more, C, happy).verdict = "PROVEN"
  PROVE  BuildVerdict(evidence, C, happy).verdict = "PROVEN"
<1>1. Notebook(evidence)
  BY DEF Notebook
<1>2. \A c \in C : ConstraintResult(evidence \cup more, c) = "pass"
  BY ProvenRule
<1>3. ASSUME NEW c \in C PROVE ConstraintResult(evidence, c) = "pass"
  <2>1. \A e \in RowsOf(evidence \cup more, c) : e.result = "pass"
    BY <1>2, ConstraintRule
  <2>2. \A e \in RowsOf(evidence, c) : e.result = "pass"
    BY <2>1 DEF RowsOf
  <2> QED
    BY <1>1, <2>2, ConstraintRule
<1> QED
  BY <1>1, <1>3, ProvenRule
===============================================================================
