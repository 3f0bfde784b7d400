---------------------------- MODULE VerdictsProofs ----------------------------
(***************************************************************************)
(* Proofs about a notebook that grows row by row, for every number of       *)
(* constraints and of rows.                                                 *)
(***************************************************************************)
EXTENDS MCVerdicts

\* Every row is about a constraint and has a result.
RowsOK == \A e \in evidence : e.cid \in C /\ e.result \in Results

LEMMA RowsAreNotebook == RowsOK => Notebook(evidence)
BY DEF RowsOK, Notebook

LEMMA HappyIsConstraint == 0 \in C
BY NotebookAssumption DEF C

LEMMA RowsInit == Init => RowsOK
BY DEF Init, RowsOK

LEMMA RowsNext == RowsOK /\ [Next]_evidence => RowsOK'
<1> SUFFICES ASSUME RowsOK, [Next]_evidence PROVE RowsOK'
  OBVIOUS
<1>1. CASE Next
  <2>1. PICK c \in C, r \in Results :
          evidence' = evidence \cup {[id |-> Cardinality(evidence) + 1, cid |-> c, result |-> r]}
    BY <1>1 DEF Next
  <2> QED
    BY <2>1 DEF RowsOK, C
<1>2. CASE UNCHANGED evidence
  BY <1>2 DEF RowsOK, C
<1> QED
  BY <1>1, <1>2

\* A notebook only grows.
LEMMA RowsGrow == [Next]_evidence => evidence \subseteq evidence'
BY DEF Next

\* What the first constraint alone decides, and what is left to the others.
LEMMA HappyDecides ==
  ASSUME RowsOK
  PROVE  /\ Rollup.verdict = "FAILED" <=> ConstraintResult(evidence, 0) = "fail"
         /\ Rollup.verdict = "INCONCLUSIVE" <=> ConstraintResult(evidence, 0) = "inconclusive"
         /\ Rollup.verdict = "PARTIALLY_PROVEN" =>
              /\ ConstraintResult(evidence, 0) = "pass"
              /\ \E c \in C : ConstraintResult(evidence, c) = "fail"
         /\ Rollup.verdict = "NOT_PROVEN" =>
              \E c \in C : ConstraintResult(evidence, c) = "inconclusive"
<1> DEFINE happy == ConstraintResult(evidence, 0)
           others == {ConstraintResult(evidence, c) : c \in C \ {0}}
<1>1. Rollup.verdict = RollRequirement(happy, others)
  BY DEF Rollup, BuildVerdict
<1>2. happy \in Results
  BY RowsAreNotebook, ConstraintRule
<1>3. \A v \in others : \E c \in C : ConstraintResult(evidence, c) = v
  OBVIOUS
<1> HIDE DEF happy, others
<1>4. /\ RollRequirement(happy, others) = "FAILED" <=> happy = "fail"
      /\ RollRequirement(happy, others) = "INCONCLUSIVE" <=> happy = "inconclusive"
      /\ RollRequirement(happy, others) = "PARTIALLY_PROVEN" => happy = "pass" /\ "fail" \in others
      /\ RollRequirement(happy, others) = "NOT_PROVEN" => "inconclusive" \in others
  BY <1>2 DEF RollRequirement, Results
<1>5. /\ "fail" \in others => \E c \in C : ConstraintResult(evidence, c) = "fail"
      /\ "inconclusive" \in others => \E c \in C : ConstraintResult(evidence, c) = "inconclusive"
  BY <1>3
<1> QED
  BY <1>1, <1>4, <1>5 DEF happy

\* A constraint that is inconclusive has no row, or one that says so.
LEMMA DoubtHasAReason ==
  ASSUME RowsOK, NEW c \in C, ConstraintResult(evidence, c) = "inconclusive"
  PROVE  ~Covered \/ \E e \in evidence : e.result = "inconclusive"
<1>1. CASE RowsOf(evidence, c) = {}
  BY <1>1 DEF Covered
<1>2. CASE RowsOf(evidence, c) # {}
  <2>1. PICK e \in RowsOf(evidence, c) : e.result # "pass"
    BY <1>2, RowsAreNotebook, ConstraintRule
  <2>2. e.result # "fail"
    BY <2>1, RowsAreNotebook, ConstraintRule
  <2> QED
    BY <2>1, <2>2 DEF RowsOf, RowsOK, Results
<1> QED
  BY <1>1, <1>2

LEMMA TableHolds == RowsOK => VerdictTable
<1> SUFFICES ASSUME RowsOK PROVE VerdictTable
  OBVIOUS
<1> DEFINE failing == {c \in C : \E e \in RowsOf(evidence, c) : e.result = "fail"}
<1>1. \A c \in C : ConstraintResult(evidence, c) = "fail" <=> c \in failing
  BY RowsAreNotebook, ConstraintRule
<1>2. Rollup.verdict = "FAILED" <=> 0 \in failing
  BY <1>1, HappyDecides, HappyIsConstraint
<1>3. Rollup.verdict = "PARTIALLY_PROVEN" =>
        failing # {} /\ \A e \in RowsOf(evidence, 0) : e.result = "pass"
  BY <1>1, HappyDecides, RowsAreNotebook, ConstraintRule
<1>4. Rollup.verdict \in {"NOT_PROVEN", "INCONCLUSIVE"} =>
        ~Covered \/ \E e \in evidence : e.result = "inconclusive"
  BY HappyDecides, DoubtHasAReason, HappyIsConstraint
<1> QED
  BY <1>2, <1>3, <1>4 DEF VerdictTable

\* The README's table of verdicts, for every notebook that can be written.
THEOREM TableStands == Spec => []VerdictTable
BY RowsInit, RowsNext, TableHolds, PTL DEF Spec

-------------------------------------------------------------------------------
\* A row more takes claims away and brings none.
LEMMA DoubtStep ==
  ASSUME RowsOK, RowsOK', evidence \subseteq evidence', Covered
  PROVE  /\ Rollup'.verdict = "PROVEN" => Rollup.verdict = "PROVEN"
         /\ Rollup.verdict = "FAILED" => Rollup'.verdict = "FAILED"
<1>1. Rollup.verdict = BuildVerdict(evidence, C, 0).verdict
      /\ Rollup'.verdict = BuildVerdict(evidence', C, 0).verdict
  BY DEF Rollup, C
<1>2. Notebook(evidence) /\ Notebook(evidence')
  BY DEF RowsOK, Notebook
<1>3. evidence \cup evidence' = evidence'
  OBVIOUS
<1>4. ASSUME Rollup'.verdict = "PROVEN" PROVE Rollup.verdict = "PROVEN"
  BY <1>1, <1>2, <1>3, <1>4, MoreRowsNeverProve, HappyIsConstraint DEF Covered
<1>5. ASSUME Rollup.verdict = "FAILED" PROVE Rollup'.verdict = "FAILED"
  <2>1. PICK e \in RowsOf(evidence, 0) : e.result = "fail"
    BY <1>2, <1>5, HappyDecides, ConstraintRule
  <2>2. e \in RowsOf(evidence', 0)
    BY DEF RowsOf
  <2>3. ConstraintResult(evidence', 0) = "fail"
    BY <1>2, <2>1, <2>2, ConstraintRule
  <2> QED
    BY <1>1, <2>3 DEF BuildVerdict, RollRequirement
<1> QED
  BY <1>4, <1>5

\* No retry and no late row makes a requirement PROVEN, or takes back a FAILED.
THEOREM DoubtStands == Spec => DoubtIsMonotone
<1>1. RowsOK /\ RowsOK' /\ [Next]_evidence =>
        [Covered => /\ Rollup'.verdict = "PROVEN" => Rollup.verdict = "PROVEN"
                    /\ Rollup.verdict = "FAILED" => Rollup'.verdict = "FAILED"]_evidence
  BY DoubtStep, RowsGrow
<1> QED
  BY <1>1, RowsInit, RowsNext, PTL DEF Spec, DoubtIsMonotone

\* Rows that say "could not look" are counted nowhere.
LEMMA PaddingStep ==
  ASSUME evidence \subseteq evidence',
         \A e \in evidence' \ evidence : e.result = "inconclusive"
  PROVE  Rollup'.confidence = Rollup.confidence
<1>1. {e \in evidence' : e.result = "pass"} = {e \in evidence : e.result = "pass"}
  OBVIOUS
<1>2. {e \in evidence' : e.result \in {"pass", "fail"}} = {e \in evidence : e.result \in {"pass", "fail"}}
  OBVIOUS
<1>3. Confidence(evidence') = Confidence(evidence)
  BY <1>1, <1>2 DEF Confidence
<1> QED
  BY <1>3 DEF Rollup, BuildVerdict

\* A timeout or an unreachable application cannot pad the pass rate.
THEOREM PaddingStands == Spec => InconclusiveNeverPads
<1>1. [Next]_evidence =>
        [(\A e \in evidence' \ evidence : e.result = "inconclusive")
           => Rollup'.confidence = Rollup.confidence]_evidence
  BY PaddingStep, RowsGrow
<1> QED
  BY <1>1, PTL DEF Spec, InconclusiveNeverPads
===============================================================================
