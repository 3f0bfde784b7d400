------------------------------- MODULE DiffProofs -------------------------------
(* What the verdict of a comparison means, for any two runs over any set of  *)
(* constraints, and how its directory looks to readers.                      *)
EXTENDS DiffRun, FiniteSetTheorems, TLAPS

RunTypeOK ==
  /\ left \in Graphs /\ right \in Graphs
  /\ DOMAIN json = JsonNames

\* The verdict on disk is the one of the two loaded runs, which stay as they
\* are; the seal comes after it.
DiffInv ==
  /\ RunTypeOK
  /\ Decided => json["verdict"] = DiffVerdict
  /\ phase = "absent" => ~Decided
  /\ phase \notin {"absent", "open"} => Decided

LEMMA DiffInit == Init => DiffInv
BY DEF Init, StoreInit, DiffInv, RunTypeOK, JsonNames, Decided

\* Everything but the verdict and the seal.
Recording ==
  \/ Load \/ CreateRun \/ WriteRequirements \/ WritePlan \/ RecordAction
  \/ ObserveLeft \/ ObserveRight \/ RecordAssertion \/ Crash

LEMMA RecordingShape ==
  ASSUME RunTypeOK, Recording
  PROVE  /\ UNCHANGED <<left, right>>
         /\ DOMAIN json' = JsonNames /\ json'["verdict"] = json["verdict"]
         /\ phase' = phase \/ (phase = "absent" /\ phase' = "open")
BY DEF RunTypeOK, Recording, Load, CreateRun, WriteRequirements, WritePlan, RecordAction,
  ObserveLeft, ObserveRight, Observe, RecordAssertion, Crash, Create, WriteJson, Record,
  storeVars, JsonNames

LEMMA DiffNext ==
  ASSUME DiffInv, [Next]_vars
  PROVE  DiffInv'
<1>1. CASE Recording
  <2>1. DiffVerdict' = DiffVerdict
    BY <1>1, RecordingShape DEF DiffInv, DiffVerdict, Compare, DeltaOf, ResultIn, Intact,
      DiffConfidence
  <2>2. json'["verdict"] = json["verdict"] /\ RunTypeOK'
    BY <1>1, RecordingShape DEF DiffInv, RunTypeOK
  <2>3. phase' = phase \/ (phase = "absent" /\ phase' = "open")
    BY <1>1, RecordingShape DEF DiffInv
  <2> QED
    BY <2>1, <2>2, <2>3 DEF DiffInv, Decided
<1>2. CASE WriteVerdict
  <2>1. UNCHANGED <<left, right, phase>> /\ phase = "open"
    BY <1>2 DEF WriteVerdict, WriteJson, Writable
  <2>2. DiffVerdict' = DiffVerdict
    BY <2>1 DEF DiffVerdict, Compare, DeltaOf, ResultIn, Intact, DiffConfidence
  <2>3. json'["verdict"] = DiffVerdict /\ DOMAIN json' = JsonNames
    BY <1>2 DEF WriteVerdict, WriteJson, DiffInv, RunTypeOK, JsonNames
  <2> QED
    BY <2>1, <2>2, <2>3 DEF DiffInv, RunTypeOK, Decided
<1>3. CASE Seal \/ UNCHANGED vars
  <2>1. UNCHANGED <<left, right, json>>
    BY <1>3 DEF Seal, SealHash, SealOpenManifest, SealWriteManifest, Freeze, vars, storeVars,
      ctlVars
  <2>2. DiffVerdict' = DiffVerdict
    BY <2>1 DEF DiffVerdict, Compare, DeltaOf, ResultIn, Intact, DiffConfidence
  <2>3. phase' = phase \/ (phase' \notin {"absent", "open"} /\ Decided)
    BY <1>3 DEF Seal, SealHash, SealOpenManifest, SealWriteManifest, Freeze, vars, storeVars,
      DiffInv, Decided, JsonNames
  <2> QED
    BY <2>1, <2>2, <2>3 DEF DiffInv, RunTypeOK, Decided
<1> QED
  BY <1>1, <1>2, <1>3 DEF Next, Recording

-------------------------------------------------------------------------------
\* C-0 is a constraint of both runs, so something is compared.
LEMMA SomethingCompared == RunTypeOK => 0 \in Compare
BY DEF RunTypeOK, Graphs, RowsOver, Compare

\* roll_diff says PROVEN exactly when every compared constraint passes in the
\* later of two intact runs: nothing else in it stands in the way then.
LEMMA ProvenDiff ==
  ASSUME RunTypeOK
  PROVE  DiffVerdict.verdict = "PROVEN" <=>
           Intact /\ \A c \in Compare : ResultIn(right, c) = "pass"
<1> DEFINE deltas == {DeltaOf(c) : c \in Compare}
           rights == {ResultIn(right, c) : c \in Compare}
<1>1. DiffVerdict.verdict = RollDiff(deltas, rights, Intact)
  BY DEF DiffVerdict
<1>2. rights = {"pass"} <=> \A c \in Compare : ResultIn(right, c) = "pass"
  BY SomethingCompared
<1>3. rights = {"pass"} => "regressed" \notin deltas /\ "changed" \notin deltas
  BY <1>2 DEF DeltaOf, Delta
<1>4. rights = {"pass"} => "inconclusive" \notin rights
  OBVIOUS
<1> HIDE DEF deltas, rights
<1> QED
  BY <1>1, <1>2, <1>3, <1>4 DEF RollDiff

\* ... and FAILED exactly when one of two intact runs' passing constraints
\* passes no longer.
LEMMA FailedDiff ==
  /\ DiffVerdict.verdict = "FAILED" <=>
       /\ Intact
       /\ \E c \in Compare : ResultIn(left, c) = "pass" /\ ResultIn(right, c) # "pass"
  /\ DiffVerdict.verdict = "INCONCLUSIVE" <=> ~Intact
<1> DEFINE deltas == {DeltaOf(c) : c \in Compare}
           rights == {ResultIn(right, c) : c \in Compare}
<1>1. DiffVerdict.verdict = RollDiff(deltas, rights, Intact)
  BY DEF DiffVerdict
<1>2. \A c : DeltaOf(c) = "regressed" <=>
               ResultIn(left, c) = "pass" /\ ResultIn(right, c) # "pass"
  BY DEF DeltaOf, Delta
<1>3. "regressed" \in deltas <=>
        \E c \in Compare : ResultIn(left, c) = "pass" /\ ResultIn(right, c) # "pass"
  BY <1>2
<1> HIDE DEF deltas, rights
<1> QED
  BY <1>1, <1>3 DEF RollDiff

\* PROVEN: both runs intact, and every constraint either of them has is there and
\* passes in the later one (diff.py:65-245).
THEOREM DiffProvenStands == Spec => []DiffProvenMeans
<1>1. DiffInv => DiffProvenMeans
  <2> SUFFICES ASSUME DiffInv, Decided
               PROVE  Verdict = "PROVEN" <=>
                        /\ Intact
                        /\ \A c \in DOMAIN left.rows \cup DOMAIN right.rows :
                             c \in DOMAIN right.rows /\ right.rows[c] = "pass"
    BY DEF DiffProvenMeans
  <2>1. \A c : ResultIn(right, c) = "pass" <=> c \in DOMAIN right.rows /\ right.rows[c] = "pass"
    BY DiffAssumption DEF ResultIn, Results
  <2> QED
    BY <2>1, ProvenDiff DEF DiffInv, Verdict, Compare
<1> QED
  BY <1>1, DiffInit, DiffNext, PTL DEF Spec

\* FAILED: a regression between intact runs; INCONCLUSIVE: one of them was
\* tampered with (verdicts.py:39-53).
THEOREM DiffFailedStands == Spec => []DiffFailedMeans
<1>1. DiffInv => DiffFailedMeans
  <2> SUFFICES ASSUME DiffInv, Decided
               PROVE  /\ Verdict = "FAILED" <=>
                           /\ Intact
                           /\ \E c \in DOMAIN left.rows :
                                left.rows[c] = "pass" /\ ResultIn(right, c) # "pass"
                      /\ Verdict = "INCONCLUSIVE" <=> ~Intact
    BY DEF DiffFailedMeans
  <2>1. \A c : ResultIn(left, c) = "pass" <=> c \in DOMAIN left.rows /\ left.rows[c] = "pass"
    BY DiffAssumption DEF ResultIn, Results
  <2> QED
    BY <2>1, FailedDiff DEF DiffInv, Verdict, Compare
<1> QED
  BY <1>1, DiffInit, DiffNext, PTL DEF Spec

-------------------------------------------------------------------------------
LEMMA StageStep ==
  ASSUME DiffInv, [Next]_vars
  PROVE  [Outside!StagesNext]_Stage
<1> USE DEF Outside!StagesNext, Outside!Enter, Outside!Conclude, Outside!OpenManifest,
            Outside!CloseManifest
<1>1. CASE Recording
  <2>1. json'["verdict"] = json["verdict"]
    BY <1>1, RecordingShape DEF DiffInv
  <2>2. phase' = phase \/ (phase = "absent" /\ phase' = "open")
    BY <1>1, RecordingShape DEF DiffInv
  <2> QED
    BY <2>1, <2>2 DEF DiffInv, Decided, Stage
<1>2. CASE WriteVerdict
  BY <1>2 DEF WriteVerdict, WriteJson, Writable, Stage
<1>3. CASE Seal
  <2>1. UNCHANGED json
    BY <1>3 DEF Seal, SealHash, SealOpenManifest, SealWriteManifest, Freeze
  <2> QED
    BY <1>3, <2>1 DEF Seal, SealHash, SealOpenManifest, SealWriteManifest, Freeze, Writable,
      DiffInv, Decided, Stage
<1>4. CASE UNCHANGED vars
  BY <1>4 DEF vars, storeVars, Stage
<1> QED
  BY <1>1, <1>2, <1>3, <1>4 DEF Next, Recording

\* For its readers, the run of a comparison goes through the stages of RunStages.
THEOREM DiffKeepsStages == Spec => Outside!StagesSpec
<1>1. Init => Outside!StagesInit
  BY DEF Init, StoreInit, Stage, Outside!StagesInit
<1> QED
  BY <1>1, StageStep, DiffInit, DiffNext, PTL DEF Spec, Outside!StagesSpec

-------------------------------------------------------------------------------
(* The notebook of a comparison. *)

\* The observation with this id is what that side says of the present constraint.
Seen(side, graph, id) ==
  \E o \in Observations :
    /\ o.id = id /\ o.side = side /\ o.cid = cursor
    /\ o.action = counter["A"] /\ o.value = ResultIn(graph, cursor)

NotesInv ==
  /\ DOMAIN rows = RowFiles /\ counter \in [Prefixes -> Nat]
  /\ pc \in {"left", "right", "assertion"} => cursor \in Compare \ compared
  /\ pc = "right" => Seen("left", left, counter["O"])
  /\ pc = "assertion" => Seen("left", left, counter["O"] - 1) /\ Seen("right", right, counter["O"])

\* One assertion for every constraint the loop has done, and no other.
RowsInv ==
  /\ \A e \in Assertions : e.cid \in compared /\ e.result = AssertionResult(DeltaOf(e.cid))
  /\ \A c \in compared : \E e \in Assertions : RowsOf(Assertions, c) = {e}
  /\ Decided => compared = Compare /\ pc \in {"seal", "done", "crashed"}

BookInv == NotesInv /\ RowsInv /\ CitesBothRuns

LEMMA BookInit == Init => BookInv
<1>1. Init => NotesInv
  BY DEF Init, StoreInit, NotesInv, Prefixes
<1>2. Init => RowsInv /\ CitesBothRuns
  BY DEF Init, StoreInit, RowsInv, CitesBothRuns, Assertions, Decided, RowFiles, JsonNames
<1> QED
  BY <1>1, <1>2 DEF BookInv

\* The two runs, and with them what is compared, stay as they are.
LEMMA RunsStay ==
  ASSUME [Next]_vars
  PROVE  /\ UNCHANGED <<left, right>> /\ Compare' = Compare
         /\ \A graph, c : ResultIn(graph, c)' = ResultIn(graph', c)
         /\ \A c : DeltaOf(c)' = DeltaOf(c)
<1>1. UNCHANGED <<left, right>>
  BY DEF Next, Load, CreateRun, WriteRequirements, WritePlan, RecordAction, ObserveLeft,
    ObserveRight, RecordAssertion, WriteVerdict, Seal, Crash, vars, ctlVars
<1> QED
  BY <1>1 DEF Compare, ResultIn, DeltaOf

\* Steps that touch neither the notebook nor the loop over the constraints.
Aside == Load \/ CreateRun \/ WriteRequirements \/ WritePlan \/ WriteVerdict \/ Seal \/ Crash

LEMMA AsideShape ==
  ASSUME Aside \/ UNCHANGED vars
  PROVE  /\ UNCHANGED <<rows, counter, compared, cursor>>
         /\ pc' \in {"left", "right", "assertion"} => pc' = pc
BY DEF Aside, Load, CreateRun, Create, WriteRequirements, WritePlan, WriteVerdict, Seal, SealHash,
  SealOpenManifest, SealWriteManifest, Freeze, Crash, vars, storeVars, ctlVars, Goto

LEMMA RecordShape ==
  ASSUME NotesInv, NEW p \in Prefixes, NEW file \in RowFiles, NEW row, Record(p, file, row)
  PROVE  /\ DOMAIN rows' = RowFiles /\ counter' \in [Prefixes -> Nat]
         /\ counter'[p] = counter[p] + 1 /\ \A q \in Prefixes : q # p => counter'[q] = counter[q]
         /\ rows'[file] = rows[file] \cup {row}
         /\ \A f \in RowFiles : f # file => rows'[f] = rows[f]
BY DEF NotesInv, Record, NextId

LEMMA ObserveShape ==
  ASSUME NotesInv, NEW side, NEW graph, Observe(side, graph), UNCHANGED cursor, UNCHANGED <<left, right>>
  PROVE  /\ \E o \in Observations' : o.id = counter'["O"] /\ o.side = side /\ o.cid = cursor
                                     /\ o.action = counter'["A"] /\ o.value = ResultIn(graph, cursor)
         /\ Observations \subseteq Observations' /\ Assertions' = Assertions
         /\ counter'["O"] = counter["O"] + 1 /\ counter'["A"] = counter["A"]
         /\ DOMAIN rows' = RowFiles /\ counter' \in [Prefixes -> Nat]
<1> DEFINE row == [id |-> NextId("O"), cid |-> cursor, action |-> counter["A"],
                   side |-> side, value |-> ResultIn(graph, cursor)]
<1>1. Record("O", "observations", row)
  BY DEF Observe
<1>2. /\ row.id = counter["O"] + 1 /\ row.side = side /\ row.cid = cursor
      /\ row.action = counter["A"] /\ row.value = ResultIn(graph, cursor)
  BY DEF NextId
<1> HIDE DEF row
<1>3. {"A", "O"} \subseteq Prefixes /\ "observations" \in RowFiles /\ "assertions" \in RowFiles
  BY DEF Prefixes, RowFiles
<1> QED
  BY <1>1, <1>2, <1>3, RecordShape DEF Observations, Assertions

LEMMA NotesNext == ASSUME NotesInv, [Next]_vars PROVE NotesInv'
<1> USE RunsStay DEF NotesInv, Goto
<1>1. CASE Aside \/ UNCHANGED vars
  BY <1>1, AsideShape DEF Seen, Observations, ResultIn
<1>2. CASE RecordAction
  <2>1. "A" \in Prefixes /\ "actions" \in RowFiles
    BY DEF Prefixes, RowFiles
  <2>2. DOMAIN rows' = RowFiles /\ counter' \in [Prefixes -> Nat]
    BY <1>2, <2>1, RecordShape DEF RecordAction
  <2> QED
    BY <1>2, <2>2 DEF RecordAction
<1>3. CASE ObserveLeft
  <2>1. Observe("left", left) /\ UNCHANGED <<cursor, compared>> /\ pc' = "right" /\ pc = "left"
    BY <1>3 DEF ObserveLeft
  <2>2. Seen("left", left, counter["O"])'
    BY <2>1, ObserveShape DEF Seen, ResultIn
  <2> QED
    BY <2>1, <2>2, ObserveShape
<1>4. CASE ObserveRight
  <2>1. Observe("right", right) /\ UNCHANGED <<cursor, compared>> /\ pc' = "assertion" /\ pc = "right"
    BY <1>4 DEF ObserveRight
  <2>2. Seen("right", right, counter["O"])'
    BY <2>1, ObserveShape DEF Seen, ResultIn
  <2>3. counter'["O"] - 1 = counter["O"] /\ counter'["A"] = counter["A"]
    BY <2>1, ObserveShape DEF Prefixes
  <2>4. Observations \subseteq Observations'
    BY <2>1, ObserveShape
  <2>5. Seen("left", left, counter["O"] - 1)'
    BY <2>1, <2>3, <2>4 DEF Seen, ResultIn
  <2>6. DOMAIN rows' = RowFiles /\ counter' \in [Prefixes -> Nat]
    BY <2>1, ObserveShape
  <2> QED
    BY <2>1, <2>2, <2>5, <2>6
<1>5. CASE RecordAssertion
  <2>1. "E" \in Prefixes /\ "assertions" \in RowFiles
    BY DEF Prefixes, RowFiles
  <2>2. DOMAIN rows' = RowFiles /\ counter' \in [Prefixes -> Nat]
    BY <1>5, <2>1, RecordShape DEF RecordAssertion
  <2> QED
    BY <1>5, <2>2 DEF RecordAssertion
<1> QED
  BY <1>1, <1>2, <1>3, <1>4, <1>5 DEF Next, Aside

\* RecordAssertion adds one row, for a constraint that had none.
LEMMA AssertionShape ==
  ASSUME NotesInv, RecordAssertion
  PROVE  \E row : /\ Assertions' = Assertions \cup {row} /\ row.cid = cursor
                  /\ row.result = AssertionResult(DeltaOf(cursor))
                  /\ row.cites = {counter["O"] - 1, counter["O"]} /\ row.action = counter["A"]
                  /\ Observations' = Observations /\ compared' = compared \cup {cursor}
                  /\ cursor \notin compared /\ json' = json /\ pc = "assertion"
<1> DEFINE row == [id |-> NextId("E"), cid |-> cursor, action |-> counter["A"],
                   cites |-> {counter["O"] - 1, counter["O"]},
                   result |-> AssertionResult(DeltaOf(cursor))]
<1>1. Record("E", "assertions", row)
  BY DEF RecordAssertion
<1>2. /\ row.cid = cursor /\ row.result = AssertionResult(DeltaOf(cursor))
      /\ row.cites = {counter["O"] - 1, counter["O"]} /\ row.action = counter["A"]
  OBVIOUS
<1> HIDE DEF row
<1>3. "E" \in Prefixes /\ "observations" \in RowFiles /\ "assertions" \in RowFiles
  BY DEF Prefixes, RowFiles
<1>4. Assertions' = Assertions \cup {row} /\ Observations' = Observations
  BY <1>1, <1>3, RecordShape DEF Observations, Assertions
<1>5. compared' = compared \cup {cursor} /\ cursor \notin compared /\ json' = json /\ pc = "assertion"
  BY DEF RecordAssertion, NotesInv
<1> QED
  BY <1>2, <1>4, <1>5

\* Every other step leaves the assertions alone, and loses no observation.
LEMMA OtherShape ==
  ASSUME NotesInv, [Next]_vars, ~RecordAssertion
  PROVE  Assertions' = Assertions /\ Observations \subseteq Observations' /\ compared' = compared
<1>1. CASE Aside \/ UNCHANGED vars
  BY <1>1, AsideShape DEF Assertions, Observations
<1>2. CASE RecordAction
  <2>1. "A" \in Prefixes /\ "actions" \in RowFiles /\ "observations" \in RowFiles /\ "assertions" \in RowFiles
    BY DEF Prefixes, RowFiles
  <2> QED
    BY <1>2, <2>1, RecordShape DEF RecordAction, Assertions, Observations
<1>3. CASE ObserveLeft \/ ObserveRight
  BY <1>3, ObserveShape DEF ObserveLeft, ObserveRight
<1> QED
  BY <1>1, <1>2, <1>3 DEF Next, Aside

LEMMA RowsNext == ASSUME RunTypeOK, NotesInv, RowsInv, [Next]_vars PROVE RowsInv'
<1>1. CASE RecordAssertion
  <2>1. PICK row : /\ Assertions' = Assertions \cup {row} /\ row.cid = cursor
                   /\ row.result = AssertionResult(DeltaOf(cursor))
                   /\ compared' = compared \cup {cursor}
                   /\ cursor \notin compared /\ json' = json /\ pc = "assertion"
    BY <1>1, AssertionShape
  <2>2. ASSUME NEW e \in Assertions'
        PROVE  e.cid \in compared' /\ e.result = AssertionResult(DeltaOf(e.cid)')
    BY <2>1, RunsStay DEF RowsInv
  <2>3. ASSUME NEW c \in compared
        PROVE  \E e \in Assertions' : RowsOf(Assertions', c) = {e}
    <3>1. PICK e \in Assertions : RowsOf(Assertions, c) = {e}
      BY <2>3 DEF RowsInv
    <3>2. RowsOf(Assertions', c) = RowsOf(Assertions, c)
      BY <2>1, <2>3 DEF RowsOf
    <3> QED
      BY <3>1, <3>2, <2>1
  <2>4. RowsOf(Assertions', cursor) = {row}
    BY <2>1 DEF RowsInv, RowsOf
  <2>5. ~Decided'
    BY <2>1 DEF RowsInv, Decided
  <2>6. \A c \in compared' : \E e \in Assertions' : RowsOf(Assertions', c) = {e}
    BY <2>1, <2>3, <2>4
  <2> QED
    BY <2>2, <2>5, <2>6 DEF RowsInv
<1>2. CASE ~RecordAssertion
  <2>1. Assertions' = Assertions /\ compared' = compared
    BY <1>2, OtherShape
  <2>2. Decided' => compared = Compare /\ pc' \in {"seal", "done", "crashed"}
    <3>1. CASE Recording
      <4>1. json'["verdict"] = json["verdict"]
        BY <3>1, RecordingShape
      <4>2. ~Decided \/ pc' = "crashed"
        BY <1>2, <3>1 DEF RowsInv, Recording, Load, CreateRun, WriteRequirements, WritePlan,
          RecordAction, ObserveLeft, ObserveRight, Crash, Goto
      <4> QED
        BY <4>1, <4>2 DEF Decided, RowsInv
    <3>2. CASE WriteVerdict
      BY <3>2 DEF WriteVerdict, Goto
    <3>3. CASE Seal \/ UNCHANGED vars
      BY <3>3 DEF RowsInv, Seal, SealHash, SealOpenManifest, SealWriteManifest, Freeze, vars,
        storeVars, ctlVars, Goto, Decided
    <3> QED
      BY <3>1, <3>2, <3>3 DEF Next, Recording
  <2> QED
    BY <2>1, <2>2, RunsStay DEF RowsInv
<1> QED
  BY <1>1, <1>2

LEMMA CitesNext == ASSUME NotesInv, CitesBothRuns, [Next]_vars PROVE CitesBothRuns'
<1> DEFINE Backed(e, obs) ==
      \E l, r \in obs :
        /\ l.id \in e.cites /\ l.side = "left" /\ l.cid = e.cid /\ l.action = e.action
        /\ r.id \in e.cites /\ r.side = "right" /\ r.cid = e.cid /\ r.action = e.action
        /\ e.result = "fail" <=> l.value = "pass" /\ r.value # "pass"
<1>1. \A e \in Assertions : Backed(e, Observations)
  BY DEF CitesBothRuns
<1>2. SUFFICES \A e \in Assertions' : Backed(e, Observations')
  BY DEF CitesBothRuns
<1>3. CASE RecordAssertion
  <2>1. PICK row : /\ Assertions' = Assertions \cup {row} /\ row.cid = cursor
                   /\ row.result = AssertionResult(DeltaOf(cursor))
                   /\ row.cites = {counter["O"] - 1, counter["O"]} /\ row.action = counter["A"]
                   /\ Observations' = Observations /\ pc = "assertion"
    BY <1>3, AssertionShape
  <2>2. PICK l \in Observations : l.id = counter["O"] - 1 /\ l.side = "left" /\ l.cid = cursor
                                  /\ l.action = counter["A"]
                                  /\ l.value = ResultIn(left, cursor)
    BY <2>1 DEF NotesInv, Seen
  <2>3. PICK r \in Observations : r.id = counter["O"] /\ r.side = "right" /\ r.cid = cursor
                                  /\ r.action = counter["A"]
                                  /\ r.value = ResultIn(right, cursor)
    BY <2>1 DEF NotesInv, Seen
  <2>4. row.result = "fail" <=> l.value = "pass" /\ r.value # "pass"
    BY <2>1, <2>2, <2>3 DEF AssertionResult, DeltaOf, Delta
  <2>5. Backed(row, Observations)
    BY <2>1, <2>2, <2>3, <2>4
  <2> HIDE DEF Backed
  <2> QED
    BY <1>1, <2>1, <2>5
<1>4. CASE ~RecordAssertion
  <2>1. Assertions' = Assertions /\ Observations \subseteq Observations'
    BY <1>4, OtherShape
  <2>2. \A e : Backed(e, Observations) => Backed(e, Observations')
    BY <2>1
  <2> HIDE DEF Backed
  <2> QED
    BY <1>1, <2>1, <2>2
<1> QED
  BY <1>3, <1>4

LEMMA BookNext == ASSUME DiffInv, BookInv, [Next]_vars PROVE BookInv'
BY NotesNext, RowsNext, CitesNext DEF BookInv, DiffInv

\* An assertion cites an observation of each run, of its own constraint and its own
\* action, and fails exactly when what they show is a regression (diff.py:148-205).
THEOREM DiffCitesStand == Spec => []CitesBothRuns
<1>1. BookInv => CitesBothRuns
  BY DEF BookInv
<1> QED
  BY <1>1, DiffInit, DiffNext, BookInit, BookNext, PTL DEF Spec

\* verdict.json and assertions.jsonl tell the same story, though neither is
\* derived from the other: the loop has been through every constraint before the
\* verdict is written, and both come from the same pair of runs.
THEOREM DiffNotebookStands == Spec => []NotebookBacksVerdict
<1>1. DiffInv /\ BookInv => NotebookBacksVerdict
  <2> SUFFICES ASSUME DiffInv, BookInv, Decided PROVE NotebookBacksVerdict
    BY DEF NotebookBacksVerdict
  <2>1. compared = Compare /\ json["verdict"] = DiffVerdict /\ RunTypeOK
    BY DEF BookInv, RowsInv, DiffInv
  <2>2. DOMAIN json["verdict"].rows = Compare
    BY <2>1 DEF DiffVerdict
  <2>3. \A e \in Assertions : e.cid \in Compare /\ e.result = AssertionResult(DeltaOf(e.cid))
    BY <2>1 DEF BookInv, RowsInv
  <2>4. \A c \in Compare : \E e \in Assertions : e.cid = c /\ RowsOf(Assertions, c) = {e}
    BY <2>1 DEF BookInv, RowsInv, RowsOf
  <2>5. \A c \in Compare : Cardinality(RowsOf(Assertions, c)) = 1
    BY <2>4, FS_Singleton
  <2>6. \A c : AssertionResult(DeltaOf(c)) = "fail" <=>
                 ResultIn(left, c) = "pass" /\ ResultIn(right, c) # "pass"
    BY DEF AssertionResult, DeltaOf, Delta
  <2>7. Intact => (Verdict = "FAILED" <=> \E e \in Assertions : e.result = "fail")
    BY <2>1, <2>3, <2>4, <2>6, FailedDiff DEF Verdict
  <2>8. ASSUME Verdict \in {"PROVEN", "PARTIALLY_PROVEN"}, NEW e \in Assertions
        PROVE  e.result = "pass"
    <3> DEFINE deltas == {DeltaOf(c) : c \in Compare}
               rights == {ResultIn(right, c) : c \in Compare}
    <3>1. Verdict = RollDiff(deltas, rights, Intact)
      BY <2>1 DEF DiffVerdict, Verdict
    <3>2. DeltaOf(e.cid) \in deltas
      BY <2>3, <2>8
    <3> HIDE DEF deltas, rights
    <3>3. "regressed" \notin deltas /\ "changed" \notin deltas
      BY <3>1, <2>8 DEF RollDiff
    <3> QED
      BY <2>3, <2>8, <3>2, <3>3 DEF AssertionResult
  <2> QED
    BY <2>2, <2>5, <2>7, <2>8 DEF NotebookBacksVerdict
<1> QED
  BY <1>1, DiffInit, DiffNext, BookInit, BookNext, PTL DEF Spec
-------------------------------------------------------------------------------
(* The directory of a comparison, once it is decided. *)

\* A comparison that has a verdict is past every action that writes a file but
\* those of seal().
LEMMA DecidedShape ==
  ASSUME BookInv, [Next]_vars, Decided
  PROVE  Seal \/ Crash \/ UNCHANGED vars
BY DEF BookInv, RowsInv, Next, Load, CreateRun, WriteRequirements, WritePlan, RecordAction,
  ObserveLeft, ObserveRight, RecordAssertion, WriteVerdict

\* What the readers of a run take for granted about its writer (Readers, WriteFile
\* and Seal), of diff_runs.
RestsOnceDecided ==
  [][(Stage \in {"decided", "torn", "sealed"}) =>
       Snapshot' = Snapshot /\ (Stage = "sealed" => manifest' = manifest)]_vars

\* The digests in memory and the manifest on disk are those of the directory.
SealInv ==
  /\ phase \in Phases
  /\ phase \notin {"absent", "open"} => hashes = Snapshot
  /\ Sealed => manifest = Snapshot

LEMMA RestStep ==
  ASSUME DiffInv, BookInv, SealInv, [Next]_vars, Stage \in {"decided", "torn", "sealed"}
  PROVE  Snapshot' = Snapshot /\ (Stage = "sealed" => manifest' = manifest)
<1>1. Decided
  BY DEF DiffInv, Stage, Decided, SealInv, Phases
<1>2. Stage = "sealed" => phase \in {"sealed", "frozen"}
  BY DEF Stage, SealInv, Phases
<1>3. CASE Seal
  BY <1>2, <1>3 DEF Seal, SealHash, SealOpenManifest, SealWriteManifest, Freeze, Writable, Snapshot
<1>4. CASE Crash \/ UNCHANGED vars
  BY <1>4 DEF Crash, vars, storeVars, Snapshot
<1> QED
  BY <1>1, <1>3, <1>4, DecidedShape

LEMMA SealNext == ASSUME DiffInv, SealInv, [Next]_vars PROVE SealInv'
<1> USE DEF SealInv, Phases, Sealed, Snapshot
<1>1. CASE Recording
  <2>1. \/ phase \in {"absent", "open"} /\ phase' \in {"absent", "open"}
        \/ UNCHANGED storeVars
    BY <1>1 DEF Recording, Load, CreateRun, WriteRequirements, WritePlan, RecordAction,
      ObserveLeft, ObserveRight, Observe, RecordAssertion, Crash, Create, WriteJson, Record, Writable
  <2> QED
    BY <2>1 DEF storeVars
<1>2. CASE WriteVerdict
  BY <1>2 DEF WriteVerdict, WriteJson, Writable
<1>3. CASE Seal
  BY <1>3 DEF Seal, SealHash, SealOpenManifest, SealWriteManifest, Freeze, Writable
<1>4. CASE UNCHANGED vars
  BY <1>4 DEF vars, storeVars
<1> QED
  BY <1>1, <1>2, <1>3, <1>4 DEF Next, Recording

LEMMA SealInit == Init => SealInv
BY DEF Init, StoreInit, SealInv, Phases, Sealed

\* diff_runs is a writer the readers may rely on.
THEOREM DiffRests == Spec => RestsOnceDecided
<1>1. DiffInv /\ BookInv /\ SealInv /\ [Next]_vars =>
        [(Stage \in {"decided", "torn", "sealed"}) =>
           Snapshot' = Snapshot /\ (Stage = "sealed" => manifest' = manifest)]_vars
  BY RestStep
<1> QED
  BY <1>1, DiffInit, DiffNext, BookInit, BookNext, SealInit, SealNext, PTL
  DEF Spec, RestsOnceDecided

\* A sealed comparison verifies: no application of its own holds a file open,
\* so nothing has to be assumed here.
THEOREM DiffSealStands == Spec => [](Sealed => VerifyManifest)
<1>1. SealInv => (Sealed => VerifyManifest)
  BY DEF SealInv, VerifyManifest
<1> QED
  BY <1>1, DiffInit, DiffNext, SealInit, SealNext, PTL DEF Spec

-------------------------------------------------------------------------------
(* diff_runs() is never refused by its own store, and never turns back.       *)

\* Where diff_runs() may add to the directory of the comparison.
Adding == {"requirements", "plan", "action", "left", "right", "assertion"}

DirectoryReady ==
  /\ pc \in {"load", "create"} => phase = "absent"
  /\ pc \in Adding => Writable
  /\ pc = "seal" => phase \in {"open", "hashed", "torn", "sealed"}

\* What the guards of RunStore ask wherever diff_runs() calls it: a new directory, an
\* open one, a file that has not been written, a run that is complete
\* (store.py:61, 70-81, 85-96, 107-111).
StoreAccepts ==
  /\ DirectoryReady
  /\ pc = "requirements" => json["requirements"] = NoFile
  /\ pc = "plan" => json["plan"] = NoFile
  /\ pc = "action" => json["verdict"] = NoFile
  /\ pc = "seal" => \A n \in JsonNames : json[n] # NoFile

\* The absence of a file is none of the contents diff_runs() writes.
NoFileIsNoContent ==
  /\ \A C \in SUBSET Ids : C # NoFile
  /\ \A v, f, r : [verdict |-> v, confidence |-> f, rows |-> r] # NoFile

Written == {n \in JsonNames : json[n] # NoFile}

Labels == Adding \cup {"load", "create", "seal", "done", "raised", "crashed"}

\* The files that have been written, by where diff_runs() is.
WrittenInv ==
  /\ pc \in Labels
  /\ pc \in {"load", "create", "requirements"} => Written = {}
  /\ pc = "plan" => Written = {"requirements"}
  /\ pc \in {"action", "left", "right", "assertion"} => Written = {"requirements", "plan"}
  /\ pc = "seal" => Written = JsonNames

LEMMA WriteAdds ==
  ASSUME DOMAIN json = JsonNames, NEW name \in JsonNames, NEW obj, obj # NoFile,
         WriteJson(name, obj)
  PROVE  Written' = Written \cup {name} /\ Writable
BY DEF WriteJson, Written

LEMMA StoreInitially == Init => DirectoryReady /\ WrittenInv
BY DEF Init, StoreInit, DirectoryReady, WrittenInv, Written, JsonNames, Labels, Adding

LEMMA ComparedIds == RunTypeOK => Compare \in SUBSET Ids
BY DEF RunTypeOK, Graphs, RowsOver, Compare

LEMMA StoreNext ==
  ASSUME NoFileIsNoContent, RunTypeOK, DirectoryReady, WrittenInv, [Next]_vars
  PROVE  DirectoryReady' /\ WrittenInv'
<1>n. DOMAIN json = JsonNames
  BY DEF RunTypeOK
<1>k. UNCHANGED json => UNCHANGED Written
  BY DEF Written
<1> USE DEF Goto, DirectoryReady, WrittenInv, Labels, Adding, Writable
<1>1. CASE Load \/ CreateRun
  BY <1>1, <1>k DEF Load, CreateRun, Create, storeVars
<1>2. CASE WriteRequirements
  <2>1. Written' = Written \cup {"requirements"} /\ phase = "open"
    BY <1>2, <1>n, WriteAdds, ComparedIds DEF WriteRequirements, JsonNames, NoFileIsNoContent
  <2> QED
    BY <1>2, <2>1 DEF WriteRequirements
<1>3. CASE WritePlan
  <2>1. Written' = Written \cup {"plan"} /\ phase = "open"
    BY <1>3, <1>n, WriteAdds, ComparedIds DEF WritePlan, JsonNames, NoFileIsNoContent
  <2> QED
    BY <1>3, <2>1 DEF WritePlan
<1>4. CASE RecordAction \/ ObserveLeft \/ ObserveRight \/ RecordAssertion
  BY <1>4, <1>k DEF RecordAction, ObserveLeft, ObserveRight, RecordAssertion
<1>5. CASE WriteVerdict
  <2>1. DiffVerdict # NoFile
    BY DEF NoFileIsNoContent, DiffVerdict
  <2>2. Written' = Written \cup {"verdict"} /\ phase = "open"
    BY <1>5, <1>n, <2>1, WriteAdds DEF WriteVerdict, JsonNames
  <2> QED
    BY <1>5, <2>2 DEF WriteVerdict, JsonNames
<1>6. CASE Seal
  BY <1>6, <1>k DEF Seal, SealHash, SealOpenManifest, SealWriteManifest, Freeze
<1>7. CASE Crash \/ UNCHANGED vars
  BY <1>7, <1>k DEF Crash, vars, storeVars, ctlVars
<1> QED
  BY <1>1, <1>2, <1>3, <1>4, <1>5, <1>6, <1>7 DEF Next

\* No call diff_runs() makes of its store raises a StoreError (diff.py:65-245).
THEOREM DiffStoreNeverRefuses ==
  ASSUME NoFileIsNoContent
  PROVE  Spec => []StoreAccepts
<1>1. DirectoryReady /\ WrittenInv => StoreAccepts
  BY DEF WrittenInv, Written, JsonNames, StoreAccepts
<1>2. DiffInv => RunTypeOK
  BY DEF DiffInv
<1> QED
  BY <1>1, <1>2, StoreInitially, StoreNext, DiffInit, DiffNext, PTL DEF Spec

\* The order of the labels.  The four of a constraint are one loop.
Order == [load |-> 0, create |-> 1, requirements |-> 2, plan |-> 3,
          action |-> 4, left |-> 4, right |-> 4, assertion |-> 4,
          seal |-> 5, done |-> 6, raised |-> 6, crashed |-> 6]

Todo == Cardinality(Compare \ compared)

\* What is left of the loop diff_runs() is in: quarters of a constraint, or steps of
\* seal().
Left ==
  CASE pc = "action" -> 4 * Todo
    [] pc = "left" -> 4 * Todo - 1
    [] pc = "right" -> 4 * Todo - 2
    [] pc = "assertion" -> 4 * Todo - 3
    [] pc = "seal" -> [open |-> 3, hashed |-> 2, torn |-> 1, sealed |-> 0][phase]
    [] OTHER -> 0

\* Every step of diff_runs() goes to a later label, or round its loop with less of it
\* left, which is a natural number: no constraint is compared twice.
NeverTurnsBack ==
  [][/\ \/ Order[pc'] > Order[pc]
        \/ Order[pc'] = Order[pc] /\ Left' < Left
     /\ (Left \in Nat)']_vars

LEMMA TodoCount ==
  ASSUME RunTypeOK
  PROVE  /\ Todo \in Nat
         /\ \A c \in Compare \ compared :
              Todo > 0 /\ Cardinality(Compare \ (compared \cup {c})) = Todo - 1
<1>1. IsFiniteSet(Compare \ compared)
  BY ComparedIds, FS_Subset, DiffAssumption
<1>2. Todo \in Nat
  BY <1>1, FS_CardinalityType DEF Todo
<1>3. ASSUME NEW c \in Compare \ compared
      PROVE  Todo > 0 /\ Cardinality(Compare \ (compared \cup {c})) = Todo - 1
  <2>1. Cardinality((Compare \ compared) \ {c}) = Todo - 1
    BY <1>1, FS_RemoveElement DEF Todo
  <2>2. (Compare \ compared) \ {c} = Compare \ (compared \cup {c})
    OBVIOUS
  <2>3. Todo # 0
    BY <1>1, FS_EmptySet DEF Todo
  <2> QED
    BY <1>2, <2>1, <2>2, <2>3
<1> QED
  BY <1>2, <1>3

LEMMA LeftType ==
  ASSUME RunTypeOK, NotesInv, DirectoryReady
  PROVE  Left \in Nat
<1>1. pc \in {"left", "right", "assertion"} => Todo > 0
  BY TodoCount DEF NotesInv
<1>2. Todo \in Nat
  BY TodoCount
<1>3. pc = "seal" => phase \in {"open", "hashed", "torn", "sealed"}
  BY DEF DirectoryReady
<1> QED
  BY <1>1, <1>2, <1>3 DEF Left

LEMMA StepForward ==
  ASSUME RunTypeOK, NotesInv, WrittenInv, Next
  PROVE  \/ Order[pc'] > Order[pc]
         \/ Order[pc'] = Order[pc] /\ Left' < Left
<1>s. Compare' = Compare
  BY RunsStay
<1> USE DEF Order, Goto
<1>1. CASE Load \/ CreateRun \/ WriteRequirements \/ WritePlan \/ WriteVerdict
  BY <1>1 DEF Load, CreateRun, WriteRequirements, WritePlan, WriteVerdict
<1>2. CASE RecordAction \/ ObserveLeft \/ ObserveRight
  <2>1. /\ UNCHANGED compared
        /\ \/ pc = "action" /\ pc' = "left"
           \/ pc = "left" /\ pc' = "right"
           \/ pc = "right" /\ pc' = "assertion"
    BY <1>2 DEF RecordAction, ObserveLeft, ObserveRight
  <2>2. Todo' = Todo /\ Todo \in Nat
    BY <1>s, <2>1, TodoCount DEF Todo
  <2> QED
    BY <2>1, <2>2 DEF Left
<1>3. CASE RecordAssertion
  <2>1. pc = "assertion" /\ pc' = "action" /\ compared' = compared \cup {cursor}
    BY <1>3 DEF RecordAssertion
  <2>2. Todo' = Todo - 1 /\ Todo \in Nat
    BY <1>s, <2>1, TodoCount DEF Todo, NotesInv
  <2> QED
    BY <2>1, <2>2 DEF Left
<1>4. CASE Seal
  BY <1>4 DEF Seal, SealHash, SealOpenManifest, SealWriteManifest, Freeze, Writable, Left
<1>5. CASE Crash
  <2>1. pc \in {"load", "create", "requirements", "plan", "action", "left", "right", "assertion",
                "seal"}
    BY <1>5 DEF Crash, WrittenInv, Labels, Adding
  <2> QED
    BY <1>5, <2>1 DEF Crash
<1> QED
  BY <1>1, <1>2, <1>3, <1>4, <1>5 DEF Next

\* diff_runs() takes finitely many steps, for any two runs (diff.py:65-245).
THEOREM DiffAdvances ==
  ASSUME NoFileIsNoContent
  PROVE  Spec => NeverTurnsBack
<1> DEFINE Inv == DiffInv /\ BookInv /\ DirectoryReady /\ WrittenInv
<1>1. Init => Inv
  BY DiffInit, BookInit, StoreInitially
<1>2. Inv /\ [Next]_vars => Inv'
  BY DiffNext, BookNext, StoreNext DEF DiffInv
<1>4. Inv => Left \in Nat
  BY LeftType DEF DiffInv, BookInv
<1>5. Inv /\ (Left \in Nat)' /\ [Next]_vars =>
        [/\ \/ Order[pc'] > Order[pc]
            \/ Order[pc'] = Order[pc] /\ Left' < Left
         /\ (Left \in Nat)']_vars
  BY StepForward DEF DiffInv, BookInv
<1> QED
  BY <1>1, <1>2, <1>4, <1>5, PTL DEF Spec, NeverTurnsBack

===============================================================================
