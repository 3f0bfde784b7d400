-------------------------------- MODULE DiffRun --------------------------------
(***************************************************************************)
(* One call of diff_runs() (opentruth/diff.py): load two finished runs,     *)
(* compare them constraint by constraint, and record and seal the           *)
(* comparison as a run of its own.  It shares the store with Engine and the *)
(* rules with Verdicts, and rolls its verdict up another way.               *)
(***************************************************************************)
EXTENDS RunStore, Verdicts

CONSTANTS
  Ids,      \* the constraint ids the compared runs may have
  Missing   \* None: the result of a constraint a run does not have

ASSUME DiffAssumption ==
  /\ IsFiniteSet(Ids) /\ 0 \in Ids
  /\ Missing \notin Results \cup Deltas

VARIABLES
  pc,        \* where diff_runs() is
  left,      \* the earlier run, as load_graph returns it
  right,     \* the later one
  compared,  \* constraints whose rows are in the notebook
  cursor     \* the constraint whose rows are being recorded

ctlVars == <<pc, left, right, compared, cursor>>
vars == <<storeVars, ctlVars>>

\* A run that can be an argument: what verify_manifest makes of it, and the
\* constraint rows of its verdict.json, C-0 always among them.  "tampered" is
\* loaded all the same and flagged, "unreadable" makes load_graph raise.  A run
\* that is itself a comparison has deltas for results.
Integrity == {"ok", "tampered", "unreadable"}
RowsOver(values) == UNION {[C -> values] : C \in {S \in SUBSET Ids : 0 \in S}}
Graphs == [integrity : Integrity, rows : RowsOver(Results) \cup RowsOver(Deltas)]

\* integrity_ok
Intact == left.integrity = "ok" /\ right.integrity = "ok"

\* Mutant of Compare: only what the later run still declares.
CompareRight == DOMAIN right.rows

\* `ids`: every constraint of either run.
Compare == DOMAIN left.rows \cup DOMAIN right.rows

ResultIn(graph, c) == IF c \in DOMAIN graph.rows THEN graph.rows[c] ELSE Missing
DeltaOf(c) == Delta(ResultIn(left, c), ResultIn(right, c))

Observations == rows["observations"]
Assertions == rows["assertions"]

Goto(label) == pc' = label

-------------------------------------------------------------------------------
Init ==
  /\ StoreInit
  /\ pc = "load"
  /\ left \in Graphs
  /\ right \in Graphs
  /\ compared = {}
  /\ cursor = 0

\* Both graphs are loaded before the directory of the new run exists.
Load ==
  /\ pc = "load"
  /\ Goto(IF "unreadable" \in {left.integrity, right.integrity}
            THEN "raised" ELSE "create")
  /\ UNCHANGED <<storeVars, left, right, compared, cursor>>

CreateRun ==
  /\ pc = "create"
  /\ Create
  /\ Goto("requirements")
  /\ UNCHANGED <<left, right, compared, cursor>>

WriteRequirements ==
  /\ pc = "requirements"
  /\ WriteJson("requirements", Compare)
  /\ Goto("plan")
  /\ UNCHANGED <<phase, rows, counter, log, hashes, manifest>>
  /\ UNCHANGED <<left, right, compared, cursor>>

\* plan.json: both references and a compare step per constraint; then the blob
\* compare.json.
WritePlan ==
  /\ pc = "plan"
  /\ WriteJson("plan", Compare)
  /\ Goto("action")
  /\ UNCHANGED <<phase, rows, counter, log, hashes, manifest>>
  /\ UNCHANGED <<left, right, compared, cursor>>

\* Next iteration of the loop over constraints_out; their order is left open.
RecordAction ==
  /\ pc = "action"
  /\ cursor' \in Compare \ compared
  /\ Record("A", "actions", [id |-> NextId("A"), cid |-> cursor'])
  /\ Goto("left")
  /\ UNCHANGED <<phase, json, log, hashes, manifest, left, right, compared>>

\* The observation of one side: the result, and the run it is taken from.
Observe(side, graph) ==
  Record("O", "observations",
         [id |-> NextId("O"), cid |-> cursor, action |-> counter["A"],
          side |-> side, value |-> ResultIn(graph, cursor)])

ObserveLeft ==
  /\ pc = "left"
  /\ Observe("left", left)
  /\ Goto("right")
  /\ UNCHANGED <<phase, json, log, hashes, manifest, left, right, compared, cursor>>

\* Mutant of ObserveRight: the row of the earlier run, written twice.
ObserveLeftTwice ==
  /\ pc = "right"
  /\ Observe("right", left)
  /\ Goto("assertion")
  /\ UNCHANGED <<phase, json, log, hashes, manifest, left, right, compared, cursor>>

ObserveRight ==
  /\ pc = "right"
  /\ Observe("right", right)
  /\ Goto("assertion")
  /\ UNCHANGED <<phase, json, log, hashes, manifest, left, right, compared, cursor>>

\* The result of the assertion "no_regression".
AssertionResult(delta) ==
  IF delta = "regressed" THEN "fail"
  ELSE IF delta = "changed" THEN "inconclusive"
  ELSE "pass"

RecordAssertion ==
  /\ pc = "assertion"
  /\ Record("E", "assertions",
            [id |-> NextId("E"), cid |-> cursor, action |-> counter["A"],
             cites |-> {counter["O"] - 1, counter["O"]},
             result |-> AssertionResult(DeltaOf(cursor))])
  /\ compared' = compared \cup {cursor}
  /\ Goto("action")
  /\ UNCHANGED <<phase, json, log, hashes, manifest, left, right, cursor>>

\* conf: passing constraints of the later run over all compared ones.
DiffConfidence ==
  <<Cardinality({c \in Compare : ResultIn(right, c) = "pass"}), Cardinality(Compare)>>

DiffVerdict ==
  [verdict |-> RollDiff({DeltaOf(c) : c \in Compare},
                        {ResultIn(right, c) : c \in Compare}, Intact),
   confidence |-> DiffConfidence,
   rows |-> [c \in Compare |-> DeltaOf(c)]]

\* Mutant of WriteVerdict: the loop is left after its first constraint.
WriteVerdictEarly ==
  /\ pc = "action" /\ compared # {}
  /\ WriteJson("verdict", DiffVerdict)
  /\ Goto("seal")
  /\ UNCHANGED <<phase, rows, counter, log, hashes, manifest>>
  /\ UNCHANGED <<left, right, compared, cursor>>

WriteVerdict ==
  /\ pc = "action" /\ compared = Compare
  /\ WriteJson("verdict", DiffVerdict)
  /\ Goto("seal")
  /\ UNCHANGED <<phase, rows, counter, log, hashes, manifest>>
  /\ UNCHANGED <<left, right, compared, cursor>>

Seal ==
  /\ pc = "seal"
  /\ \/ (SealHash \/ SealOpenManifest \/ SealWriteManifest) /\ UNCHANGED pc
     \/ Freeze /\ Goto("done")
  /\ UNCHANGED <<left, right, compared, cursor>>

\* The process dies.
Crash ==
  /\ pc \notin {"done", "raised", "crashed"}
  /\ Goto("crashed")
  /\ UNCHANGED <<storeVars, left, right, compared, cursor>>

Next ==
  \/ Load \/ CreateRun \/ WriteRequirements \/ WritePlan
  \/ RecordAction \/ ObserveLeft \/ ObserveRight \/ RecordAssertion
  \/ WriteVerdict \/ Seal \/ Crash

Spec == Init /\ [][Next]_vars

-------------------------------------------------------------------------------
Decided == json["verdict"] # NoFile
Verdict == json["verdict"].verdict

\* A comparison is PROVEN exactly when both runs are intact and every
\* constraint that either of them has passes in the later one: a constraint
\* cannot be got rid of by no longer declaring it (diff.py:65-245, delta and
\* roll_diff of verdicts.py).
DiffProvenMeans ==
  Decided => (Verdict = "PROVEN" <=>
    /\ Intact
    /\ \A c \in DOMAIN left.rows \cup DOMAIN right.rows :
         c \in DOMAIN right.rows /\ right.rows[c] = "pass")

\* Between intact runs, FAILED means that something which passed does so no
\* longer, whatever else improved, is unknown, or was failing all along; and a
\* run that was tampered with decides nothing (verdicts.py:39-53).
DiffFailedMeans ==
  Decided =>
    /\ Verdict = "FAILED" <=>
         /\ Intact
         /\ \E c \in DOMAIN left.rows : left.rows[c] = "pass" /\ ResultIn(right, c) # "pass"
    /\ Verdict = "INCONCLUSIVE" <=> ~Intact

\* verdict.json and assertions.jsonl, which diff_runs derives side by side from
\* the loaded runs and not one from the other, agree: one assertion per
\* constraint, a failing one exactly when the comparison of intact runs is
\* FAILED, and an inconclusive one never under a PROVEN verdict.
NotebookBacksVerdict ==
  Decided =>
    /\ \A c \in DOMAIN json["verdict"].rows : Cardinality(RowsOf(Assertions, c)) = 1
    /\ Intact => (Verdict = "FAILED" <=> \E e \in Assertions : e.result = "fail")
    /\ Verdict \in {"PROVEN", "PARTIALLY_PROVEN"} =>
         \A e \in Assertions : e.result = "pass"

\* An assertion cites one observation of each side of its own constraint and its
\* own action, and what the two say of that constraint is what was judged: also
\* for the rows of a comparison that a crash cut short (diff.py:148-205).
CitesBothRuns ==
  \A e \in Assertions : \E l, r \in Observations :
    /\ l.id \in e.cites /\ l.side = "left" /\ l.cid = e.cid /\ l.action = e.action
    /\ r.id \in e.cites /\ r.side = "right" /\ r.cid = e.cid /\ r.action = e.action
    /\ e.result = "fail" <=> l.value = "pass" /\ r.value # "pass"
===============================================================================
