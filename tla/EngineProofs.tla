----------------------------- MODULE EngineProofs -----------------------------
(***************************************************************************)
(* Proofs about Engine, for every plan, mode, number of constraints and     *)
(* amount of output of the application.                                     *)
(***************************************************************************)
EXTENDS Engine, TLAPS

-------------------------------------------------------------------------------
(* Lemmas about the helpers. *)

\* The steps of a plan file are steps.
LEMMA PlanSteps == \A p \in PlanFiles : p.steps \in Seq(Step)
<1>1. \A s \in Plans : s \in Seq(Step)
  BY EngineAssumption
<1>2. <<>> \in Seq(Step)
  OBVIOUS
<1>3. \A s : PlanFile(s).steps = s
  BY DEF PlanFile
<1> QED
  BY <1>1, <1>2, <1>3 DEF PlanFiles

\* What Record does to the notebook: one row and one id more.
LEMMA RecordRows ==
  ASSUME NotebookOK, NEW p \in Prefixes, NEW file \in RowFiles, NEW row,
         Record(p, file, row)
  PROVE  /\ counter' \in [Prefixes -> Nat]
         /\ DOMAIN rows' = RowFiles
         /\ rows'[file] = rows[file] \cup {row}
         /\ \A f \in RowFiles : f # file => rows'[f] = rows[f]
BY DEF NotebookOK, Record, NextId

\* A recorded action leaves the other two files alone.
LEMMA RecordAction ==
  ASSUME NotebookOK, NEW row, Record("A", "actions", row)
  PROVE  /\ Actions' = Actions \cup {row}
         /\ UNCHANGED <<Observations, Assertions>>
         /\ row \in ActionRows => NotebookOK'
BY RecordRows DEF NotebookOK, Actions, Observations, Assertions, RowFiles, Prefixes

LEMMA RecordObservation ==
  ASSUME NotebookOK, NEW row, Record("O", "observations", row)
  PROVE  /\ Observations' = Observations \cup {row}
         /\ UNCHANGED <<Actions, Assertions>>
         /\ row \in ObservationRows => NotebookOK'
BY RecordRows DEF NotebookOK, Actions, Observations, Assertions, RowFiles, Prefixes

LEMMA RecordAssertion ==
  ASSUME NotebookOK, NEW row, Record("E", "assertions", row)
  PROVE  /\ Assertions' = Assertions \cup {row}
         /\ UNCHANGED <<Actions, Observations>>
         /\ row \in AssertionRows => NotebookOK'
BY RecordRows DEF NotebookOK, Actions, Observations, Assertions, RowFiles, Prefixes

\* The rows the engine and the runners write are assertion rows.
LEMMA AssertionType ==
  ASSUME NotebookOK, NEW cid \in Constraint, NEW step \in Nat, NEW result \in Results,
         NEW cites \in SUBSET Nat, NEW src \in Nat
  PROVE  Assertion(cid, step, result, cites, src) \in AssertionRows
BY DEF NotebookOK, Assertion, AssertionRows, NextId, Prefixes

\* What an operation leaves behind are exchanges.
LEMMA PerformTypes ==
  ASSUME ip \in Nat \ {0}, last \in Exchanges, query \in Exchanges, NEW step, Perform(step)
  PROVE  last' \in Exchanges /\ query' \in Exchanges /\ failed' \in BOOLEAN
<1>1. /\ [src |-> ip, ok |-> TRUE] \in Exchanges
      /\ [src |-> ip, ok |-> FALSE] \in Exchanges
      /\ None \in Exchanges
  BY DEF Exchanges
<1>2. CASE step.kind = "request"
  <2>1. PICK x \in {[src |-> ip, ok |-> TRUE], [src |-> ip, ok |-> FALSE], None} :
          last' = x /\ failed' \in IF x = None THEN BOOLEAN ELSE {~x.ok}
    BY <1>2 DEF Perform, AssertKinds
  <2>2. x \in Exchanges
    BY <1>1, <2>1, Zenon
  <2>3. x.ok = TRUE \/ x.ok = FALSE
    BY <2>1 DEF None
  <2>4. query' = query
    BY <1>2 DEF Perform, AssertKinds
  <2> QED
    BY <2>1, <2>2, <2>3, <2>4
<1>3. CASE step.kind = "query"
  BY <1>1, <1>3 DEF Perform, AssertKinds
<1>4. CASE step.kind \in {"act"} \cup AssertKinds
  BY <1>4 DEF Perform, AssertKinds
<1> QED
  BY <1>2, <1>3, <1>4 DEF Perform

-------------------------------------------------------------------------------
(* Type correctness. *)

\* While the runner works plan.json exists, and a step under way is one of it.
InPlan ==
  /\ pc \in {"act", "observe", "judge"} => json["plan"] \in PlanFiles
  /\ pc \in {"observe", "judge"} => ip \in DOMAIN Steps

TypeInv == TypeOK /\ InPlan

LEMMA TypeInit == Init => TypeInv
<1> SUFFICES ASSUME Init PROVE TypeInv
  OBVIOUS
<1>1. FilesOK
  BY DEF Init, StoreInit, FilesOK, Phases, JsonNames
<1>2. NotebookOK
  BY DEF Init, StoreInit, NotebookOK, RowFiles, Prefixes, Actions, Observations, Assertions
<1>3. ControlOK
  <2>1. /\ pc \in Labels /\ mode \in Modes /\ app \in Apps
        /\ cause \in {"none", "unreachable", "ir_error", "runner_failed"}
        /\ ip \in Nat \ {0} /\ cursor \in 0..Last + 1
    BY EngineAssumption DEF Init, Labels, Apps, HappyPath
  <2>2. exn \in BOOLEAN /\ failed \in BOOLEAN
    BY DEF Init
  <2>3. last \in Exchanges /\ query \in Exchanges
    BY DEF Init, Exchanges
  <2> QED
    BY <2>1, <2>2, <2>3 DEF ControlOK
<1>4. InPlan
  BY DEF Init, InPlan
<1> QED
  BY <1>1, <1>2, <1>3, <1>4 DEF TypeInv, TypeOK

\* The step under way is a step.
LEMMA CurrentStep ==
  ASSUME TypeInv, pc \in {"act", "observe", "judge"}, ip <= Len(Steps) \/ pc # "act"
  PROVE  ip \in DOMAIN Steps /\ Current \in Step /\ Steps \in Seq(Step)
<1>1. Steps \in Seq(Step)
  BY PlanSteps DEF TypeInv, InPlan, Steps
<1>2. ip \in Nat \ {0}
  BY DEF TypeInv, TypeOK, ControlOK
<1>3. ip \in DOMAIN Steps
  BY <1>1, <1>2 DEF TypeInv, InPlan
<1> QED
  BY <1>1, <1>3 DEF Current

LEMMA TypeNext == TypeInv /\ [Next]_vars => TypeInv'
<1> SUFFICES ASSUME TypeInv, [Next]_vars PROVE TypeInv'
  OBVIOUS
<1> DEFINE NotebookKept == UNCHANGED <<rows, counter>>
<1>a. NotebookKept => NotebookOK'
  BY DEF TypeInv, TypeOK, NotebookOK, Actions, Observations, Assertions
<1>b. /\ FilesOK /\ NotebookOK /\ ControlOK
      /\ ip \in Nat \ {0}
      /\ counter \in [Prefixes -> Nat]
  BY DEF TypeInv, TypeOK, ControlOK, NotebookOK
<1>s. UNCHANGED storeVars => FilesOK' /\ NotebookKept
  BY <1>b DEF storeVars, FilesOK
<1> USE DEF TypeInv, TypeOK, InPlan, Goto, Steps
<1>1. CASE CreateRun
  BY <1>1, <1>a DEF CreateRun, Create, FilesOK, ControlOK, Phases, Labels
<1>2. CASE WriteRequirements
  BY <1>2, <1>a DEF WriteRequirements, WriteJson, FilesOK, ControlOK, JsonNames, Labels
<1>3. CASE StartApp
  BY <1>3, <1>a DEF StartApp, FilesOK, ControlOK, Labels, Apps
<1>4. CASE UseRunningApp
  BY <1>4, <1>a, <1>s DEF UseRunningApp, ControlOK, Labels
<1>5. CASE StartRaises
  BY <1>5, <1>a DEF StartRaises, FilesOK, ControlOK, Labels
<1>6. CASE Healthy
  BY <1>6, <1>a, <1>s DEF Healthy, ControlOK, Labels
<1>7. CASE Unreachable \/ RejectIr
  BY <1>7, <1>a DEF Unreachable, RejectIr, AbandonPlan, WriteJson, PlanFiles, FilesOK,
                    ControlOK, JsonNames, Labels
<1>8. CASE BuildPlan
  BY <1>8, <1>a DEF BuildPlan, WriteJson, PlanFiles, FilesOK, ControlOK, JsonNames, Labels
<1>9. CASE EngineRaises
  BY <1>9, <1>a, <1>s DEF EngineRaises, ControlOK, Labels
<1>10. CASE Act
  <2>1. ip \in DOMAIN Steps /\ Current \in Step
    BY <1>10, CurrentStep DEF Act
  <2>2. [id |-> NextId("A"), cid |-> Current.cid, step |-> ip] \in ActionRows
    BY <1>b, <2>1 DEF ActionRows, NextId, Prefixes, Step
  <2>3. NotebookOK'
    BY <1>10, <1>b, <2>2, RecordAction DEF Act
  <2>4. last' \in Exchanges /\ query' \in Exchanges /\ failed' \in BOOLEAN
    BY <1>10, PerformTypes DEF Act, ControlOK
  <2> QED
    BY <1>10, <2>1, <2>3, <2>4 DEF Act, FilesOK, ControlOK, Labels
<1>11. CASE Observe
  <2>1. ip \in DOMAIN Steps /\ Current \in Step
    BY <1>11, CurrentStep DEF Observe
  <2>2. [id |-> NextId("O"), cid |-> Current.cid, action |-> counter["A"]] \in ObservationRows
    BY <1>b, <2>1 DEF ObservationRows, NextId, Prefixes, Step
  <2>3. NotebookOK'
    BY <1>11, <1>b, <2>2, RecordObservation DEF Observe
  <2> QED
    BY <1>11, <2>1, <2>3 DEF Observe, FilesOK, ControlOK, Labels
<1>12. CASE JudgeAssert
  <2>1. ip \in DOMAIN Steps /\ Current \in Step
    BY <1>12, CurrentStep DEF JudgeAssert
  <2>2. PICK result \in Judgements(Current) : \E cites \in Cites(Current, result) :
          Record("E", "assertions",
                 Assertion(Current.cid, ip, result, cites,
                           IF mode = "browser" THEN 0 ELSE Judged(Current).src))
    BY <1>12 DEF JudgeAssert
  <2>3. PICK cites \in Cites(Current, result) :
          Record("E", "assertions",
                 Assertion(Current.cid, ip, result, cites,
                           IF mode = "browser" THEN 0 ELSE Judged(Current).src))
    BY <2>2
  <2>4. result \in Results
    BY <2>2 DEF Judgements, Results
  <2>5. cites \in SUBSET Nat
    BY <1>b, <2>3 DEF Cites, Prefixes
  <2>6. (IF mode = "browser" THEN 0 ELSE Judged(Current).src) \in Nat
    BY DEF Judged, ControlOK, Exchanges, None
  <2>7. Current.cid \in Constraint
    BY <2>1 DEF Step
  <2>8. NotebookOK'
    BY <1>b, <2>4, <2>5, <2>6, <2>7, <2>3, AssertionType, RecordAssertion
  <2> QED
    BY <1>12, <2>8 DEF JudgeAssert, NextStep, FilesOK, ControlOK, Labels
<1>13. CASE JudgeError
  <2>1. Current.cid \in Constraint
    BY <1>13, CurrentStep DEF JudgeError, Step
  <2>2. (IF Current.kind = "query" THEN {counter["O"]} ELSE {}) \in SUBSET Nat
    BY <1>b DEF Prefixes
  <2>3. NotebookOK'
    BY <1>13, <1>b, <2>1, <2>2, AssertionType, RecordAssertion DEF JudgeError, Results
  <2> QED
    BY <1>13, <2>3 DEF JudgeError, NextStep, FilesOK, ControlOK, Labels
<1>14. CASE JudgeNothing
  BY <1>14, <1>a, <1>s DEF JudgeNothing, NextStep, ControlOK, Labels, storeVars
<1>15. CASE PlanDone
  BY <1>15, <1>a, <1>s DEF PlanDone, ControlOK, Labels
<1>16. CASE RunnerRaises
  <2>1. counter' \in [Prefixes -> Nat]
    BY <1>16, <1>b DEF RunnerRaises, NextId, Prefixes
  <2>2. NotebookOK'
    BY <1>16, <2>1 DEF RunnerRaises, NotebookOK, Actions, Observations, Assertions
  <2> QED
    BY <1>16, <2>2 DEF RunnerRaises, FilesOK, ControlOK, Labels
<1>17. CASE InconclusiveOne
  <2>1. cursor \in Constraint /\ cursor + 1 \in 0..Last + 1
    BY <1>17, EngineAssumption DEF InconclusiveOne, ControlOK, Constraint
  <2>2. NotebookOK'
    BY <1>17, <1>b, <2>1, AssertionType, RecordAssertion DEF InconclusiveOne, Results
  <2> QED
    BY <1>17, <2>1, <2>2 DEF InconclusiveOne, FilesOK, ControlOK, Labels
<1>18. CASE InconclusiveDone
  BY <1>18, <1>a, <1>s DEF InconclusiveDone, ControlOK, Labels
<1>19. CASE StopApp
  BY <1>19, <1>a, <1>s, EngineAssumption DEF StopApp, HappyPath, ControlOK, Labels, Apps
<1>20. CASE StopRaises \/ FinishRaises
  BY <1>20, <1>a, <1>s DEF StopRaises, FinishRaises, ControlOK, Labels
<1>21. CASE CoverOne
  <2>1. cursor \in Constraint /\ cursor + 1 \in 0..Last + 1
    BY <1>21, EngineAssumption DEF CoverOne, ControlOK, Constraint
  <2>2. NotebookOK'
    BY <1>21, <1>a, <1>b, <2>1, AssertionType, RecordAssertion DEF CoverOne, Results
  <2> QED
    BY <1>21, <2>1, <2>2 DEF CoverOne, FilesOK, ControlOK, Labels
<1>22. CASE WriteVerdict
  BY <1>22, <1>a DEF WriteVerdict, WriteJson, FilesOK, ControlOK, JsonNames, Labels
<1>23. CASE Seal
  BY <1>23, <1>a DEF Seal, SealHash, SealOpenManifest, SealWriteManifest, Freeze, FilesOK,
                     ControlOK, Phases, Labels
<1>24. CASE Crash
  BY <1>24, <1>a, <1>s DEF Crash, ControlOK, Labels
<1>25. CASE AppLogs
  BY <1>25, <1>a DEF AppLogs, ctlVars, FilesOK, ControlOK
<1>26. CASE AppExits
  BY <1>26, <1>a, <1>s DEF AppExits, ControlOK, Apps, storeVars
<1>27. CASE UNCHANGED vars
  BY <1>27, <1>a, <1>s DEF vars, ctlVars, ControlOK, storeVars
<1> QED
  BY <1>1, <1>2, <1>3, <1>4, <1>5, <1>6, <1>7, <1>8, <1>9, <1>10, <1>11, <1>12, <1>13,
     <1>14, <1>15, <1>16, <1>17, <1>18, <1>19, <1>20, <1>21, <1>22, <1>23, <1>24, <1>25,
     <1>26, <1>27
  DEF Next, Verifier, Setup, Planning, Running, Finishing

\* Every variable of verify() and of the run directory keeps its type.
THEOREM TypeCorrect == Spec => []TypeOK
<1>1. TypeInv => TypeOK
  BY DEF TypeInv
<1> QED
  BY <1>1, TypeInit, TypeNext, PTL DEF Spec

-------------------------------------------------------------------------------
(* The shape of a step, as far as the verdict and the seal are concerned. *)

\* Where verify() may be once the verdict is written.
Final == {"seal", "done", "raised", "crashed"}

\* A step before the verdict: rows may be added, and nothing else that counts.
BeforeVerdict ==
  /\ pc \notin Final
  /\ json'["verdict"] = json["verdict"]
  /\ Assertions \subseteq Assertions'
  /\ Observations \subseteq Observations'
  /\ phase' = phase \/ (phase = "absent" /\ phase' = "open")
  /\ Assertions' # Assertions => phase = "open" /\ phase' = "open"
  /\ UNCHANGED <<hashes, manifest>>

\* A step of the application, or one that only moves verify() on.
Quiet ==
  /\ UNCHANGED <<phase, json, rows, hashes, manifest, cause, mode>>
  /\ pc \in Final => pc' \in Final
  /\ pc' \in {pc, "raised", "crashed"}
  /\ ~AppMayLog => log' = log /\ ~AppMayLog'

LEMMA StepShape ==
  ASSUME TypeInv, [Next]_vars
  PROVE  BeforeVerdict \/ WriteVerdict \/ Quiet \/ Seal
<1>n. NotebookOK /\ DOMAIN json = JsonNames
  BY DEF TypeInv, TypeOK, FilesOK
<1>k. UNCHANGED rows => UNCHANGED <<Assertions, Observations>>
  BY DEF Assertions, Observations
<1> USE <1>k DEF Goto
<1>1. CASE Setup
  BY <1>1, <1>n DEF Setup, CreateRun, WriteRequirements, StartApp, UseRunningApp, StartRaises,
    Healthy, Unreachable, AbandonPlan, Create, WriteJson, Writable, storeVars, JsonNames,
    BeforeVerdict, Final
<1>2. CASE Planning
  BY <1>2, <1>n DEF Planning, RejectIr, AbandonPlan, BuildPlan, EngineRaises, WriteJson, Writable,
    storeVars, JsonNames, BeforeVerdict, Final
<1>3. CASE Act
  BY <1>3, <1>n, RecordAction DEF Act, BeforeVerdict, Final
<1>4. CASE Observe
  BY <1>4, <1>n, RecordObservation DEF Observe, BeforeVerdict, Final
<1>5. CASE JudgeAssert
  <2>1. \E row : Record("E", "assertions", row)
    BY <1>5 DEF JudgeAssert
  <2> QED
    BY <1>5, <1>n, <2>1, RecordAssertion DEF JudgeAssert, BeforeVerdict, Final, Record, Writable
<1>6. CASE JudgeError \/ InconclusiveOne \/ CoverOne
  BY <1>6, <1>n, RecordAssertion DEF JudgeError, InconclusiveOne, CoverOne, BeforeVerdict, Final,
    Record, Writable
<1>7. CASE JudgeNothing \/ PlanDone \/ RunnerRaises \/ InconclusiveDone \/ StopApp \/ StopRaises
  BY <1>7 DEF JudgeNothing, PlanDone, RunnerRaises, InconclusiveDone, StopApp, StopRaises,
    storeVars, BeforeVerdict, Final
<1>9. CASE FinishRaises
  <2>1. CASE pc = "seal"
    BY <1>9, <2>1 DEF FinishRaises, storeVars, Quiet, Final, AppMayLog
  <2>2. CASE pc \in {"create", "requirements", "coverage"}
    BY <1>9, <2>2 DEF FinishRaises, storeVars, BeforeVerdict, Final
  <2> QED
    BY <1>9, <2>1, <2>2 DEF FinishRaises
<1>8. CASE Crash \/ AppLogs \/ AppExits \/ UNCHANGED vars
  BY <1>8 DEF Crash, AppLogs, AppExits, vars, storeVars, ctlVars, AppMayLog, Quiet, Final
<1> QED
  BY <1>1, <1>2, <1>3, <1>4, <1>5, <1>6, <1>7, <1>8, <1>9
  DEF Next, Verifier, Running, Finishing

-------------------------------------------------------------------------------
(* The verdict follows the evidence. *)

Begun == phase \notin {"absent", "open"}  \* seal() has its digests

\* Once written, the verdict is the roll-up of the rows, and verify() is past
\* every place that could add one; only then are digests taken.
VerdictInv ==
  /\ Decided => /\ pc \in Final
                /\ json["verdict"] = BuildVerdict(Assertions, Constraint, HappyPath)
  /\ Begun => Decided

LEMMA VerdictInit == Init => VerdictInv
BY DEF Init, StoreInit, JsonNames, VerdictInv, Decided, Begun

LEMMA VerdictNext == TypeInv /\ VerdictInv /\ [Next]_vars => VerdictInv'
<1> SUFFICES ASSUME TypeInv, VerdictInv, [Next]_vars PROVE VerdictInv'
  OBVIOUS
<1>1. CASE BeforeVerdict
  BY <1>1 DEF BeforeVerdict, VerdictInv, Decided, Begun
<1>2. CASE WriteVerdict
  BY <1>2 DEF WriteVerdict, WriteJson, Writable, TypeInv, TypeOK, FilesOK, JsonNames, Goto,
    Assertions, VerdictInv, Begun, Final
<1>3. CASE Quiet
  BY <1>3 DEF Quiet, VerdictInv, Decided, Begun, Assertions
<1>4. CASE Seal
  BY <1>4 DEF Seal, SealHash, SealOpenManifest, SealWriteManifest, Freeze, Goto, JsonNames,
    VerdictInv, Decided, Begun, Assertions, Final
<1> QED
  BY <1>1, <1>2, <1>3, <1>4, StepShape

\* verdict.json is and stays the roll-up of everything in assertions.jsonl.
THEOREM VerdictStands == Spec => []VerdictFollowsEvidence
<1>1. VerdictInv => VerdictFollowsEvidence
  BY DEF VerdictInv, VerdictFollowsEvidence
<1> QED
  BY <1>1, TypeInit, TypeNext, VerdictInit, VerdictNext, PTL DEF Spec

-------------------------------------------------------------------------------
(* What is sealed stays as it was hashed, when the application leaves no      *)
(* children behind.                                                          *)

SealInv ==
  /\ pc \in {"coverage", "seal", "done"} => ~AppMayLog
  /\ Begun => ~AppMayLog /\ hashes = Snapshot
  /\ Sealed => manifest = Snapshot

\* When verify() arrives at the coverage loop the application is stopped.
LEMMA AppStopped ==
  ASSUME Descendants = FALSE, SealInv, BeforeVerdict, Next
  PROVE  pc' \in {"coverage", "seal", "done"} => ~AppMayLog'
<1> USE DEF BeforeVerdict, Final, Goto
<1>1. CASE Setup \/ Planning
  BY <1>1 DEF Setup, Planning, CreateRun, WriteRequirements, StartApp, UseRunningApp, StartRaises,
    Healthy, Unreachable, AbandonPlan, RejectIr, BuildPlan, EngineRaises
<1>2. CASE Running
  BY <1>2 DEF Running, Act, Observe, JudgeAssert, JudgeError, JudgeNothing, NextStep, PlanDone,
    RunnerRaises
<1>3. CASE InconclusiveOne \/ InconclusiveDone \/ StopRaises \/ FinishRaises
  BY <1>3 DEF InconclusiveOne, InconclusiveDone, StopRaises, FinishRaises
<1>4. CASE StopApp
  BY <1>4 DEF StopApp, AppMayLog
<1>5. CASE CoverOne \/ WriteVerdict
  BY <1>5 DEF CoverOne, WriteVerdict, SealInv, AppMayLog
<1>6. CASE Seal \/ Crash
  BY <1>6 DEF Seal, Crash
<1>7. CASE AppLogs \/ AppExits
  BY <1>7 DEF AppLogs, AppExits, ctlVars, SealInv, AppMayLog
<1> QED
  BY <1>1, <1>2, <1>3, <1>4, <1>5, <1>6, <1>7 DEF Next, Verifier, Finishing

LEMMA SealNext ==
  ASSUME Descendants = FALSE, TypeInv, VerdictInv, SealInv, [Next]_vars
  PROVE  SealInv'
<1>1. CASE BeforeVerdict /\ Next
  <2>1. ~Begun'
    BY <1>1 DEF BeforeVerdict, VerdictInv, Begun
  <2> QED
    BY <1>1, <2>1, AppStopped DEF SealInv, Begun, Sealed
<1>2. CASE WriteVerdict
  BY <1>2 DEF WriteVerdict, WriteJson, Writable, Goto, SealInv, Begun, Sealed, AppMayLog
<1>3. CASE Quiet
  BY <1>3 DEF Quiet, SealInv, Begun, Sealed, Snapshot, Final
<1>4. CASE Seal
  <2>1. UNCHANGED Snapshot /\ UNCHANGED Decided /\ UNCHANGED AppMayLog /\ pc' \in Final /\ ~AppMayLog
    BY <1>4 DEF Seal, SealHash, SealOpenManifest, SealWriteManifest, Freeze, Goto, Snapshot,
      Decided, AppMayLog, SealInv, Final
  <2>2. CASE SealHash
    BY <2>1, <2>2 DEF SealHash, JsonNames, Decided, Snapshot, SealInv, Begun, Sealed
  <2>3. CASE SealOpenManifest
    BY <2>1, <2>3 DEF SealOpenManifest, SealInv, Begun, Sealed
  <2>4. CASE SealWriteManifest
    BY <2>1, <2>4 DEF SealWriteManifest, SealInv, Begun, Sealed
  <2>5. CASE Freeze
    BY <2>1, <2>5 DEF Freeze, SealInv, Begun, Sealed
  <2> QED
    BY <1>4, <2>2, <2>3, <2>4, <2>5 DEF Seal
<1>5. CASE UNCHANGED vars
  BY <1>5 DEF vars, storeVars, ctlVars, SealInv, Begun, Sealed, Snapshot, Decided, AppMayLog
<1> QED
  BY <1>1, <1>2, <1>3, <1>4, <1>5, StepShape

LEMMA SealInit == Init => SealInv
BY DEF Init, StoreInit, SealInv, Begun, Sealed

LEMMA SealImplies == SealInv => SealedIsIntact
BY DEF SealInv, SealedIsIntact, VerifyManifest

\* Once manifest.json is complete the run verifies, for good.
THEOREM SealStands ==
  ASSUME Descendants = FALSE
  PROVE  Spec => []SealedIsIntact
<1>1. SealInv => SealedIsIntact
  BY SealImplies
<1>2. TypeInv /\ VerdictInv /\ SealInv /\ [Next]_vars => SealInv'
  BY SealNext
<1> QED
  BY <1>1, <1>2, TypeInit, TypeNext, VerdictInit, VerdictNext, SealInit, PTL DEF Spec

\* What the readers of a run take for granted about its writer (Readers, WriteFile
\* and Seal): no file of the run changes once verdict.json is there, and
\* manifest.json does not change once it is complete.
RestsOnceDecided ==
  [][(Stage \in {"decided", "torn", "sealed"}) =>
       Snapshot' = Snapshot /\ (Stage = "sealed" => manifest' = manifest)]_vars

\* The log has no writer left when the verdict is written.
QuietInv == Decided => ~AppMayLog

LEMMA QuietNext ==
  ASSUME Descendants = FALSE, TypeInv, VerdictInv, SealInv, QuietInv, [Next]_vars
  PROVE  QuietInv'
<1>1. CASE BeforeVerdict
  BY <1>1 DEF BeforeVerdict, VerdictInv, QuietInv, Decided
<1>2. CASE WriteVerdict
  BY <1>2 DEF WriteVerdict, SealInv, QuietInv, AppMayLog
<1>3. CASE Quiet
  BY <1>3 DEF Quiet, QuietInv, Decided
<1>4. CASE Seal
  BY <1>4 DEF Seal, SealInv, QuietInv, AppMayLog
<1> QED
  BY <1>1, <1>2, <1>3, <1>4, StepShape

LEMMA RestStep ==
  ASSUME TypeInv, VerdictInv, QuietInv, [Next]_vars, Stage \in {"decided", "torn", "sealed"}
  PROVE  Snapshot' = Snapshot /\ (Stage = "sealed" => manifest' = manifest)
<1>1. Decided /\ pc \in Final /\ ~AppMayLog
  BY DEF Stage, VerdictInv, Begun, Decided, QuietInv, TypeInv, TypeOK, FilesOK, Phases
<1>2. Stage = "sealed" => phase \in {"sealed", "frozen"}
  BY DEF Stage, TypeInv, TypeOK, FilesOK, Phases
<1>3. CASE WriteVerdict
  BY <1>1, <1>3 DEF WriteVerdict, Final
<1>4. CASE Quiet
  BY <1>1, <1>4 DEF Quiet, Snapshot
<1>5. CASE Seal
  BY <1>2, <1>5 DEF Seal, SealHash, SealOpenManifest, SealWriteManifest, Freeze, Writable,
    Snapshot
<1> QED
  BY <1>1, <1>3, <1>4, <1>5, StepShape DEF BeforeVerdict

\* The engine is a writer the readers may rely on, when the application leaves
\* no children behind.
THEOREM RunRests ==
  ASSUME Descendants = FALSE
  PROVE  Spec => RestsOnceDecided
<1>1. Init => QuietInv
  BY DEF Init, StoreInit, JsonNames, QuietInv, Decided
<1>2. TypeInv /\ VerdictInv /\ SealInv /\ QuietInv /\ [Next]_vars => QuietInv'
  BY QuietNext
<1>3. TypeInv /\ VerdictInv /\ SealInv /\ [Next]_vars => SealInv'
  BY SealNext
<1>4. TypeInv /\ VerdictInv /\ QuietInv /\ [Next]_vars =>
        [(Stage \in {"decided", "torn", "sealed"}) =>
           Snapshot' = Snapshot /\ (Stage = "sealed" => manifest' = manifest)]_vars
  BY RestStep
<1> QED
  BY <1>1, <1>2, <1>3, <1>4, TypeInit, TypeNext, VerdictInit, VerdictNext, SealInit, PTL
  DEF Spec, RestsOnceDecided

-------------------------------------------------------------------------------
(* The engine keeps the promise of Protocol. *)

\* What _ensure_coverage has achieved so far.
CoverInv ==
  pc = "coverage" => \A c \in Constraint : c < cursor => RowsOf(Assertions, c) # {}

LEMMA CoverInit == Init => CoverInv
BY DEF Init, CoverInv

LEMMA CoverNext ==
  ASSUME TypeInv, CoverInv, [Next]_vars
  PROVE  CoverInv'
<1>n. NotebookOK /\ cursor \in 0..Last + 1
  BY DEF TypeInv, TypeOK, ControlOK
<1> USE DEF CoverInv, Goto
<1>1. CASE StopApp
  BY <1>1 DEF StopApp, HappyPath, Constraint
<1>2. CASE CoverOne
  <2>1. cursor' = cursor + 1 /\ pc = "coverage"
    BY <1>2 DEF CoverOne
  <2>2. Assertions \subseteq Assertions' /\ RowsOf(Assertions', cursor) # {}
    <3>1. CASE \E e \in Assertions : e.cid = cursor
      BY <1>2, <3>1 DEF CoverOne, Assertions, RowsOf
    <3>2. CASE ~\E e \in Assertions : e.cid = cursor
      <4>1. Assertions' = Assertions \cup {Assertion(cursor, 0, "inconclusive", {}, 0)}
        BY <1>2, <1>n, <3>2, RecordAssertion DEF CoverOne
      <4>2. Assertion(cursor, 0, "inconclusive", {}, 0).cid = cursor
        BY DEF Assertion
      <4> QED
        BY <4>1, <4>2 DEF RowsOf
    <3> QED
      BY <3>1, <3>2
  <2>3. \A c \in Constraint : c < cursor + 1 => c < cursor \/ c = cursor
    BY <1>n, EngineAssumption DEF Constraint
  <2> QED
    BY <2>1, <2>2, <2>3 DEF RowsOf
<1>3. CASE pc' = "coverage" => pc = "coverage" /\ UNCHANGED <<rows, cursor>>
  BY <1>3 DEF Assertions
<1> QED
  BY <1>1, <1>2, <1>3 DEF Next, Verifier, Setup, Planning, Running, Finishing, CreateRun,
    WriteRequirements, StartApp, UseRunningApp, StartRaises, Healthy, Unreachable, AbandonPlan,
    RejectIr, BuildPlan, EngineRaises, Act, Observe, JudgeAssert, JudgeError, JudgeNothing,
    NextStep, PlanDone, RunnerRaises, InconclusiveOne, InconclusiveDone, StopRaises, FinishRaises,
    WriteVerdict, Seal, Crash, AppLogs, AppExits, vars, ctlVars, storeVars

\* The rules seen through the instance are the rules.
LEMMA PromiseRules ==
  /\ \A evidence, c : Promise!RowsOf(evidence, c) = RowsOf(evidence, c)
  /\ Promise!BuildVerdict(Assertions, Constraint, HappyPath) =
       BuildVerdict(Assertions, Constraint, HappyPath)
<1>1. \A evidence, c : Promise!RowsOf(evidence, c) = RowsOf(evidence, c)
  BY DEF Promise!RowsOf, RowsOf
<1>2. \A results : Promise!RollConstraint(results) = RollConstraint(results)
  BY DEF Promise!RollConstraint, RollConstraint
<1>3. \A evidence, c : Promise!ConstraintResult(evidence, c) = ConstraintResult(evidence, c)
  BY <1>1, <1>2 DEF Promise!ConstraintResult, ConstraintResult
<1>4. \A happy, others : Promise!RollRequirement(happy, others) = RollRequirement(happy, others)
  BY DEF Promise!RollRequirement, RollRequirement
<1>5. \A evidence : Promise!Confidence(evidence) = Confidence(evidence)
  BY Zenon DEF Promise!Confidence, Confidence, Promise!Cardinality, Cardinality
<1> QED
  BY <1>1, <1>3, <1>4, <1>5 DEF Promise!BuildVerdict, BuildVerdict

LEMMA PromiseStep ==
  ASSUME TypeInv, VerdictInv, CoverInv, [Next]_vars
  PROVE  [Promise!Next]_(Promise!protocolVars)
<1> USE DEF Promise!protocolVars
<1>1. CASE BeforeVerdict
  <2>1. json["verdict"] = NoFile /\ json'["verdict"] = NoFile /\ ~Begun /\ ~Begun'
    BY <1>1 DEF BeforeVerdict, VerdictInv, Decided, Begun
  <2>2. Stage = phase /\ Stage' = phase'
    BY <1>1, <2>1 DEF BeforeVerdict, Begun, Stage
  <2>3. CASE phase = "absent" /\ phase' = "open"
    <3>1. Promise!Create
      BY <1>1, <2>1, <2>2, <2>3 DEF BeforeVerdict, Promise!Create, Promise!Enter
    <3> QED
      BY <3>1 DEF Promise!Next
  <2>4. CASE phase' = phase /\ phase = "open"
    <3>1. Promise!Gather
      BY <1>1, <2>1, <2>2, <2>4 DEF BeforeVerdict, Promise!Gather
    <3> QED
      BY <3>1 DEF Promise!Next
  <2>5. CASE phase' = phase /\ phase # "open"
    BY <1>1, <2>1, <2>2, <2>5 DEF BeforeVerdict
  <2> QED
    BY <1>1, <2>3, <2>4, <2>5 DEF BeforeVerdict
<1>2. CASE WriteVerdict
  <2>1. \A c \in Constraint : RowsOf(Assertions, c) # {}
    BY <1>2, EngineAssumption DEF WriteVerdict, CoverInv, TypeInv, TypeOK, ControlOK, Constraint
  <2>2. /\ json["verdict"] = NoFile
        /\ json'["verdict"] = BuildVerdict(Assertions, Constraint, HappyPath)
    BY <1>2 DEF WriteVerdict, WriteJson, TypeInv, TypeOK, FilesOK, JsonNames
  <2>3. UNCHANGED Assertions /\ phase = "open" /\ phase' = "open"
    BY <1>2 DEF WriteVerdict, WriteJson, Writable, Assertions
  <2>4. CASE json'["verdict"] # NoFile
    <3>1. Promise!Conclude
      BY <2>2, <2>3, <2>4 DEF Stage, Promise!Conclude
    <3>2. Promise!Decide
      BY <2>1, <2>2, <2>3, <3>1, PromiseRules DEF Promise!Decide
    <3> QED
      BY <3>2 DEF Promise!Next
  <2>5. CASE json'["verdict"] = NoFile
    BY <2>2, <2>3, <2>5 DEF Stage
  <2> QED
    BY <2>4, <2>5
<1>3. CASE Quiet
  BY <1>3 DEF Quiet, Assertions, Stage
<1>4. CASE Seal
  <2>1. UNCHANGED <<Assertions, json>>
    BY <1>4 DEF Seal, SealHash, SealOpenManifest, SealWriteManifest, Freeze, Assertions
  <2>2. CASE SealOpenManifest \/ SealWriteManifest
    <3>1. Promise!OpenManifest \/ Promise!CloseManifest
      BY <2>2 DEF SealOpenManifest, SealWriteManifest, Stage, VerdictInv, Begun, Decided,
        Promise!OpenManifest, Promise!CloseManifest
    <3> QED
      BY <2>1, <3>1 DEF Promise!Next, Promise!SealRun
  <2>3. CASE SealHash \/ Freeze
    BY <2>1, <2>3 DEF SealHash, Writable, Freeze, Stage
  <2> QED
    BY <1>4, <2>2, <2>3 DEF Seal
<1> QED
  BY <1>1, <1>2, <1>3, <1>4, StepShape

\* verify() does what a verification run promises: evidence first, then one
\* verdict over all of it and over every constraint, then the seal.
THEOREM EngineKeepsPromise == Spec => KeepsPromise
<1>1. Init => Promise!Init
  BY DEF Init, StoreInit, JsonNames, RowFiles, Assertions, Stage, Promise!Init, Promise!StagesInit
<1>2. TypeInv /\ VerdictInv /\ CoverInv /\ [Next]_vars => CoverInv'
  BY CoverNext
<1>3. TypeInv /\ VerdictInv /\ CoverInv /\ [Next]_vars => [Promise!Next]_(Promise!protocolVars)
  BY PromiseStep
<1> QED
  BY <1>1, <1>2, <1>3, TypeInit, TypeNext, VerdictInit, VerdictNext, CoverInit, PTL
  DEF Spec, KeepsPromise, Promise!Spec

\* For its readers, a run of verify() goes through the stages of RunStages.
THEOREM EngineKeepsStages == Spec => Outside!StagesSpec
<1>1. Init => Outside!StagesInit
  BY DEF Init, StoreInit, Stage, Outside!StagesInit
<1>2. [Promise!Next]_(Promise!protocolVars) => [Outside!StagesNext]_Stage
  BY DEF Promise!protocolVars, Promise!Next, Promise!Create, Promise!Gather, Promise!Decide,
    Promise!SealRun, Promise!Enter, Promise!Conclude, Promise!OpenManifest,
    Promise!CloseManifest, Outside!StagesNext, Outside!Enter, Outside!Conclude,
    Outside!OpenManifest, Outside!CloseManifest
<1>3. Promise!Spec => Promise!Init /\ [][Promise!Next]_(Promise!protocolVars)
  BY DEF Promise!Spec
<1> QED
  BY <1>1, <1>2, <1>3, EngineKeepsPromise, PTL DEF Spec, KeepsPromise, Outside!StagesSpec
-------------------------------------------------------------------------------
(* What a run may claim. *)

\* Rows are only ever added, and none once the verdict is on its way.
LEMMA RowsStay ==
  ASSUME TypeInv, [Next]_vars
  PROVE  /\ Assertions \subseteq Assertions'
         /\ Observations \subseteq Observations'
<1>1. CASE BeforeVerdict
  BY <1>1 DEF BeforeVerdict
<1>2. CASE WriteVerdict \/ Quiet
  BY <1>2 DEF WriteVerdict, Quiet, Assertions, Observations
<1>3. CASE Seal
  BY <1>3 DEF Seal, SealHash, SealOpenManifest, SealWriteManifest, Freeze, Assertions,
    Observations
<1> QED
  BY <1>1, <1>2, <1>3, StepShape

\* verdict.json appears in one step only.
LEMMA VerdictAppears ==
  ASSUME TypeInv, VerdictInv, [Next]_vars, ~WriteVerdict
  PROVE  UNCHANGED json["verdict"]
<1>1. CASE Seal
  BY <1>1 DEF Seal, SealHash, SealOpenManifest, SealWriteManifest, Freeze
<1> QED
  BY <1>1, StepShape DEF BeforeVerdict, Quiet

\* The rows of the file are a notebook in the sense of the rules.
LEMMA RowsAreNotebook == TypeInv => Notebook(Assertions)
BY DEF TypeInv, TypeOK, NotebookOK, AssertionRows, Notebook

-------------------------------------------------------------------------------
(* A run that could not be carried out. *)

\* Constraint c has a row that says "could not look".
Doubted(c) == \E e \in Assertions : e.cid = c /\ e.result = "inconclusive"

Early == {"create", "requirements", "start", "health", "plan", "act", "observe", "judge"}

\* Past that loop, and not by way of an exception.
Certain == \/ pc = "stop" /\ ~exn
           \/ pc \in {"coverage", "seal", "done"}
           \/ Decided

\* Up to the runner, the cursor is where every loop over the constraints starts;
\* once the plan is given up, the loop of _inconclusive_all leaves doubt behind
\* it, and its end means doubt everywhere.
AbandonInv ==
  /\ pc \in Early => cursor = HappyPath /\ cause = "none"
  /\ pc = "inconclusive" => \A c \in Constraint : c < cursor => Doubted(c)
  /\ cause # "none" /\ Certain => \A c \in Constraint : Doubted(c)

LEMMA AbandonInit == Init => AbandonInv
BY DEF Init, StoreInit, JsonNames, AbandonInv, Certain, Decided

LEMMA AbandonNext ==
  ASSUME TypeInv, VerdictInv, AbandonInv, [Next]_vars
  PROVE  AbandonInv'
<1>n. NotebookOK /\ cursor \in 0..Last + 1
  BY DEF TypeInv, TypeOK, ControlOK
<1>m. \A c : Doubted(c) => Doubted(c)'
  BY RowsStay DEF Doubted
<1>v. ~WriteVerdict => Decided' = Decided
  BY VerdictAppears DEF Decided
<1>d. Decided => pc \in Final
  BY DEF VerdictInv
<1>w. WriteVerdict => pc = "coverage" /\ pc' = "seal" /\ cause' = cause
  BY DEF WriteVerdict, Goto
<1>0. \A c \in Constraint : ~(c < HappyPath)
  BY EngineAssumption DEF Constraint, HappyPath
<1> USE DEF AbandonInv, Certain, Early, Final, Goto
<1>1. CASE Setup \/ Planning
  BY <1>1, <1>0, <1>v, <1>d, <1>w DEF Setup, Planning, CreateRun, WriteRequirements, StartApp,
    UseRunningApp, StartRaises, Healthy, Unreachable, AbandonPlan, RejectIr, BuildPlan,
    EngineRaises
<1>2. CASE Running
  BY <1>2, <1>0, <1>v, <1>d, <1>w DEF Running, Act, Observe, JudgeAssert, JudgeError,
    JudgeNothing,
    NextStep, PlanDone, RunnerRaises
<1>3. CASE InconclusiveOne
  <2>1. pc = "inconclusive" /\ pc' = "inconclusive" /\ cursor' = cursor + 1
    BY <1>3 DEF InconclusiveOne
  <2>2. Assertions' = Assertions \cup {Assertion(cursor, 0, "inconclusive", {}, 0)}
    BY <1>3, <1>n, RecordAssertion DEF InconclusiveOne
  <2>3. \E e \in Assertions' : e.cid = cursor /\ e.result = "inconclusive"
    <3>1. LET e == Assertion(cursor, 0, "inconclusive", {}, 0)
          IN  e.cid = cursor /\ e.result = "inconclusive"
      BY DEF Assertion
    <3> QED
      BY <2>2, <3>1
  <2>4. \A c \in Constraint : c < cursor + 1 => c < cursor \/ c = cursor
    BY <1>n, EngineAssumption DEF Constraint
  <2>5. ~Decided'
    BY <2>1, <1>v, <1>d, <1>w
  <2>6. \A c \in Constraint : c < cursor' => Doubted(c)'
    BY <2>1, <2>3, <2>4, <1>m DEF Doubted
  <2> QED
    BY <2>1, <2>5, <2>6
<1>4. CASE InconclusiveDone
  <2>1. \A c \in Constraint : c < cursor
    BY <1>4, <1>n, EngineAssumption DEF InconclusiveDone, Constraint
  <2> QED
    BY <1>4, <2>1, <1>m DEF InconclusiveDone
<1>5. CASE StopApp \/ StopRaises \/ FinishRaises
  BY <1>5, <1>m, <1>v, <1>d, <1>w DEF StopApp, StopRaises, FinishRaises
<1>6. CASE CoverOne \/ WriteVerdict
  BY <1>6, <1>m, <1>v, <1>d DEF CoverOne, WriteVerdict
<1>7. CASE Seal
  BY <1>7, <1>m, <1>v, <1>d, <1>w DEF Seal
<1>8. CASE Crash \/ AppLogs \/ AppExits \/ UNCHANGED vars
  BY <1>8, <1>m, <1>v, <1>d, <1>w DEF Crash, Terminal, AppLogs, AppExits, vars, ctlVars
<1> QED
  BY <1>1, <1>2, <1>3, <1>4, <1>5, <1>6, <1>7, <1>8 DEF Next, Verifier, Finishing

LEMMA AbandonImplies ==
  ASSUME TypeInv, VerdictInv, AbandonInv
  PROVE  AbandonedRunClaimsNothing
<1> SUFFICES ASSUME Decided, cause # "none" PROVE
      Verdict = "INCONCLUSIVE" \/
      (Verdict = "FAILED" /\ \E e \in RowsOf(Assertions, HappyPath) : e.result = "fail")
  BY DEF AbandonedRunClaimsNothing
<1> DEFINE happy == ConstraintResult(Assertions, HappyPath)
<1>1. HappyPath \in Constraint
  BY EngineAssumption DEF HappyPath, Constraint
<1>2. PICK e \in Assertions : e.cid = HappyPath /\ e.result = "inconclusive"
  BY <1>1 DEF AbandonInv, Certain, Doubted
<1>3. happy \in Results /\ happy # "pass"
  BY <1>2, RowsAreNotebook, ConstraintRule DEF RowsOf
<1>4. happy = "fail" => \E r \in RowsOf(Assertions, HappyPath) : r.result = "fail"
  BY RowsAreNotebook, ConstraintRule
<1>5. Verdict = RollRequirement(happy,
        {ConstraintResult(Assertions, c) : c \in Constraint \ {HappyPath}})
  BY DEF VerdictInv, Verdict, BuildVerdict
<1> QED
  BY <1>3, <1>4, <1>5 DEF RollRequirement, Results

\* Whatever goes wrong before the plan has been run to its end, the run never
\* speaks for the application.
THEOREM AbandonedStands == Spec => []AbandonedRunClaimsNothing
<1>1. TypeInv /\ VerdictInv /\ AbandonInv /\ [Next]_vars => AbandonInv'
  BY AbandonNext
<1>2. TypeInv /\ VerdictInv /\ AbandonInv => AbandonedRunClaimsNothing
  BY AbandonImplies
<1> QED
  BY <1>1, <1>2, TypeInit, TypeNext, VerdictInit, VerdictNext, AbandonInit, PTL DEF Spec

-------------------------------------------------------------------------------
(* A run that is PROVEN. *)

\* Where a row is added that does not come from an assert step of the plan, it
\* says inconclusive.
LEMMA ConclusiveRows ==
  ASSUME TypeInv, [Next]_vars, ~JudgeAssert
  PROVE  \A e \in Assertions' : e.result # "inconclusive" => e \in Assertions
<1>n. NotebookOK
  BY DEF TypeInv, TypeOK
<1>a. \A cid, step, cites, src :
        Assertion(cid, step, "inconclusive", cites, src).result = "inconclusive"
  BY DEF Assertion
<1>k. UNCHANGED rows => UNCHANGED Assertions
  BY DEF Assertions
<1>1. CASE Setup \/ Planning
  BY <1>1, <1>k DEF Setup, Planning, CreateRun, WriteRequirements, StartApp, UseRunningApp,
    StartRaises, Healthy, Unreachable, AbandonPlan, RejectIr, BuildPlan, EngineRaises, Create,
    storeVars
<1>2. CASE Act \/ Observe
  BY <1>2, <1>n, RecordAction, RecordObservation DEF Act, Observe
<1>3. CASE JudgeError
  BY <1>3, <1>n, <1>a, RecordAssertion DEF JudgeError
<1>4. CASE InconclusiveOne \/ CoverOne
  BY <1>4, <1>n, <1>a, <1>k, RecordAssertion DEF InconclusiveOne, CoverOne
<1>5. CASE JudgeNothing \/ PlanDone \/ RunnerRaises \/ InconclusiveDone \/ StopApp \/ StopRaises
           \/ FinishRaises \/ WriteVerdict \/ Crash \/ AppExits
  BY <1>5, <1>k DEF JudgeNothing, PlanDone, RunnerRaises, InconclusiveDone, StopApp,
    StopRaises, FinishRaises,
    WriteVerdict, Crash, AppExits, storeVars
<1>6. CASE Seal
  BY <1>6, <1>k DEF Seal, SealHash, SealOpenManifest, SealWriteManifest, Freeze
<1>7. CASE AppLogs \/ UNCHANGED vars
  BY <1>7, <1>k DEF AppLogs, vars, storeVars
<1> QED
  BY <1>1, <1>2, <1>3, <1>4, <1>5, <1>6, <1>7 DEF Next, Verifier, Running, Finishing

\* The row has been seen: by an observation for the same constraint.
Witnessed(e) == \E o \in Observations : o.cid = e.cid /\ o.id \in e.cites

\* When a step is judged, the observation just made is of its action.
WitnessInv ==
  /\ pc = "judge" => \E o \in Observations :
       o.id = counter["O"] /\ o.cid = Current.cid /\ o.action = counter["A"]
  /\ \A e \in Assertions : e.result = "pass" => Witnessed(e)

LEMMA WitnessInit == Init => WitnessInv
BY DEF Init, StoreInit, RowFiles, Assertions, WitnessInv

LEMMA WitnessNext ==
  ASSUME TypeInv, WitnessInv, [Next]_vars
  PROVE  WitnessInv'
<1>n. NotebookOK
  BY DEF TypeInv, TypeOK
<1>1. \A e : Witnessed(e) => Witnessed(e)'
  BY RowsStay DEF Witnessed
<1>2. pc' = "judge" => \E o \in Observations' :
        o.id = counter'["O"] /\ o.cid = Current'.cid /\ o.action = counter'["A"]
  <2>1. CASE Observe
    <3> DEFINE row == [id |-> NextId("O"), cid |-> Current.cid, action |-> counter["A"]]
    <3>1. Record("O", "observations", row) /\ UNCHANGED <<json, ip>>
      BY <2>1 DEF Observe
    <3>2. row \in Observations'
      BY <3>1, <1>n, RecordObservation
    <3>3. counter'["O"] = NextId("O") /\ counter'["A"] = counter["A"]
      BY <3>1, <1>n DEF Record, NotebookOK, Prefixes
    <3>4. Current' = Current
      BY <3>1 DEF Current, Steps
    <3>5. row.id = NextId("O") /\ row.cid = Current.cid /\ row.action = counter["A"]
      OBVIOUS
    <3> HIDE DEF row
    <3> QED
      BY <3>2, <3>3, <3>4, <3>5
  <2>2. CASE ~Observe
    <3>1. pc' = "judge" => pc = "judge" /\ UNCHANGED <<rows, counter, json, ip>>
      BY <2>2 DEF Next, Verifier, Setup, Planning, Running, Finishing, CreateRun,
        WriteRequirements, StartApp, UseRunningApp, StartRaises, Healthy, Unreachable,
        AbandonPlan,
        RejectIr, BuildPlan, EngineRaises, Act, JudgeAssert, JudgeError, JudgeNothing,
        NextStep, PlanDone, RunnerRaises, InconclusiveOne, InconclusiveDone, StopApp,
        StopRaises, FinishRaises,
        CoverOne, WriteVerdict, Seal, Crash, AppLogs, AppExits, vars, ctlVars, storeVars, Goto
    <3> QED
      BY <3>1 DEF WitnessInv, Observations, Current, Steps
  <2> QED
    BY <2>1, <2>2
<1>3. ASSUME NEW e \in Assertions', e.result = "pass"
      PROVE  Witnessed(e)'
  <2>1. CASE e \in Assertions
    BY <1>1, <1>3, <2>1 DEF WitnessInv
  <2>2. CASE e \notin Assertions
    <3>1. JudgeAssert
      BY <1>3, <2>2, ConclusiveRows
    <3>2. PICK result \in Judgements(Current) : \E cites \in Cites(Current, result) :
            Record("E", "assertions",
                   Assertion(Current.cid, ip, result, cites,
                             IF mode = "browser" THEN 0 ELSE Judged(Current).src))
      BY <3>1 DEF JudgeAssert
    <3>3. PICK cites \in Cites(Current, result) :
            Record("E", "assertions",
                   Assertion(Current.cid, ip, result, cites,
                             IF mode = "browser" THEN 0 ELSE Judged(Current).src))
      BY <3>2
    <3>4. e = Assertion(Current.cid, ip, result, cites,
                        IF mode = "browser" THEN 0 ELSE Judged(Current).src)
      BY <2>2, <3>3, <1>n, RecordAssertion
    <3>5. result = "pass" /\ e.cid = Current.cid /\ e.cites = cites
      BY <3>4, <1>3 DEF Assertion
    <3>6. Current.kind # "unsupported"
      BY <3>5 DEF Judgements
    <3>7. cites = {counter["O"]}
      BY <3>5, <3>6 DEF Cites
    <3> QED
      BY <3>1, <3>5, <3>7, RowsStay DEF JudgeAssert, WitnessInv, Witnessed
  <2> QED
    BY <2>1, <2>2
<1> QED
  BY <1>2, <1>3 DEF WitnessInv

LEMMA WitnessImplies ==
  ASSUME TypeInv, VerdictInv, WitnessInv, AbandonedRunClaimsNothing
  PROVE  ProvenIsWitnessed
<1> SUFFICES ASSUME Decided, Verdict = "PROVEN"
             PROVE  /\ cause = "none"
                    /\ \A c \in Constraint : \E e \in Passes(c), o \in Observations :
                         o.cid = c /\ o.id \in e.cites
  BY DEF ProvenIsWitnessed
<1>1. cause = "none"
  BY DEF AbandonedRunClaimsNothing
<1>2. Verdict = BuildVerdict(Assertions, Constraint, HappyPath).verdict
  BY DEF VerdictInv, Verdict
<1>3. HappyPath \in Constraint
  BY EngineAssumption DEF HappyPath, Constraint
<1>4. ASSUME NEW c \in Constraint
      PROVE  \E e \in Passes(c), o \in Observations : o.cid = c /\ o.id \in e.cites
  <2>1. ConstraintResult(Assertions, c) = "pass"
    BY <1>2, <1>3, RowsAreNotebook, ProvenRule
  <2>2. PICK e \in RowsOf(Assertions, c) : e.result = "pass"
    BY <2>1, RowsAreNotebook, ConstraintRule
  <2>3. e \in Passes(c) /\ e \in Assertions /\ e.cid = c
    BY <2>2 DEF Passes, RowsOf
  <2>4. PICK o \in Observations : o.cid = e.cid /\ o.id \in e.cites
    BY <2>2, <2>3 DEF WitnessInv, Witnessed
  <2> QED
    BY <2>3, <2>4
<1> QED
  BY <1>1, <1>4

\* A PROVEN requirement has been looked at: the plan was run to its end, and each
\* constraint has a passing row decided on an observation made for it.
THEOREM ProvenStands == Spec => []ProvenIsWitnessed
<1>1. TypeInv /\ WitnessInv /\ [Next]_vars => WitnessInv'
  BY WitnessNext
<1>2. TypeInv /\ VerdictInv /\ WitnessInv /\ AbandonedRunClaimsNothing => ProvenIsWitnessed
  BY WitnessImplies
<1> QED
  BY <1>1, <1>2, TypeInit, TypeNext, VerdictInit, VerdictNext, WitnessInit, AbandonedStands, PTL
  DEF Spec

-------------------------------------------------------------------------------
(* A constraint the plan does not cover. *)

\* Some assert step of the plan is about c.
Covers(c) == \E i \in DOMAIN Steps : Steps[i].kind \in AssertKinds /\ Steps[i].cid = c

\* From the runner on there is a plan; before, no row passes, and afterwards
\* a passing row belongs to a constraint with an assert step.
CoverageInv ==
  /\ pc \in {"inconclusive", "coverage", "seal", "done"} \/ Decided => json["plan"] \in PlanFiles
  /\ pc = "stop" /\ ~exn => json["plan"] \in PlanFiles
  /\ \A e \in Assertions : e.result = "pass" => json["plan"] \in PlanFiles /\ Covers(e.cid)

\* Every plan that is written is a plan file, and it is written once.
LEMMA PlanAppears ==
  ASSUME TypeInv, [Next]_vars
  PROVE  \/ UNCHANGED json["plan"]
         \/ json["plan"] = NoFile /\ json'["plan"] \in PlanFiles
<1>n. DOMAIN json = JsonNames
  BY DEF TypeInv, TypeOK, FilesOK
<1>1. CASE Setup \/ Planning
  <2>1. \A s \in Plans \cup {<<>>} : PlanFile(s) \in PlanFiles
    BY DEF PlanFiles
  <2> QED
    BY <1>1, <1>n, <2>1 DEF Setup, Planning, CreateRun, WriteRequirements, StartApp,
      UseRunningApp,
      StartRaises, Healthy, Unreachable, AbandonPlan, RejectIr, BuildPlan, EngineRaises, Create,
      WriteJson, JsonNames, storeVars
<1>2. CASE Running
  BY <1>2 DEF Running, Act, Observe, JudgeAssert, JudgeError, JudgeNothing, PlanDone,
    RunnerRaises, storeVars
<1>3. CASE Finishing \/ Crash \/ AppLogs \/ AppExits \/ UNCHANGED vars
  BY <1>3, <1>n DEF Finishing, InconclusiveOne, InconclusiveDone, StopApp, StopRaises,
    FinishRaises, CoverOne,
    WriteVerdict, WriteJson, JsonNames, Seal, SealHash, SealOpenManifest, SealWriteManifest,
    Freeze, Crash, AppLogs, AppExits, vars, storeVars
<1> QED
  BY <1>1, <1>2, <1>3 DEF Next, Verifier

LEMMA CoverageInit == Init => CoverageInv
BY DEF Init, StoreInit, RowFiles, JsonNames, Assertions, Decided, CoverageInv

LEMMA CoverageNext ==
  ASSUME TypeInv, VerdictInv, CoverageInv, [Next]_vars
  PROVE  CoverageInv'
<1>n. NotebookOK /\ json["plan"] \in {NoFile} \cup PlanFiles
  BY DEF TypeInv, TypeOK, FilesOK
<1>p. json["plan"] \in PlanFiles => json'["plan"] \in PlanFiles
  BY PlanAppears
<1>d. ~WriteVerdict => Decided' = Decided
  BY VerdictAppears DEF Decided
<1>f. pc \in {"act", "observe", "judge"} => json["plan"] \in PlanFiles
  BY DEF TypeInv, InPlan
<1>1. /\ pc' \in {"inconclusive", "coverage", "seal", "done"} => json'["plan"] \in PlanFiles
      /\ pc' = "stop" /\ ~exn' => json'["plan"] \in PlanFiles
  <2>1. CASE Unreachable \/ RejectIr
    <3>1. json["plan"] = NoFile /\ json'["plan"] = PlanFile(<<>>)
      BY <2>1 DEF Unreachable, RejectIr, AbandonPlan, WriteJson, TypeInv, TypeOK, FilesOK,
        JsonNames
    <3> QED
      BY <3>1 DEF PlanFiles
  <2>2. CASE ~(Unreachable \/ RejectIr)
    <3> DEFINE Late == {"inconclusive", "coverage", "seal", "done"}
    <3> DEFINE From == pc \in Late \cup {"act", "observe", "judge"} \/ (pc = "stop" /\ ~exn)
    <3> DEFINE To == pc' \in Late \/ (pc' = "stop" /\ ~exn')
    <3>1. To => From \/ BuildPlan
      <4>1. CASE Setup \/ Planning
        BY <2>2, <4>1 DEF Setup, Planning, CreateRun, WriteRequirements, StartApp,
          UseRunningApp, StartRaises, Healthy, EngineRaises, Goto
      <4>2. CASE Running
        BY <4>2 DEF Running, Act, Observe, JudgeAssert, JudgeError, JudgeNothing, NextStep,
          PlanDone, RunnerRaises, Goto
      <4>3. CASE InconclusiveOne \/ InconclusiveDone \/ CoverOne \/ WriteVerdict \/ Seal
        BY <4>3 DEF InconclusiveOne, InconclusiveDone, CoverOne, WriteVerdict, Seal, Goto
      <4>4. CASE StopApp
        BY <4>4, Zenon DEF StopApp, Goto
      <4>5. CASE StopRaises \/ FinishRaises
        BY <4>5 DEF StopRaises, FinishRaises, Goto
      <4>6. CASE Crash \/ AppLogs \/ AppExits \/ UNCHANGED vars
        BY <4>6 DEF Crash, AppLogs, AppExits, vars, ctlVars, Goto
      <4> QED
        BY <4>1, <4>2, <4>3, <4>4, <4>5, <4>6 DEF Next, Verifier, Finishing
    <3>2. BuildPlan => json'["plan"] \in PlanFiles \/ ~To
      BY DEF BuildPlan, Goto
    <3>3. From => json["plan"] \in PlanFiles
      BY <1>f DEF CoverageInv
    <3>4. To => json'["plan"] \in PlanFiles
      <4> HIDE DEF From, To
      <4> QED
        BY <3>1, <3>2, <3>3, <1>p
    <3> QED
      BY <3>4, Zenon
  <2> QED
    BY <2>1, <2>2
<1>2. Decided' => json'["plan"] \in PlanFiles
  <2>1. WriteVerdict => pc = "coverage"
    BY DEF WriteVerdict
  <2> QED
    BY <2>1, <1>p, <1>d DEF CoverageInv
<1>3. ASSUME NEW e \in Assertions', e.result = "pass"
      PROVE  json'["plan"] \in PlanFiles /\ Covers(e.cid)'
  <2>1. json["plan"] \in PlanFiles /\ Covers(e.cid)
    <3>1. CASE e \in Assertions
      BY <1>3, <3>1 DEF CoverageInv
    <3>2. CASE e \notin Assertions
      <4>1. JudgeAssert
        BY <1>3, <3>2, ConclusiveRows
      <4>2. \E result, cites, src :
              Record("E", "assertions", Assertion(Current.cid, ip, result, cites, src))
        BY <4>1 DEF JudgeAssert
      <4>3. e.cid = Current.cid
        <5>1. PICK result, cites, src :
                Record("E", "assertions", Assertion(Current.cid, ip, result, cites, src))
          BY <4>2
        <5>2. e = Assertion(Current.cid, ip, result, cites, src)
          BY <3>2, <5>1, <1>n, RecordAssertion
        <5> QED
          BY <5>2 DEF Assertion
      <4>4. pc = "judge" /\ Current.kind \in AssertKinds
        BY <4>1 DEF JudgeAssert
      <4>5. ip \in DOMAIN Steps
        BY <4>4 DEF TypeInv, InPlan
      <4> QED
        BY <4>3, <4>4, <4>5, <1>f DEF Covers, Current
    <3> QED
      BY <3>1, <3>2
  <2>2. UNCHANGED json["plan"]
    <3>1. NoFile \notin PlanFiles
      BY NoFileAssumption DEF PlanFiles
    <3> QED
      BY <2>1, <3>1, PlanAppears
  <2> QED
    BY <2>1, <2>2, <1>p DEF Covers, Steps
<1> QED
  BY <1>1, <1>2, <1>3 DEF CoverageInv

\* The rule that counts: a constraint the plan has no assert step for has no
\* passing row, so its result is not "pass" and the requirement not PROVEN.
LEMMA CoverageImplies ==
  ASSUME TypeInv, VerdictInv, CoverageInv
  PROVE  UncoveredNeverPasses
<1> SUFFICES ASSUME Decided, NEW c \in json["plan"].uncovered
             PROVE  json["verdict"].rows[c] # "pass" /\ Verdict # "PROVEN"
  BY DEF UncoveredNeverPasses
<1>n. Notebook(Assertions)
  BY RowsAreNotebook
<1>v. json["verdict"] = BuildVerdict(Assertions, Constraint, HappyPath)
  BY DEF VerdictInv
<1>1. c \in Constraint /\ ~Covers(c)
  <2>1. json["plan"] \in PlanFiles
    BY DEF CoverageInv
  <2>2. json["plan"].uncovered = Uncovered(Steps)
    BY <2>1 DEF PlanFiles, PlanFile, Steps
  <2> QED
    BY <2>2 DEF Uncovered, Covers
<1>2. ConstraintResult(Assertions, c) # "pass"
  <2>1. \A e \in RowsOf(Assertions, c) : e.result # "pass"
    BY <1>1 DEF CoverageInv, RowsOf
  <2> QED
    BY <2>1, <1>n, ConstraintRule
<1>3. json["verdict"].rows[c] = ConstraintResult(Assertions, c)
  BY <1>1, <1>v DEF BuildVerdict
<1>4. HappyPath \in Constraint
  BY EngineAssumption DEF HappyPath, Constraint
<1>5. Verdict # "PROVEN"
  BY <1>1, <1>2, <1>4, <1>n, <1>v, ProvenRule DEF Verdict
<1> QED
  BY <1>2, <1>3, <1>5

\* No run claims a constraint its plan left uncovered.
THEOREM UncoveredStands == Spec => []UncoveredNeverPasses
BY CoverageImplies, CoverageInit, CoverageNext, TypeInit, TypeNext, VerdictInit, VerdictNext,
  PTL DEF Spec

-------------------------------------------------------------------------------
(* What a result was decided on. *)

\* x, if it was answered, is the latest exchange of its channel before step n.
Latest(x, channel, n) ==
  x.ok => /\ x.src \in 1..n - 1
          /\ Steps[x.src].kind = channel
          /\ \A i \in x.src + 1..n - 1 : Steps[i].kind # channel

\* Nothing was exchanged before the plan is run; afterwards `last` and `query`
\* are the latest of their channels, up to the step under way once Act has run
\* it; and a result of the plan is a result of the plan on disk.
SourceInv ==
  /\ pc \in {"create", "requirements", "start", "health", "plan"} => last = None /\ query = None
  /\ pc = "act" => Latest(last, "request", ip) /\ Latest(query, "query", ip)
  /\ pc \in {"observe", "judge"} =>
       Latest(last, "request", ip + 1) /\ Latest(query, "query", ip + 1)
  /\ \A e \in Assertions :
       e.step > 0 /\ e.result # "inconclusive" => json["plan"] \in PlanFiles

LEMMA SourceInit == Init => SourceInv /\ JudgedOnLatest
BY DEF Init, StoreInit, RowFiles, Assertions, SourceInv, JudgedOnLatest

\* Act leaves the latest exchange and the latest SQL result behind, whatever the
\* step is and however it ends.
LEMMA ActKeepsLatest ==
  ASSUME TypeInv, Act, Latest(last, "request", ip), Latest(query, "query", ip)
  PROVE  Latest(last', "request", ip + 1) /\ Latest(query', "query", ip + 1)
<1>t. ip \in Nat \ {0} /\ last \in Exchanges /\ query \in Exchanges
  BY DEF TypeInv, TypeOK, ControlOK
<1>1. pc = "act" /\ ip <= Len(Steps) /\ Perform(Current)
  BY DEF Act
<1>2. \A channel : Latest([src |-> ip, ok |-> FALSE], channel, ip + 1) /\ Latest(None, channel,
  ip + 1)
  BY DEF Latest, None
<1>3. \A channel : Current.kind = channel => Latest([src |-> ip, ok |-> TRUE], channel, ip + 1)
  BY <1>t DEF Latest, Current
<1>4. \A channel, x : Latest(x, channel, ip) /\ Current.kind # channel => Latest(x, channel,
  ip + 1)
  <2> SUFFICES ASSUME NEW channel, NEW x, Latest(x, channel, ip), Current.kind # channel, x.ok
               PROVE  /\ x.src \in 1..(ip + 1) - 1
                      /\ Steps[x.src].kind = channel
                      /\ \A i \in x.src + 1..(ip + 1) - 1 : Steps[i].kind # channel
    BY DEF Latest
  <2>1. /\ x.src \in 1..ip - 1
        /\ Steps[x.src].kind = channel
        /\ \A i \in x.src + 1..ip - 1 : Steps[i].kind # channel
    BY DEF Latest
  <2>2. \A i \in x.src + 1..(ip + 1) - 1 : i \in x.src + 1..ip - 1 \/ i = ip
    BY <1>t, <2>1
  <2> QED
    BY <1>t, <2>1, <2>2 DEF Current
<1>5. CASE Current.kind = "request"
  <2>1. PICK x \in {[src |-> ip, ok |-> TRUE], [src |-> ip, ok |-> FALSE], None} : last' = x
    BY <1>1, <1>5 DEF Perform, AssertKinds
  <2>2. query' = query
    BY <1>1, <1>5 DEF Perform, AssertKinds
  <2> QED
    BY <1>2, <1>3, <1>4, <1>5, <2>1, <2>2
<1>6. CASE Current.kind = "query"
  <2>1. PICK ok \in BOOLEAN : query' = [src |-> ip, ok |-> ok]
    BY <1>1, <1>6 DEF Perform, AssertKinds
  <2>2. last' = last
    BY <1>1, <1>6 DEF Perform, AssertKinds
  <2> QED
    BY <1>2, <1>3, <1>4, <1>6, <2>1, <2>2
<1>7. CASE Current.kind \in {"act"} \cup AssertKinds
  <2>1. last' = last /\ query' = query
    BY <1>1, <1>7 DEF Perform, AssertKinds
  <2> QED
    BY <1>4, <1>7, <2>1 DEF AssertKinds
<1> QED
  BY <1>1, <1>5, <1>6, <1>7 DEF Perform

\* A conclusive row of an assert step is about the latest exchange of its channel.
LEMMA JudgedRow ==
  ASSUME TypeInv, SourceInv, JudgeAssert, mode # "browser",
         NEW e \in Assertions', e \notin Assertions, e.result # "inconclusive"
  PROVE  /\ e.step = ip
         /\ LET channel == IF Steps[ip].kind = "cell" THEN "query" ELSE "request"
            IN  /\ e.src \in 1..ip - 1
                /\ Steps[e.src].kind = channel
                /\ \A i \in e.src + 1..ip - 1 : Steps[i].kind # channel
<1>n. NotebookOK /\ ip \in Nat \ {0}
  BY DEF TypeInv, TypeOK, ControlOK
<1>1. PICK result, cites :
        /\ result \in Judgements(Current)
        /\ Record("E", "assertions",
                  Assertion(Current.cid, ip, result, cites,
                            IF mode = "browser" THEN 0 ELSE Judged(Current).src))
  BY DEF JudgeAssert
<1>2. e = Assertion(Current.cid, ip, result, cites,
                    IF mode = "browser" THEN 0 ELSE Judged(Current).src)
  BY <1>1, <1>n, RecordAssertion
<1>3. e.step = ip /\ e.src = Judged(Current).src /\ result # "inconclusive"
  BY <1>2 DEF Assertion
<1>4. Judged(Current).ok /\ Current.kind \in AssertKinds
  BY <1>1, <1>3 DEF Judgements, JudgeAssert
<1> DEFINE channel == IF Current.kind = "cell" THEN "query" ELSE "request"
<1>5. Latest(Judged(Current), channel, ip + 1)
  BY DEF JudgeAssert, SourceInv, Judged
<1>6. Current.kind # channel
  BY <1>4 DEF AssertKinds
<1>7. /\ e.src \in 1..(ip + 1) - 1
      /\ Steps[e.src].kind = channel
      /\ \A i \in e.src + 1..(ip + 1) - 1 : Steps[i].kind # channel
  BY <1>3, <1>4, <1>5 DEF Latest
<1> HIDE DEF channel
<1>8. e.src # ip
  BY <1>6, <1>7 DEF Current
<1>9. /\ e.src \in 1..ip - 1
      /\ \A i \in e.src + 1..ip - 1 : Steps[i].kind # channel
  BY <1>n, <1>7, <1>8
<1> QED
  BY <1>3, <1>7, <1>9 DEF channel, Current

LEMMA SourceNext ==
  ASSUME TypeInv, SourceInv, JudgedOnLatest, [Next]_vars
  PROVE  SourceInv' /\ JudgedOnLatest'
<1>m. mode' = mode
  BY DEF Next, Verifier, Setup, Planning, Running, Finishing, CreateRun, WriteRequirements,
    StartApp, UseRunningApp, StartRaises, Healthy, Unreachable, AbandonPlan, RejectIr, BuildPlan,
    EngineRaises, Act, Observe, JudgeAssert, JudgeError, JudgeNothing, PlanDone, RunnerRaises,
    InconclusiveOne, InconclusiveDone, StopApp, StopRaises, FinishRaises, CoverOne,
    WriteVerdict, Seal, Crash,
    AppLogs, AppExits, vars, ctlVars
<1>p. json["plan"] \in PlanFiles => UNCHANGED json["plan"]
  <2>1. NoFile \notin PlanFiles
    BY NoFileAssumption DEF PlanFiles
  <2> QED
    BY <2>1, PlanAppears
<1>j. JudgeAssert => UNCHANGED json["plan"] /\ json["plan"] \in PlanFiles
  BY DEF JudgeAssert, TypeInv, InPlan
<1>1. /\ pc' \in {"create", "requirements", "start", "health", "plan"} =>
           last' = None /\ query' = None
      /\ pc' = "act" => Latest(last, "request", ip)' /\ Latest(query, "query", ip)'
      /\ pc' \in {"observe", "judge"} =>
           Latest(last, "request", ip + 1)' /\ Latest(query, "query", ip + 1)'
  <2>1. CASE Setup \/ Planning
    <3>1. \A channel, n : Latest(None, channel, n)'
      BY DEF Latest, None
    <3> QED
      BY <2>1, <3>1 DEF Setup, Planning, CreateRun, WriteRequirements, StartApp, UseRunningApp,
        StartRaises, Healthy, Unreachable, AbandonPlan, RejectIr, BuildPlan, EngineRaises, Goto,
        SourceInv
  <2>2. CASE Act
    <3>1. Latest(last', "request", ip + 1) /\ Latest(query', "query", ip + 1)
      BY <2>2, ActKeepsLatest DEF Act, SourceInv
    <3>2. pc' = "observe" /\ UNCHANGED <<json, ip>>
      BY <2>2 DEF Act, Goto
    <3>3. Steps' = Steps
      BY <3>2 DEF Steps
    <3> QED
      BY <3>1, <3>2, <3>3 DEF Latest
  <2>3. CASE Observe
    <3>1. pc = "observe" /\ pc' = "judge" /\ UNCHANGED <<json, ip, last, query>>
      BY <2>3 DEF Observe, Goto
    <3> QED
      BY <3>1 DEF SourceInv, Latest, Steps
  <2>4. CASE JudgeAssert \/ JudgeError \/ JudgeNothing
    <3>1. pc = "judge" /\ pc' = "act" /\ ip' = ip + 1 /\ UNCHANGED <<json, last, query>>
      BY <2>4 DEF JudgeAssert, JudgeError, JudgeNothing, NextStep, Goto, storeVars
    <3> QED
      BY <3>1 DEF SourceInv, Latest, Steps
  <2>5. CASE PlanDone \/ RunnerRaises \/ Finishing \/ Crash
    <3>1. pc' \in {"inconclusive", "stop", "raised", "coverage", "seal", "done", "crashed"}
      BY <2>5 DEF PlanDone, RunnerRaises, Finishing, InconclusiveOne, InconclusiveDone, StopApp,
        StopRaises, FinishRaises, CoverOne, WriteVerdict, Seal, Crash, Goto
    <3> QED
      BY <3>1
  <2>6. CASE AppLogs \/ AppExits \/ UNCHANGED vars
    <3>1. UNCHANGED <<json, pc, ip, last, query>>
      BY <2>6 DEF AppLogs, AppExits, vars, ctlVars, storeVars
    <3> QED
      BY <3>1 DEF SourceInv, Latest, Steps
  <2> QED
    BY <2>1, <2>2, <2>3, <2>4, <2>5, <2>6 DEF Next, Verifier, Running
<1>2. ASSUME NEW e \in Assertions', e.step > 0, e.result # "inconclusive"
      PROVE  json'["plan"] \in PlanFiles
  BY <1>2, <1>p, <1>j, ConclusiveRows DEF SourceInv
<1>3. ASSUME mode # "browser", NEW e \in Assertions', e.step > 0, e.result # "inconclusive"
      PROVE  LET channel == IF Steps'[e.step].kind = "cell" THEN "query" ELSE "request"
             IN  /\ e.src \in 1..e.step - 1
                 /\ Steps'[e.src].kind = channel
                 /\ \A i \in e.src + 1..e.step - 1 : Steps'[i].kind # channel
  <2>1. UNCHANGED json["plan"]
    BY <1>3, <1>p, <1>j, ConclusiveRows DEF SourceInv
  <2>2. Steps' = Steps
    BY <2>1 DEF Steps
  <2>3. CASE e \in Assertions
    BY <1>3, <2>2, <2>3 DEF JudgedOnLatest
  <2>4. CASE e \notin Assertions
    <3>1. JudgeAssert
      BY <1>3, <2>4, ConclusiveRows
    <3> QED
      BY <1>3, <2>2, <2>4, <3>1, JudgedRow
  <2> QED
    BY <2>3, <2>4
<1> QED
  BY <1>1, <1>2, <1>3, <1>m DEF SourceInv, JudgedOnLatest

\* A result is decided on the latest exchange of the plan, or the latest query,
\* and never on one left over from before it.
THEOREM LatestStands == Spec => []JudgedOnLatest
BY SourceInit, SourceNext, TypeInit, TypeNext, PTL DEF Spec

-------------------------------------------------------------------------------
(* The notebook itself. *)

PrefixOf(file) == IF file = "actions" THEN "A" ELSE IF file = "observations" THEN "O" ELSE "E"

\* One file gets one row under the next id of its prefix.
Appends(file) == \E row : Record(PrefixOf(file), file, row) /\ row.id = NextId(PrefixOf(file))

\* Every step appends at most one row; and an id is only lost on the way out.
LEMMA NotebookStep ==
  ASSUME TypeInv, [Next]_vars
  PROVE  \/ \E file \in RowFiles : Appends(file)
         \/ UNCHANGED <<rows, counter>>
         \/ RunnerRaises
<1> DEFINE Shape == \/ \E file \in RowFiles : Appends(file)
                    \/ UNCHANGED <<rows, counter>>
                    \/ RunnerRaises
<1> SUFFICES Shape
  OBVIOUS
<1>a. \A row : Record("A", "actions", row) /\ row.id = NextId("A") => Shape
  BY DEF Appends, PrefixOf, RowFiles
<1>o. \A row : Record("O", "observations", row) /\ row.id = NextId("O") => Shape
  BY DEF Appends, PrefixOf, RowFiles
<1>e. \A cid, step, result, cites, src :
        Record("E", "assertions", Assertion(cid, step, result, cites, src)) => Shape
  <2>1. \A cid, step, result, cites, src :
          Assertion(cid, step, result, cites, src).id = NextId("E")
    BY DEF Assertion
  <2> QED
    BY <2>1 DEF Appends, PrefixOf, RowFiles
<1>k. UNCHANGED <<rows, counter>> => Shape
  OBVIOUS
<1>r. RunnerRaises => Shape
  OBVIOUS
<1> HIDE DEF Shape
<1>1. CASE Setup \/ Planning
  BY <1>1, <1>k DEF Setup, Planning, CreateRun, WriteRequirements, StartApp, UseRunningApp,
    StartRaises, Healthy, Unreachable, AbandonPlan, RejectIr, BuildPlan, EngineRaises, Create,
    WriteJson, storeVars
<1>2. CASE Act
  BY <1>2, <1>a DEF Act
<1>3. CASE Observe
  BY <1>3, <1>o DEF Observe
<1>4. CASE JudgeAssert
  BY <1>4, <1>e DEF JudgeAssert
<1>5. CASE JudgeError
  BY <1>5, <1>e DEF JudgeError
<1>6. CASE InconclusiveOne
  BY <1>6, <1>e DEF InconclusiveOne
<1>7. CASE CoverOne
  <2>1. \/ UNCHANGED <<rows, counter>>
        \/ Record("E", "assertions", Assertion(cursor, 0, "inconclusive", {}, 0))
    BY <1>7 DEF CoverOne
  <2> QED
    BY <2>1, <1>e, <1>k
<1>8. CASE JudgeNothing \/ PlanDone \/ InconclusiveDone \/ StopApp \/ StopRaises
           \/ FinishRaises \/ WriteVerdict
           \/ Crash \/ AppExits
  BY <1>8, <1>k DEF JudgeNothing, PlanDone, InconclusiveDone, StopApp, StopRaises,
    FinishRaises, WriteVerdict,
    WriteJson, Crash, AppExits, storeVars
<1>9. CASE Seal \/ AppLogs \/ UNCHANGED vars
  BY <1>9, <1>k DEF Seal, SealHash, SealOpenManifest, SealWriteManifest, Freeze, AppLogs, vars,
    storeVars
<1> QED
  BY <1>1, <1>2, <1>3, <1>4, <1>5, <1>6, <1>7, <1>8, <1>9, <1>r
  DEF Next, Verifier, Running, Finishing

\* The counters are ahead of the ids in the files.
IdsInv == \A f \in RowFiles : \A r \in rows[f] : r.id \in Nat /\ r.id <= counter[PrefixOf(f)]

LEMMA IdsNext ==
  ASSUME TypeInv, IdsInv, IdsNeverReused, [Next]_vars
  PROVE  IdsInv' /\ IdsNeverReused'
<1>n. NotebookOK /\ \A f \in RowFiles : PrefixOf(f) \in Prefixes
  BY DEF TypeInv, TypeOK, PrefixOf, Prefixes
<1>1. ASSUME NEW file \in RowFiles, Appends(file) PROVE IdsInv' /\ IdsNeverReused'
  <2>1. PICK row : Record(PrefixOf(file), file, row) /\ row.id = NextId(PrefixOf(file))
    BY <1>1 DEF Appends
  <2>2. /\ rows'[file] = rows[file] \cup {row}
        /\ \A f \in RowFiles : f # file => rows'[f] = rows[f]
    BY <2>1, <1>n, RecordRows
  <2>3. counter' = [counter EXCEPT ![PrefixOf(file)] = counter[PrefixOf(file)] + 1]
        /\ row.id = counter[PrefixOf(file)] + 1
    BY <2>1 DEF Record, NextId
  <2>4. \A f \in RowFiles : counter[PrefixOf(f)] \in Nat /\ counter'[PrefixOf(f)] >= counter[PrefixOf(f)]
    BY <1>n, <2>3 DEF NotebookOK
  <2>5. counter'[PrefixOf(file)] = row.id /\ row.id \in Nat
    BY <1>n, <2>3, <2>4 DEF NotebookOK
  <2>6. IdsInv'
    <3>1. ASSUME NEW f \in RowFiles,
      NEW r \in rows'[f] PROVE r.id \in Nat /\ r.id <= counter'[PrefixOf(f)]
      <4>1. CASE r \in rows[f]
        <5>1. counter'[PrefixOf(f)] \in Nat
          BY <1>n, <2>3, <2>4 DEF NotebookOK
        <5> QED
          BY <2>4, <4>1, <5>1 DEF IdsInv
      <4>2. CASE r \notin rows[f]
        BY <2>2, <2>5, <4>2
      <4> QED
        BY <4>1, <4>2
    <3> QED
      BY <3>1 DEF IdsInv
  <2>7. IdsNeverReused'
    <3>1. \A r \in rows[file] : r.id # row.id
      BY <2>3, <2>4 DEF IdsInv
    <3> QED
      BY <2>2, <3>1 DEF IdsNeverReused
  <2> QED
    BY <2>6, <2>7
<1>2. CASE UNCHANGED <<rows, counter>>
  BY <1>2 DEF IdsInv, IdsNeverReused
<1>3. CASE RunnerRaises
  <2>1. UNCHANGED rows
    BY <1>3 DEF RunnerRaises
  <2>2. \A p \in Prefixes : counter'[p] \in {counter[p], counter[p] + 1} /\ counter[p] \in Nat
    <3>1. CASE UNCHANGED counter
      BY <1>n, <3>1 DEF NotebookOK
    <3>2. CASE ~UNCHANGED counter
      <4>1. PICK p : counter' = [counter EXCEPT ![p] = NextId(p)]
        BY <1>3, <3>2 DEF RunnerRaises
      <4> QED
        BY <1>n, <4>1 DEF NotebookOK, NextId
    <3> QED
      BY <3>1, <3>2
  <2>3. IdsInv'
    BY <1>n, <2>1, <2>2 DEF IdsInv
  <2> QED
    BY <2>1, <2>3 DEF IdsNeverReused
<1> QED
  BY <1>1, <1>2, <1>3, NotebookStep

LEMMA IdsInit == Init => IdsInv /\ IdsNeverReused
BY DEF Init, StoreInit, IdsInv, IdsNeverReused

\* No id is given to two rows of a file, whatever is allocated and lost.
THEOREM IdsStand == Spec => []IdsNeverReused
BY IdsInit, IdsNext, TypeInit, TypeNext, PTL DEF Spec

\* While a step is observed and judged, the latest action is its own.
OperatedInv ==
  pc \in {"observe", "judge"} => \E a \in Actions :
    a.id = counter["A"] /\ a.step = ip /\ a.cid = Current.cid

\* Actions stay as well.
LEMMA ActionsStay == ASSUME TypeInv, [Next]_vars PROVE Actions \subseteq Actions'
<1>n. NotebookOK
  BY DEF TypeInv, TypeOK
<1>1. ASSUME NEW file \in RowFiles, Appends(file) PROVE Actions \subseteq Actions'
  BY <1>1, <1>n DEF Appends, Record, Actions, NotebookOK, RowFiles
<1> QED
  BY <1>1, NotebookStep DEF RunnerRaises, Actions

LEMMA OperatedNext ==
  ASSUME TypeInv, OperatedInv, [Next]_vars, pc' \in {"observe", "judge"}
  PROVE  OperatedInv'
<1>n. NotebookOK
  BY DEF TypeInv, TypeOK
<1>1. CASE Act
  <2> DEFINE row == [id |-> NextId("A"), cid |-> Current.cid, step |-> ip]
  <2>1. Record("A", "actions", row) /\ UNCHANGED <<json, ip>>
    BY <1>1 DEF Act
  <2>2. row \in Actions' /\ counter'["A"] = NextId("A") /\ Current' = Current
    <3>1. row \in Actions'
      BY <2>1, <1>n, RecordAction
    <3>2. counter'["A"] = NextId("A")
      BY <2>1, <1>n DEF Record, NotebookOK, Prefixes
    <3>3. Current' = Current
      BY <2>1 DEF Current, Steps
    <3> QED
      BY <3>1, <3>2, <3>3
  <2>3. row.id = NextId("A") /\ row.step = ip /\ row.cid = Current.cid
    OBVIOUS
  <2> HIDE DEF row
  <2> QED
    BY <2>1, <2>2, <2>3 DEF OperatedInv
<1>2. CASE Observe
  <2>1. pc = "observe" /\ UNCHANGED <<json, ip>> /\ counter'["A"] = counter["A"]
    BY <1>2, <1>n DEF Observe, Record, NotebookOK, Prefixes
  <2>2. UNCHANGED Actions
    BY <1>2, <1>n, RecordObservation DEF Observe
  <2> QED
    BY <2>1, <2>2 DEF OperatedInv, Current, Steps
<1>3. CASE ~Act /\ ~Observe
  <2>1. pc \in {"observe", "judge"} /\ UNCHANGED <<rows, counter, json, ip>>
    BY <1>3 DEF Next, Verifier, Setup, Planning, Running, Finishing, CreateRun,
      WriteRequirements, StartApp, UseRunningApp, StartRaises, Healthy, Unreachable, AbandonPlan,
      RejectIr, BuildPlan, EngineRaises, JudgeAssert, JudgeError, JudgeNothing,
      NextStep, PlanDone, RunnerRaises, InconclusiveOne, InconclusiveDone, StopApp, StopRaises,
      FinishRaises,
      CoverOne, WriteVerdict, Seal, Crash, AppLogs, AppExits, vars, ctlVars, storeVars, Goto
  <2> QED
    BY <2>1 DEF OperatedInv, Actions, Current, Steps
<1> QED
  BY <1>1, <1>2, <1>3

\* Where rows come from: an observation from Observe, an assertion of a runner
\* from the second half of run_step.
LEMMA NewObservation ==
  ASSUME TypeInv, [Next]_vars, NEW o \in Observations', o \notin Observations
  PROVE  pc = "observe" /\ o.cid = Current.cid /\ o.action = counter["A"]
<1>n. NotebookOK
  BY DEF TypeInv, TypeOK
<1>1. Observe
  <2>1. UNCHANGED rows => Observations' = Observations
    BY DEF Observations
  <2>2. ~JudgeAssert /\ ~JudgeError /\ ~Act /\ ~InconclusiveOne /\ ~CoverOne
    BY <2>1, <1>n, RecordAssertion, RecordAction DEF JudgeAssert, JudgeError, Act,
      InconclusiveOne, CoverOne
  <2> QED
    BY <2>1, <2>2 DEF Next, Verifier, Setup, Planning, Running, Finishing, CreateRun, Create,
      WriteRequirements, StartApp, UseRunningApp, StartRaises, Healthy, Unreachable, AbandonPlan,
      RejectIr, BuildPlan, EngineRaises, JudgeNothing, PlanDone, RunnerRaises, InconclusiveDone,
      StopApp, StopRaises, FinishRaises, WriteVerdict, Seal, SealHash, SealOpenManifest,
      SealWriteManifest,
      Freeze, Crash, AppLogs, AppExits, vars, storeVars
<1>2. Record("O", "observations", [id |-> NextId("O"), cid |-> Current.cid,
  action |-> counter["A"]])
  BY <1>1 DEF Observe
<1>3. o = [id |-> NextId("O"), cid |-> Current.cid, action |-> counter["A"]]
  BY <1>2, <1>n, RecordObservation
<1> QED
  BY <1>1, <1>3 DEF Observe

LEMMA NewAssertion ==
  ASSUME TypeInv, [Next]_vars, NEW e \in Assertions', e \notin Assertions
  PROVE  \/ e.step = 0 /\ e.cites = {}
         \/ /\ pc = "judge" /\ e.cid = Current.cid /\ e.step = ip
            /\ e.action = counter["A"] /\ e.cites \subseteq {counter["O"]}
<1>n. NotebookOK /\ ip \in Nat \ {0}
  BY DEF TypeInv, TypeOK, ControlOK
<1>a. \A cid, step, result, cites, src :
        LET row == Assertion(cid, step, result, cites, src)
        IN  /\ row.cid = cid /\ row.cites = cites /\ row.step = step
            /\ step # 0 => row.action = counter["A"]
  BY DEF Assertion
<1>1. CASE InconclusiveOne \/ CoverOne
  <2>1. Record("E", "assertions", Assertion(cursor, 0, "inconclusive", {}, 0))
    BY <1>1 DEF InconclusiveOne, CoverOne, Assertions
  <2> QED
    BY <2>1, <1>a, <1>n, RecordAssertion
<1>2. UNCHANGED rows => FALSE
  BY DEF Assertions
<1>3. ~Act /\ ~Observe
  BY <1>n, RecordAction, RecordObservation DEF Act, Observe
<1>4. InconclusiveOne \/ CoverOne \/ JudgeAssert \/ JudgeError
  BY <1>2, <1>3 DEF Next, Verifier, Setup, Planning, Running, Finishing, CreateRun, Create,
    WriteRequirements, StartApp, UseRunningApp, StartRaises, Healthy, Unreachable, AbandonPlan,
    RejectIr, BuildPlan, EngineRaises, JudgeNothing, PlanDone, RunnerRaises, InconclusiveDone,
    StopApp, StopRaises, FinishRaises, WriteVerdict, Seal, SealHash, SealOpenManifest,
    SealWriteManifest, Freeze, Crash, AppLogs, AppExits, vars, storeVars
<1>5. ASSUME NEW result, NEW cites, NEW src, cites \subseteq {counter["O"]}, pc = "judge",
             Record("E", "assertions", Assertion(Current.cid, ip, result, cites, src))
      PROVE  /\ pc = "judge" /\ e.cid = Current.cid /\ e.step = ip
             /\ e.action = counter["A"] /\ e.cites \subseteq {counter["O"]}
  <2>1. e = Assertion(Current.cid, ip, result, cites, src)
    BY <1>5, <1>n, RecordAssertion
  <2> QED
    BY <2>1, <1>5, <1>a, <1>n
<1>6. CASE JudgeError
  <2>1. PICK cites \in {{counter["O"]}, {}} :
          Record("E", "assertions", Assertion(Current.cid, ip, "inconclusive", cites, 0))
    BY <1>6 DEF JudgeError
  <2> QED
    BY <2>1, <1>5, <1>6 DEF JudgeError
<1>7. CASE JudgeAssert
  <2>1. PICK result \in Judgements(Current) : \E cites \in Cites(Current, result) :
          Record("E", "assertions",
                 Assertion(Current.cid, ip, result, cites,
                           IF mode = "browser" THEN 0 ELSE Judged(Current).src))
    BY <1>7 DEF JudgeAssert
  <2>2. PICK cites \in Cites(Current, result) :
          Record("E", "assertions",
                 Assertion(Current.cid, ip, result, cites,
                           IF mode = "browser" THEN 0 ELSE Judged(Current).src))
    BY <2>1
  <2>3. cites \subseteq {counter["O"]}
    BY DEF Cites
  <2> QED
    BY <2>2, <2>3, <1>5, <1>7 DEF JudgeAssert
<1> QED
  BY <1>1, <1>4, <1>6, <1>7

LEMMA ClosedNext ==
  ASSUME TypeInv, WitnessInv, OperatedInv, NotebookIsClosed, [Next]_vars
  PROVE  NotebookIsClosed'
<1>1. ASSUME NEW e \in Assertions', e.step > 0
      PROVE  \E a \in Actions' : a.id = e.action /\ a.step = e.step /\ a.cid = e.cid
  <2>1. \E a \in Actions : a.id = e.action /\ a.step = e.step /\ a.cid = e.cid
    <3>1. CASE e \in Assertions
      BY <1>1, <3>1 DEF NotebookIsClosed
    <3>2. CASE e \notin Assertions
      BY <1>1, <3>2, NewAssertion DEF OperatedInv
    <3> QED
      BY <3>1, <3>2
  <2> QED
    BY <2>1, ActionsStay
<1>2. ASSUME NEW e \in Assertions', NEW i \in e.cites
      PROVE  \E o \in Observations' : o.id = i /\ o.action = e.action /\ o.cid = e.cid
  <2>1. \E o \in Observations : o.id = i /\ o.action = e.action /\ o.cid = e.cid
    <3>1. CASE e \in Assertions
      BY <3>1 DEF NotebookIsClosed
    <3>2. CASE e \notin Assertions
      BY <3>2, NewAssertion DEF WitnessInv
    <3> QED
      BY <3>1, <3>2
  <2> QED
    BY <2>1, RowsStay
<1>3. ASSUME NEW o \in Observations' PROVE \E a \in Actions' : a.id = o.action /\ a.cid = o.cid
  <2>1. \E a \in Actions : a.id = o.action /\ a.cid = o.cid
    <3>1. CASE o \in Observations
      BY <3>1 DEF NotebookIsClosed
    <3>2. CASE o \notin Observations
      BY <3>2, NewObservation DEF OperatedInv
    <3> QED
      BY <3>1, <3>2
  <2> QED
    BY <2>1, ActionsStay
<1> QED
  BY <1>1, <1>2, <1>3 DEF NotebookIsClosed

\* At every moment of a run an assertion of a runner can be followed to the action
\* of its own step and to observations made of that action, and an observation to
\* its action.
THEOREM NotebookStands == Spec => []NotebookIsClosed
<1>1. Init => NotebookIsClosed /\ OperatedInv
  BY DEF Init, StoreInit, RowFiles, Assertions, Observations, NotebookIsClosed, OperatedInv
<1>2. TypeInv /\ OperatedInv /\ [Next]_vars => OperatedInv'
  BY OperatedNext DEF OperatedInv
<1>3. TypeInv /\ WitnessInv /\ OperatedInv /\ NotebookIsClosed /\ [Next]_vars => NotebookIsClosed'
  BY ClosedNext
<1>4. TypeInv /\ WitnessInv /\ [Next]_vars => WitnessInv'
  BY WitnessNext
<1> QED
  BY <1>1, <1>2, <1>3, <1>4, TypeInit, TypeNext, WitnessInit, PTL DEF Spec

-------------------------------------------------------------------------------
(* verify() is never refused by its own store.                                *)

\* Where verify() may add to the run directory.
Adding == {"requirements", "start", "health", "plan", "act", "observe", "judge",
           "inconclusive", "stop", "coverage"}

DirectoryReady ==
  /\ pc = "create" => phase = "absent"
  /\ pc \in Adding => Writable
  /\ pc = "seal" => phase \in {"open", "hashed", "torn", "sealed"}

\* The guards of RunStore stand for exceptions: an action they disable would be a
\* StoreError, or a mkdir that finds the directory there.  This is what they ask
\* wherever verify() makes the call: to create the directory, to add to it, to
\* write a file that has not been written, to seal a run that is complete
\* (store.py:61, 70-81, 85-96, 107-111).
StoreAccepts ==
  /\ DirectoryReady
  /\ pc = "requirements" => json["requirements"] = NoFile
  /\ pc \in {"health", "plan"} => json["plan"] = NoFile
  /\ pc = "coverage" => json["verdict"] = NoFile
  /\ pc = "seal" => \A n \in JsonNames : json[n] # NoFile

\* The absence of a file is none of the contents verify() writes.
NoFileIsNoContent ==
  /\ Constraint # NoFile
  /\ \A evidence : BuildVerdict(evidence, Constraint, HappyPath) # NoFile

Written == {n \in JsonNames : json[n] # NoFile}

\* The files that have been written, by where verify() is.  Only an exception gets
\* to stop_app without a plan, and it does not get past it.
WrittenInv ==
  /\ pc \in {"create", "requirements"} => Written = {}
  /\ pc \in {"start", "health", "plan"} => Written = {"requirements"}
  /\ pc \in {"act", "observe", "judge", "inconclusive", "coverage"} =>
       Written = {"requirements", "plan"}
  /\ pc = "stop" => \/ Written = {"requirements", "plan"}
                    \/ Written = {"requirements"} /\ exn
  /\ pc = "seal" => Written = JsonNames

LEMMA WriteAdds ==
  ASSUME DOMAIN json = JsonNames, NEW name \in JsonNames, NEW obj, obj # NoFile,
         WriteJson(name, obj)
  PROVE  Written' = Written \cup {name} /\ Writable
BY DEF WriteJson, Written

LEMMA StoreInitially == Init => DirectoryReady /\ WrittenInv
BY DEF Init, StoreInit, DirectoryReady, WrittenInv, Written, JsonNames, Adding

LEMMA StoreNext ==
  ASSUME NoFileIsNoContent, TypeInv, DirectoryReady, WrittenInv, [Next]_vars
  PROVE  DirectoryReady' /\ WrittenInv'
<1>n. DOMAIN json = JsonNames /\ pc \in Labels
  BY DEF TypeInv, TypeOK, FilesOK, ControlOK
<1>p. \A steps \in Plans \cup {<<>>} : PlanFile(steps) # NoFile
  BY NoFileAssumption
<1>k. UNCHANGED json => UNCHANGED Written
  BY DEF Written
<1> USE DEF Goto, DirectoryReady, WrittenInv, Adding, Writable
<1>1. CASE CreateRun
  BY <1>1, <1>k DEF CreateRun, Create
<1>2. CASE WriteRequirements
  <2>1. Written' = Written \cup {"requirements"} /\ phase = "open"
    BY <1>2, <1>n, WriteAdds DEF WriteRequirements, JsonNames, NoFileIsNoContent
  <2> QED
    BY <1>2, <2>1 DEF WriteRequirements
<1>3. CASE StartApp \/ UseRunningApp \/ StartRaises \/ Healthy \/ EngineRaises
  BY <1>3, <1>k DEF StartApp, UseRunningApp, StartRaises, Healthy, EngineRaises, storeVars
<1>4. CASE Unreachable \/ RejectIr \/ BuildPlan
  <2>1. \E steps \in Plans \cup {<<>>} : WriteJson("plan", PlanFile(steps))
    BY <1>4 DEF Unreachable, RejectIr, BuildPlan, AbandonPlan
  <2>2. Written' = Written \cup {"plan"} /\ phase = "open"
    BY <1>n, <1>p, <2>1, WriteAdds DEF JsonNames
  <2>3. pc \in {"health", "plan"} /\ pc' \in {"act", "inconclusive"} /\ phase' = phase
    BY <1>4 DEF Unreachable, RejectIr, BuildPlan, AbandonPlan
  <2> QED
    BY <2>2, <2>3
<1>5. CASE Running
  <2>1. UNCHANGED <<json, phase>> /\ pc \in {"act", "observe", "judge"}
        /\ pc' \in {"act", "observe", "judge", "inconclusive", "stop"}
    BY <1>5 DEF Running, Act, Observe, JudgeAssert, JudgeError, JudgeNothing, NextStep, PlanDone,
      RunnerRaises, storeVars
  <2> QED
    BY <1>k, <2>1
<1>6. CASE InconclusiveOne \/ InconclusiveDone \/ StopApp \/ StopRaises \/ FinishRaises \/ CoverOne
  BY <1>6, <1>k DEF InconclusiveOne, InconclusiveDone, StopApp, StopRaises, FinishRaises,
    CoverOne, storeVars
<1>7. CASE WriteVerdict
  <2>1. Written' = Written \cup {"verdict"} /\ phase = "open"
    BY <1>7, <1>n, WriteAdds DEF WriteVerdict, JsonNames, NoFileIsNoContent
  <2> QED
    BY <1>7, <2>1 DEF WriteVerdict, JsonNames
<1>8. CASE Seal
  BY <1>8, <1>k DEF Seal, SealHash, SealOpenManifest, SealWriteManifest, Freeze
<1>9. CASE Crash \/ AppLogs \/ AppExits \/ UNCHANGED vars
  BY <1>9, <1>k DEF Crash, AppLogs, AppExits, vars, storeVars, ctlVars
<1> QED
  BY <1>1, <1>2, <1>3, <1>4, <1>5, <1>6, <1>7, <1>8, <1>9
  DEF Next, Verifier, Setup, Planning, Finishing

\* No call verify() makes of its store raises a StoreError (engine.py:96-189): the
\* guards of RunStore rule nothing out that could happen.
THEOREM StoreNeverRefuses ==
  ASSUME NoFileIsNoContent
  PROVE  Spec => []StoreAccepts
<1>1. DirectoryReady /\ WrittenInv => StoreAccepts
  BY DEF WrittenInv, Written, JsonNames, StoreAccepts
<1> QED
  BY <1>1, StoreInitially, StoreNext, TypeInit, TypeNext, PTL DEF Spec

-------------------------------------------------------------------------------
(* verify() never turns back.                                                  *)

\* The order of the labels.  The three of a step are one loop.
Order == [create |-> 0, requirements |-> 1, start |-> 2, health |-> 3, plan |-> 4,
          act |-> 5, observe |-> 5, judge |-> 5, inconclusive |-> 6, stop |-> 7,
          coverage |-> 8, seal |-> 9, done |-> 10, raised |-> 10, crashed |-> 10]

\* What is left of the loop verify() is in: thirds of a step, constraints, or
\* steps of seal().
Left ==
  CASE pc = "act" -> 3 * (Len(Steps) + 1 - ip) + 2
    [] pc = "observe" -> 3 * (Len(Steps) + 1 - ip) + 1
    [] pc = "judge" -> 3 * (Len(Steps) + 1 - ip)
    [] pc \in {"inconclusive", "coverage"} -> Last + 1 - cursor
    [] pc = "seal" -> [open |-> 3, hashed |-> 2, torn |-> 1, sealed |-> 0][phase]
    [] OTHER -> 0

\* To a later label, or round the loop with less of it left.
Forward ==
  \/ Order[pc'] > Order[pc]
  \/ Order[pc'] = Order[pc] /\ Left' < Left

\* Every step of the thread goes forward, whatever fails in it; and no output or
\* exit of the application sets it back.  Left is a natural number, so a verify()
\* that is scheduled runs out of steps to take.
NeverTurnsBack ==
  [][/\ Verifier => Forward /\ (Left \in Nat)'
     /\ AppLogs \/ AppExits => UNCHANGED <<pc, Left>>]_vars

\* The next step of the plan, or the place behind the last one.
PlaceInv ==
  /\ pc \in {"create", "requirements", "start", "health", "plan"} => ip = 1
  /\ pc = "act" => ip <= Len(Steps) + 1

LEMMA PlaceInit == Init => PlaceInv
BY DEF Init, PlaceInv

LEMMA StepsLeft ==
  ASSUME TypeInv, pc \in {"act", "observe", "judge"}
  PROVE  /\ Len(Steps) \in Nat /\ ip \in Nat \ {0}
         /\ pc # "act" => ip <= Len(Steps)
<1>1. Steps \in Seq(Step)
  BY PlanSteps DEF TypeInv, InPlan, Steps
<1>2. pc # "act" => ip \in DOMAIN Steps
  BY DEF TypeInv, InPlan
<1> QED
  BY <1>1, <1>2 DEF TypeInv, TypeOK, ControlOK

LEMMA PlaceNext == ASSUME TypeInv, TypeInv', PlaceInv, [Next]_vars PROVE PlaceInv'
<1>k. UNCHANGED json => UNCHANGED Steps
  BY DEF Steps
<1> USE DEF PlaceInv, Goto
<1>1. CASE Setup \/ RejectIr \/ EngineRaises
  BY <1>1 DEF Setup, CreateRun, WriteRequirements, StartApp, UseRunningApp, StartRaises, Healthy,
    Unreachable, AbandonPlan, RejectIr, EngineRaises
<1>2. CASE BuildPlan
  <2>1. ip' = 1 /\ pc' = "act"
    BY <1>2 DEF BuildPlan
  <2>2. Len(Steps)' \in Nat
    BY <2>1, PlanSteps DEF TypeInv, InPlan, Steps
  <2> QED
    BY <2>1, <2>2
<1>3. CASE Running
  <2>1. CASE JudgeAssert \/ JudgeError \/ JudgeNothing
    <3>1. pc = "judge" /\ ip' = ip + 1 /\ UNCHANGED json /\ pc' = "act"
      BY <2>1 DEF JudgeAssert, JudgeError, JudgeNothing, NextStep, storeVars
    <3> QED
      BY <1>k, <3>1, StepsLeft
  <2>2. CASE Act \/ Observe \/ PlanDone \/ RunnerRaises
    BY <2>2 DEF Act, Observe, PlanDone, RunnerRaises
  <2> QED
    BY <1>3, <2>1, <2>2 DEF Running
<1>4. CASE Finishing \/ Crash
  BY <1>4 DEF Finishing, InconclusiveOne, InconclusiveDone, StopApp, StopRaises, FinishRaises,
    CoverOne,
    WriteVerdict, Seal, Crash
<1>5. CASE AppLogs \/ AppExits \/ UNCHANGED vars
  BY <1>5, <1>k DEF AppLogs, AppExits, vars, storeVars, ctlVars
<1> QED
  BY <1>1, <1>2, <1>3, <1>4, <1>5 DEF Next, Verifier, Planning

LEMMA LeftType ==
  ASSUME TypeInv, DirectoryReady, PlaceInv
  PROVE  Left \in Nat
<1>1. CASE pc \in {"act", "observe", "judge"}
  BY <1>1, StepsLeft DEF Left, PlaceInv
<1>2. CASE pc \in {"inconclusive", "coverage"}
  BY <1>2, EngineAssumption DEF Left, TypeInv, TypeOK, ControlOK
<1>3. CASE pc = "seal"
  BY <1>3 DEF Left, DirectoryReady
<1>4. CASE pc \notin {"act", "observe", "judge", "inconclusive", "coverage", "seal"}
  BY <1>4 DEF Left
<1> QED
  BY <1>1, <1>2, <1>3, <1>4

LEMMA StepForward ==
  ASSUME TypeInv, DirectoryReady, Verifier
  PROVE  Forward
<1>k. UNCHANGED json => UNCHANGED Steps
  BY DEF Steps
<1> USE DEF Forward, Order, Goto
<1>1. CASE Setup \/ Planning
  BY <1>1 DEF Setup, Planning, CreateRun, WriteRequirements, StartApp, UseRunningApp, StartRaises,
    Healthy, Unreachable, AbandonPlan, RejectIr, BuildPlan, EngineRaises
<1>2. CASE Act \/ Observe
  <2>1. /\ UNCHANGED <<json, ip>>
        /\ \/ pc = "act" /\ pc' = "observe"
           \/ pc = "observe" /\ pc' = "judge"
    BY <1>2 DEF Act, Observe
  <2> QED
    BY <1>k, <2>1, StepsLeft DEF Left
<1>3. CASE JudgeAssert \/ JudgeError \/ JudgeNothing
  <2>1. pc = "judge" /\ pc' = "act" /\ UNCHANGED json /\ ip' = ip + 1
    BY <1>3 DEF JudgeAssert, JudgeError, JudgeNothing, NextStep, storeVars
  <2> QED
    BY <1>k, <2>1, StepsLeft DEF Left
<1>4. CASE PlanDone \/ RunnerRaises \/ InconclusiveDone \/ StopApp \/ StopRaises
           \/ FinishRaises \/ WriteVerdict
  BY <1>4 DEF PlanDone, RunnerRaises, InconclusiveDone, StopApp, StopRaises, FinishRaises,
    WriteVerdict
<1>5. CASE InconclusiveOne \/ CoverOne
  <2>1. pc \in {"inconclusive", "coverage"} /\ pc' = pc /\ cursor' = cursor + 1 /\ cursor \in Int
    BY <1>5, EngineAssumption DEF InconclusiveOne, CoverOne, TypeInv, TypeOK, ControlOK
  <2> QED
    BY <2>1, EngineAssumption DEF Left
<1>6. CASE Seal
  BY <1>6 DEF Seal, SealHash, SealOpenManifest, SealWriteManifest, Freeze, Writable, Left
<1> QED
  BY <1>1, <1>2, <1>3, <1>4, <1>5, <1>6 DEF Verifier, Running, Finishing

\* verify() takes finitely many steps, for every plan and number of constraints:
\* the part of VerifyEnds that does not depend on scheduling (engine.py:66-189).
THEOREM VerifyAdvances ==
  ASSUME NoFileIsNoContent
  PROVE  Spec => NeverTurnsBack
<1> DEFINE Inv == TypeInv /\ DirectoryReady /\ WrittenInv /\ PlaceInv
<1>1. Init => Inv
  BY StoreInitially, TypeInit, PlaceInit
<1>2. Inv /\ [Next]_vars => Inv'
  BY StoreNext, TypeNext, PlaceNext
<1>3. AppLogs \/ AppExits => UNCHANGED <<pc, Left>>
  BY DEF AppLogs, AppExits, storeVars, ctlVars, Left, Steps
<1>4. Inv => Left \in Nat
  BY LeftType
<1>5. Inv /\ (Left \in Nat)' /\ [Next]_vars =>
        [/\ Verifier => Forward /\ (Left \in Nat)'
         /\ AppLogs \/ AppExits => UNCHANGED <<pc, Left>>]_vars
  BY <1>3, StepForward
<1> QED
  BY <1>1, <1>2, <1>4, <1>5, PTL DEF Spec, NeverTurnsBack

===============================================================================
