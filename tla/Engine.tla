-------------------------------- MODULE Engine --------------------------------
(***************************************************************************)
(* One call of verify() (opentruth/engine.py): create the run directory,    *)
(* start the declared application, plan, run the plan with the runner of    *)
(* the mode, stop the application, fill in missing coverage, derive the     *)
(* verdict and seal.  The runners (runners/http.py, state.py, browser.py),  *)
(* the checks (assertions.py) and the process control (runners/process.py)  *)
(* are part of the same thread, and so part of this module; the application *)
(* under judgment is a second process that may write its log or exit at any *)
(* time.                                                                    *)
(***************************************************************************)
EXTENDS RunStore, Verdicts, Integers, Sequences

CONSTANTS
  Last,        \* the constraints are C-0 .. C-Last; C-0 is the happy path
  Modes,       \* the --mode values of this instance
  Plans,       \* the step sequences build_plan may return
  Descendants, \* may the application leave children that keep server.log open?
  MaxLog       \* bound: writes of the application into server.log

Constraint == 0..Last
HappyPath == 0

\* Kinds of step each runner executes.  "check" is an assert on the last HTTP
\* exchange (or on the page), "cell" an assert on the last SQL result,
\* "unsupported" the assert a planner writes for a constraint it cannot plan,
\* "act" any browser action (navigate, fill, click, reload, clear_cookies).
KindsOf == [api     |-> {"request", "check", "unsupported"},
            state   |-> {"request", "query", "check", "cell", "unsupported"},
            browser |-> {"act", "check", "unsupported"}]
AssertKinds == {"check", "cell", "unsupported"}
StepKind == AssertKinds \cup {"request", "query", "act"}
Step == [kind : StepKind, cid : Constraint]

ASSUME EngineAssumption ==
  /\ Last \in Nat
  /\ Modes \subseteq {"api", "state", "browser"}
  /\ Plans \subseteq Seq(Step)
  /\ Descendants \in BOOLEAN
  /\ MaxLog \in Nat

VARIABLES
  pc,      \* where verify() is
  mode,    \* its mode argument
  cause,   \* why the plan was not run to its end, "none" if it was
  exn,     \* is an exception on its way out through `finally`?
  app,     \* the application process: see Apps
  ip,      \* index of the next step of plan["steps"]
  last,    \* HttpRunner.last: the latest exchange
  query,   \* StateRunner.last_query: the latest SQL result
  failed,  \* `error` of the step being run
  cursor   \* the constraint a loop over requirement.constraints is at

ctlVars == <<pc, mode, cause, exn, app, ip, last, query, failed, cursor>>
vars == <<storeVars, ctlVars>>

\* none      nothing started by verify()    running  started, not waited for
\* exited    ended by itself                stopped  terminated and waited for
\* orphans   stopped, but children of it still hold the log handle
Apps == {"none", "running", "exited", "stopped", "orphans"}
AppMayLog == app \in {"running", "orphans"}

\* An exchange or SQL result: the step that made it, and whether the
\* application answered.  src = 0 is None.
None == [src |-> 0, ok |-> FALSE]
Exchanges == {None} \cup [src : Nat \ {0}, ok : BOOLEAN]

Steps == json["plan"].steps
Current == Steps[ip]
Actions == rows["actions"]
Observations == rows["observations"]
Assertions == rows["assertions"]

Goto(label) == pc' = label

-------------------------------------------------------------------------------
Init ==
  /\ StoreInit
  /\ pc = "create"
  /\ mode \in Modes
  /\ cause = "none"
  /\ exn = FALSE
  /\ app = "none"
  /\ ip = 1
  /\ last = None
  /\ query = None
  /\ failed = FALSE
  /\ cursor = HappyPath

CreateRun ==
  /\ pc = "create"
  /\ Create
  /\ Goto("requirements")
  /\ UNCHANGED <<mode, cause, exn, app, ip, last, query, failed, cursor>>

WriteRequirements ==
  /\ pc = "requirements"
  /\ WriteJson("requirements", Constraint)
  /\ Goto("start")
  /\ UNCHANGED <<phase, rows, counter, log, hashes, manifest>>
  /\ UNCHANGED <<mode, cause, exn, app, ip, last, query, failed, cursor>>

\* start_app: opens server.log, then Popen.
StartApp ==
  /\ pc = "start"
  /\ log' = 1
  /\ app' = "running"
  /\ Goto("health")
  /\ UNCHANGED <<phase, json, rows, counter, hashes, manifest>>
  /\ UNCHANGED <<mode, cause, exn, ip, last, query, failed, cursor>>

\* --no-start, or no start command declared: the application is not ours.
UseRunningApp ==
  /\ pc = "start"
  /\ Goto("health")
  /\ UNCHANGED <<storeVars, mode, cause, exn, app, ip, last, query, failed, cursor>>

\* The database directory cannot be made, the start command cannot be split, or,
\* with server.log already open, Popen raises (no such executable): proc stays
\* None and no handler between here and the command line catches it.
StartRaises ==
  /\ pc = "start"
  /\ log' \in {0, 1}
  /\ exn' = TRUE
  /\ Goto("stop")
  /\ UNCHANGED <<phase, json, rows, counter, hashes, manifest>>
  /\ UNCHANGED <<mode, cause, app, ip, last, query, failed, cursor>>

\* wait_health: some process answers 2xx on the health URL in time.  It never
\* looks at the process verify() started, so the answer does not depend on app.
Healthy ==
  /\ pc = "health"
  /\ Goto("plan")
  /\ UNCHANGED <<storeVars, mode, cause, exn, app, ip, last, query, failed, cursor>>

-------------------------------------------------------------------------------
\* uncovered_constraint_ids: a constraint is covered by an assert step only.
Uncovered(steps) ==
  {c \in Constraint :
     \A i \in DOMAIN steps : steps[i].kind \in AssertKinds => steps[i].cid # c}

PlanFile(steps) == [steps |-> steps, uncovered |-> Uncovered(steps)]

\* A plan.json that exists is not the absence of one.
ASSUME NoFileAssumption == \A steps \in Plans \cup {<<>>} : PlanFile(steps) # NoFile

\* plan.json without steps, and _inconclusive_all next.
AbandonPlan(reason) ==
  /\ WriteJson("plan", PlanFile(<<>>))
  /\ cause' = reason
  /\ Goto("inconclusive")
  /\ UNCHANGED <<phase, rows, counter, log, hashes, manifest>>
  /\ UNCHANGED <<mode, exn, app, ip, last, query, failed, cursor>>

Unreachable == pc = "health" /\ AbandonPlan("unreachable")

\* build_plan raises IrError: the declared Verification IR is rejected.
RejectIr == pc = "plan" /\ AbandonPlan("ir_error")

\* Whatever the `try` has no handler for goes out through `finally`: wait_health
\* meets an answer that is no HTTP, build_plan raises something else, or
\* _inconclusive_all cannot write its rows.
EngineRaises ==
  /\ pc \in {"health", "plan", "inconclusive"}
  /\ exn' = TRUE
  /\ Goto("stop")
  /\ UNCHANGED <<storeVars, mode, cause, app, ip, last, query, failed, cursor>>

\* Outside the `try` nothing holds an exception up: a full disk, a notebook that
\* load_jsonl cannot read back (its splitlines also splits at U+2028, which the
\* rows may hold), a file that cannot be read for its digest or frozen.
FinishRaises ==
  /\ pc \in {"create", "requirements", "coverage", "seal"}
  /\ exn' = TRUE
  /\ Goto("raised")
  /\ UNCHANGED <<storeVars, mode, cause, app, ip, last, query, failed, cursor>>

BuildPlan ==
  /\ pc = "plan"
  /\ \E steps \in Plans :
       /\ \A i \in DOMAIN steps : steps[i].kind \in KindsOf[mode]
       /\ WriteJson("plan", PlanFile(steps))
  /\ Goto("act")
  /\ UNCHANGED <<phase, rows, counter, log, hashes, manifest>>
  /\ UNCHANGED <<mode, cause, exn, app, ip, last, query, failed, cursor>>

-------------------------------------------------------------------------------
\* Mutant of Perform: a request that raises leaves the previous exchange in place.
PerformKeepingLast(step) ==
  \/ /\ step.kind = "request"
     /\ \/ \E ok \in BOOLEAN : last' = [src |-> ip, ok |-> ok] /\ failed' = ~ok
        \/ last' = last /\ failed' = TRUE
     /\ query' = query
  \/ /\ step.kind = "query"
     /\ \E ok \in BOOLEAN : query' = [src |-> ip, ok |-> ok] /\ failed' = ~ok
     /\ last' = last
  \/ /\ step.kind \in {"act"} \cup AssertKinds
     /\ failed' \in BOOLEAN
     /\ UNCHANGED <<last, query>>

\* What Act leaves in last and query, and whether the step has an error:
\* the application answers, the transport fails (an exchange without status),
\* or the request raises (no exchange at all: last becomes None).  The text of
\* what it raises may be empty, and an empty error is none.
Perform(step) ==
  \/ /\ step.kind = "request"
     /\ \E x \in {[src |-> ip, ok |-> TRUE], [src |-> ip, ok |-> FALSE], None} :
          last' = x /\ failed' \in IF x = None THEN BOOLEAN ELSE {~x.ok}
     /\ query' = query
  \/ /\ step.kind = "query"
     /\ \E ok \in BOOLEAN : query' = [src |-> ip, ok |-> ok] /\ failed' = ~ok
     /\ last' = last
  \/ /\ step.kind = "act"
     /\ failed' \in BOOLEAN
     /\ UNCHANGED <<last, query>>
  \/ /\ step.kind \in AssertKinds
     /\ failed' = FALSE
     /\ UNCHANGED <<last, query>>

\* First half of run_step: operate the application, append the action row.
Act ==
  /\ pc = "act" /\ ip <= Len(Steps)
  /\ Perform(Current)
  /\ Record("A", "actions", [id |-> NextId("A"), cid |-> Current.cid, step |-> ip])
  /\ Goto("observe")
  /\ UNCHANGED <<phase, json, log, hashes, manifest>>
  /\ UNCHANGED <<mode, cause, exn, app, ip, cursor>>

\* observe(): the observations of the action, one row standing for all kinds.
Observe ==
  /\ pc = "observe"
  /\ Record("O", "observations",
            [id |-> NextId("O"), cid |-> Current.cid, action |-> counter["A"]])
  /\ Goto("judge")
  /\ UNCHANGED <<phase, json, log, hashes, manifest>>
  /\ UNCHANGED <<mode, cause, exn, app, ip, last, query, failed, cursor>>

\* The exchange an assert step is evaluated on: StateRunner's last query, or
\* HttpRunner's last exchange.  The browser looks at the live page.
Judged(step) == IF step.kind = "cell" THEN query ELSE last

\* evaluate(): the results a check can have.  Nothing to look at, or nothing
\* that answered, is inconclusive; a text check of an answered exchange is
\* inconclusive too when the body is empty, a cell check never is.
Judgements(step) ==
  IF step.kind = "unsupported" THEN {"inconclusive"}
  ELSE IF mode = "browser" THEN Results
  ELSE IF ~Judged(step).ok THEN {"inconclusive"}
  ELSE IF step.kind = "cell" THEN {"pass", "fail"}
  ELSE Results

\* Mutant of Cites: what is cited is where the exchange was first observed, in
\* the step of the request, and not the copy this step has recorded.
CitesOfRequest(step, result) ==
  {{o.id : o \in {o \in Observations : \E a \in Actions :
                    a.id = o.action /\ a.step = Judged(step).src}}}

\* What a check may cite: the observation it was decided on, which for a status
\* check is also the one without a status and for a cell check the one with the
\* error of the query.
Cites(step, result) ==
  IF step.kind = "unsupported" THEN {{}}
  ELSE IF result # "inconclusive" \/ step.kind = "cell" THEN {{counter["O"]}}
  ELSE IF mode # "browser" /\ last.src # 0 /\ ~last.ok THEN {{}, {counter["O"]}}
  ELSE {{}}

\* A row of assertions.jsonl.  A runner's row names the action its step has just
\* recorded (action_id); step = 0: written by the engine, and of no action.
Assertion(cid, step, result, cites, src) ==
  [id |-> NextId("E"), cid |-> cid, step |-> step, result |-> result,
   action |-> IF step = 0 THEN 0 ELSE counter["A"], cites |-> cites, src |-> src]

\* Mutant of NextStep: the index moves the wrong way.
NextStepBack == ip' = ip - 1 /\ Goto("act")

NextStep == ip' = ip + 1 /\ Goto("act")

\* Second half of run_step for an assert.
JudgeAssert ==
  /\ pc = "judge" /\ Current.kind \in AssertKinds
  /\ \E result \in Judgements(Current) : \E cites \in Cites(Current, result) :
       Record("E", "assertions",
              Assertion(Current.cid, ip, result, cites,
                        IF mode = "browser" THEN 0 ELSE Judged(Current).src))
  /\ NextStep
  /\ UNCHANGED <<phase, json, log, hashes, manifest>>
  /\ UNCHANGED <<mode, cause, exn, app, last, query, failed, cursor>>

\* Second half of run_step for an operation that failed: action_executed.
JudgeError ==
  /\ pc = "judge" /\ Current.kind \notin AssertKinds /\ failed
  /\ Record("E", "assertions",
            Assertion(Current.cid, ip, "inconclusive",
                      IF Current.kind = "query" THEN {counter["O"]} ELSE {}, 0))
  /\ NextStep
  /\ UNCHANGED <<phase, json, log, hashes, manifest>>
  /\ UNCHANGED <<mode, cause, exn, app, last, query, failed, cursor>>

\* Mutant of JudgeNothing: an operation that succeeded counts as a pass.
JudgeOperationPasses ==
  /\ pc = "judge" /\ Current.kind \notin AssertKinds /\ ~failed
  /\ Record("E", "assertions",
            Assertion(Current.cid, ip, "pass", {counter["O"]}, ip))
  /\ NextStep
  /\ UNCHANGED <<phase, json, log, hashes, manifest>>
  /\ UNCHANGED <<mode, cause, exn, app, last, query, failed, cursor>>

\* An operation that succeeded is no evidence by itself.
JudgeNothing ==
  /\ pc = "judge" /\ Current.kind \notin AssertKinds /\ ~failed
  /\ NextStep
  /\ UNCHANGED <<storeVars, mode, cause, exn, app, last, query, failed, cursor>>

PlanDone ==
  /\ pc = "act" /\ ip > Len(Steps)
  /\ Goto("stop")
  /\ UNCHANGED <<storeVars, mode, cause, exn, app, ip, last, query, failed, cursor>>

\* The runner raises: no browser to launch, a page that went away, a full
\* disk.  An id it has allocated may be lost: ids are allocated before the blob
\* that is named after them is made (browser.py even reads the page in between).
RunnerRaises ==
  /\ pc \in {"act", "observe", "judge"}
  /\ \/ UNCHANGED counter
     \/ LET p == [act |-> "A", observe |-> "O", judge |-> "E"][pc]
        IN  counter' = [counter EXCEPT ![p] = NextId(p)]
  /\ cause' = "runner_failed"
  /\ Goto("inconclusive")
  /\ UNCHANGED <<phase, json, rows, log, hashes, manifest>>
  /\ UNCHANGED <<mode, exn, app, ip, last, query, failed, cursor>>

-------------------------------------------------------------------------------
\* Mutant of InconclusiveOne: only constraints without a row get one, as in
\* _ensure_coverage.
InconclusiveIfMissing ==
  /\ pc = "inconclusive" /\ cursor <= Last
  /\ IF \E e \in Assertions : e.cid = cursor
       THEN UNCHANGED <<rows, counter>>
       ELSE Record("E", "assertions", Assertion(cursor, 0, "inconclusive", {}, 0))
  /\ cursor' = cursor + 1
  /\ UNCHANGED <<phase, json, log, hashes, manifest>>
  /\ UNCHANGED <<pc, mode, cause, exn, app, ip, last, query, failed>>

\* One iteration of _inconclusive_all.
InconclusiveOne ==
  /\ pc = "inconclusive" /\ cursor <= Last
  /\ Record("E", "assertions", Assertion(cursor, 0, "inconclusive", {}, 0))
  /\ cursor' = cursor + 1
  /\ UNCHANGED <<phase, json, log, hashes, manifest>>
  /\ UNCHANGED <<pc, mode, cause, exn, app, ip, last, query, failed>>

InconclusiveDone ==
  /\ pc = "inconclusive" /\ cursor > Last
  /\ Goto("stop")
  /\ UNCHANGED <<storeVars, mode, cause, exn, app, ip, last, query, failed, cursor>>

\* Mutant of StopApp: terminate without the wait.
StopWithoutWait ==
  /\ pc = "stop"
  /\ Goto(IF exn THEN "raised" ELSE "coverage")
  /\ cursor' = HappyPath
  /\ UNCHANGED <<storeVars, mode, cause, exn, app, ip, last, query, failed>>

\* Mutant of StopApp: only a running application is stopped; one that has
\* exited is waited for without a deadline.
StopRunningOnly ==
  /\ pc = "stop" /\ app # "exited"
  /\ app' = IF app = "none" THEN "none" ELSE "stopped"
  /\ Goto(IF exn THEN "raised" ELSE "coverage")
  /\ cursor' = HappyPath
  /\ UNCHANGED <<storeVars, mode, cause, exn, ip, last, query, failed>>

\* stop_app: terminate (or kill) and wait for the process it started; what the
\* process itself has started is not waited for.
StopApp ==
  /\ pc = "stop"
  /\ app' \in IF app = "none" THEN {"none"}
              ELSE {"stopped"} \cup (IF Descendants THEN {"orphans"} ELSE {})
  /\ Goto(IF exn THEN "raised" ELSE "coverage")
  /\ cursor' = HappyPath
  /\ UNCHANGED <<storeVars, mode, cause, exn, ip, last, query, failed>>

\* The wait after kill() times out as well.
StopRaises ==
  /\ pc = "stop" /\ app = "running"
  /\ Goto("raised")
  /\ exn' = TRUE
  /\ UNCHANGED <<storeVars, mode, cause, app, ip, last, query, failed, cursor>>

\* Mutant of CoverOne: a constraint without evidence is given the benefit of
\* the doubt.
CoverOneAsPass ==
  /\ pc = "coverage" /\ cursor <= Last
  /\ IF \E e \in Assertions : e.cid = cursor
       THEN UNCHANGED <<rows, counter>>
       ELSE Record("E", "assertions", Assertion(cursor, 0, "pass", {}, 0))
  /\ cursor' = cursor + 1
  /\ UNCHANGED <<phase, json, log, hashes, manifest>>
  /\ UNCHANGED <<pc, mode, cause, exn, app, ip, last, query, failed>>

\* One iteration of _ensure_coverage.
CoverOne ==
  /\ pc = "coverage" /\ cursor <= Last
  /\ IF \E e \in Assertions : e.cid = cursor
       THEN UNCHANGED <<rows, counter>>
       ELSE Record("E", "assertions", Assertion(cursor, 0, "inconclusive", {}, 0))
  /\ cursor' = cursor + 1
  /\ UNCHANGED <<phase, json, log, hashes, manifest>>
  /\ UNCHANGED <<pc, mode, cause, exn, app, ip, last, query, failed>>

\* Mutant of WriteVerdict: the rows the runner returned are rolled up, not the
\* rows of the file.
WriteVerdictOfRunner ==
  /\ pc = "coverage" /\ cursor > Last
  /\ WriteJson("verdict", BuildVerdict({e \in Assertions : e.step > 0},
                                       Constraint, HappyPath))
  /\ Goto("seal")
  /\ UNCHANGED <<phase, rows, counter, log, hashes, manifest>>
  /\ UNCHANGED <<mode, cause, exn, app, ip, last, query, failed, cursor>>

\* Mutant of WriteVerdict: the coverage loop is left before it has finished.
WriteVerdictEarly ==
  /\ pc = "coverage"
  /\ WriteJson("verdict", BuildVerdict(Assertions, Constraint, HappyPath))
  /\ Goto("seal")
  /\ UNCHANGED <<phase, rows, counter, log, hashes, manifest>>
  /\ UNCHANGED <<mode, cause, exn, app, ip, last, query, failed, cursor>>

\* Reload assertions.jsonl, build_verdict, write verdict.json.
WriteVerdict ==
  /\ pc = "coverage" /\ cursor > Last
  /\ WriteJson("verdict", BuildVerdict(Assertions, Constraint, HappyPath))
  /\ Goto("seal")
  /\ UNCHANGED <<phase, rows, counter, log, hashes, manifest>>
  /\ UNCHANGED <<mode, cause, exn, app, ip, last, query, failed, cursor>>

Seal ==
  /\ pc = "seal"
  /\ \/ (SealHash \/ SealOpenManifest \/ SealWriteManifest) /\ UNCHANGED pc
     \/ Freeze /\ Goto("done")
  /\ UNCHANGED <<mode, cause, exn, app, ip, last, query, failed, cursor>>

-------------------------------------------------------------------------------
Terminal == pc \in {"done", "raised", "crashed"}

\* The verifier dies: power, kill -9, Ctrl-C twice.  The application it
\* started is a process of its own and lives on.
Crash ==
  /\ ~Terminal
  /\ Goto("crashed")
  /\ UNCHANGED <<storeVars, mode, cause, exn, app, ip, last, query, failed, cursor>>

\* The application (or a child it left) writes a line of output.
AppLogs ==
  /\ AppMayLog /\ log < MaxLog
  /\ log' = log + 1
  /\ UNCHANGED <<phase, json, rows, counter, hashes, manifest, ctlVars>>

AppExits ==
  /\ app = "running"
  /\ app' = "exited"
  /\ UNCHANGED <<storeVars, pc, mode, cause, exn, ip, last, query, failed, cursor>>

Setup == CreateRun \/ WriteRequirements \/ StartApp \/ UseRunningApp
           \/ StartRaises \/ Healthy \/ Unreachable
Planning == BuildPlan \/ RejectIr \/ EngineRaises
Running == Act \/ Observe \/ JudgeAssert \/ JudgeError \/ JudgeNothing
             \/ PlanDone \/ RunnerRaises
Finishing == InconclusiveOne \/ InconclusiveDone \/ StopApp \/ StopRaises
               \/ CoverOne \/ WriteVerdict \/ Seal \/ FinishRaises

\* A step of the thread that runs verify().
Verifier == Setup \/ Planning \/ Running \/ Finishing

Next == Verifier \/ Crash \/ AppLogs \/ AppExits

Spec == Init /\ [][Next]_vars

\* Where verify() waits for somebody who need never come to an end: the timeout
\* of a request, of the health check or of the planner's model bounds each read of
\* a socket and not the whole answer, and reading the page or closing the browser
\* has no deadline.
AtTheirMercy ==
  \/ pc \in {"health", "plan"}
  \/ pc = "act" /\ ip <= Len(Steps) /\ Current.kind = "request"
  \/ pc \in {"act", "observe", "judge"} /\ mode = "browser"

\* Everywhere else a verifier that can take a step takes one: files, SQLite with
\* its timeout, the two waits of stop_app with theirs.  Nothing is assumed of
\* the application, nor of the steps that wait for it.
FairSpec == Spec /\ WF_vars(Verifier /\ ~AtTheirMercy)

-------------------------------------------------------------------------------
(* Type invariant. *)
PlanFiles == {PlanFile(steps) : steps \in Plans \cup {<<>>}}

ActionRows == [id : Nat, cid : Constraint, step : Nat]
ObservationRows == [id : Nat, cid : Constraint, action : Nat]
AssertionRows == [id : Nat, cid : Constraint, step : Nat, result : Results,
                  action : Nat, cites : SUBSET Nat, src : Nat]

Labels == {"create", "requirements", "start", "health", "plan", "act", "observe",
           "judge", "inconclusive", "stop", "coverage", "seal", "done", "raised",
           "crashed"}

FilesOK ==
  /\ phase \in Phases
  /\ DOMAIN json = JsonNames
  /\ json["requirements"] \in {NoFile, Constraint}
  /\ json["plan"] \in {NoFile} \cup PlanFiles
  /\ log \in Nat

NotebookOK ==
  /\ DOMAIN rows = RowFiles
  /\ \A r \in Actions : r \in ActionRows
  /\ \A r \in Observations : r \in ObservationRows
  /\ \A r \in Assertions : r \in AssertionRows
  /\ counter \in [Prefixes -> Nat]

ControlOK ==
  /\ pc \in Labels
  /\ mode \in Modes
  /\ cause \in {"none", "unreachable", "ir_error", "runner_failed"}
  /\ exn \in BOOLEAN
  /\ app \in Apps
  /\ ip \in Nat \ {0}
  /\ last \in Exchanges
  /\ query \in Exchanges
  /\ failed \in BOOLEAN
  /\ cursor \in 0..Last + 1

\* Every variable of verify() and of the run directory has its type.
TypeOK == FilesOK /\ NotebookOK /\ ControlOK

-------------------------------------------------------------------------------
(* What a run may claim. *)
Decided == json["verdict"] # NoFile
Verdict == json["verdict"].verdict
Passes(c) == {e \in RowsOf(Assertions, c) : e.result = "pass"}

\* From the moment it is written, verdict.json is the roll-up of everything in
\* assertions.jsonl: no row is recorded behind its back and none is left out
\* (engine.py:184-187, README "only input to the verdict").
VerdictFollowsEvidence ==
  Decided => json["verdict"] = BuildVerdict(Assertions, Constraint, HappyPath)

\* PROVEN needs a plan that ran to its end and, for every declared constraint,
\* a passing row that cites an observation made for that same constraint
\* (engine.py:27-48, README law 10 "uncovered C-* cannot vanish into a pass").
ProvenIsWitnessed ==
  Decided /\ Verdict = "PROVEN" =>
    /\ cause = "none"
    /\ \A c \in Constraint : \E e \in Passes(c), o \in Observations :
         o.cid = c /\ o.id \in e.cites

\* A constraint the plan lists as uncovered is not reported as passing, and the
\* requirement is then not PROVEN (ir.py:338-352 against verdicts.py:90-129).
UncoveredNeverPasses ==
  Decided => \A c \in json["plan"].uncovered :
    json["verdict"].rows[c] # "pass" /\ Verdict # "PROVEN"

\* A run that could not be carried out (application unreachable, plan
\* rejected, runner failed) never counts for the application: nothing but
\* FAILED, on failing rows recorded before, or INCONCLUSIVE (engine.py:128-180).
AbandonedRunClaimsNothing ==
  Decided /\ cause # "none" =>
    \/ Verdict = "INCONCLUSIVE"
    \/ Verdict = "FAILED" /\ \E e \in RowsOf(Assertions, HappyPath) : e.result = "fail"

\* A result is never taken from an older exchange than the latest request of
\* the plan (latest query for a cell check): an HTTP exchange that raised
\* leaves nothing behind to be judged (http.py:128-134, state.py:50-52).
JudgedOnLatest ==
  mode # "browser" => \A e \in Assertions :
    e.step > 0 /\ e.result # "inconclusive" =>
      LET channel == IF Steps[e.step].kind = "cell" THEN "query" ELSE "request"
      IN  /\ e.src \in 1..e.step - 1
          /\ Steps[e.src].kind = channel
          /\ \A i \in e.src + 1..e.step - 1 : Steps[i].kind # channel

\* The notebook can be walked at every moment, also after a crash or a failed
\* runner: an assertion of a runner belongs to the action its own step recorded,
\* the observations it cites were made of that action and no other, and an
\* observation belongs to a recorded action (http.py:165-187, graph.py:47-55,
\* README "A stranger can walk").
NotebookIsClosed ==
  /\ \A e \in Assertions : e.step > 0 =>
       \E a \in Actions : a.id = e.action /\ a.step = e.step /\ a.cid = e.cid
  /\ \A e \in Assertions : \A i \in e.cites :
       \E o \in Observations : o.id = i /\ o.action = e.action /\ o.cid = e.cid
  /\ \A o \in Observations :
       \E a \in Actions : a.id = o.action /\ a.cid = o.cid

\* Two rows of a file never share an id, whatever was allocated and lost
\* (store.py:69-72, README "Namespaces are never reused").
IdsNeverReused ==
  \A f \in RowFiles : \A r, s \in rows[f] : r.id = s.id => r = s

\* Once manifest.json is written the run verifies, and goes on verifying: the
\* application is stopped before the files are hashed (engine.py:182, 188).
SealedIsIntact == Sealed => VerifyManifest

\* verify() ends, with a verdict or with an exception, unless it is kept waiting
\* for ever at one of the places where somebody else may do that.  Nothing else
\* holds it up: no application that has died or ignores SIGTERM, no step that
\* failed and no constraint without evidence (engine.py:129-188,
\* process.py:60-72; needs FairSpec).
VerifyEnds == []<>~AtTheirMercy => <>Terminal

\* The abstract promise: evidence is gathered, then judged once, then sealed, in
\* the stages every reader of runs relies on.
Promise == INSTANCE Protocol WITH
  evidence <- Assertions, verdict <- json["verdict"], stage <- Stage
KeepsPromise == Promise!Spec

-------------------------------------------------------------------------------
(* A statement of the documentation that the code does not keep. *)

\* README.md:188, "PROVEN: ... chain intact, seal valid": a run that ended PROVEN
\* verifies.  stop_app ends the process it started and not that process's
\* children; they hold the log open, and freezing the file does not stop them.
ProvenSealIsValid == pc = "done" /\ Verdict = "PROVEN" => VerifyManifest
===============================================================================
