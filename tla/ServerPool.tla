------------------------------ MODULE ServerPool ------------------------------
(***************************************************************************)
(* The engine behind HTTP (opentruth/server.py): handlers submit a job to a *)
(* thread pool and wait for it with a timeout; a job takes a permit of a    *)
(* semaphore without blocking, runs verify() or diff_runs() once or, for a  *)
(* loop, three times, and gives the permit back.  A job whose handler has   *)
(* given up is not cancelled.  A run directory is reduced to the steps of   *)
(* Engine and DiffRun that readers can tell apart.                          *)
(***************************************************************************)
EXTENDS Naturals, FiniteSets, Sequences

CONSTANTS
  Request,     \* the POST requests of a behaviour
  Kinds,       \* which of "verify", "diff", "loop" they may be
  Workers,     \* max_workers of _POOL
  Permits,     \* permits of _VERIFY_LOCK
  MaxRestarts  \* bound: restarts of the server process

ASSUME PoolAssumption ==
  /\ IsFiniteSet(Request)
  /\ Kinds \subseteq {"verify", "diff", "loop"}
  /\ Workers \in Nat \ {0}
  /\ Permits \in Nat \ {0}
  /\ MaxRestarts \in Nat

VARIABLES
  kind,      \* what each request asks for; "none" before it is made
  reply,     \* what its client has been told: see Replies
  job,       \* where its job is: see JobStates
  result,    \* how its job went
  inputs,    \* the run directories a diff compares
  stage,     \* which of its runs the job is at
  queue,     \* jobs submitted to the pool and not yet taken, oldest first
  permits,   \* free permits of _VERIFY_LOCK
  run,       \* every run directory: see RunStates
  restarts

jobVars == <<kind, reply, job, result, inputs, stage, queue, permits>>
vars == <<jobVars, run, restarts>>

Replies == {"none", "waiting", "200", "400", "404", "429", "500", "504", "dropped"}
\* holding: on a worker, with a permit   released: permit given back, future
\* not yet set   done: future set, worker free again
JobStates == {"none", "queued", "holding", "released", "done", "lost"}
\* timeout: the job raised the built-in TimeoutError, which is also what
\* future.result raises when it gives up waiting (Python 3.11 and later).
JobResults == {"none", "returned", "raised", "timeout", "busy"}
\* open: directory   decided: verdict.json   torn: manifest.json created but
\* empty   sealed: manifest.json complete
RunStates == {"absent", "open", "decided", "torn", "sealed"}
RunId == Request \X (1..3)

LoopLength(k) == IF k = "loop" THEN 3 ELSE 1
RunAt(r) == <<r, stage[r]>>

\* Jobs that hold a permit, and jobs that occupy a thread of the pool.
Holding == {r \in Request : job[r] = "holding"}
OnWorker == {r \in Request : job[r] \in {"holding", "released"}}

\* The readers' tests for a run directory.
HasVerdict(d) == run[d] \in {"decided", "torn", "sealed"}  \* list_runs, _latest_summary
HasManifest(d) == run[d] \in {"torn", "sealed"}            \* _run_dir, health

-------------------------------------------------------------------------------
Init ==
  /\ kind = [r \in Request |-> "none"]
  /\ reply = [r \in Request |-> "none"]
  /\ job = [r \in Request |-> "none"]
  /\ result = [r \in Request |-> "none"]
  /\ inputs = [r \in Request |-> {}]
  /\ stage = [r \in Request |-> 1]
  /\ queue = <<>>
  /\ permits = Permits
  /\ run = [d \in RunId |-> "absent"]
  /\ restarts = 0

\* _call, first half: the job goes to the pool and the handler starts to wait.
\* api_diff first looks up two distinct runs with _run_dir.
Submit(r, k) ==
  /\ kind[r] = "none" /\ reply[r] = "none"
  /\ kind' = [kind EXCEPT ![r] = k]
  /\ \/ /\ k # "diff"
        /\ inputs' = inputs
     \/ /\ k = "diff"
        /\ \E left, right \in {d \in RunId : HasManifest(d)} :
             left # right /\ inputs' = [inputs EXCEPT ![r] = {left, right}]
  /\ reply' = [reply EXCEPT ![r] = "waiting"]
  /\ job' = [job EXCEPT ![r] = "queued"]
  /\ queue' = Append(queue, r)
  /\ UNCHANGED <<result, stage, permits, run, restarts>>

\* api_diff with a run id _run_dir does not know.
UnknownRun(r) ==
  /\ kind[r] = "none" /\ reply[r] = "none" /\ "diff" \in Kinds
  /\ \E d \in RunId : ~HasManifest(d)
  /\ reply' = [reply EXCEPT ![r] = "404"]
  /\ UNCHANGED <<kind, job, result, inputs, stage, queue, permits, run, restarts>>

\* api_diff of a run with itself.
SameRun(r) ==
  /\ kind[r] = "none" /\ reply[r] = "none" /\ "diff" \in Kinds
  /\ \E d \in RunId : HasManifest(d)
  /\ reply' = [reply EXCEPT ![r] = "400"]
  /\ UNCHANGED <<kind, job, result, inputs, stage, queue, permits, run, restarts>>

\* Mutant of IdleWorker: one thread too many.
OneTooMany == Cardinality(OnWorker) <= Workers

IdleWorker == Cardinality(OnWorker) < Workers

\* A thread of the pool takes the oldest job, whose first act is
\* _VERIFY_LOCK.acquire(blocking=False).
StartHolding(r) ==
  /\ IdleWorker /\ queue # <<>> /\ Head(queue) = r
  /\ permits > 0
  /\ permits' = permits - 1
  /\ job' = [job EXCEPT ![r] = "holding"]
  /\ queue' = Tail(queue)
  /\ UNCHANGED <<kind, reply, result, inputs, stage, run, restarts>>

\* Mutant of StartBusy: acquire inside the try, whose finally releases.
StartBusyReleasing(r) ==
  /\ IdleWorker /\ queue # <<>> /\ Head(queue) = r
  /\ permits = 0
  /\ permits' = permits + 1
  /\ job' = [job EXCEPT ![r] = "done"]
  /\ result' = [result EXCEPT ![r] = "busy"]
  /\ queue' = Tail(queue)
  /\ UNCHANGED <<kind, reply, inputs, stage, run, restarts>>

\* Mutant of StartBusy: the run directory is made before the permit is asked for.
StartBusyCreating(r) ==
  /\ IdleWorker /\ queue # <<>> /\ Head(queue) = r
  /\ permits = 0
  /\ job' = [job EXCEPT ![r] = "done"]
  /\ result' = [result EXCEPT ![r] = "busy"]
  /\ queue' = Tail(queue)
  /\ run' = [run EXCEPT ![RunAt(r)] = "open"]
  /\ UNCHANGED <<kind, reply, inputs, stage, permits, restarts>>

\* acquire(blocking=False) fails: Busy is raised before the try block.
StartBusy(r) ==
  /\ IdleWorker /\ queue # <<>> /\ Head(queue) = r
  /\ permits = 0
  /\ job' = [job EXCEPT ![r] = "done"]
  /\ result' = [result EXCEPT ![r] = "busy"]
  /\ queue' = Tail(queue)
  /\ UNCHANGED <<kind, reply, inputs, stage, permits, run, restarts>>

-------------------------------------------------------------------------------
\* Mutant of Readable: any run with a manifest will do.
ReadableIfPresent(d) == HasManifest(d)

\* load_graph can parse the run: an empty manifest.json raises.
Readable(d) == run[d] = "sealed"

\* The two runs the present stage compares; empty when it runs verify().
Compared(r) ==
  IF kind[r] = "diff" THEN inputs[r]
  ELSE IF stage[r] = 3 THEN {<<r, 1>>, <<r, 2>>} ELSE {}

\* RunStore.create, after diff_runs has loaded both graphs.
OpenRun(r) ==
  /\ job[r] = "holding" /\ run[RunAt(r)] = "absent"
  /\ \A d \in Compared(r) : Readable(d)
  /\ run' = [run EXCEPT ![RunAt(r)] = "open"]
  /\ UNCHANGED <<jobVars, restarts>>

\* write_json("verdict.json"), then the two halves of the write of manifest.json.
AdvanceRun(r) ==
  /\ job[r] = "holding"
  /\ \E step \in {<<"open", "decided">>, <<"decided", "torn">>, <<"torn", "sealed">>} :
       run[RunAt(r)] = step[1] /\ run' = [run EXCEPT ![RunAt(r)] = step[2]]
  /\ UNCHANGED <<jobVars, restarts>>

\* Mutant of NextRun: the loop does not know its end.
NextRunForever(r) ==
  /\ job[r] = "holding" /\ run[RunAt(r)] = "sealed"
  /\ stage' = [stage EXCEPT ![r] = @ + 1]
  /\ UNCHANGED <<kind, reply, job, result, inputs, queue, permits, run, restarts>>

\* _locked_loop goes on to its next run.
NextRun(r) ==
  /\ job[r] = "holding" /\ run[RunAt(r)] = "sealed"
  /\ stage[r] < LoopLength(kind[r])
  /\ stage' = [stage EXCEPT ![r] = @ + 1]
  /\ UNCHANGED <<kind, reply, job, result, inputs, queue, permits, run, restarts>>

\* The end of the job's try block: `finally` releases, on every way out.
Release(r, how) ==
  /\ job[r] = "holding"
  /\ permits' = permits + 1
  /\ job' = [job EXCEPT ![r] = "released"]
  /\ result' = [result EXCEPT ![r] = how]
  /\ UNCHANGED <<kind, reply, inputs, stage, queue, run, restarts>>

\* Mutant of JobReturns: the loop is over when its second run is.
ReturnsEarly(r) ==
  /\ run[RunAt(r)] \in {"decided", "torn", "sealed"}
  /\ stage[r] = LoopLength(kind[r])
  /\ Release(r, "returned")

JobReturns(r) ==
  /\ run[RunAt(r)] = "sealed" /\ stage[r] = LoopLength(kind[r])
  /\ Release(r, "returned")

\* verify() or diff_runs() raises, a sealed run's _freeze_tree included; the
\* run directory stays as it is.
JobRaises(r) == \E how \in {"raised", "timeout"} : Release(r, how)

\* Mutant of Resolve: a job nobody waits for any more is dropped with its
\* thread.
ResolveIfAwaited(r) ==
  /\ job[r] = "released" /\ reply[r] = "waiting"
  /\ job' = [job EXCEPT ![r] = "done"]
  /\ UNCHANGED <<kind, reply, result, inputs, stage, queue, permits, run, restarts>>

\* The pool sets the future; the thread is idle again.
Resolve(r) ==
  /\ job[r] = "released"
  /\ job' = [job EXCEPT ![r] = "done"]
  /\ UNCHANGED <<kind, reply, result, inputs, stage, queue, permits, run, restarts>>

-------------------------------------------------------------------------------
\* Status codes of _call and of the handler around it.
Status == [returned |-> "200", raised |-> "500", timeout |-> "504", busy |-> "429"]

\* Mutant of Answer: an exception of the job is not passed on.
AnswerIfReturned(r) ==
  /\ reply[r] = "waiting" /\ job[r] = "done" /\ result[r] = "returned"
  /\ reply' = [reply EXCEPT ![r] = Status[result[r]]]
  /\ UNCHANGED <<kind, job, result, inputs, stage, queue, permits, run, restarts>>

\* _call, second half: the future is set.
Answer(r) ==
  /\ reply[r] = "waiting" /\ job[r] = "done"
  /\ reply' = [reply EXCEPT ![r] = Status[result[r]]]
  /\ UNCHANGED <<kind, job, result, inputs, stage, queue, permits, run, restarts>>

\* future.result gives up first; the job stays where it is, queued or running.
GiveUp(r) ==
  /\ reply[r] = "waiting" /\ job[r] # "done"
  /\ reply' = [reply EXCEPT ![r] = "504"]
  /\ UNCHANGED <<kind, job, result, inputs, stage, queue, permits, run, restarts>>

\* The process dies and is started again: threads, queue, semaphore and
\* connections are gone, run directories are not.
Restart ==
  /\ restarts < MaxRestarts
  /\ restarts' = restarts + 1
  /\ reply' = [r \in Request |-> IF reply[r] = "waiting" THEN "dropped" ELSE reply[r]]
  /\ job' = [r \in Request |->
               IF job[r] \in {"queued", "holding", "released"} THEN "lost" ELSE job[r]]
  /\ queue' = <<>>
  /\ permits' = Permits
  /\ UNCHANGED <<kind, result, inputs, stage, run>>

\* A step of the thread that runs r's job.
JobStep(r) ==
  \/ StartHolding(r) \/ StartBusy(r)
  \/ OpenRun(r) \/ AdvanceRun(r) \/ NextRun(r)
  \/ JobReturns(r) \/ JobRaises(r) \/ Resolve(r)

\* A step of the thread that waits for it.
HandlerStep(r) == Answer(r) \/ GiveUp(r)

Next ==
  \/ \E r \in Request : (\E k \in Kinds : Submit(r, k)) \/ UnknownRun(r) \/ SameRun(r)
  \/ \E r \in Request : JobStep(r) \/ HandlerStep(r)
  \/ Restart

Spec == Init /\ [][Next]_vars

\* An assumption and a fact.  Assumed: the job of a thread goes on.  The code
\* does not bound verify() by itself, Engine!VerifyEnds needs an application
\* that lets go of it time and again; the one the server starts is its own
\* MiniAuth demo (server.py:114, 133), which answers.  Fact: the handler's
\* future.result has a timeout.  Nobody has to send a request or to restart
\* the server.
FairSpec ==
  Spec /\ \A r \in Request : WF_vars(JobStep(r)) /\ WF_vars(HandlerStep(r))

-------------------------------------------------------------------------------
\* Every variable has its type.
TypeOK ==
  /\ kind \in [Request -> Kinds \cup {"none"}]
  /\ reply \in [Request -> Replies]
  /\ job \in [Request -> JobStates]
  /\ result \in [Request -> JobResults]
  /\ inputs \in [Request -> SUBSET RunId]
  /\ stage \in [Request -> 1..3]
  /\ queue \in Seq(Request)
  /\ permits \in Nat
  /\ run \in [RunId -> RunStates]
  /\ restarts \in Nat

\* No permit is lost or made up, whichever way the jobs end and whatever the
\* handlers were told: the free ones and the held ones are all of them
\* (server.py:157-189).
PermitsBalance == permits + Cardinality(Holding) = Permits

\* With at least as many permits as threads - the code has two and two - a job
\* that starts always finds a permit: Busy, and with it the 429, never happens.
\* A full engine shows itself as waiting in the queue and a 504 instead.
NeverBusy == Permits >= Workers => \A r \in Request : result[r] # "busy"

\* A client that is told 200 gets finished runs: every run of its job is
\* sealed, also when others are read and written meanwhile.
OkMeansSealed ==
  \A r \in Request : reply[r] = "200" =>
    \A i \in 1..LoopLength(kind[r]) : run[<<r, i>>] = "sealed"

\* A comparison is made of two complete runs only, although the handler looked
\* at nothing but the presence of manifest.json, and did so before the job
\* waited in the queue (server.py:395-402).
DiffReadsSealed ==
  \A r \in Request :
    run[RunAt(r)] # "absent" => \A d \in Compared(r) : run[d] = "sealed"

\* A client that is told the engine is busy has left no run behind.
BusyLeavesNothing ==
  \A r \in Request : reply[r] = "429" => \A i \in 1..3 : run[<<r, i>>] = "absent"

\* Every request is answered, or its connection is gone (needs FairSpec).
EveryRequestAnswered ==
  \A r \in Request : reply[r] = "waiting" ~> reply[r] # "waiting"

\* A job is worked off also when its client has given up, so that the pool
\* comes back to rest with all its permits (needs FairSpec).
PoolComesToRest == <>[](OnWorker = {} /\ queue = <<>> /\ permits = Permits)
===============================================================================
