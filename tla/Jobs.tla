---------------------------------- MODULE Jobs ----------------------------------
(***************************************************************************)
(* Concurrent verifications on one machine, each the CI job of action.yml:  *)
(* `opentruth verify`, then `opentruth pack`, which always() runs, in the   *)
(* same checkout.  They share the ports (free_port, start_app, wait_health, *)
(* runners/process.py) and the directory .opentruth/runs (latest_run,       *)
(* store.py).  What verify() does in between is Engine; here it asks        *)
(* whoever listens, and its directory goes through RunStages.               *)
(***************************************************************************)
EXTENDS Naturals, FiniteSets

CONSTANTS
  Job,
  Port,    \* ports the system hands out
  Nobody   \* no job and no port

ASSUME JobsAssumption == Nobody \notin Job \cup Port

VARIABLES
  pc,        \* where each job is: see Labels
  port,      \* the port free_port has returned, or Nobody
  app,       \* the application process of each job: see AppStates
  listener,  \* whose application listens on each port
  asked,     \* whose applications have answered a job's steps
  run,       \* the stage of each job's run directory
  mtime,     \* when that directory was last changed
  clock,     \* the file system's clock
  latest,    \* the run pack has chosen
  bundle,    \* the run in the zip
  collided,  \* jobs given a port that another one held and had not bound (observed only)
  alone      \* jobs whose own application has never gone (observed only)

verifyVars == <<port, app, listener, asked, collided, alone>>
runVars == <<run, mtime, clock>>
packVars == <<latest, bundle>>
vars == <<pc, verifyVars, runVars, packVars>>

Ended == {"returned", "raised", "crashed"}
Labels == {"pick", "create", "start", "wait", "judge", "stop", "conclude", "seal", "close",
           "zip", "packed", "failed"} \cup Ended
\* exited: stopped, died, or could not bind
AppStates == {"none", "started", "up", "exited"}
RunStates == {"absent", "open", "decided", "torn", "sealed"}

Init ==
  /\ pc = [j \in Job |-> "pick"]
  /\ port = [j \in Job |-> Nobody]
  /\ app = [j \in Job |-> "none"]
  /\ listener = [p \in Port |-> Nobody]
  /\ asked = [j \in Job |-> {}]
  /\ run = [j \in Job |-> "absent"]
  /\ mtime = [j \in Job |-> 0]
  /\ clock = 0
  /\ latest = [j \in Job |-> Nobody]
  /\ bundle = [j \in Job |-> Nobody]
  /\ collided = {} /\ alone = Job

Goto(j, label) == pc' = [pc EXCEPT ![j] = label]

-------------------------------------------------------------------------------
(* The port and the application. *)

\* Jobs whose port is p and whose application may yet bind it.
Holding(p) ==
  {j \in Job : port[j] = p /\ (app[j] = "started" \/ pc[j] \in {"create", "start"})}

\* Mutant of Free: whatever the environment names, as with a fixed PORT.
FreeOrNot(p) == TRUE

\* bind() to port 0 succeeds with a port that nobody has.
Free(p) == listener[p] = Nobody

\* free_port: the socket is closed again before it returns.
FreePort(j) ==
  /\ pc[j] = "pick"
  /\ \E p \in Port :
       /\ Free(p)
       /\ port' = [port EXCEPT ![j] = p]
       /\ collided' = IF Holding(p) = {} THEN collided ELSE collided \cup {j} \cup Holding(p)
  /\ Goto(j, "create")
  /\ UNCHANGED <<app, listener, asked, alone, runVars, packVars>>

\* A change of the directory of j, and the time it gets: files changed within
\* one tick of the clock have the same.
Enter(j, stage) ==
  /\ run' = [run EXCEPT ![j] = stage]
  /\ mtime' = [mtime EXCEPT ![j] = clock]
  /\ clock' \in {clock, clock + 1}

CreateRun(j) ==
  /\ pc[j] = "create"
  /\ Enter(j, "open")
  /\ Goto(j, "start")
  /\ UNCHANGED <<verifyVars, packVars>>

StartApp(j) ==
  /\ pc[j] = "start"
  /\ app' = [app EXCEPT ![j] = "started"]
  /\ Goto(j, "wait")
  /\ UNCHANGED <<port, listener, asked, collided, alone, runVars, packVars>>

\* The application binds its port, or finds it taken and exits.
Bind(j) ==
  /\ app[j] = "started"
  /\ IF listener[port[j]] = Nobody
       THEN /\ listener' = [listener EXCEPT ![port[j]] = j]
            /\ app' = [app EXCEPT ![j] = "up"]
            /\ alone' = alone
       ELSE /\ listener' = listener
            /\ app' = [app EXCEPT ![j] = "exited"]
            /\ alone' = alone \ {j}
  /\ UNCHANGED <<pc, port, asked, collided, runVars, packVars>>

\* Every port without the application of j.
Without(j) == [p \in Port |-> IF listener[p] = j THEN Nobody ELSE listener[p]]

\* The application exits by itself.
AppExits(j) ==
  /\ app[j] \in {"started", "up"}
  /\ app' = [app EXCEPT ![j] = "exited"]
  /\ listener' = Without(j)
  /\ alone' = alone \ {j}
  /\ UNCHANGED <<pc, port, asked, collided, runVars, packVars>>

\* wait_health: somebody answers on the port, or the timeout passes.
WaitHealth(j) ==
  /\ pc[j] = "wait"
  /\ \/ listener[port[j]] # Nobody /\ Goto(j, "judge")
     \/ Goto(j, "stop")
  /\ UNCHANGED <<verifyVars, runVars, packVars>>

\* A step of the plan is answered by whoever listens now.
Exchange(j) ==
  /\ pc[j] = "judge"
  /\ listener[port[j]] # Nobody
  /\ asked' = [asked EXCEPT ![j] = @ \cup {listener[port[j]]}]
  /\ UNCHANGED <<pc, port, app, listener, collided, alone, runVars, packVars>>

PlanDone(j) ==
  /\ pc[j] = "judge"
  /\ Goto(j, "stop")
  /\ UNCHANGED <<verifyVars, runVars, packVars>>

\* Mutant of StopApp: the process is not waited for.
StopAppNoWait(j) ==
  /\ pc[j] = "stop"
  /\ app' = [app EXCEPT ![j] = "exited"]
  /\ Goto(j, "conclude")
  /\ UNCHANGED <<port, listener, asked, collided, alone, runVars, packVars>>

StopApp(j) ==
  /\ pc[j] = "stop"
  /\ app' = [app EXCEPT ![j] = "exited"]
  /\ listener' = Without(j)
  /\ Goto(j, "conclude")
  /\ UNCHANGED <<port, asked, collided, alone, runVars, packVars>>

\* start_app or stop_app raises out of verify().
VerifyRaises(j) ==
  /\ pc[j] \in {"start", "stop"}
  /\ Goto(j, "raised")
  /\ UNCHANGED <<verifyVars, runVars, packVars>>

-------------------------------------------------------------------------------
(* The run, and the bundle. *)

Conclude(j) ==
  /\ pc[j] = "conclude"
  /\ Enter(j, "decided")
  /\ Goto(j, "seal")
  /\ UNCHANGED <<verifyVars, packVars>>

OpenManifest(j) ==
  /\ pc[j] = "seal"
  /\ Enter(j, "torn")
  /\ Goto(j, "close")
  /\ UNCHANGED <<verifyVars, packVars>>

\* Writing the file and taking write bits away is no change of the directory.
CloseManifest(j) ==
  /\ pc[j] = "close"
  /\ run' = [run EXCEPT ![j] = "sealed"]
  /\ Goto(j, "returned")
  /\ UNCHANGED <<verifyVars, mtime, clock, packVars>>

\* The verifier dies: its application goes on, and its port stays taken.
Crash(j) ==
  /\ pc[j] \in {"start", "wait", "judge", "stop", "conclude", "seal", "close"}
  /\ Goto(j, "crashed")
  /\ UNCHANGED <<verifyVars, runVars, packVars>>

HasManifest == {d \in Job : run[d] \in {"torn", "sealed"}}

\* Mutant of LatestRuns: the run that was begun first.
EarliestRuns == {d \in HasManifest : \A e \in HasManifest : mtime[e] >= mtime[d]}

\* What latest_run may return.
LatestRuns == {d \in HasManifest : \A e \in HasManifest : mtime[e] <= mtime[d]}

\* `pack` without --run: resolve_run.
ResolveRun(j) ==
  /\ pc[j] \in Ended
  /\ \/ \E d \in LatestRuns : latest' = [latest EXCEPT ![j] = d] /\ Goto(j, "zip")
     \/ LatestRuns = {} /\ latest' = latest /\ Goto(j, "failed")
  /\ UNCHANGED <<verifyVars, runVars, bundle>>

\* pack_run: an empty manifest.json is a JSON error.
PackRun(j) ==
  /\ pc[j] = "zip"
  /\ \/ /\ run[latest[j]] = "sealed"
        /\ bundle' = [bundle EXCEPT ![j] = latest[j]]
        /\ Goto(j, "packed")
     \/ /\ run[latest[j]] = "torn"
        /\ bundle' = bundle
        /\ Goto(j, "failed")
  /\ UNCHANGED <<verifyVars, runVars, latest>>

-------------------------------------------------------------------------------
Verify(j) ==
  \/ FreePort(j) \/ CreateRun(j) \/ StartApp(j) \/ WaitHealth(j) \/ Exchange(j)
  \/ PlanDone(j) \/ StopApp(j) \/ VerifyRaises(j) \/ Crash(j)
  \/ Conclude(j) \/ OpenManifest(j) \/ CloseManifest(j)
Application(j) == Bind(j) \/ AppExits(j)
Pack(j) == ResolveRun(j) \/ PackRun(j)

Next == \E j \in Job : Verify(j) \/ Application(j) \/ Pack(j)

Spec == Init /\ [][Next]_vars

-------------------------------------------------------------------------------
\* Every variable has its type, and the ports belong to the applications that
\* are up: what stop_app leaves behind holds none (process.py:61-69).
TypeOK ==
  /\ pc \in [Job -> Labels]
  /\ port \in [Job -> Port \cup {Nobody}]
  /\ app \in [Job -> AppStates]
  /\ listener \in [Port -> Job \cup {Nobody}]
  /\ \A p \in Port, j \in Job : listener[p] = j <=> (app[j] = "up" /\ port[j] = p)
  /\ asked \in [Job -> SUBSET Job]
  /\ run \in [Job -> RunStates]
  /\ mtime \in [Job -> Nat] /\ clock \in Nat
  /\ latest \in [Job -> Job \cup {Nobody}] /\ bundle \in [Job -> Job \cup {Nobody}]
  /\ collided \subseteq Job /\ alone \subseteq Job

\* The application of another job answers for the declared one only if both
\* jobs were given the same port before either application had bound it, or the
\* application under judgment had gone: on this condition evidence is about the
\* program that was started (process.py:18-33, 44-56; engine.py:100-122).
ForeignNeedsRace == \A j \in Job : asked[j] \subseteq {j} \/ j \in collided \/ j \notin alone

\* What is packed is a sealed run; and after a verification that has sealed its
\* own, never an older one, whatever other jobs and earlier crashes have left in
\* the checkout (store.py:197-203, action.yml:89-100).
BundleIsNoOlder ==
  \A j \in Job : bundle[j] # Nobody =>
    /\ run[bundle[j]] = "sealed"
    /\ run[j] = "sealed" => mtime[bundle[j]] >= mtime[j]
===============================================================================
