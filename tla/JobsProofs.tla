------------------------------- MODULE JobsProofs -------------------------------
(* Concurrent verifications, for any number of jobs and of ports.            *)
EXTENDS Jobs, TLAPS

\* The steps of one job, and what a step of another does not touch.
Step(j) == Verify(j) \/ Application(j) \/ Pack(j)

\* What a job has and has done, by the label it is at.
Before == {"pick", "create", "start"}
PhaseInv ==
  \A j \in Job :
    /\ pc[j] = "pick" => port[j] = Nobody
    /\ pc[j] # "pick" => port[j] \in Port
    /\ pc[j] \in Before => app[j] = "none"
    /\ pc[j] \in {"wait", "judge", "stop"} => app[j] # "none"
    /\ pc[j] \in {"pick", "create"} => run[j] = "absent"
    /\ pc[j] \in {"start", "wait", "judge", "stop", "conclude"} => run[j] = "open"
    /\ pc[j] = "seal" => run[j] = "decided"
    /\ pc[j] = "close" => run[j] = "torn"

LEMMA JobsInit == Init => TypeOK /\ PhaseInv
BY JobsAssumption DEF Init, TypeOK, PhaseInv, Labels, AppStates, RunStates, Before

LEMMA PhaseStep == ASSUME TypeOK, PhaseInv, NEW j \in Job, Step(j) PROVE PhaseInv'
<1> USE DEF TypeOK, PhaseInv, Goto, Before, Ended, verifyVars, runVars, packVars
<1>1. CASE FreePort(j)
  BY <1>1 DEF FreePort
<1>2. CASE CreateRun(j)
  BY <1>2 DEF CreateRun, Enter
<1>3. CASE StartApp(j)
  BY <1>3 DEF StartApp
<1>4. CASE WaitHealth(j)
  BY <1>4 DEF WaitHealth
<1>5. CASE Exchange(j)
  BY <1>5 DEF Exchange
<1>6. CASE PlanDone(j)
  BY <1>6 DEF PlanDone
<1>7. CASE StopApp(j)
  BY <1>7 DEF StopApp
<1>8. CASE VerifyRaises(j)
  BY <1>8 DEF VerifyRaises
<1>9. CASE Crash(j)
  BY <1>9 DEF Crash
<1>10. CASE Conclude(j)
  BY <1>10 DEF Conclude, Enter
<1>11. CASE OpenManifest(j)
  BY <1>11 DEF OpenManifest, Enter
<1>12. CASE CloseManifest(j)
  BY <1>12 DEF CloseManifest
<1>13. CASE Bind(j)
  BY <1>13 DEF Bind
<1>14. CASE AppExits(j)
  BY <1>14 DEF AppExits
<1>15. CASE ResolveRun(j)
  BY <1>15 DEF ResolveRun
<1>16. CASE PackRun(j)
  BY <1>16 DEF PackRun
<1> QED
  BY <1>1, <1>2, <1>3, <1>4, <1>5, <1>6, <1>7, <1>8, <1>9, <1>10, <1>11, <1>12, <1>13, <1>14,
    <1>15, <1>16 DEF Step, Verify, Application, Pack

LEMMA TypeStep == ASSUME TypeOK, PhaseInv, NEW j \in Job, Step(j) PROVE TypeOK'
<1> USE JobsAssumption
    DEF TypeOK, Goto, Ended, Labels, AppStates, RunStates, verifyVars, runVars, packVars
<1>1. CASE FreePort(j)
  BY <1>1 DEF FreePort, PhaseInv, Before, Holding
<1>2. CASE CreateRun(j)
  BY <1>2 DEF CreateRun, Enter
<1>3. CASE StartApp(j)
  BY <1>3 DEF StartApp, PhaseInv, Before
<1>4. CASE WaitHealth(j)
  BY <1>4 DEF WaitHealth
<1>5. CASE Exchange(j)
  BY <1>5 DEF Exchange, PhaseInv
<1>6. CASE PlanDone(j)
  BY <1>6 DEF PlanDone
<1>7. CASE StopApp(j)
  BY <1>7 DEF StopApp, Without
<1>8. CASE VerifyRaises(j)
  BY <1>8 DEF VerifyRaises
<1>9. CASE Crash(j)
  BY <1>9 DEF Crash
<1>10. CASE Conclude(j)
  BY <1>10 DEF Conclude, Enter
<1>11. CASE OpenManifest(j)
  BY <1>11 DEF OpenManifest, Enter
<1>12. CASE CloseManifest(j)
  BY <1>12 DEF CloseManifest
<1>13. CASE Bind(j)
  BY <1>13 DEF Bind, PhaseInv, Before
<1>14. CASE AppExits(j)
  BY <1>14 DEF AppExits, Without
<1>15. CASE ResolveRun(j)
  BY <1>15 DEF ResolveRun, LatestRuns, HasManifest
<1>16. CASE PackRun(j)
  BY <1>16 DEF PackRun
<1> QED
  BY <1>1, <1>2, <1>3, <1>4, <1>5, <1>6, <1>7, <1>8, <1>9, <1>10, <1>11, <1>12, <1>13, <1>14,
    <1>15, <1>16 DEF Step, Verify, Application, Pack

-------------------------------------------------------------------------------
(* Ports.  Two jobs with one port were both before bind() when the second got *)
(* it, or one of them has no application any more and will have none.         *)
Gone(j) == app[j] = "exited" \/ (app[j] = "none" /\ pc[j] \notin Before)

PortInv ==
  /\ \A i, j \in Job : i # j /\ port[i] = port[j] /\ port[j] # Nobody =>
       {i, j} \subseteq collided \/ Gone(i) \/ Gone(j)
  /\ \A j \in Job : app[j] = "exited" /\ pc[j] \in {"wait", "judge"} => j \notin alone

LEMMA PortStep ==
  ASSUME TypeOK, PhaseInv, PortInv, ForeignNeedsRace, NEW j \in Job, Step(j)
  PROVE PortInv' /\ ForeignNeedsRace'
<1> USE JobsAssumption
    DEF PortInv, Gone, ForeignNeedsRace, Before, Goto, Ended, verifyVars, runVars, packVars
<1>1. CASE FreePort(j)
  <2>1. pc[j] = "pick" /\ pc' = [pc EXCEPT ![j] = "create"]
        /\ UNCHANGED <<app, listener, asked, alone>>
    BY <1>1 DEF FreePort
  <2>2. PICK p \in Port :
          /\ Free(p)
          /\ port' = [port EXCEPT ![j] = p]
          /\ collided' = IF Holding(p) = {} THEN collided ELSE collided \cup {j} \cup Holding(p)
    BY <1>1 DEF FreePort
  <2>3. \A i \in Job : i # j => port'[i] = port[i] /\ pc'[i] = pc[i]
    BY <2>1, <2>2 DEF TypeOK
  <2>4. port'[j] = p /\ pc'[j] = "create" /\ app[j] = "none" /\ pc \in [Job -> Labels]
    BY <2>1, <2>2 DEF TypeOK, PhaseInv
  <2>5. collided \subseteq collided'
    BY <2>2
  <2>6. ASSUME NEW i \in Job, i # j, port[i] = p PROVE Gone(i) \/ i \in Holding(p)
    <3>1. app[i] # "up"
      BY <2>2, <2>6 DEF Free, TypeOK
    <3>2. pc[i] # "pick"
      BY <2>6 DEF PhaseInv, TypeOK
    <3>3. app[i] \in AppStates
      BY DEF TypeOK
    <3> QED
      BY <2>6, <3>1, <3>2, <3>3 DEF Holding, AppStates
  <2>7. ASSUME NEW i \in Job, i # j, port[i] = p PROVE {i, j} \subseteq collided' \/ Gone(i)'
    BY <2>1, <2>2, <2>3, <2>6, <2>7
  <2>8. ASSUME NEW h \in Job, NEW i \in Job, h # i, port'[h] = port'[i], port'[i] # Nobody
        PROVE {h, i} \subseteq collided' \/ Gone(h)' \/ Gone(i)'
    <3>1. CASE h = j
      BY <2>3, <2>4, <2>7, <2>8, <3>1
    <3>2. CASE i = j
      BY <2>3, <2>4, <2>7, <2>8, <3>2
    <3>3. CASE h # j /\ i # j
      BY <2>1, <2>3, <2>5, <2>8, <3>3
    <3> QED
      BY <3>1, <3>2, <3>3
  <2>9. \A i \in Job : app'[i] = "exited" /\ pc'[i] \in {"wait", "judge"} => i \notin alone'
    BY <2>1, <2>3, <2>4
  <2> QED
    BY <2>1, <2>5, <2>8, <2>9
<1>2. CASE CreateRun(j)
  BY <1>2 DEF CreateRun, TypeOK
<1>3. CASE StartApp(j)
  BY <1>3 DEF StartApp, PhaseInv, TypeOK
<1>4. CASE WaitHealth(j)
  BY <1>4 DEF WaitHealth, TypeOK
<1>5. CASE Exchange(j)
  <2>1. PICK i \in Job : listener[port[j]] = i
    BY <1>5 DEF Exchange, TypeOK, PhaseInv
  <2>2. app[i] = "up" /\ port[i] = port[j] /\ port[j] \in Port
    BY <1>5, <2>1 DEF Exchange, TypeOK, PhaseInv
  <2>3. app[j] # "none" /\ port[j] # Nobody
    BY <1>5, <2>1, <2>2 DEF Exchange, PhaseInv, TypeOK
  <2>4. i = j \/ j \in collided \/ j \notin alone
    BY <1>5, <2>2, <2>3 DEF Exchange
  <2> QED
    BY <1>5, <2>1, <2>4 DEF Exchange, TypeOK
<1>6. CASE PlanDone(j)
  BY <1>6 DEF PlanDone, TypeOK
<1>7. CASE StopApp(j)
  BY <1>7 DEF StopApp, TypeOK
<1>8. CASE VerifyRaises(j)
  BY <1>8 DEF VerifyRaises, TypeOK
<1>9. CASE Crash(j)
  BY <1>9 DEF Crash, TypeOK
<1>10. CASE Conclude(j)
  BY <1>10 DEF Conclude, TypeOK
<1>11. CASE OpenManifest(j)
  BY <1>11 DEF OpenManifest, TypeOK
<1>12. CASE CloseManifest(j)
  BY <1>12 DEF CloseManifest, TypeOK
<1>13. CASE Bind(j)
  BY <1>13 DEF Bind, TypeOK
<1>14. CASE AppExits(j)
  BY <1>14 DEF AppExits, TypeOK
<1>15. CASE ResolveRun(j)
  BY <1>15 DEF ResolveRun, TypeOK
<1>16. CASE PackRun(j)
  BY <1>16 DEF PackRun, TypeOK
<1> QED
  BY <1>1, <1>2, <1>3, <1>4, <1>5, <1>6, <1>7, <1>8, <1>9, <1>10, <1>11, <1>12, <1>13, <1>14,
    <1>15, <1>16 DEF Step, Verify, Application, Pack

-------------------------------------------------------------------------------
(* Bundles.  A run with a manifest.json is not changed any more, so its time  *)
(* stands; what pack has chosen was the latest, and its own job is over.      *)
PackInv ==
  \A j \in Job : latest[j] # Nobody =>
    /\ latest[j] \in HasManifest
    /\ pc[j] \in {"zip", "packed", "failed"}
    /\ j \in HasManifest => mtime[latest[j]] >= mtime[j]

\* pack names a run before it packs it.
BundleInv ==
  \A j \in Job :
    /\ pc[j] = "zip" => latest[j] # Nobody
    /\ bundle[j] # Nobody => bundle[j] = latest[j] /\ run[bundle[j]] = "sealed"

LEMMA ManifestStands ==
  ASSUME TypeOK, PhaseInv, NEW j \in Job, Step(j), NEW d \in HasManifest
  PROVE  /\ mtime'[d] = mtime[d] /\ d \in HasManifest'
         /\ run[d] = "sealed" => run'[d] = "sealed"
<1>1. UNCHANGED <<run, mtime>> \/ CreateRun(j) \/ Conclude(j) \/ OpenManifest(j) \/ CloseManifest(j)
  BY DEF Step, Verify, Application, Pack, FreePort, StartApp, WaitHealth, Exchange, PlanDone,
    StopApp, VerifyRaises, Crash, Bind, AppExits, ResolveRun, PackRun, runVars
<1>2. pc[d] \notin {"create", "conclude", "seal"} /\ d \in Job
  BY DEF HasManifest, PhaseInv
<1>3. CASE UNCHANGED <<run, mtime>>
  BY <1>3 DEF HasManifest
<1>4. CASE CreateRun(j)
  BY <1>2, <1>4 DEF CreateRun, Enter, HasManifest, TypeOK
<1>5. CASE Conclude(j)
  BY <1>2, <1>5 DEF Conclude, Enter, HasManifest, TypeOK
<1>6. CASE OpenManifest(j)
  BY <1>2, <1>6 DEF OpenManifest, Enter, HasManifest, TypeOK
<1>7. CASE CloseManifest(j)
  BY <1>2, <1>7 DEF CloseManifest, HasManifest, TypeOK
<1> QED
  BY <1>1, <1>3, <1>4, <1>5, <1>6, <1>7

LEMMA PackStep ==
  ASSUME TypeOK, PhaseInv, PackInv, BundleInv, NEW j \in Job, Step(j)
  PROVE PackInv' /\ BundleInv'
<1> USE JobsAssumption
<1>1. CASE ResolveRun(j)
  <2>1. UNCHANGED <<run, mtime, bundle>> /\ bundle[j] = Nobody
    <3>1. UNCHANGED <<run, mtime, bundle>>
      BY <1>1 DEF ResolveRun, runVars
    <3>2. latest[j] = Nobody
      BY <1>1 DEF ResolveRun, PackInv, Ended
    <3> QED
      BY <3>1, <3>2 DEF BundleInv, TypeOK
  <2>2. HasManifest' = HasManifest
    BY <2>1 DEF HasManifest
  <2>3. CASE LatestRuns = {} /\ latest' = latest /\ Goto(j, "failed")
    BY <1>1, <2>1, <2>2, <2>3 DEF Goto, PackInv, BundleInv, TypeOK, ResolveRun, Ended
  <2>4. ASSUME NEW d \in LatestRuns, latest' = [latest EXCEPT ![j] = d], Goto(j, "zip")
        PROVE PackInv' /\ BundleInv'
    <3>1. d \in HasManifest /\ d \in Job /\ \A e \in HasManifest : mtime[e] <= mtime[d]
      BY DEF LatestRuns, HasManifest
    <3>2. j \in HasManifest => mtime[d] >= mtime[j]
      BY <3>1 DEF TypeOK
    <3>3. d # Nobody
      BY <3>1
    <3>4. \A i \in Job : i # j => latest'[i] = latest[i] /\ pc'[i] = pc[i]
      BY <2>4 DEF Goto, TypeOK
    <3>5. latest'[j] = d /\ pc'[j] = "zip"
      BY <2>4 DEF Goto, TypeOK
    <3>6. PackInv'
      BY <2>1, <2>2, <3>1, <3>2, <3>4, <3>5 DEF PackInv
    <3>7. BundleInv'
      BY <2>1, <3>3, <3>4, <3>5 DEF BundleInv
    <3> QED
      BY <3>6, <3>7
  <2> QED
    BY <1>1, <2>3, <2>4 DEF ResolveRun
<1>2. CASE PackRun(j)
  <2>1. UNCHANGED <<run, mtime, latest>> /\ pc[j] = "zip" /\ pc'[j] \in {"packed", "failed"}
        /\ \A i \in Job : i # j => pc'[i] = pc[i] /\ bundle'[i] = bundle[i]
    BY <1>2 DEF PackRun, Goto, runVars, TypeOK
  <2>2. HasManifest' = HasManifest
    BY <2>1 DEF HasManifest
  <2>3. PackInv'
    BY <2>1, <2>2 DEF PackInv
  <2>4. bundle'[j] = bundle[j] \/ (bundle'[j] = latest[j] /\ run[latest[j]] = "sealed")
    BY <1>2 DEF PackRun, TypeOK
  <2>5. BundleInv'
    BY <2>1, <2>4 DEF BundleInv
  <2> QED
    BY <2>3, <2>5
<1>3. CASE ~ResolveRun(j) /\ ~PackRun(j)
  <2>1. UNCHANGED <<latest, bundle>>
    BY <1>3 DEF Step, Verify, Application, Pack, FreePort, CreateRun, StartApp, WaitHealth, Exchange,
      PlanDone, StopApp, VerifyRaises, Crash, Conclude, OpenManifest, CloseManifest, Bind, AppExits,
      packVars
  <2>2. \A i \in Job : pc'[i] = pc[i] \/ (i = j /\ pc[i] \notin {"zip", "packed", "failed"} /\ pc'[i] # "zip")
    BY <1>3 DEF Step, Verify, Application, Pack, FreePort, CreateRun, StartApp, WaitHealth, Exchange,
      PlanDone, StopApp, VerifyRaises, Crash, Conclude, OpenManifest, CloseManifest, Bind, AppExits,
      Goto, TypeOK
  <2>3. \A d \in HasManifest : mtime'[d] = mtime[d] /\ d \in HasManifest'
                                /\ (run[d] = "sealed" => run'[d] = "sealed")
    BY ManifestStands
  <2>4. ASSUME NEW i \in Job, latest[i] # Nobody, i \in HasManifest' PROVE i \in HasManifest
    <3>1. run'[i] = run[i]
      <4>1. pc[i] \in {"zip", "packed", "failed"}
        BY <2>4 DEF PackInv
      <4>2. UNCHANGED run \/ pc[j] \in {"create", "conclude", "seal", "close"}
        BY <1>3 DEF Step, Verify, Application, Pack, FreePort, CreateRun, StartApp, WaitHealth,
          Exchange, PlanDone, StopApp, VerifyRaises, Crash, Conclude, OpenManifest, CloseManifest,
          Bind, AppExits, runVars
      <4>3. \A e \in Job : e # j => run'[e] = run[e]
        BY DEF Step, Verify, Application, Pack, FreePort, CreateRun, StartApp, WaitHealth,
          Exchange, PlanDone, StopApp, VerifyRaises, Crash, Conclude, OpenManifest, CloseManifest,
          Bind, AppExits, ResolveRun, PackRun, runVars, Enter, TypeOK
      <4> QED
        BY <4>1, <4>2, <4>3
    <3> QED
      BY <2>4, <3>1 DEF HasManifest
  <2>5. PackInv'
    BY <2>1, <2>2, <2>3, <2>4 DEF PackInv
  <2>6. BundleInv'
    <3>1. ASSUME NEW i \in Job, bundle[i] # Nobody PROVE run'[bundle[i]] = "sealed"
      <4>1. run[bundle[i]] = "sealed" /\ bundle[i] \in Job
        BY <3>1 DEF BundleInv, TypeOK
      <4> QED
        BY <2>3, <4>1 DEF HasManifest
    <3> QED
      BY <2>1, <2>2, <3>1 DEF BundleInv
  <2> QED
    BY <2>5, <2>6
<1> QED
  BY <1>1, <1>2, <1>3

-------------------------------------------------------------------------------
IndInv == TypeOK /\ PhaseInv /\ PortInv /\ ForeignNeedsRace /\ PackInv /\ BundleInv

LEMMA JobsInvariant == Spec => []IndInv
<1>1. Init => IndInv
  <2>1. Init => PortInv /\ ForeignNeedsRace
    BY DEF Init, PortInv, ForeignNeedsRace
  <2>2. Init => PackInv /\ BundleInv
    BY DEF Init, PackInv, BundleInv
  <2> QED
    BY <2>1, <2>2, JobsInit DEF IndInv
<1>2. IndInv /\ [Next]_vars => IndInv'
  <2> SUFFICES ASSUME IndInv, [Next]_vars PROVE IndInv'
    OBVIOUS
  <2> USE DEF IndInv
  <2>1. CASE UNCHANGED vars
    BY <2>1 DEF vars, verifyVars, runVars, packVars, TypeOK, PhaseInv, PortInv, Gone,
      ForeignNeedsRace, PackInv, BundleInv, HasManifest
  <2>2. ASSUME NEW j \in Job, Step(j) PROVE IndInv'
    BY <2>2, TypeStep, PhaseStep, PortStep, PackStep
  <2> QED
    BY <2>1, <2>2 DEF Next, Step
<1> QED
  BY <1>1, <1>2, PTL DEF Spec

\* Every variable keeps its type, and a port belongs to an application that is up.
THEOREM JobsTypeCorrect == Spec => []TypeOK
BY JobsInvariant, PTL DEF IndInv

\* The application of another job answers only after a collision of free_port,
\* or when the job's own application has gone.
THEOREM JobsForeignNeedsRace == Spec => []ForeignNeedsRace
BY JobsInvariant, PTL DEF IndInv

\* What a job packs is sealed, and not older than the run it has sealed itself.
THEOREM JobsBundleIsNoOlder == Spec => []BundleIsNoOlder
<1>1. IndInv => BundleIsNoOlder
  <2> SUFFICES ASSUME IndInv, NEW j \in Job, bundle[j] # Nobody
               PROVE /\ run[bundle[j]] = "sealed"
                     /\ run[j] = "sealed" => mtime[bundle[j]] >= mtime[j]
    BY DEF BundleIsNoOlder
  <2> QED
    BY DEF IndInv, PackInv, BundleInv, HasManifest
<1> QED
  BY <1>1, JobsInvariant, PTL

-------------------------------------------------------------------------------
Run(j) == INSTANCE RunStages WITH stage <- run[j]

\* Seen from outside, the directory of every job goes through RunStages.
THEOREM JobsKeepStages == ASSUME NEW j \in Job PROVE Spec => Run(j)!StagesSpec
<1>1. Init => Run(j)!StagesInit
  BY DEF Init, Run!StagesInit
<1>2. IndInv /\ [Next]_vars => [Run(j)!StagesNext]_(run[j])
  <2> SUFFICES ASSUME IndInv, [Next]_vars, run'[j] # run[j] PROVE Run(j)!StagesNext
    OBVIOUS
  <2>1. PICK i \in Job : CreateRun(i) \/ Conclude(i) \/ OpenManifest(i) \/ CloseManifest(i)
    BY DEF Next, Verify, Application, Pack, FreePort, StartApp, WaitHealth, Exchange, PlanDone,
      StopApp, VerifyRaises, Crash, Bind, AppExits, ResolveRun, PackRun, runVars, vars
  <2>2. i = j
    BY <2>1 DEF CreateRun, Conclude, OpenManifest, CloseManifest, Enter, IndInv, TypeOK
  <2>3. CASE CreateRun(j)
    BY <2>3 DEF CreateRun, Enter, IndInv, TypeOK, PhaseInv, Run!StagesNext, Run!Enter
  <2>4. CASE Conclude(j)
    BY <2>4 DEF Conclude, Enter, IndInv, TypeOK, PhaseInv, Run!StagesNext, Run!Conclude
  <2>5. CASE OpenManifest(j)
    BY <2>5 DEF OpenManifest, Enter, IndInv, TypeOK, PhaseInv, Run!StagesNext, Run!OpenManifest
  <2>6. CASE CloseManifest(j)
    BY <2>6 DEF CloseManifest, IndInv, TypeOK, PhaseInv, Run!StagesNext, Run!CloseManifest
  <2> QED
    BY <2>1, <2>2, <2>3, <2>4, <2>5, <2>6
<1> QED
  BY <1>1, <1>2, JobsInvariant, PTL DEF Spec, Run!StagesSpec
===============================================================================
