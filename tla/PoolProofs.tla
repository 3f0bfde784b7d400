------------------------------- MODULE PoolProofs -------------------------------
(* The engine behind HTTP, for any number of requests, threads and permits.  *)
EXTENDS ServerPool, FiniteSetTheorems, TLAPS

\* A job of a request, before and after it has a permit.
JobOk(r) ==
  /\ kind[r] = "none" => job[r] = "none"
  /\ job[r] \in {"none", "queued"} =>
       result[r] = "none" /\ stage[r] = 1 /\ \A i \in 1..3 : run[<<r, i>>] = "absent"
  /\ job[r] = "holding" => result[r] = "none"
  /\ job[r] \in {"released", "done"} => result[r] # "none"
  /\ result[r] = "busy" => job[r] = "done" /\ \A i \in 1..3 : run[<<r, i>>] = "absent"
  /\ reply[r] = "200" => job[r] = "done" /\ result[r] = "returned"
  /\ reply[r] = "429" => job[r] = "done" /\ result[r] = "busy"
JobInv == \A r \in Request : JobOk(r)

\* Its runs are made one after the other, each from what is sealed.
LoopOk(r) ==
  /\ \A i \in 1..3 : i < stage[r] => run[<<r, i>>] = "sealed"
  /\ \A i \in 1..3 : i > stage[r] => run[<<r, i>>] = "absent"
  /\ result[r] = "returned" => \A i \in 1..LoopLength(kind[r]) : run[<<r, i>>] = "sealed"
LoopInv == \A r \in Request : LoopOk(r)

\* The queue holds each queued job, once.
QueueInv ==
  /\ \A i \in 1..Len(queue) : job[queue[i]] = "queued"
  /\ \A i, j \in 1..Len(queue) : queue[i] = queue[j] => i = j

LEMMA LoopLengths == \A k : LoopLength(k) \in {1, 3}
BY DEF LoopLength

LEMMA RunIds == \A r \in Request : \A i \in 1..3 : <<r, i>> \in RunId
BY DEF RunId

-------------------------------------------------------------------------------
\* Which of the variables a step leaves alone.
Moves(r) ==
  \/ StartHolding(r) \/ StartBusy(r) \/ OpenRun(r) \/ AdvanceRun(r) \/ NextRun(r)
  \/ JobReturns(r) \/ JobRaises(r) \/ Resolve(r) \/ Answer(r) \/ GiveUp(r)
  \/ UnknownRun(r) \/ SameRun(r) \/ \E k \in Kinds : Submit(r, k)

LEMMA NextMoves == Next => Restart \/ \E r \in Request : Moves(r)
BY DEF Next, JobStep, HandlerStep, Moves

LEMMA PoolInit == Init => TypeOK /\ JobInv /\ LoopInv /\ QueueInv
<1> SUFFICES ASSUME Init PROVE TypeOK /\ JobInv /\ LoopInv /\ QueueInv
  OBVIOUS
<1>1. TypeOK
  BY PoolAssumption DEF Init, TypeOK, Replies, JobStates, JobResults, RunStates
<1>2. JobInv /\ LoopInv
  <2>1. \A d \in RunId : run[d] = "absent"
    BY DEF Init
  <2>2. \A r \in Request : \A i \in 1..3 : run[<<r, i>>] = "absent"
    BY <2>1, RunIds
  <2>3. \A r \in Request : /\ kind[r] = "none" /\ job[r] = "none" /\ result[r] = "none"
                           /\ reply[r] = "none" /\ stage[r] = 1
    BY DEF Init
  <2>4. JobInv
    BY <2>2, <2>3 DEF JobInv, JobOk
  <2>5. LoopInv
    <3>1. \A i \in 1..3 : ~(i < 1)
      OBVIOUS
    <3>2. \A r \in Request : result[r] # "returned"
      BY <2>3
    <3> QED
      BY <2>2, <2>3, <3>1, <3>2 DEF LoopInv, LoopOk
  <2> QED
    BY <2>4, <2>5
<1>3. QueueInv
  BY DEF Init, QueueInv
<1> QED
  BY <1>1, <1>2, <1>3

LEMMA TypeStep == ASSUME TypeOK, JobInv, NEW r \in Request, Moves(r) PROVE TypeOK'
<1> USE PoolAssumption DEF TypeOK, Replies, JobStates, JobResults, jobVars
<1>1. CASE StartHolding(r)
  BY <1>1 DEF StartHolding
<1>2. CASE StartBusy(r)
  BY <1>2 DEF StartBusy
<1>3. CASE OpenRun(r)
  BY <1>3 DEF OpenRun, RunStates
<1>4. CASE AdvanceRun(r)
  <2>1. PICK to \in RunStates : run' = [run EXCEPT ![RunAt(r)] = to]
    <3>1. PICK step \in {<<"open", "decided">>, <<"decided", "torn">>, <<"torn", "sealed">>} :
            run' = [run EXCEPT ![RunAt(r)] = step[2]]
      BY <1>4 DEF AdvanceRun
    <3>2. step[2] \in RunStates
      BY DEF RunStates
    <3> QED
      BY <3>1, <3>2
  <2> QED
    BY <1>4, <2>1 DEF AdvanceRun
<1>5. CASE NextRun(r)
  BY <1>5, LoopLengths DEF NextRun
<1>6. CASE JobReturns(r)
  BY <1>6 DEF JobReturns, Release
<1>7. CASE JobRaises(r)
  BY <1>7 DEF JobRaises, Release
<1>8. CASE Resolve(r)
  BY <1>8 DEF Resolve
<1>9. CASE Answer(r)
  <2>1. result[r] \in {"returned", "raised", "timeout", "busy"} => Status[result[r]] \in Replies
    BY DEF Status
  <2>2. Status[result[r]] \in Replies
    BY <1>9, <2>1 DEF Answer, JobInv, JobOk
  <2> QED
    BY <1>9, <2>2 DEF Answer
<1>10. CASE GiveUp(r)
  BY <1>10 DEF GiveUp
<1>11. CASE UnknownRun(r)
  BY <1>11 DEF UnknownRun
<1>12. CASE SameRun(r)
  BY <1>12 DEF SameRun
<1>13. ASSUME NEW k \in Kinds, Submit(r, k) PROVE TypeOK'
  <2>1. inputs' \in [Request -> SUBSET RunId]
    <3>1. CASE inputs' = inputs
      BY <3>1
    <3>2. ASSUME NEW left \in RunId, NEW right \in RunId, inputs' = [inputs EXCEPT ![r] = {left, right}]
          PROVE inputs' \in [Request -> SUBSET RunId]
      BY <3>2
    <3> QED
      BY <1>13, <3>1, <3>2 DEF Submit
  <2>2. queue' \in Seq(Request)
    BY <1>13 DEF Submit
  <2> QED
    BY <1>13, <2>1, <2>2 DEF Submit
<1> QED
  BY <1>1, <1>2, <1>3, <1>4, <1>5, <1>6, <1>7, <1>8, <1>9, <1>10, <1>11, <1>12, <1>13 DEF Moves

\* A step for one request leaves the others and their runs alone.
Same(q) ==
  /\ kind'[q] = kind[q] /\ reply'[q] = reply[q] /\ job'[q] = job[q] /\ result'[q] = result[q]
  /\ inputs'[q] = inputs[q] /\ stage'[q] = stage[q]

LEMMA OthersSame == ASSUME TypeOK, NEW r \in Request, Moves(r), NEW q \in Request, q # r PROVE Same(q)
BY DEF Moves, StartHolding, StartBusy, OpenRun, AdvanceRun, NextRun, JobReturns, JobRaises, Release,
  Resolve, Answer, GiveUp, UnknownRun, SameRun, Submit, jobVars, TypeOK, Same

\* The one directory a step may change is the present one of its job, while it holds a permit.
LEMMA RunsSame ==
  ASSUME TypeOK, NEW r \in Request, Moves(r)
  PROVE  UNCHANGED run \/
         /\ job[r] = "holding" /\ UNCHANGED jobVars /\ run[RunAt(r)] # "sealed"
         /\ \E to \in RunStates : run' = [run EXCEPT ![RunAt(r)] = to]
         /\ run'[RunAt(r)] # "absent"
         /\ run[RunAt(r)] = "absent" => \A d \in Compared(r) : Readable(d)
<1>0. RunAt(r) \in RunId
  BY DEF RunAt, RunId, TypeOK
<1>1. CASE OpenRun(r)
  BY <1>0, <1>1 DEF OpenRun, RunStates, TypeOK
<1>2. CASE AdvanceRun(r)
  <2>1. PICK step \in {<<"open", "decided">>, <<"decided", "torn">>, <<"torn", "sealed">>} :
          run[RunAt(r)] = step[1] /\ run' = [run EXCEPT ![RunAt(r)] = step[2]]
    BY <1>2 DEF AdvanceRun
  <2>2. step[1] \notin {"sealed", "absent"} /\ step[2] # "absent" /\ step[2] \in RunStates
    BY DEF RunStates
  <2>3. run'[RunAt(r)] = step[2]
    BY <1>0, <2>1 DEF TypeOK
  <2> QED
    BY <1>2, <2>1, <2>2, <2>3 DEF AdvanceRun
<1>3. CASE ~OpenRun(r) /\ ~AdvanceRun(r)
  BY <1>3 DEF Moves, StartHolding, StartBusy, NextRun, JobReturns, JobRaises, Release,
    Resolve, Answer, GiveUp, UnknownRun, SameRun, Submit
<1> QED
  BY <1>1, <1>2, <1>3

LEMMA SealedStays ==
  ASSUME TypeOK, NEW r \in Request, Moves(r), NEW d \in RunId
  PROVE  /\ run[d] = "sealed" => run'[d] = "sealed"
         /\ d # RunAt(r) => run'[d] = run[d]
BY RunsSame DEF TypeOK

LEMMA OtherRuns ==
  ASSUME TypeOK, NEW r \in Request, Moves(r), NEW q \in Request, NEW i \in 1..3, q # r \/ i # stage[r]
  PROVE  run'[<<q, i>>] = run[<<q, i>>]
<1>1. <<q, i>> \in RunId /\ <<q, i>> # RunAt(r)
  BY DEF RunId, RunAt
<1> QED
  BY <1>1, SealedStays

LEMMA JobOther ==
  ASSUME TypeOK, JobInv, LoopInv, NEW r \in Request, Moves(r), NEW q \in Request, q # r
  PROVE  JobOk(q)' /\ LoopOk(q)'
<1>1. Same(q)
  BY OthersSame
<1>2. \A i \in 1..3 : run'[<<q, i>>] = run[<<q, i>>]
  BY OtherRuns
<1>3. 1..LoopLength(kind[q]) \subseteq 1..3
  BY LoopLengths
<1>4. JobOk(q)'
  BY <1>1, <1>2 DEF Same, JobOk, JobInv
<1>5. LoopOk(q)'
  BY <1>1, <1>2, <1>3 DEF Same, LoopOk, LoopInv
<1> QED
  BY <1>4, <1>5

LEMMA Statuses ==
  ASSUME NEW how \in {"returned", "raised", "timeout", "busy"}
  PROVE  (Status[how] = "200" => how = "returned") /\ (Status[how] = "429" => how = "busy")
BY DEF Status

LEMMA HeadQueued == ASSUME TypeOK, QueueInv, queue # <<>> PROVE job[Head(queue)] = "queued"
<1>1. 1 \in 1..Len(queue) /\ Head(queue) = queue[1]
  BY DEF TypeOK
<1> QED
  BY <1>1 DEF QueueInv

LEMMA JobSelf ==
  ASSUME TypeOK, JobInv, LoopInv, QueueInv, NEW r \in Request, Moves(r)
  PROVE  JobOk(r)' /\ LoopOk(r)'
<1>0. JobOk(r) /\ LoopOk(r)
  BY DEF JobInv, LoopInv
<1>1. CASE ~UNCHANGED run
  <2>1. job[r] = "holding" /\ UNCHANGED jobVars
    BY <1>1, RunsSame
  <2>2. result[r] = "none" /\ \A i \in 1..3 : i # stage[r] => run'[<<r, i>>] = run[<<r, i>>]
    BY <1>0, <2>1, OtherRuns DEF JobOk
  <2>3. JobOk(r)'
    BY <1>0, <2>1, <2>2 DEF JobOk, jobVars
  <2>4. LoopOk(r)'
    BY <1>0, <2>1, <2>2 DEF LoopOk, jobVars, TypeOK
  <2> QED
    BY <2>3, <2>4
<1>2. CASE UNCHANGED run
  <2> USE <1>0, <1>2 DEF JobOk, LoopOk, TypeOK
  <2>1. CASE StartHolding(r)
    <3>1. job[r] = "queued"
      BY <2>1, HeadQueued DEF StartHolding
    <3> QED
      BY <2>1, <3>1 DEF StartHolding
  <2>2. CASE StartBusy(r)
    <3>1. job[r] = "queued"
      BY <2>2, HeadQueued DEF StartBusy
    <3> QED
      BY <2>2, <3>1 DEF StartBusy
  <2>3. CASE OpenRun(r) \/ AdvanceRun(r)
    BY <2>3 DEF OpenRun, AdvanceRun, jobVars
  <2>4. CASE NextRun(r)
    BY <2>4, LoopLengths DEF NextRun, RunAt
  <2>5. CASE JobReturns(r)
    <3>1. \A i \in 1..LoopLength(kind[r]) : run[<<r, i>>] = "sealed"
      <4>1. LoopLength(kind[r]) = stage[r] /\ run[<<r, stage[r]>>] = "sealed"
        BY <2>5 DEF JobReturns, RunAt
      <4>2. \A n \in 1..3 : \A i \in 1..n : i \in 1..3 /\ (i < n \/ i = n)
        OBVIOUS
      <4>3. stage[r] \in 1..3
        OBVIOUS
      <4> QED
        BY <4>1, <4>2, <4>3
    <3>2. /\ job[r] = "holding" /\ job'[r] = "released" /\ result'[r] = "returned"
          /\ UNCHANGED <<kind, reply, stage>>
      BY <2>5 DEF JobReturns, Release
    <3> QED
      BY <3>1, <3>2
  <2>6. CASE JobRaises(r)
    BY <2>6 DEF JobRaises, Release
  <2>7. CASE Resolve(r)
    BY <2>7 DEF Resolve
  <2>8. CASE Answer(r)
    <3>0. result[r] \in {"returned", "raised", "timeout", "busy"}
      BY <2>8 DEF Answer, JobResults
    <3>1. Status[result[r]] = "200" => result[r] = "returned"
      BY <3>0, Statuses
    <3>2. Status[result[r]] = "429" => result[r] = "busy"
      BY <3>0, Statuses
    <3>3. job[r] = "done" /\ reply'[r] = Status[result[r]] /\ UNCHANGED <<kind, job, result, stage>>
      BY <2>8 DEF Answer
    <3> QED
      BY <3>1, <3>2, <3>3
  <2>9. CASE GiveUp(r)
    BY <2>9 DEF GiveUp
  <2>10. CASE UnknownRun(r)
    BY <2>10 DEF UnknownRun
  <2>11. CASE SameRun(r)
    BY <2>11 DEF SameRun
  <2>12. ASSUME NEW k \in Kinds, Submit(r, k) PROVE JobOk(r)' /\ LoopOk(r)'
    <3>1. kind[r] = "none" /\ job[r] = "none"
      BY <2>12 DEF Submit
    <3>2. /\ kind'[r] = k /\ reply'[r] = "waiting" /\ job'[r] = "queued"
          /\ UNCHANGED <<result, stage>>
      BY <2>12 DEF Submit
    <3>3. k # "none"
      BY PoolAssumption
    <3> QED
      BY <3>1, <3>2, <3>3
  <2> QED
    BY <2>1, <2>2, <2>3, <2>4, <2>5, <2>6, <2>7, <2>8, <2>9, <2>10, <2>11, <2>12 DEF Moves
<1> QED
  BY <1>1, <1>2

LEMMA QueueStep == ASSUME TypeOK, JobInv, QueueInv, NEW r \in Request, Moves(r) PROVE QueueInv'
<1>1. ASSUME queue # <<>>, Head(queue) = r, queue' = Tail(queue),
             \A q \in Request : q # r => job'[q] = job[q]
      PROVE  QueueInv'
  <2>1. Len(queue') = Len(queue) - 1 /\ \A i \in 1..Len(queue') : queue'[i] = queue[i + 1]
    BY <1>1 DEF TypeOK
  <2>2. \A i \in 1..Len(queue') : i + 1 \in 1..Len(queue) /\ queue[i + 1] \in Request /\ i + 1 # 1
    BY <2>1 DEF TypeOK
  <2>3. 1 \in 1..Len(queue) /\ queue[1] = r
    BY <1>1 DEF TypeOK
  <2>4. \A i \in 1..Len(queue') : queue'[i] # r /\ job[queue'[i]] = "queued"
    BY <2>1, <2>2, <2>3 DEF QueueInv
  <2>5. \A i \in 1..Len(queue') : job'[queue'[i]] = "queued"
    BY <1>1, <2>1, <2>2, <2>4
  <2>6. \A i, j \in 1..Len(queue') : queue'[i] = queue'[j] => i = j
    BY <2>1, <2>2 DEF QueueInv
  <2> QED
    BY <2>5, <2>6 DEF QueueInv
<1>2. ASSUME UNCHANGED queue, job[r] # "queued", \A q \in Request : q # r => job'[q] = job[q]
      PROVE  QueueInv'
  BY <1>2 DEF QueueInv, TypeOK
<1>3. ASSUME UNCHANGED <<queue, job>> PROVE QueueInv'
  BY <1>3 DEF QueueInv
<1>4. \A q \in Request : q # r => job'[q] = job[q]
  BY OthersSame DEF Same
<1>5. CASE StartHolding(r) \/ StartBusy(r)
  BY <1>1, <1>4, <1>5 DEF StartHolding, StartBusy
<1>6. ASSUME NEW k \in Kinds, Submit(r, k) PROVE QueueInv'
  <2>1. queue' = Append(queue, r) /\ job[r] = "none" /\ job' = [job EXCEPT ![r] = "queued"]
    BY <1>6 DEF Submit, JobInv, JobOk
  <2>2. Len(queue') = Len(queue) + 1 /\ queue'[Len(queue) + 1] = r
        /\ \A i \in 1..Len(queue) : queue'[i] = queue[i]
    BY <2>1 DEF TypeOK
  <2>3. \A i \in 1..Len(queue) : queue[i] \in Request /\ queue[i] # r
    BY <2>1 DEF QueueInv, TypeOK
  <2>4. \A i \in 1..Len(queue') : i \in 1..Len(queue) \/ i = Len(queue) + 1
    BY <2>2 DEF TypeOK
  <2>5. \A i \in 1..Len(queue') : job'[queue'[i]] = "queued"
    BY <2>1, <2>2, <2>3, <2>4 DEF QueueInv, TypeOK
  <2>6. \A i, j \in 1..Len(queue') : queue'[i] = queue'[j] => i = j
    BY <2>2, <2>3, <2>4 DEF QueueInv
  <2> QED
    BY <2>5, <2>6 DEF QueueInv
<1>7. CASE OpenRun(r) \/ AdvanceRun(r) \/ NextRun(r) \/ Answer(r) \/ GiveUp(r) \/ UnknownRun(r) \/ SameRun(r)
  BY <1>3, <1>7 DEF OpenRun, AdvanceRun, NextRun, Answer, GiveUp, UnknownRun, SameRun, jobVars
<1>8. CASE JobReturns(r) \/ JobRaises(r) \/ Resolve(r)
  BY <1>2, <1>4, <1>8 DEF JobReturns, JobRaises, Release, Resolve
<1> QED
  BY <1>5, <1>6, <1>7, <1>8 DEF Moves

LEMMA RestartKeeps ==
  TypeOK /\ JobInv /\ LoopInv /\ Restart => (TypeOK /\ JobInv /\ LoopInv /\ QueueInv)'
<1> SUFFICES ASSUME TypeOK, JobInv, LoopInv, Restart PROVE (TypeOK /\ JobInv /\ LoopInv /\ QueueInv)'
  OBVIOUS
<1>1. /\ UNCHANGED <<kind, result, inputs, stage, run>> /\ queue' = <<>>
      /\ permits' = Permits /\ restarts' = restarts + 1
  BY DEF Restart
<1>2. ASSUME NEW r \in Request
      PROVE  /\ job'[r] = job[r] \/ (job[r] \in {"queued", "holding", "released"} /\ job'[r] = "lost")
             /\ reply'[r] \in {reply[r], "dropped"}
             /\ job[r] \notin {"queued", "holding", "released"} => job'[r] = job[r]
  BY DEF Restart
<1>3. TypeOK'
  BY <1>1, PoolAssumption DEF Restart, TypeOK, Replies, JobStates
<1>4. JobInv'
  BY <1>1, <1>2 DEF JobInv, JobOk
<1>5. LoopInv'
  BY <1>1 DEF LoopInv, LoopOk
<1>6. QueueInv'
  BY <1>1 DEF QueueInv
<1> QED
  BY <1>3, <1>4, <1>5, <1>6

IndInv == TypeOK /\ JobInv /\ LoopInv /\ QueueInv

LEMMA PoolNext == IndInv /\ [Next]_vars => IndInv'
<1> SUFFICES ASSUME IndInv, [Next]_vars PROVE IndInv'
  OBVIOUS
<1> USE DEF IndInv
<1>1. CASE UNCHANGED vars
  BY <1>1 DEF vars, jobVars, TypeOK, JobInv, JobOk, LoopInv, LoopOk, QueueInv
<1>2. CASE Restart
  BY <1>2, RestartKeeps
<1>3. ASSUME NEW r \in Request, Moves(r) PROVE IndInv'
  <2>1. \A q \in Request : JobOk(q)' /\ LoopOk(q)'
    BY <1>3, JobOther, JobSelf
  <2>2. JobInv' /\ LoopInv'
    BY <2>1 DEF JobInv, LoopInv
  <2> QED
    BY <1>3, <2>2, TypeStep, QueueStep
<1> QED
  BY <1>1, <1>2, <1>3, NextMoves

LEMMA PoolInvariant == Spec => []IndInv
BY PoolInit, PoolNext, PTL DEF Spec, IndInv

\* Every variable keeps its type.
THEOREM PoolTypeCorrect == Spec => []TypeOK
BY PoolInvariant, PTL DEF IndInv

\* 200 is said of sealed runs only.
THEOREM PoolOkMeansSealed == Spec => []OkMeansSealed
<1>1. IndInv => OkMeansSealed
  BY DEF IndInv, JobInv, JobOk, LoopInv, LoopOk, OkMeansSealed
<1> QED
  BY <1>1, PoolInvariant, PTL

\* 429 is said only when nothing was done.
THEOREM PoolBusyLeavesNothing == Spec => []BusyLeavesNothing
<1>1. IndInv => BusyLeavesNothing
  BY DEF IndInv, JobInv, JobOk, BusyLeavesNothing
<1> QED
  BY <1>1, PoolInvariant, PTL

-------------------------------------------------------------------------------
(* Comparisons. *)
Reads(r) == run[RunAt(r)] # "absent" => \A d \in Compared(r) : run[d] = "sealed"

LEMMA ComparedRuns == ASSUME TypeOK, NEW r \in Request PROVE Compared(r) \subseteq RunId
<1>1. <<r, 1>> \in RunId /\ <<r, 2>> \in RunId
  BY DEF RunId
<1>2. inputs[r] \subseteq RunId
  BY DEF TypeOK
<1> QED
  BY <1>1, <1>2 DEF Compared

LEMMA ReadsStep == ASSUME IndInv, DiffReadsSealed, NEW r \in Request, Moves(r) PROVE DiffReadsSealed'
<1> USE DEF IndInv
<1> SUFFICES ASSUME NEW q \in Request PROVE Reads(q)'
  BY DEF DiffReadsSealed, Reads
<1>1. Reads(q) /\ Compared(q) \subseteq RunId
  BY ComparedRuns DEF DiffReadsSealed, Reads
<1>2. \A d \in RunId : run[d] = "sealed" => run'[d] = "sealed"
  BY SealedStays
<1>3. ASSUME UNCHANGED <<kind[q], inputs[q], stage[q]>>, run'[RunAt(q)] = run[RunAt(q)]
      PROVE  Reads(q)'
  <2>1. Compared(q)' = Compared(q) /\ RunAt(q)' = RunAt(q)
    BY <1>3 DEF Compared, RunAt
  <2> QED
    BY <1>1, <1>2, <1>3, <2>1 DEF Reads
<1>4. CASE q # r
  <2>1. run'[RunAt(q)] = run[RunAt(q)]
    BY <1>4, OtherRuns DEF RunAt, TypeOK
  <2> QED
    BY <1>3, <1>4, <2>1, OthersSame DEF Same
<1>5. CASE q = r /\ ~UNCHANGED run
  <2>1. UNCHANGED jobVars /\ (run[RunAt(r)] = "absent" => \A d \in Compared(r) : Readable(d))
    BY <1>5, RunsSame
  <2>2. Compared(q)' = Compared(q)
    BY <2>1 DEF Compared, jobVars
  <2>3. \A d \in Compared(q) : run[d] = "sealed"
    BY <1>1, <1>5, <2>1 DEF Reads, Readable
  <2> QED
    BY <1>1, <1>2, <2>2, <2>3 DEF Reads
<1>6. CASE q = r /\ UNCHANGED run
  <2>1. CASE NextRun(r)
    <3>1. stage'[r] = stage[r] + 1 /\ stage'[r] \in 1..3
      BY <1>6, <2>1, LoopLengths DEF NextRun, TypeOK
    <3>2. run[<<r, stage'[r]>>] = "absent"
      <4>1. \A i \in 1..3 : i > stage[r] => run[<<r, i>>] = "absent"
        BY DEF LoopInv, LoopOk
      <4>2. stage'[r] > stage[r]
        BY <3>1 DEF TypeOK
      <4> QED
        BY <3>1, <4>1, <4>2
    <3> QED
      BY <1>6, <3>2 DEF Reads, RunAt
  <2>2. ASSUME NEW k \in Kinds, Submit(r, k) PROVE Reads(q)'
    <3>1. job[r] = "none" /\ UNCHANGED stage
      BY <2>2 DEF Submit, JobInv, JobOk
    <3>2. run[<<r, stage[r]>>] = "absent"
      BY <3>1 DEF JobInv, JobOk, TypeOK
    <3> QED
      BY <1>6, <3>1, <3>2 DEF Reads, RunAt
  <2>3. CASE UNCHANGED <<kind, inputs, stage>>
    BY <1>3, <1>6, <2>3
  <2>4. NextRun(r) \/ UNCHANGED <<kind, inputs, stage>> \/ \E k \in Kinds : Submit(r, k)
    BY DEF Moves, StartHolding, StartBusy, OpenRun, AdvanceRun, JobReturns, JobRaises, Release,
      Resolve, Answer, GiveUp, UnknownRun, SameRun, jobVars
  <2> QED
    BY <2>1, <2>2, <2>3, <2>4
<1> QED
  BY <1>4, <1>5, <1>6

\* However long a job has waited in the queue, it compares two sealed runs or nothing.
THEOREM PoolDiffReadsSealed == Spec => []DiffReadsSealed
<1>1. Init => DiffReadsSealed
  <2>1. Init => \A r \in Request : run[RunAt(r)] = "absent"
    <3>1. Init => \A r \in Request : RunAt(r) = <<r, 1>>
      BY DEF Init, RunAt
    <3>2. Init => \A d \in RunId : run[d] = "absent"
      BY DEF Init
    <3>3. \A r \in Request : <<r, 1>> \in RunId
      BY DEF RunId
    <3> QED
      BY <3>1, <3>2, <3>3
  <2> QED
    BY <2>1 DEF DiffReadsSealed
<1>2. IndInv /\ DiffReadsSealed /\ [Next]_vars => DiffReadsSealed'
  <2>1. DiffReadsSealed /\ (Restart \/ UNCHANGED vars) => DiffReadsSealed'
    BY DEF DiffReadsSealed, Compared, RunAt, Restart, vars, jobVars
  <2> QED
    BY <2>1, ReadsStep, NextMoves
<1> QED
  BY <1>1, <1>2, PoolInvariant, PTL DEF Spec

-------------------------------------------------------------------------------
(* Permits. *)
LEMMA HoldingFinite == IsFiniteSet(Holding)
BY PoolAssumption, FS_Subset DEF Holding

LEMMA HoldingStep ==
  ASSUME IndInv, NEW r \in Request, Moves(r)
  PROVE  \/ Holding' = Holding /\ UNCHANGED permits
         \/ r \notin Holding /\ Holding' = Holding \cup {r} /\ permits' = permits - 1
         \/ r \in Holding /\ Holding' = Holding \ {r} /\ permits' = permits + 1
<1> USE DEF IndInv
<1>1. \A q \in Request : q # r => job'[q] = job[q]
  BY OthersSame DEF Same
<1>2. CASE StartHolding(r)
  <2>1. job[r] = "queued" /\ job'[r] = "holding" /\ permits' = permits - 1
    BY <1>2, HeadQueued DEF StartHolding, TypeOK
  <2> QED
    BY <1>1, <2>1 DEF Holding
<1>3. CASE JobReturns(r) \/ JobRaises(r)
  <2>1. job[r] = "holding" /\ job'[r] = "released" /\ permits' = permits + 1
    BY <1>3 DEF JobReturns, JobRaises, Release, TypeOK
  <2> QED
    BY <1>1, <2>1 DEF Holding
<1>4. CASE StartBusy(r)
  <2>1. job[r] = "queued" /\ job'[r] = "done" /\ UNCHANGED permits
    BY <1>4, HeadQueued DEF StartBusy, TypeOK
  <2> QED
    BY <1>1, <2>1 DEF Holding
<1>5. ASSUME NEW k \in Kinds, Submit(r, k) PROVE Holding' = Holding /\ UNCHANGED permits
  <2>1. job[r] = "none" /\ job'[r] = "queued" /\ UNCHANGED permits
    BY <1>5 DEF Submit, TypeOK, JobInv, JobOk
  <2> QED
    BY <1>1, <2>1 DEF Holding
<1>6. CASE Resolve(r)
  <2>1. job[r] = "released" /\ job'[r] = "done" /\ UNCHANGED permits
    BY <1>6 DEF Resolve, TypeOK
  <2> QED
    BY <1>1, <2>1 DEF Holding
<1>7. CASE UNCHANGED <<job, permits>>
  BY <1>7 DEF Holding
<1> QED
  BY <1>2, <1>3, <1>4, <1>5, <1>6, <1>7 DEF Moves, OpenRun, AdvanceRun, NextRun, Answer, GiveUp,
    UnknownRun, SameRun, jobVars

LEMMA BalanceNext == IndInv /\ PermitsBalance /\ [Next]_vars => PermitsBalance'
<1> SUFFICES ASSUME IndInv, PermitsBalance, [Next]_vars PROVE PermitsBalance'
  OBVIOUS
<1>0. Cardinality(Holding) \in Nat /\ permits \in Nat
  BY HoldingFinite, FS_CardinalityType DEF IndInv, TypeOK
<1>1. CASE UNCHANGED vars
  <2>1. Holding' = Holding
    BY <1>1 DEF Holding, vars, jobVars
  <2> QED
    BY <1>1, <2>1 DEF PermitsBalance, vars, jobVars
<1>2. CASE Restart
  <2>1. Holding' = {} /\ permits' = Permits
    BY <1>2 DEF Restart, Holding
  <2> QED
    BY <2>1, FS_EmptySet, PoolAssumption DEF PermitsBalance
<1>3. ASSUME NEW r \in Request, Moves(r) PROVE PermitsBalance'
  <2>1. CASE Holding' = Holding /\ UNCHANGED permits
    BY <2>1 DEF PermitsBalance
  <2>2. CASE r \notin Holding /\ Holding' = Holding \cup {r} /\ permits' = permits - 1
    <3>1. Cardinality(Holding \cup {r}) = Cardinality(Holding) + 1
      BY <2>2, HoldingFinite, FS_AddElement
    <3> QED
      BY <1>0, <2>2, <3>1 DEF PermitsBalance
  <2>3. CASE r \in Holding /\ Holding' = Holding \ {r} /\ permits' = permits + 1
    <3>1. Cardinality(Holding \ {r}) = Cardinality(Holding) - 1
      BY <2>3, HoldingFinite, FS_RemoveElement
    <3> QED
      BY <1>0, <2>3, <3>1 DEF PermitsBalance
  <2> QED
    BY <1>3, <2>1, <2>2, <2>3, HoldingStep
<1> QED
  BY <1>1, <1>2, <1>3, NextMoves

LEMMA BalanceInit == Init => PermitsBalance
<1>1. Init => Holding = {} /\ permits = Permits
  BY DEF Init, Holding
<1> QED
  BY <1>1, FS_EmptySet, PoolAssumption DEF PermitsBalance

\* The free and the held permits are all of them.
THEOREM PoolPermitsBalance == Spec => []PermitsBalance
BY BalanceInit, BalanceNext, PoolInvariant, PTL DEF Spec

LEMMA BusyNeedsPermits ==
  ASSUME IndInv, PermitsBalance, Permits >= Workers, NEW r \in Request PROVE ~StartBusy(r)
<1> SUFFICES ASSUME StartBusy(r) PROVE FALSE
  OBVIOUS
<1>1. Cardinality(Holding) = Permits
  BY HoldingFinite, FS_CardinalityType DEF StartBusy, PermitsBalance
<1>2. Holding \subseteq OnWorker /\ IsFiniteSet(OnWorker)
  BY PoolAssumption, FS_Subset DEF Holding, OnWorker
<1>3. Cardinality(Holding) <= Cardinality(OnWorker)
  BY <1>2, FS_Subset
<1>4. Cardinality(OnWorker) < Workers
  BY DEF StartBusy, IdleWorker
<1> QED
  BY <1>1, <1>2, <1>3, <1>4, FS_CardinalityType, PoolAssumption

\* With as many permits as threads nobody is ever told that the engine is busy.
THEOREM PoolNeverBusy == Spec => []NeverBusy
<1>1. Init => NeverBusy
  BY DEF Init, NeverBusy
<1>2. IndInv /\ PermitsBalance /\ NeverBusy /\ [Next]_vars => NeverBusy'
  <2> SUFFICES ASSUME IndInv, PermitsBalance, NeverBusy, [Next]_vars, Permits >= Workers
               PROVE  \A q \in Request : result'[q] # "busy"
    BY DEF NeverBusy
  <2>1. \A q \in Request : result[q] # "busy"
    BY DEF NeverBusy
  <2>2. CASE Restart \/ UNCHANGED vars
    BY <2>1, <2>2 DEF Restart, vars, jobVars
  <2>3. ASSUME NEW r \in Request, Moves(r) PROVE \A q \in Request : result'[q] # "busy"
    <3>1. ~StartBusy(r)
      BY BusyNeedsPermits
    <3> QED
      BY <2>1, <2>3, <3>1 DEF Moves, StartHolding, OpenRun, AdvanceRun, NextRun, JobReturns, JobRaises,
        Release, Resolve, Answer, GiveUp, UnknownRun, SameRun, Submit, jobVars, IndInv, TypeOK
  <2> QED
    BY <2>2, <2>3, NextMoves
<1> QED
  BY <1>1, <1>2, PoolInvariant, PoolPermitsBalance, PTL DEF Spec

-------------------------------------------------------------------------------
Run(d) == INSTANCE RunStages WITH stage <- run[d]

\* Seen from outside, every directory goes through RunStages, restarts included.
THEOREM PoolKeepsStages == ASSUME NEW d \in RunId PROVE Spec => Run(d)!StagesSpec
<1>1. Init => Run(d)!StagesInit
  BY DEF Init, Run!StagesInit
<1>2. IndInv /\ [Next]_vars => [Run(d)!StagesNext]_(run[d])
  <2> SUFFICES ASSUME IndInv, [Next]_vars, run'[d] # run[d] PROVE Run(d)!StagesNext
    OBVIOUS
  <2>1. PICK r \in Request : OpenRun(r) \/ AdvanceRun(r)
    <3>1. ~Restart /\ ~UNCHANGED vars
      BY DEF Restart, vars
    <3>2. PICK r \in Request : Moves(r)
      BY <3>1, NextMoves
    <3> QED
      BY <3>2 DEF Moves, StartHolding, StartBusy, NextRun, JobReturns, JobRaises, Release,
        Resolve, Answer, GiveUp, UnknownRun, SameRun, Submit
  <2>2. CASE OpenRun(r)
    BY <2>2 DEF OpenRun, IndInv, TypeOK, Run!StagesNext, Run!Enter
  <2>3. CASE AdvanceRun(r)
    <3>1. PICK step \in {<<"open", "decided">>, <<"decided", "torn">>, <<"torn", "sealed">>} :
            run[RunAt(r)] = step[1] /\ run' = [run EXCEPT ![RunAt(r)] = step[2]]
      BY <2>3 DEF AdvanceRun
    <3>2. run[d] = step[1] /\ run'[d] = step[2]
      BY <3>1 DEF IndInv, TypeOK
    <3> QED
      BY <3>1, <3>2 DEF Run!StagesNext, Run!Conclude, Run!OpenManifest, Run!CloseManifest
  <2> QED
    BY <2>1, <2>2, <2>3
<1> QED
  BY <1>1, <1>2, PoolInvariant, PTL DEF Spec, Run!StagesSpec

-------------------------------------------------------------------------------
(* Jobs only go forward.                                                       *)

RunRank == [absent |-> 0, open |-> 1, decided |-> 2, torn |-> 3, sealed |-> 4]

\* How far a job at label j, with run number s in state x, has come: queued, five
\* steps for each of its runs, the permit given back, the future set or lost.
Come(j, s, x) ==
  CASE j = "none" -> 0
    [] j = "queued" -> 1
    [] j = "holding" -> 5 * s + RunRank[x] - 3
    [] j = "released" -> 17
    [] j \in {"done", "lost"} -> 18

Done(r) == Come(job[r], stage[r], run[RunAt(r)])

\* Each step of a job's thread brings the job on, and no step of anybody - another job,
\* a handler that gives up, a restart - sets it back: it is started once, and no run of
\* it is opened twice.  Done has a bound, so that the threads run out of steps to take.
JobsOnlyAdvance ==
  [][\A r \in Request : /\ JobStep(r) => Done(r)' > Done(r)
                        /\ Done(r)' >= Done(r)
                        /\ Done(r)' \in 0..18]_vars

LEMMA Distance ==
  ASSUME NEW j \in JobStates, NEW s \in 1..3, NEW x \in RunStates
  PROVE  /\ RunRank[x] \in 0..4
         /\ Come(j, s, x) \in 0..18
         /\ j = "holding" => Come(j, s, x) = 5 * s + RunRank[x] - 3
         /\ j = "holding" => Come(j, s, x) \in 2..16
<1>1. RunRank[x] \in 0..4
  BY DEF RunStates, RunRank
<1> QED
  BY <1>1 DEF Come, JobStates

LEMMA DoneTypes ==
  ASSUME NEW r \in Request
  PROVE  /\ TypeOK => /\ job[r] \in JobStates /\ stage[r] \in 1..3
                      /\ RunAt(r) \in RunId /\ run[RunAt(r)] \in RunStates
         /\ TypeOK' => /\ job'[r] \in JobStates /\ stage'[r] \in 1..3
                       /\ RunAt(r)' \in RunId /\ run'[RunAt(r)'] \in RunStates
BY DEF TypeOK, RunAt, RunId

\* The steps of a job that change its run.
LEMMA RunForward ==
  ASSUME TypeOK, TypeOK', NEW r \in Request, OpenRun(r) \/ AdvanceRun(r)
  PROVE  Done(r)' > Done(r)
<1>1. /\ UNCHANGED <<job, stage>> /\ job[r] = "holding" /\ RunAt(r)' = RunAt(r)
  BY DEF OpenRun, AdvanceRun, jobVars, RunAt
<1>2. RunRank[run'[RunAt(r)]] > RunRank[run[RunAt(r)]]
  <2>1. CASE OpenRun(r)
    <3>1. run[RunAt(r)] = "absent" /\ run'[RunAt(r)] = "open"
      BY <2>1, DoneTypes DEF OpenRun, TypeOK
    <3> QED
      BY <3>1 DEF RunRank
  <2>2. CASE AdvanceRun(r)
    <3>1. PICK step \in {<<"open", "decided">>, <<"decided", "torn">>, <<"torn", "sealed">>} :
            run[RunAt(r)] = step[1] /\ run' = [run EXCEPT ![RunAt(r)] = step[2]]
      BY <2>2 DEF AdvanceRun
    <3>2. RunRank[step[2]] > RunRank[step[1]]
      BY DEF RunRank
    <3>3. run'[RunAt(r)] = step[2]
      BY <3>1, DoneTypes DEF TypeOK
    <3> QED
      BY <3>1, <3>2, <3>3
  <2> QED
    BY <2>1, <2>2
<1>3. RunRank[run[RunAt(r)]] \in 0..4 /\ RunRank[run'[RunAt(r)]] \in 0..4
  BY <1>1, DoneTypes, Distance
<1>4. Done(r) = 5 * stage[r] + RunRank[run[RunAt(r)]] - 3
  BY <1>1 DEF Done, Come
<1>5. Done(r)' = 5 * stage[r] + RunRank[run'[RunAt(r)]] - 3
  BY <1>1 DEF Done, Come
<1> QED
  BY <1>2, <1>3, <1>4, <1>5, DoneTypes

\* The next run of a loop has not been begun.
LEMMA NextForward ==
  ASSUME IndInv, TypeOK', NEW r \in Request, NextRun(r)
  PROVE  Done(r)' > Done(r)
<1>1. /\ job[r] = "holding" /\ UNCHANGED <<job, run>> /\ stage'[r] = stage[r] + 1
      /\ run[RunAt(r)] = "sealed"
  BY DEF NextRun, IndInv, TypeOK
<1>2. run'[RunAt(r)'] = "absent"
  <2>1. stage'[r] \in 1..3 /\ stage'[r] > stage[r]
    BY <1>1, DoneTypes DEF IndInv
  <2>2. run[<<r, stage'[r]>>] = "absent"
    BY <2>1 DEF IndInv, LoopInv, LoopOk
  <2> QED
    BY <1>1, <2>2 DEF RunAt
<1>3. Done(r) = 5 * stage[r] + 4 - 3
  BY <1>1 DEF Done, Come, RunRank
<1>4. Done(r)' = 5 * stage'[r] + 0 - 3
  BY <1>1, <1>2 DEF Done, Come, RunRank
<1> QED
  BY <1>1, <1>3, <1>4, DoneTypes DEF IndInv

LEMMA JobForward ==
  ASSUME IndInv, TypeOK', NEW r \in Request, JobStep(r)
  PROVE  Done(r)' > Done(r)
<1>t. TypeOK
  BY DEF IndInv
<1>d. Done(r) \in 0..18 /\ Done(r)' \in 0..18
  BY <1>t, DoneTypes, Distance DEF Done
<1>1. CASE StartHolding(r) \/ StartBusy(r)
  <2>1. job[r] = "queued"
    BY <1>1, HeadQueued DEF IndInv, StartHolding, StartBusy
  <2>2. job'[r] \in {"holding", "done"}
    BY <1>1, <1>t DEF StartHolding, StartBusy, TypeOK
  <2>3. job'[r] = "holding" => Done(r)' \in 2..16
    BY <1>t, DoneTypes, Distance DEF Done
  <2>4. job'[r] = "done" => Done(r)' = 18
    BY DEF Done, Come
  <2>5. Done(r) = 1
    BY <2>1 DEF Done, Come
  <2> QED
    BY <2>2, <2>3, <2>4, <2>5
<1>2. CASE OpenRun(r) \/ AdvanceRun(r)
  BY <1>t, <1>2, RunForward
<1>3. CASE NextRun(r)
  BY <1>3, NextForward
<1>4. CASE JobReturns(r) \/ JobRaises(r)
  <2>1. job[r] = "holding" /\ job'[r] = "released"
    BY <1>t, <1>4 DEF JobReturns, JobRaises, Release, TypeOK
  <2>2. Done(r) \in 2..16
    BY <1>t, <2>1, DoneTypes, Distance DEF Done
  <2>3. Done(r)' = 17
    BY <2>1 DEF Done, Come
  <2> QED
    BY <2>2, <2>3
<1>5. CASE Resolve(r)
  <2>1. job[r] = "released" /\ job'[r] = "done"
    BY <1>t, <1>5 DEF Resolve, TypeOK
  <2> QED
    BY <2>1 DEF Done, Come
<1> QED
  BY <1>1, <1>2, <1>3, <1>4, <1>5 DEF JobStep

\* What others do to a job: nothing, or a restart loses it.
LEMMA OthersLeave ==
  ASSUME IndInv, [Next]_vars, NEW r \in Request, ~JobStep(r)
  PROVE  \/ job'[r] = job[r] /\ stage'[r] = stage[r] /\ run'[RunAt(r)'] = run[RunAt(r)]
         \/ job[r] = "none" /\ job'[r] = "queued"
         \/ job'[r] = "lost"
<1>t. TypeOK
  BY DEF IndInv
<1>1. CASE UNCHANGED vars
  BY <1>1 DEF vars, jobVars, RunAt
<1>2. CASE Restart
  BY <1>2 DEF Restart, RunAt
<1>3. ASSUME NEW q \in Request, Moves(q), q # r
      PROVE  job'[r] = job[r] /\ stage'[r] = stage[r] /\ run'[RunAt(r)'] = run[RunAt(r)]
  <2>1. job'[r] = job[r] /\ stage'[r] = stage[r] /\ RunAt(r)' = RunAt(r)
    BY <1>t, <1>3, OthersSame DEF Same, RunAt
  <2>2. run'[<<r, stage[r]>>] = run[<<r, stage[r]>>]
    BY <1>t, <1>3, OtherRuns, DoneTypes
  <2> QED
    BY <2>1, <2>2 DEF RunAt
<1>4. CASE Moves(r)
  <2>1. CASE Answer(r) \/ GiveUp(r) \/ UnknownRun(r) \/ SameRun(r)
    BY <2>1 DEF Answer, GiveUp, UnknownRun, SameRun, RunAt
  <2>2. ASSUME NEW k \in Kinds, Submit(r, k) PROVE job[r] = "none" /\ job'[r] = "queued"
    BY <1>t, <2>2 DEF Submit, IndInv, JobInv, JobOk, TypeOK
  <2> QED
    BY <1>4, <2>1, <2>2 DEF Moves, JobStep
<1> QED
  BY <1>1, <1>2, <1>3, <1>4, NextMoves

LEMMA AdvanceStep ==
  ASSUME IndInv, TypeOK', [Next]_vars, NEW r \in Request
  PROVE  /\ JobStep(r) => Done(r)' > Done(r)
         /\ Done(r)' >= Done(r)
         /\ Done(r)' \in 0..18
<1>1. Done(r) \in 0..18 /\ Done(r)' \in 0..18
  BY DoneTypes, Distance DEF IndInv, Done
<1>2. CASE JobStep(r)
  BY <1>1, <1>2, JobForward
<1>3. CASE ~JobStep(r)
  <2>1. CASE job'[r] = job[r] /\ stage'[r] = stage[r] /\ run'[RunAt(r)'] = run[RunAt(r)]
    <3>1. Done(r)' = Done(r)
      BY <2>1 DEF Done
    <3> QED
      BY <1>1, <1>3, <3>1
  <2>2. CASE job[r] = "none" \/ job'[r] = "lost"
    <3>1. job[r] = "none" => Done(r) = 0
      BY DEF Done, Come
    <3>2. job'[r] = "lost" => Done(r)' = 18
      BY DEF Done, Come
    <3> QED
      BY <1>1, <1>3, <2>2, <3>1, <3>2
  <2> QED
    BY <1>3, <2>1, <2>2, OthersLeave
<1> QED
  BY <1>2, <1>3, <1>1

\* A job takes fewer than twenty steps, whatever happens around it: the part of
\* PoolComesToRest that does not depend on scheduling (server.py:147-189).
THEOREM PoolAdvances == Spec => JobsOnlyAdvance
<1>1. IndInv /\ TypeOK' /\ [Next]_vars =>
        [\A r \in Request : /\ JobStep(r) => Done(r)' > Done(r)
                            /\ Done(r)' >= Done(r)
                            /\ Done(r)' \in 0..18]_vars
  BY AdvanceStep
<1> QED
  BY <1>1, PoolInvariant, PoolTypeCorrect, PTL DEF Spec, JobsOnlyAdvance

===============================================================================
