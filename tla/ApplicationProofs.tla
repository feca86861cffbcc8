------------------------- MODULE ApplicationProofs -------------------------
(***************************************************************************)
(* The looping jobs under their manager, and the application around them,  *)
(* for every number of services, monitors and init jobs.  Both implement   *)
(* ServiceManager, so that everything proved of it is true of them, and    *)
(* Injection implements Application for every graph of dependencies.       *)
(***************************************************************************)
EXTENDS Injection, ServiceManagerProofs, FiniteSetTheorems, SequenceTheorems

\* Only a job that may fail makes its service call itself unhealthy.
OnlyFailingJobs == \A s \in Service : ~ healthy[s] => s \in SelfDiagnosing

\* What the manager does to the tasks: it starts one, or leaves one pending or
\* not pending as it was.
LEMMA ManagerAndTasks ==
  ASSUME TypeOK, SpawnServices \/ \E m \in Monitors : MonitorStep(m)
  PROVE  /\ healthy' = healthy /\ now' = now
         /\ \A s \in Service :
              \/ handle[s] = "none" /\ handle'[s] = "running" /\ heart'[s] = now
              \/ /\ ~ (handle[s] = "none" /\ handle'[s] = "running")
                 /\ Pending(s)' <=> Pending(s)
                 /\ handle'[s] = "running" => handle[s] = "running"
                 /\ heart'[s] = heart[s]
<1> USE DEF serviceVars, reportVars
<1> DEFINE Managed(s) ==
      \/ handle[s] = "none" /\ handle'[s] = "running" /\ heart'[s] = now
      \/ /\ ~ (handle[s] = "none" /\ handle'[s] = "running")
         /\ Pending(s)' <=> Pending(s)
         /\ handle'[s] = "running" => handle[s] = "running"
         /\ heart'[s] = heart[s]
<1> DEFINE Goal == healthy' = healthy /\ now' = now /\ \A s \in Service : Managed(s)
<1>1. ASSUME handle' = handle, heart' = heart, healthy' = healthy, now' = now PROVE Goal
  BY <1>1 DEF Pending
<1>2. ASSUME NEW r \in Service, StartTask(r), healthy' = healthy, now' = now PROVE Goal
  BY <1>2 DEF StartTask, TypeOK, Pending
<1>3. ASSUME NEW r \in Service, DropHandle(r), ~ Pending(r), heart' = heart, healthy' = healthy,
             now' = now
      PROVE  Goal
  BY <1>3 DEF DropHandle, TypeOK, Pending
<1>4. CASE SpawnServices
  <2>1. spawned + 1 \in Service
    BY <1>4, ConstantsAssumption DEF SpawnServices, Service, TypeOK
  <2>2. QED
    BY <1>2, <1>4, <2>1 DEF SpawnServices
<1>5. ASSUME NEW m \in Monitors, MonitorStep(m)
      PROVE  Goal
  <2> at[m] \in Service
    BY DEF TypeOK, Checkers
  <2>1. CASE CheckStep(m)
    BY <1>1, <2>1 DEF CheckStep, BeginCheck, LoadHeart, AskHealth, ClearFailing, MarkFailing
  <2>2. CASE \/ \E s \in Service : DecideRestart(m, s) \/ TooRecent(m, s)
             \/ RoundDone(m) \/ Wake(m) \/ JoinTimeout(m) \/ SpawnBails(m) \/ SpawnResets(m)
    BY <1>1, <2>2 DEF DecideRestart, TooRecent, RoundDone, Wake, JoinTimeout,
       SpawnBails, SpawnResets
  <2>3. CASE AbortFinished(m) \/ Join(m)
    BY <1>3, <2>3 DEF AbortFinished, Join
  <2>4. CASE SpawnTask(m)
    BY <1>2, <2>4 DEF SpawnTask
  <2>5. CASE AbortPending(m)
    BY <2>5 DEF AbortPending, TypeOK, Pending
  <2>6. QED
    BY <1>5, <2>1, <2>2, <2>3, <2>4, <2>5 DEF MonitorStep, RestartStep
<1>6. QED
  BY <1>4, <1>5

\* A step of the loops and their manager is a step of ServiceManager: the end
\* of an iteration is a diagnosis that the service makes of itself, or none.
LEMMA LoopImplements ==
  ASSUME TypeOK, OnlyFailingJobs, [LoopNext]_jobVars
  PROVE  [Next]_vars /\ OnlyFailingJobs'
<1> USE DEF OnlyFailingJobs
<1>1. CASE UNCHANGED jobVars
  BY <1>1 DEF jobVars, vars, serviceVars
<1>2. CASE LoopTick
  BY <1>2 DEF LoopTick, Tick, Next, serviceVars
<1>3. CASE LoopSpawn
  BY <1>3, ManagerAndTasks DEF LoopSpawn, Next
<1>4. ASSUME NEW m \in Monitors, LoopMonitor(m)
      PROVE  [Next]_vars /\ OnlyFailingJobs'
  BY <1>4, ManagerAndTasks DEF LoopMonitor, Monitor, Next
<1>5. ASSUME NEW s \in Service, AllIdle, LoopStep(s)
      PROVE  [Next]_vars /\ OnlyFailingJobs'
  <2>1. ASSUME TaskStep(s), healthy' = healthy PROVE [Next]_vars /\ OnlyFailingJobs'
    BY <1>5, <2>1 DEF Next, Task
  <2>2. ASSUME UNCHANGED vars PROVE [Next]_vars /\ OnlyFailingJobs'
    BY <2>2 DEF vars, serviceVars
  <2>3. CASE LoopBeat(s)
    BY <2>1, <2>3 DEF LoopBeat, TaskStep, Beat
  <2>4. CASE Lock(s) \/ Repeat(s)
    BY <2>2, <2>4 DEF Lock, Repeat
  <2>5. CASE End(s) \/ EndUnpolled(s)
    BY <2>1, <2>5 DEF End, EndUnpolled, TaskStep, AbortLands, Panic
  <2>6. ASSUME NEW ok \in BOOLEAN, Finish(s, ok)
        PROVE  [Next]_vars /\ OnlyFailingJobs'
    <3>1. /\ healthy' = [healthy EXCEPT ![s] = ok] /\ healthy \in [Service -> BOOLEAN]
          /\ ok \/ s \in SelfDiagnosing
      BY <2>6 DEF Finish, TypeOK
    <3>2. OnlyFailingJobs'
      BY <3>1
    <3>3. CASE healthy[s] = ok
      <4>1. healthy' = healthy
        BY <3>1, <3>3
      <4>2. QED
        BY <2>2, <2>6, <4>1 DEF Finish, vars, serviceVars, reportVars
    <3>4. CASE healthy[s] # ok
      <4>1. s \in SelfDiagnosing /\ healthy' = [healthy EXCEPT ![s] = ~ healthy[s]]
        BY <3>1, <3>4
      <4>2. Diagnose(s)
        BY <2>6, <4>1 DEF Finish, Diagnose
      <4>3. QED
        BY <1>5, <3>2, <4>2 DEF Next, Task, TaskStep
    <3>5. QED
      BY <3>3, <3>4
  <2>7. QED
    BY <1>5, <2>3, <2>4, <2>5, <2>6 DEF LoopStep
<1>6. QED
  BY <1>1, <1>2, <1>3, <1>4, <1>5 DEF LoopNext

\* The jobs in their loops are services as ServiceManager expects them.
THEOREM LoopsAreServices == LoopSpec => Spec
<1>1. LoopInit => Init /\ OnlyFailingJobs
  BY DEF LoopInit, Init, OnlyFailingJobs
<1>2. Init => TypeOK
  BY InitTypeOK
<1>3. TypeOK /\ [Next]_vars => TypeOK'
  BY TypeOKStep
<1>4. TypeOK /\ OnlyFailingJobs /\ [LoopNext]_jobVars => [Next]_vars /\ OnlyFailingJobs'
  BY LoopImplements
<1>5. QED
  BY <1>1, <1>2, <1>3, <1>4, PTL DEF LoopSpec, Spec

-----------------------------------------------------------------------------
\* A loop has a place exactly while its task is pending, and holds the job's
\* mutex only while it runs the job.
LoopInv ==
  /\ LoopTypeOK
  /\ \A s \in Service : step[s] # "none" <=> Pending(s)
  /\ \A s \in Service : locked[s] => step[s] = "run"

LEMMA InitLoopInv == LoopInit => LoopInv
<1> SUFFICES ASSUME LoopInit PROVE LoopInv
  OBVIOUS
<1>1. LoopTypeOK
  BY InitTypeOK DEF LoopInit, LoopTypeOK
<1>2. QED
  BY <1>1 DEF LoopInit, LoopInv, Init, Pending

LEMMA StepLoopInv ==
  ASSUME LoopInv, TypeOK', [LoopNext]_jobVars
  PROVE  LoopInv'
<1> USE DEF LoopInv, LoopTypeOK
<1>0. /\ TypeOK /\ now \in Nat
      /\ Delay \in Nat /\ Slowest \in Nat
  BY LoopAssumption, NumbersTypes
<1>1. CASE UNCHANGED jobVars
  BY <1>1 DEF jobVars, loopVars, vars, serviceVars, Pending
<1>2. CASE LoopTick
  BY <1>2 DEF LoopTick, loopVars, Tick, serviceVars, Pending
<1>3. ASSUME StartLoops, SpawnServices \/ \E m \in Monitors : MonitorStep(m)
      PROVE  LoopInv'
  <2>1. \A s \in Service :
          step'[s] = IF handle[s] = "none" /\ handle'[s] = "running" THEN "beat" ELSE step[s]
    BY <1>3 DEF StartLoops
  <2>2. locked' = locked /\ limit' = limit
    BY <1>3 DEF StartLoops
  <2>3. step' \in [Service -> {"none", "beat", "lock", "run", "sleep"}]
    BY <1>3 DEF StartLoops
  <2>4. \A s \in Service : step'[s] # "none" <=> Pending(s)'
    BY <1>0, <1>3, <2>1, ManagerAndTasks DEF Pending
  <2>5. \A s \in Service : locked'[s] => step'[s] = "run"
    BY <2>1, <2>2 DEF Pending
  <2>6. QED
    BY <2>2, <2>3, <2>4, <2>5
<1>4. ASSUME NEW s \in Service, LoopStep(s)
      PROVE  LoopInv'
  <2>1. CASE LoopBeat(s)
    BY <2>1 DEF LoopBeat, GotoStep, Beat, Pending
  <2>2. CASE Lock(s)
    <3>1. limit' \in [Service -> Nat]
      BY <1>0, <2>2 DEF Lock
    <3>2. QED
      BY <2>2, <3>1 DEF Lock, GotoStep, vars, serviceVars, Pending
  <2>3. ASSUME NEW ok \in BOOLEAN, Finish(s, ok)
        PROVE  LoopInv'
    <3>1. limit' \in [Service -> Nat]
      BY <1>0, <2>3 DEF Finish
    <3>2. QED
      BY <2>3, <3>1 DEF Finish, GotoStep, Pending
  <2>4. CASE Repeat(s)
    BY <2>4 DEF Repeat, GotoStep, vars, serviceVars, Pending
  <2>5. CASE End(s) \/ EndUnpolled(s)
    <3>1. /\ handle' = [handle EXCEPT ![s] = "done"]
          /\ step' = [step EXCEPT ![s] = "none"]
          /\ limit' = limit
          /\ locked' = [locked EXCEPT ![s] = FALSE] \/ (locked' = locked /\ step[s] = "beat")
      BY <2>5 DEF End, EndUnpolled, AbortLands, Panic, GotoStep
    <3>2. \A r \in Service : step'[r] # "none" <=> Pending(r)'
      BY <1>0, <3>1 DEF TypeOK, Pending
    <3>3. \A r \in Service : locked'[r] => step'[r] = "run"
      BY <3>1
    <3>4. QED
      BY <3>1, <3>2, <3>3
  <2>6. QED
    BY <1>4, <2>1, <2>2, <2>3, <2>4, <2>5 DEF LoopStep
<1>5. QED
  BY <1>1, <1>2, <1>3, <1>4 DEF LoopNext, LoopSpawn, LoopMonitor, Monitor

LEMMA LoopInvAlways == LoopSpec => []LoopInv
<1>1. LoopInv /\ TypeOK' /\ [LoopNext]_jobVars => LoopInv'
  BY StepLoopInv
<1>2. QED
  BY InitLoopInv, <1>1, LoopsAreServices, TypeCorrect, PTL DEF LoopSpec

\* The mutex of a job is free whenever its loop is about to take it.
THEOREM LocksAreFree == LoopSpec => []LockIsFree
<1>1. LoopInv => LockIsFree
  BY DEF LoopInv, LockIsFree
<1>2. QED
  BY <1>1, LoopInvAlways, PTL

-----------------------------------------------------------------------------
(***************************************************************************)
(* Timing.  Between two beats of a loop lie one iteration and one sleep.   *)
(* The monitor compares with a beat that it loaded after its timestamp was *)
(* taken, and nobody starts a task while the one monitor checks it.        *)
(***************************************************************************)
Paced(s) ==
  /\ step[s] = "beat" => now <= heart[s] + Slowest + Delay
  /\ step[s] = "lock" => now = heart[s]
  /\ step[s] = "run" => now <= limit[s] /\ limit[s] <= heart[s] + Slowest
  /\ step[s] = "sleep" => now <= limit[s] /\ limit[s] <= heart[s] + Slowest + Delay

Checked(m) ==
  /\ ts[m] <= now
  /\ pc[m] \in {"health", "clear", "mark"} /\ handle[at[m]] = "running" =>
       lastBeat[m] + Ttl[at[m]] > ts[m]
  /\ spawned < NumServices => pc[m] = "check"

TimingInv == (\A s \in Service : Paced(s)) /\ (\A m \in Monitors : Checked(m))

\* Iterations are short of the maximum, and there is one monitor.
Punctual == Slowest < MaxIteration /\ \A m, n \in Monitors : m = n

LEMMA LoopNumbers ==
  ASSUME LoopInv
  PROVE  /\ now \in Nat /\ Delay \in Nat /\ Slowest \in Nat /\ MaxIteration \in Nat
         /\ \A s \in Service : /\ heart[s] \in Nat /\ limit[s] \in Nat
                               /\ Ttl[s] = Delay + MaxIteration
         /\ spawned \in Nat /\ NumServices \in Nat /\ spawned <= NumServices
         /\ \A m \in Monitors : /\ m \in Checkers /\ at[m] \in Service
                                /\ ts[m] \in Nat /\ lastBeat[m] \in Nat
  BY LoopAssumption, NumbersTypes, ConstantsAssumption
  DEF LoopInv, LoopTypeOK, TypeOK, Checkers

\* A running service has beaten within its ttl.
LEMMA PacedIsFresh ==
  ASSUME LoopInv, Punctual, NEW s \in Service, Paced(s), Pending(s)
  PROVE  heart[s] + Ttl[s] > now
<1>1. step[s] \in {"beat", "lock", "run", "sleep"}
  BY DEF LoopInv, LoopTypeOK
<1>2. QED
  BY <1>1, LoopNumbers DEF Paced, Punctual

\* Each loop keeps its pace.
LEMMA PacedStep ==
  ASSUME LoopInv, LoopInv', [LoopNext]_jobVars, NEW s \in Service, Paced(s)
  PROVE  Paced(s)'
<1> USE DEF Paced
<1>0. /\ LoopTypeOK /\ TypeOK
      /\ now \in Nat /\ heart[s] \in Nat /\ limit[s] \in Nat
      /\ Delay \in Nat /\ Slowest \in Nat
      /\ step[s] \in {"none", "beat", "lock", "run", "sleep"}
  BY LoopNumbers DEF LoopInv, LoopTypeOK
<1>1. ASSUME step'[s] = step[s], heart'[s] = heart[s], limit'[s] = limit[s], now' = now
      PROVE  Paced(s)'
  BY <1>1
<1>2. CASE UNCHANGED jobVars
  BY <1>1, <1>2 DEF jobVars, loopVars, vars, serviceVars
<1>3. CASE LoopTick
  <2>1. /\ step' = step /\ limit' = limit /\ heart' = heart /\ now' = now + 1
        /\ step[s] # "none" => step[s] \in {"run", "sleep"} /\ now < limit[s]
    BY <1>3 DEF LoopTick, Tick, loopVars, serviceVars, LoopInv
  <2>2. QED
    BY <1>0, <2>1
<1>4. ASSUME StartLoops, SpawnServices \/ \E m \in Monitors : MonitorStep(m)
      PROVE  Paced(s)'
  <2>1. /\ step'[s] = IF handle[s] = "none" /\ handle'[s] = "running" THEN "beat" ELSE step[s]
        /\ limit'[s] = limit[s]
    BY <1>4 DEF StartLoops
  <2>2. now' = now
    BY <1>0, <1>4, ManagerAndTasks
  <2>3. CASE handle[s] = "none" /\ handle'[s] = "running"
    <3>1. heart'[s] = now
      BY <1>0, <1>4, <2>3, ManagerAndTasks
    <3>2. QED
      BY <1>0, <2>1, <2>2, <2>3, <3>1
  <2>4. CASE ~ (handle[s] = "none" /\ handle'[s] = "running")
    <3>1. heart'[s] = heart[s]
      BY <1>0, <1>4, <2>4, ManagerAndTasks
    <3>2. QED
      BY <1>1, <2>1, <2>2, <2>4, <3>1
  <2>5. QED
    BY <2>3, <2>4
<1>5. ASSUME NEW r \in Service, LoopStep(r), r # s
      PROVE  Paced(s)'
  <2>1. now' = now /\ heart'[s] = heart[s]
    BY <1>0, <1>5 DEF LoopStep, LoopBeat, Beat, Lock, Finish, Repeat, End, EndUnpolled,
       AbortLands, Panic, vars, serviceVars, TypeOK
  <2>2. step'[s] = step[s] /\ limit'[s] = limit[s]
    BY <1>0, <1>5 DEF LoopStep, LoopBeat, Lock, Finish, Repeat, End, EndUnpolled,
       GotoStep, LoopTypeOK
  <2>3. QED
    BY <1>1, <2>1, <2>2
<1>6. CASE LoopStep(s)
  <2> USE DEF GotoStep
  <2>1. CASE LoopBeat(s)
    <3>1. step'[s] = "lock" /\ heart'[s] = now /\ now' = now
      BY <1>0, <2>1 DEF LoopBeat, Beat, LoopTypeOK, TypeOK
    <3>2. QED
      BY <3>1
  <2>2. CASE Lock(s)
    <3>1. /\ step[s] = "lock" /\ step'[s] = "run" /\ limit'[s] = now + Slowest
          /\ heart'[s] = heart[s] /\ now' = now
      BY <1>0, <2>2 DEF Lock, LoopTypeOK, vars, serviceVars
    <3>2. QED
      BY <1>0, <3>1
  <2>3. ASSUME NEW ok \in BOOLEAN, Finish(s, ok) PROVE Paced(s)'
    <3>1. /\ step[s] = "run" /\ step'[s] = "sleep" /\ limit'[s] = now + Delay
          /\ heart'[s] = heart[s] /\ now' = now
      BY <1>0, <2>3 DEF Finish, LoopTypeOK
    <3>2. QED
      BY <1>0, <3>1
  <2>4. CASE Repeat(s)
    <3>1. /\ step[s] = "sleep" /\ step'[s] = "beat"
          /\ heart'[s] = heart[s] /\ now' = now
      BY <1>0, <2>4 DEF Repeat, LoopTypeOK, vars, serviceVars
    <3>2. QED
      BY <1>0, <3>1
  <2>5. CASE End(s) \/ EndUnpolled(s)
    <3>1. step'[s] = "none"
      BY <1>0, <2>5 DEF End, EndUnpolled, LoopTypeOK
    <3>2. QED
      BY <3>1
  <2>6. QED
    BY <1>6, <2>1, <2>2, <2>3, <2>4, <2>5 DEF LoopStep
<1>7. QED
  BY <1>2, <1>3, <1>4, <1>5, <1>6 DEF LoopNext, LoopSpawn, LoopMonitor, Monitor

\* A step of the monitor's check.
LEMMA CheckedStep ==
  ASSUME LoopInv, TimingInv, Punctual, NEW m \in Monitors, MonitorStep(m)
  PROVE  Checked(m)'
<1> USE DEF serviceVars, reportVars, Goto
<1>0. /\ m \in Checkers /\ at[m] \in Service /\ Checked(m) /\ ts[m] \in Nat /\ now \in Nat
      /\ spawned \in Nat /\ NumServices \in Nat /\ spawned <= NumServices
  BY LoopNumbers DEF TimingInv
<1>1. spawned' = spawned /\ now' = now
  BY DEF MonitorStep, CheckStep, BeginCheck, LoadHeart, AskHealth, ClearFailing, MarkFailing,
     RestartStep, DecideRestart, TooRecent, RoundDone, Wake, AbortFinished, AbortPending,
     Join, JoinTimeout, SpawnTask, SpawnBails, SpawnResets
<1>2. spawned = NumServices
  <2>1. pc[m] = "check" => spawned = NumServices
    BY DEF MonitorStep, CheckStep, BeginCheck, LoadHeart, AskHealth, ClearFailing, MarkFailing,
       RestartStep, DecideRestart, TooRecent, RoundDone, Wake, AbortFinished, AbortPending,
       Join, JoinTimeout, SpawnTask, SpawnBails, SpawnResets
  <2>2. QED
    BY <1>0, <2>1 DEF Checked
<1>3. ASSUME ts'[m] <= now, pc'[m] \notin {"health", "clear", "mark"}
      PROVE  Checked(m)'
  BY <1>0, <1>1, <1>2, <1>3 DEF Checked
<1>4. CASE BeginCheck(m)
  BY <1>0, <1>3, <1>4 DEF BeginCheck, LoopInv, LoopTypeOK, TypeOK
<1>5. CASE LoadHeart(m)
  <2>1. /\ pc'[m] = "health" /\ lastBeat'[m] = heart[at[m]]
        /\ at'[m] = at[m] /\ ts'[m] = ts[m] /\ handle' = handle
    BY <1>0, <1>5 DEF LoadHeart, LoopInv, LoopTypeOK, TypeOK
  <2>2. handle[at[m]] = "running" => heart[at[m]] + Ttl[at[m]] > now
    BY <1>0, PacedIsFresh DEF TimingInv, Pending
  <2>3. handle[at[m]] = "running" => heart[at[m]] + Ttl[at[m]] > ts[m]
    BY <1>0, <2>2, LoopNumbers DEF Checked
  <2>4. QED
    BY <1>0, <1>1, <1>2, <2>1, <2>3 DEF Checked
<1>6. CASE AskHealth(m)
  <2>1. /\ pc[m] = "health" /\ lastBeat' = lastBeat /\ at' = at /\ ts' = ts
        /\ handle' = handle
    BY <1>6 DEF AskHealth
  <2>2. QED
    BY <1>0, <1>1, <1>2, <2>1 DEF Checked
<1>7. CASE ClearFailing(m) \/ MarkFailing(m)
  <2>1. ts' = ts /\ pc'[m] \in {"heart", "scan", "respond"}
    BY <1>0, <1>7 DEF ClearFailing, MarkFailing, Advance, LoopInv, LoopTypeOK, TypeOK
  <2>2. QED
    BY <1>0, <1>3, <2>1 DEF Checked
<1>8. CASE ~ CheckStep(m)
  <2>1. ts' = ts
    BY <1>8 DEF MonitorStep, RestartStep, DecideRestart, TooRecent, RoundDone, Wake,
       AbortFinished, AbortPending, Join, JoinTimeout, SpawnTask, SpawnBails, SpawnResets
  <2>2. pc'[m] \notin {"health", "clear", "mark"}
    BY <1>0, <1>8 DEF MonitorStep, RestartStep, DecideRestart, TooRecent, RoundDone, Wake,
       AbortFinished, AbortPending, Join, JoinTimeout, SpawnTask, SpawnBails, SpawnResets,
       LoopInv, LoopTypeOK, TypeOK
  <2>3. QED
    BY <1>0, <1>3, <2>1, <2>2 DEF Checked
<1>9. QED
  BY <1>4, <1>5, <1>6, <1>7, <1>8 DEF CheckStep

\* What anybody else does while the monitor checks.
LEMMA CheckedFrame ==
  ASSUME LoopInv, NEW m \in Monitors, Checked(m),
         pc' = pc, at' = at, ts' = ts, lastBeat' = lastBeat,
         now' = now \/ now' = now + 1,
         spawned' = spawned \/ (pc[m] = "check" /\ spawned' = spawned + 1),
         pc[m] = "check" \/ (handle'[at[m]] = "running" => handle[at[m]] = "running")
  PROVE  Checked(m)'
  BY LoopNumbers DEF Checked

LEMMA TimingStep ==
  ASSUME LoopInv, LoopInv', TimingInv, Punctual, [LoopNext]_jobVars
  PROVE  TimingInv'
<1> USE DEF serviceVars, reportVars, vars, loopVars, jobVars
<1>0. LoopTypeOK /\ TypeOK
  BY DEF LoopInv, LoopTypeOK
<1>1. \A s \in Service : Paced(s)'
  BY PacedStep DEF TimingInv
<1>2. SUFFICES ASSUME NEW m \in Monitors PROVE Checked(m)'
  BY <1>1 DEF TimingInv
<1>3. Checked(m) /\ at[m] \in Service /\ m \in Checkers
  BY LoopNumbers DEF TimingInv
<1>4. CASE UNCHANGED jobVars
  BY <1>3, <1>4, CheckedFrame
<1>5. CASE LoopTick
  BY <1>3, <1>5, CheckedFrame DEF LoopTick, Tick
<1>6. CASE LoopSpawn
  <2>1. /\ pc' = pc /\ at' = at /\ ts' = ts /\ lastBeat' = lastBeat /\ now' = now
        /\ spawned' = spawned + 1 /\ spawned < NumServices
    BY <1>6 DEF LoopSpawn, SpawnServices
  <2>2. pc[m] = "check"
    BY <1>3, <2>1 DEF Checked
  <2>3. QED
    BY <1>3, <2>1, <2>2, CheckedFrame
<1>7. ASSUME NEW n \in Monitors, LoopMonitor(n)
      PROVE  Checked(m)'
  BY <1>7, CheckedStep DEF Punctual, LoopMonitor, Monitor
<1>8. ASSUME NEW s \in Service, LoopStep(s)
      PROVE  Checked(m)'
  <2>1. /\ pc' = pc /\ at' = at /\ ts' = ts /\ lastBeat' = lastBeat /\ now' = now
        /\ spawned' = spawned
    BY <1>8 DEF LoopStep, LoopBeat, Beat, Lock, Finish, Repeat, End, EndUnpolled,
       AbortLands, Panic
  <2>2. handle'[at[m]] = "running" => handle[at[m]] = "running"
    BY <1>0, <1>3, <1>8 DEF LoopStep, LoopBeat, Beat, Lock, Finish, Repeat, End,
       EndUnpolled, AbortLands, Panic, TypeOK
  <2>3. QED
    BY <1>3, <2>1, <2>2, CheckedFrame
<1>9. QED
  BY <1>4, <1>5, <1>6, <1>7, <1>8 DEF LoopNext

LEMMA InitTimingInv == LoopInit => TimingInv
<1> SUFFICES ASSUME LoopInit PROVE TimingInv
  OBVIOUS
<1>1. \A s \in Service : Paced(s)
  BY DEF LoopInit, Paced
<1>2. \A m \in Monitors : Checked(m)
  BY ConstantsAssumption DEF LoopInit, Init, Checked, Checkers
<1>3. QED
  BY <1>1, <1>2 DEF TimingInv

\* A job that keeps to its maximum is never found silent while it runs.
THEOREM PunctualJobs == ASSUME Punctual PROVE LoopSpec => []PunctualJobIsNotSilent
<1>1. LoopInit => TimingInv
  BY InitTimingInv
<1>2. LoopInv /\ LoopInv' /\ TimingInv /\ [LoopNext]_jobVars => TimingInv'
  BY TimingStep
<1>3. LoopInv /\ TimingInv => PunctualJobIsNotSilent
  <2> SUFFICES ASSUME LoopInv, TimingInv, NEW m \in Monitors,
                      pc[m] \in {"clear", "mark"}, handle[at[m]] = "running"
               PROVE  ~ Silent(m)
    BY DEF PunctualJobIsNotSilent
  <2>1. lastBeat[m] + Ttl[at[m]] > ts[m]
    BY DEF TimingInv, Checked
  <2>2. Ttl[at[m]] \in Nat
    BY LoopNumbers
  <2>3. QED
    BY <2>1, <2>2, LoopNumbers DEF Silent
<1>4. QED
  BY <1>1, <1>2, <1>3, LoopInvAlways, PTL DEF LoopSpec

-----------------------------------------------------------------------------
(***************************************************************************)
(* No false alarm.  A service that is listed dead and that the monitor may *)
(* come to restart has no pending task, unless its job may fail; nobody    *)
(* but the monitor starts one, and only of a service off the list.         *)
(***************************************************************************)
NoFalseAlarm == \A s \in Service \ SelfDiagnosing : handle[s] # "aborted"

Justified(m) ==
  /\ spawned < NumServices => dead[m] = {}
  /\ \A s \in dead[m] \ SelfDiagnosing : ~ Pending(s)
  /\ pc[m] \in {"abort", "join", "spawn"} => at[m] \notin dead[m]
  /\ pc[m] = "abort" => at[m] \in SelfDiagnosing \/ ~ Pending(at[m])
  /\ pc[m] \in {"mark", "join"} => at[m] \in SelfDiagnosing

AlarmInv == NoFalseAlarm /\ \A m \in Monitors : Justified(m)

\* What the tasks and the clock do cannot make an alarm false.
LEMMA AlarmFrame ==
  ASSUME AlarmInv,
         pc' = pc, at' = at, dead' = dead, spawned' = spawned,
         \A s \in Service : handle'[s] = handle[s] \/ handle'[s] = "done",
         \A m \in Monitors : at[m] \in Service /\ dead[m] \subseteq Service
  PROVE  AlarmInv'
<1>1. \A s \in Service : Pending(s)' => Pending(s)
  BY DEF Pending
<1>2. NoFalseAlarm'
  BY DEF AlarmInv, NoFalseAlarm
<1>3. ASSUME NEW m \in Monitors PROVE Justified(m)'
  BY <1>1 DEF AlarmInv, Justified
<1>4. QED
  BY <1>2, <1>3 DEF AlarmInv

\* While services are being spawned, no monitor has begun.
LEMMA AlarmSpawn ==
  ASSUME LoopInv, TimingInv, AlarmInv, SpawnServices
  PROVE  AlarmInv'
<1> USE DEF reportVars
<1>1. /\ spawned < NumServices /\ spawned' = spawned + 1
      /\ handle' = [handle EXCEPT ![spawned + 1] = "running"]
      /\ pc' = pc /\ at' = at /\ dead' = dead
  BY DEF SpawnServices, StartTask
<1>2. NoFalseAlarm'
  BY <1>1 DEF AlarmInv, NoFalseAlarm, LoopInv, LoopTypeOK, TypeOK
<1>3. ASSUME NEW m \in Monitors PROVE Justified(m)'
  <2>1. pc[m] = "check" /\ dead[m] = {}
    BY <1>1 DEF TimingInv, Checked, AlarmInv, Justified
  <2>2. QED
    BY <1>1, <2>1 DEF Justified
<1>4. QED
  BY <1>2, <1>3 DEF AlarmInv

\* A step of the monitor: its check lists no service that runs and whose job
\* cannot fail, and it aborts a task that it found pending.
LEMMA AlarmMonitor ==
  ASSUME LoopInv, TimingInv, OnlyFailingJobs, PunctualJobIsNotSilent, Punctual, AlarmInv,
         NEW m \in Monitors, MonitorStep(m)
  PROVE  AlarmInv'
<1> USE DEF serviceVars, reportVars, Goto
<1>0. /\ TypeOK /\ m \in Checkers /\ at[m] \in Service /\ dead[m] \subseteq Service
      /\ Justified(m) /\ NoFalseAlarm
      /\ \A n \in Monitors : n = m
  BY LoopNumbers DEF LoopInv, LoopTypeOK, TypeOK, AlarmInv, Punctual
<1>1. SUFFICES NoFalseAlarm' /\ Justified(m)'
  BY <1>0 DEF AlarmInv
<1>2. spawned' = spawned
  BY DEF MonitorStep, CheckStep, BeginCheck, LoadHeart, AskHealth, ClearFailing, MarkFailing,
     RestartStep, DecideRestart, TooRecent, RoundDone, Wake, AbortFinished, AbortPending,
     Join, JoinTimeout, SpawnTask, SpawnBails, SpawnResets
<1>3. spawned = NumServices
  <2>1. pc[m] = "check" => spawned = NumServices
    BY DEF MonitorStep, CheckStep, BeginCheck, LoadHeart, AskHealth, ClearFailing, MarkFailing,
       RestartStep, DecideRestart, TooRecent, RoundDone, Wake, AbortFinished, AbortPending,
       Join, JoinTimeout, SpawnTask, SpawnBails, SpawnResets
  <2>2. QED
    BY <1>0, <2>1, LoopNumbers DEF TimingInv, Checked
<1>4. ~ (spawned' < NumServices)
  BY <1>2, <1>3, LoopNumbers
<1>5. ASSUME handle' = handle, dead'[m] \subseteq dead[m],
             pc'[m] \notin {"abort", "join", "spawn", "mark"}
      PROVE  NoFalseAlarm' /\ Justified(m)'
  BY <1>0, <1>4, <1>5 DEF Justified, NoFalseAlarm, Pending
<1>6. CASE BeginCheck(m) \/ LoadHeart(m) \/ RoundDone(m) \/ Wake(m) \/ JoinTimeout(m)
           \/ SpawnBails(m) \/ SpawnResets(m)
  BY <1>0, <1>5, <1>6 DEF BeginCheck, LoadHeart, RoundDone, Wake, JoinTimeout, SpawnBails,
     SpawnResets, TypeOK
<1>7. CASE AskHealth(m)
  <2>1. /\ handle' = handle /\ dead' = dead /\ at' = at
        /\ pc'[m] = IF healthy[at[m]] THEN "clear" ELSE "mark"
    BY <1>0, <1>7 DEF AskHealth, TypeOK
  <2>2. pc'[m] = "mark" => at[m] \in SelfDiagnosing
    BY <1>0, <2>1 DEF OnlyFailingJobs
  <2>3. QED
    BY <1>0, <1>4, <2>1, <2>2 DEF Justified, NoFalseAlarm, Pending
<1>8. CASE ClearFailing(m)
  <2>1. /\ handle' = handle
        /\ dead'[m] = dead[m] \/ (Silent(m) /\ dead'[m] = dead[m] \cup {at[m]})
        /\ pc'[m] \in {"heart", "scan"}
    BY <1>0, <1>8 DEF ClearFailing, ReportDead, Advance, TypeOK
  <2>2. Silent(m) => handle[at[m]] # "running"
    BY <1>8 DEF ClearFailing, PunctualJobIsNotSilent, Punctual
  <2>3. Silent(m) => at[m] \in SelfDiagnosing \/ ~ Pending(at[m])
    BY <1>0, <2>2 DEF NoFalseAlarm, Pending
  <2>4. QED
    BY <1>0, <1>4, <2>1, <2>3 DEF Justified, NoFalseAlarm, Pending
<1>9. CASE MarkFailing(m)
  <2>1. /\ handle' = handle /\ dead'[m] = dead[m] \cup {at[m]} /\ pc[m] = "mark"
        /\ pc'[m] \in {"heart", "scan"}
    BY <1>0, <1>9 DEF MarkFailing, ReportDead, Advance, TypeOK
  <2>2. QED
    BY <1>0, <1>4, <2>1 DEF Justified, NoFalseAlarm, Pending
<1>10. ASSUME NEW s \in Service, TooRecent(m, s)
       PROVE  NoFalseAlarm' /\ Justified(m)'
  BY <1>0, <1>5, <1>10 DEF TooRecent, Consume, TypeOK
<1>11. ASSUME NEW s \in Service, DecideRestart(m, s)
       PROVE  NoFalseAlarm' /\ Justified(m)'
  <2>1. /\ handle' = handle /\ s \in dead[m] /\ dead'[m] = dead[m] \ {s}
        /\ at'[m] = s /\ pc'[m] = "abort"
    BY <1>0, <1>11 DEF DecideRestart, NextDead, Consume, TypeOK
  <2>2. QED
    BY <1>0, <1>4, <2>1 DEF Justified, NoFalseAlarm, Pending
<1>12. CASE AbortFinished(m) \/ Join(m)
  <2>1. /\ handle' = [handle EXCEPT ![at[m]] = "none"] /\ dead' = dead /\ at' = at
        /\ pc[m] \in {"abort", "join"} /\ pc'[m] = "spawn"
    BY <1>0, <1>12 DEF AbortFinished, Join, DropHandle, TypeOK
  <2>2. \A s \in Service : handle'[s] = handle[s] \/ handle'[s] = "none"
    BY <1>0, <2>1 DEF TypeOK
  <2>3. QED
    BY <1>0, <1>4, <2>1, <2>2 DEF Justified, NoFalseAlarm, Pending
<1>13. CASE AbortPending(m)
  <2>1. /\ handle' = [handle EXCEPT ![at[m]] = "aborted"] /\ dead' = dead /\ at' = at
        /\ pc[m] = "abort" /\ Pending(at[m]) /\ pc'[m] = "join"
    BY <1>0, <1>13 DEF AbortPending, TypeOK
  <2>2. at[m] \in SelfDiagnosing /\ at[m] \notin dead[m]
    BY <1>0, <2>1 DEF Justified
  <2>3. \A s \in Service : s # at[m] => handle'[s] = handle[s]
    BY <1>0, <2>1 DEF TypeOK
  <2>4. QED
    BY <1>0, <1>4, <2>1, <2>2, <2>3 DEF Justified, NoFalseAlarm, Pending
<1>14. CASE SpawnTask(m)
  <2>1. /\ handle' = [handle EXCEPT ![at[m]] = "running"] /\ dead' = dead /\ at' = at
        /\ pc[m] = "spawn" /\ pc'[m] = "reset"
    BY <1>0, <1>14 DEF SpawnTask, StartTask, TypeOK
  <2>2. at[m] \notin dead[m]
    BY <1>0, <2>1 DEF Justified
  <2>3. \A s \in Service : handle'[s] = IF s = at[m] THEN "running" ELSE handle[s]
    BY <1>0, <2>1 DEF TypeOK
  <2>4. QED
    BY <1>0, <1>4, <2>1, <2>2, <2>3 DEF Justified, NoFalseAlarm, Pending
<1>15. QED
  BY <1>6, <1>7, <1>8, <1>9, <1>10, <1>11, <1>12, <1>13, <1>14
  DEF MonitorStep, CheckStep, RestartStep

LEMMA AlarmStep ==
  ASSUME LoopInv, TimingInv, OnlyFailingJobs, PunctualJobIsNotSilent, Punctual, AlarmInv,
         [LoopNext]_jobVars
  PROVE  AlarmInv'
<1> USE DEF serviceVars, reportVars
<1>0. /\ TypeOK
      /\ \A m \in Monitors : at[m] \in Service /\ dead[m] \subseteq Service
  BY LoopNumbers DEF LoopInv, LoopTypeOK, TypeOK
<1>1. CASE UNCHANGED jobVars
  BY <1>0, <1>1, AlarmFrame DEF jobVars, vars
<1>2. CASE LoopTick
  BY <1>0, <1>2, AlarmFrame DEF LoopTick, Tick
<1>3. CASE LoopSpawn
  BY <1>3, AlarmSpawn DEF LoopSpawn
<1>4. ASSUME NEW m \in Monitors, LoopMonitor(m) PROVE AlarmInv'
  BY <1>4, AlarmMonitor DEF LoopMonitor, Monitor
<1>5. ASSUME NEW s \in Service, LoopStep(s) PROVE AlarmInv'
  <2>1. pc' = pc /\ at' = at /\ dead' = dead /\ spawned' = spawned
    BY <1>5 DEF LoopStep, LoopBeat, Beat, Lock, Finish, Repeat, End, EndUnpolled,
       AbortLands, Panic, vars
  <2>2. \A r \in Service : handle'[r] = handle[r] \/ handle'[r] = "done"
    BY <1>0, <1>5 DEF LoopStep, LoopBeat, Beat, Lock, Finish, Repeat, End, EndUnpolled,
       AbortLands, Panic, vars, TypeOK
  <2>3. QED
    BY <1>0, <2>1, <2>2, AlarmFrame
<1>6. QED
  BY <1>1, <1>2, <1>3, <1>4, <1>5 DEF LoopNext

\* The monitor never aborts a running loop whose iterations keep to their
\* maximum and whose job does not fail: only its panic makes it restarted.
\* Slow clocks, failures of other services and their restarts included.
THEOREM PunctualJobsAreLeftAlone == ASSUME Punctual PROVE LoopSpec => []NoFalseAlarm
<1>1. LoopInit => AlarmInv
  <2> SUFFICES ASSUME LoopInit PROVE AlarmInv
    OBVIOUS
  <2>1. NoFalseAlarm
    BY DEF LoopInit, Init, NoFalseAlarm
  <2>2. \A m \in Monitors : Justified(m)
    BY DEF LoopInit, Init, Justified, Checkers
  <2>3. QED
    BY <2>1, <2>2 DEF AlarmInv
<1>2. LoopInit => TimingInv
  BY InitTimingInv
<1>3. LoopInv /\ LoopInv' /\ TimingInv /\ [LoopNext]_jobVars => TimingInv'
  BY TimingStep
<1>4. LoopInit => OnlyFailingJobs
  BY DEF LoopInit, Init, OnlyFailingJobs
<1>5. LoopInv /\ OnlyFailingJobs /\ [LoopNext]_jobVars => OnlyFailingJobs'
  BY LoopImplements DEF LoopInv, LoopTypeOK
<1>6. LoopInv /\ TimingInv /\ OnlyFailingJobs /\ PunctualJobIsNotSilent /\ AlarmInv
        /\ [LoopNext]_jobVars => AlarmInv'
  BY AlarmStep
<1>7. AlarmInv => NoFalseAlarm
  BY DEF AlarmInv
<1>8. QED
  BY <1>1, <1>2, <1>3, <1>4, <1>5, <1>6, <1>7, LoopInvAlways, PunctualJobs, PTL DEF LoopSpec

-----------------------------------------------------------------------------
(***************************************************************************)
(* The application.                                                        *)
(***************************************************************************)
LEMMA AppStep ==
  ASSUME [AppNext]_appVars
  PROVE  [LoopNext]_jobVars
<1>1. CASE UNCHANGED appVars
  BY <1>1 DEF appVars
<1>2. CASE Main
  BY <1>2 DEF Main, Validate, InitJobSucceeds, InitJobFails, Register, StartService,
     Supervise, LoopNext
<1>3. CASE Bind \/ EndpointEnds
  BY <1>3 DEF Bind, EndpointEnds
<1>4. CASE Passing
  BY <1>4 DEF Passing, LoopNext
<1>5. ASSUME NEW m \in Monitors, MonitorServices(m) PROVE LoopNext
  BY <1>5 DEF MonitorServices, LoopNext
<1>6. ASSUME NEW s \in Service, RunService(s) PROVE LoopNext
  BY <1>6 DEF RunService, LoopNext
<1>7. QED
  BY <1>1, <1>2, <1>3, <1>4, <1>5, <1>6 DEF AppNext

\* The application runs its services as the looping jobs of LoopingJob.
LEMMA AppRunsLoops == AppSpec => LoopSpec
<1>1. AppInit => LoopInit
  BY DEF AppInit
<1>2. [AppNext]_appVars => [LoopNext]_jobVars
  BY AppStep
<1>3. QED
  BY <1>1, <1>2, PTL DEF AppSpec, LoopSpec

\* The application implements ServiceManager.
THEOREM AppImplementsManager == AppSpec => Spec
  BY AppRunsLoops, LoopsAreServices, PTL

\* Nothing has come of the services yet.
Untouched(s) == handle[s] = "none" /\ detached[s] = 0 /\ heart[s] = 0

StartInv ==
  /\ runConfig \in [valid : BOOLEAN, endpoint : BOOLEAN]
  /\ jobsDone \in 0 .. NumJobs
  /\ endpoint \in {"none", "binding", "serving", "ended"}
  /\ phase \in {"validate", "init", "spawn", "run", "failed"}
  /\ phase \in {"init", "spawn", "run"} => runConfig.valid
  /\ phase \in {"spawn", "run"} => jobsDone = NumJobs
  /\ phase \in {"validate", "init", "failed"} =>
       endpoint = "none" /\ \A s \in Service : Untouched(s)

LEMMA StartStep ==
  ASSUME StartInv, TypeOK, LoopInv, [AppNext]_appVars
  PROVE  StartInv'
<1> USE DEF StartInv
<1>0. NumJobs \in Nat /\ jobsDone \in Nat
  BY JobsAssumption
<1>1. ASSUME phase \in {"spawn", "run"}, UNCHANGED startVars PROVE StartInv'
  BY <1>1 DEF startVars
<1>2. ASSUME handle' = handle, detached' = detached, heart' = heart, UNCHANGED startVars
      PROVE  StartInv'
  BY <1>2 DEF startVars, Untouched
<1>3. CASE UNCHANGED appVars
  BY <1>2, <1>3 DEF appVars, jobVars, vars, serviceVars
<1>4. CASE Validate \/ InitJobSucceeds \/ InitJobFails \/ Register
  <2>1. handle' = handle /\ detached' = detached /\ heart' = heart /\ endpoint' = endpoint
    BY <1>4 DEF Validate, InitJobSucceeds, InitJobFails, Register, jobVars, vars, serviceVars
  <2>2. \A s \in Service : Untouched(s)
    BY <1>4 DEF Validate, InitJobSucceeds, InitJobFails, Register
  <2>3. \A s \in Service : Untouched(s)'
    BY <2>1, <2>2 DEF Untouched
  <2>4. QED
    BY <1>0, <1>4, <2>1, <2>3 DEF Validate, InitJobSucceeds, InitJobFails, Register
<1>5. CASE StartService
  BY <1>1, <1>5 DEF StartService
<1>6. CASE Supervise
  BY <1>6 DEF Supervise
<1>7. CASE Bind \/ EndpointEnds
  BY <1>7 DEF Bind, EndpointEnds
<1>8. CASE Passing
  BY <1>2, <1>8 DEF Passing, LoopTick, Tick, serviceVars
<1>9. ASSUME NEW m \in Monitors, MonitorServices(m) PROVE StartInv'
  BY <1>1, <1>9 DEF MonitorServices
<1>10. ASSUME NEW s \in Service, RunService(s) PROVE StartInv'
  <2>1. handle[s] # "none"
    BY <1>10 DEF RunService, LoopStep, LoopBeat, Lock, Finish, Repeat, End, EndUnpolled,
       AbortLands, Panic, Pending
  <2>2. phase \in {"spawn", "run"}
    BY <2>1 DEF Untouched
  <2>3. QED
    BY <1>1, <1>10, <2>2 DEF RunService
<1>11. QED
  BY <1>3, <1>4, <1>5, <1>6, <1>7, <1>8, <1>9, <1>10 DEF AppNext, Main

LEMMA StartInvAlways == AppSpec => []StartInv
<1>1. AppInit => StartInv
  BY JobsAssumption DEF AppInit, LoopInit, Init, StartInv, Untouched
<1>2. StartInv /\ TypeOK /\ LoopInv /\ [AppNext]_appVars => StartInv'
  BY StartStep
<1>3. QED
  BY <1>1, <1>2, AppRunsLoops, AppImplementsManager, LoopInvAlways, TypeCorrect, PTL
  DEF AppSpec

\* The types of the application, its services and their loops included.
THEOREM AppTypeCorrect == AppSpec => []AppTypeOK
<1>1. StartInv /\ LoopInv => AppTypeOK
  BY DEF StartInv, LoopInv, AppTypeOK
<1>2. QED
  BY <1>1, StartInvAlways, AppRunsLoops, LoopInvAlways, PTL

\* No service is touched before the last init job has succeeded, nor after a
\* start that failed.
THEOREM InitComesFirst == AppSpec => []NothingRunsBeforeInit
<1>1. StartInv => NothingRunsBeforeInit
  <2> SUFFICES ASSUME StartInv,
                      phase = "failed" \/ jobsDone < NumJobs \/ ~ runConfig.valid
               PROVE  \A s \in Service : Untouched(s) /\ LiveTasks(s) = 0
    BY DEF NothingRunsBeforeInit, Untouched
  <2>1. phase \in {"validate", "init", "failed"}
    BY JobsAssumption DEF StartInv
  <2>2. QED
    BY <2>1 DEF StartInv, Untouched, LiveTasks, Pending
<1>2. QED
  BY <1>1, StartInvAlways, PTL

\* In the application, too, no loop finds the mutex of its job locked.
THEOREM AppLocksAreFree == AppSpec => []LockIsFree
  BY AppRunsLoops, LocksAreFree, PTL

\* In the application, too, no job that keeps to its maximum is found silent.
THEOREM AppPunctualJobs == ASSUME Punctual PROVE AppSpec => []PunctualJobIsNotSilent
  BY AppRunsLoops, PunctualJobs, PTL

\* In the application, too, the monitor aborts no loop that is punctual and
\* whose job does not fail.
THEOREM AppLeftAlone == ASSUME Punctual PROVE AppSpec => []NoFalseAlarm
  BY AppRunsLoops, PunctualJobsAreLeftAlone, PTL

-----------------------------------------------------------------------------
(* Injection: one instance for every dependent *)

\* The innermost constructor has asked for one more of its fields.
LEMMA AskedProperties ==
  ASSUME stack \in Seq(Frame), stack # <<>>
  PROVE  /\ Asked \in Seq(Frame) /\ Len(Asked) = Len(stack)
         /\ \A d \in 1 .. Len(stack) :
              /\ Asked[d].type = stack[d].type /\ Asked[d].n = stack[d].n
              /\ Asked[d].args = IF d = Len(stack) THEN stack[d].args + 1 ELSE stack[d].args
<1>1. Len(stack) \in 1 .. Len(stack)
  BY EmptySeq, LenProperties
<1> DEFINE top == stack[Len(stack)]
<1>2. top \in Frame
  BY <1>1, ElementOfSeq
<1>3. [top EXCEPT !.args = @ + 1] \in Frame
  BY <1>2 DEF Frame
<1>4. Asked = [stack EXCEPT ![Len(stack)] = [top EXCEPT !.args = @ + 1]]
  BY <1>1 DEF Asked
<1>5. Asked \in Seq(Frame) /\ Len(Asked) = Len(stack)
  BY <1>1, <1>3, <1>4, ExceptSeq
<1>6. stack \in [1 .. Len(stack) -> Frame]
  BY LenProperties
<1>7. QED
  BY <1>1, <1>2, <1>4, <1>5, <1>6 DEF Frame

\* A constructor is entered: its frame follows the others.
LEMMA CallProperties ==
  ASSUME NEW frames \in Seq(Frame), NEW fr \in Frame
  PROVE  /\ Append(frames, fr) \in Seq(Frame)
         /\ Len(Append(frames, fr)) = Len(frames) + 1
         /\ \A d \in 1 .. Len(frames) : Append(frames, fr)[d] = frames[d]
         /\ Append(frames, fr)[Len(frames) + 1] = fr
  BY AppendProperties, LenProperties

\* A constructor is left: the frames below it remain.
LEMMA ReturnProperties ==
  ASSUME stack \in Seq(Frame), stack # <<>>
  PROVE  LET rest == SubSeq(stack, 1, Len(stack) - 1)
         IN  /\ rest \in Seq(Frame) /\ Len(rest) = Len(stack) - 1
             /\ \A d \in 1 .. Len(stack) - 1 : rest[d] = stack[d]
<1>1. Len(stack) \in Nat /\ Len(stack) > 0 /\ stack \in [1 .. Len(stack) -> Frame]
  BY EmptySeq, LenProperties
<1>2. \A d \in 1 .. Len(stack) - 1 : stack[d] \in Frame
  BY <1>1
<1>3. QED
  BY <1>1, <1>2, SubSeqProperties

\* The nth instance of u still has to ask for its field f.
Waiting(u, n, f) ==
  \E d \in 1 .. Len(stack) : stack[d].type = u /\ stack[d].n = n /\ f > stack[d].args

\* It has asked.
Got(u, n, f) ==
  n \in 1 .. made[u] /\ f \in 1 .. Len(Fields[u]) /\ ~ Waiting(u, n, f)

\* Every running constructor builds an instance of its own.
StackInv ==
  /\ stack \in Seq(Frame)
  /\ made \in [Type -> Nat]
  /\ listed \in 0 .. NumJobs + NumServices
  /\ \A d \in 1 .. Len(stack) :
       stack[d].n \in 1 .. made[stack[d].type] /\ stack[d].args <= Len(Fields[stack[d].type])
  /\ \A d, e \in 1 .. Len(stack) :
       stack[d].type = stack[e].type /\ stack[d].n = stack[e].n => d = e

LEMMA StackTypes ==
  ASSUME StackInv
  PROVE  /\ Len(stack) \in Nat /\ (stack # <<>> => Len(stack) > 0)
         /\ \A d \in 1 .. Len(stack) : stack[d] \in Frame
         /\ \A u \in Type : Len(Fields[u]) \in Nat
  BY InjectionAssumption, LenProperties, EmptySeq, ElementOfSeq DEF StackInv

LEMMA RootTypes ==
  /\ Len(Roots) = NumJobs + NumServices
  /\ \A i \in 1 .. NumJobs + NumServices : Roots[i] \in Type
<1>1. Roots \in Seq(Type) /\ Len(Roots) = NumJobs + NumServices
  BY InjectionAssumption, ConcatProperties DEF Roots
<1>2. QED
  BY <1>1, ElementOfSeq

\* A list's entry is constructed: its instance has to ask for all its fields.
LEMMA RootBegins ==
  ASSUME StackInv, ConstructRoot
  PROVE  /\ StackInv'
         /\ \A u \in Type, n, f \in Nat : Got(u, n, f)' <=> Got(u, n, f)
<1> DEFINE t == Roots[listed + 1]
           fr == [type |-> t, n |-> made[t] + 1, args |-> 0]
<1>1. listed + 1 \in 1 .. NumJobs + NumServices /\ listed' = listed + 1
  BY JobsAssumption, ConstantsAssumption DEF StackInv, ConstructRoot
<1>2. t \in Type
  BY <1>1, RootTypes
<1>3. made' = [made EXCEPT ![t] = @ + 1] /\ stack' = Append(stack, fr) /\ Len(stack) = 0
  BY EmptySeq DEF ConstructRoot, Call
<1>4. fr \in Frame
  BY <1>2 DEF Frame, StackInv
<1>5. stack' \in Seq(Frame) /\ Len(stack') = 1 /\ stack'[1] = fr
  BY <1>3, <1>4, CallProperties DEF StackInv
<1>6. made' \in [Type -> Nat]
  BY <1>2, <1>3 DEF StackInv
<1>7. StackInv'
  BY <1>1, <1>2, <1>3, <1>5, <1>6, StackTypes DEF StackInv
<1>8. ASSUME NEW u \in Type, NEW n \in Nat, NEW f \in Nat
      PROVE  Got(u, n, f)' <=> Got(u, n, f)
  <2>1. Waiting(u, n, f)' <=> u = t /\ n = made[t] + 1 /\ f > 0
    BY <1>5 DEF Waiting
  <2>2. ~ Waiting(u, n, f)
    BY <1>3 DEF Waiting
  <2>3. QED
    BY <1>2, <1>3, <2>1, <2>2 DEF Got, StackInv
<1>9. QED
  BY <1>7, <1>8

\* A constructor returns: it had asked for all its fields.
LEMMA ConstructorReturns ==
  ASSUME StackInv, Constructed
  PROVE  /\ StackInv'
         /\ \A u \in Type, n, f \in Nat : Got(u, n, f)' <=> Got(u, n, f)
<1>1. stack # <<>> /\ Innermost.args = Len(Fields[Innermost.type])
      /\ stack' = SubSeq(stack, 1, Len(stack) - 1) /\ made' = made /\ listed' = listed
  BY DEF Constructed
<1>2. /\ stack' \in Seq(Frame) /\ Len(stack') = Len(stack) - 1
      /\ \A d \in 1 .. Len(stack) - 1 : stack'[d] = stack[d]
  BY <1>1, ReturnProperties DEF StackInv
<1>3. StackInv'
  <2>1. \A d \in 1 .. Len(stack') : d \in 1 .. Len(stack) /\ stack'[d] = stack[d]
    BY <1>1, <1>2, StackTypes
  <2>2. \A d \in 1 .. Len(stack') :
          /\ stack'[d].n \in 1 .. made[stack'[d].type]
          /\ stack'[d].args <= Len(Fields[stack'[d].type])
    BY <2>1 DEF StackInv
  <2>3. \A d, e \in 1 .. Len(stack') :
          stack'[d].type = stack'[e].type /\ stack'[d].n = stack'[e].n => d = e
    BY <2>1 DEF StackInv
  <2>4. QED
    BY <1>1, <1>2, <2>2, <2>3 DEF StackInv
<1>4. ASSUME NEW u \in Type, NEW n \in Nat, NEW f \in 1 .. Len(Fields[u])
      PROVE  Waiting(u, n, f)' <=> Waiting(u, n, f)
  <2>1. \A d \in 1 .. Len(stack) :
          stack[d].type = u /\ f > stack[d].args => d \in 1 .. Len(stack) - 1
    BY <1>1, StackTypes DEF Innermost
  <2>2. \A d \in 1 .. Len(stack') : d \in 1 .. Len(stack) /\ stack'[d] = stack[d]
    BY <1>1, <1>2, StackTypes
  <2>3. Waiting(u, n, f)' => Waiting(u, n, f)
    BY <2>2 DEF Waiting
  <2>4. Waiting(u, n, f) => Waiting(u, n, f)'
    <3>1. \A d \in 1 .. Len(stack) - 1 : d \in 1 .. Len(stack')
      BY <1>1, <1>2, StackTypes
    <3>2. QED
      BY <1>2, <2>1, <3>1 DEF Waiting
  <2>5. QED
    BY <2>3, <2>4
<1>5. QED
  BY <1>1, <1>3, <1>4 DEF Got

\* A field is asked for, and a constructor called for it unless a clone will do.
LEMMA FieldIsAsked ==
  ASSUME StackInv, NEW t \in Type, Provide(t)
  PROVE  LET slot == <<Innermost.type, Innermost.n, Innermost.args + 1>>
         IN  /\ StackInv'
             /\ slot \in Type \X Nat \X Nat /\ t = Fields[slot[1]][slot[3]]
             /\ ~ Got(slot[1], slot[2], slot[3])
             /\ \A u \in Type, n, f \in Nat :
                  Got(u, n, f)' <=> Got(u, n, f) \/ <<u, n, f>> = slot
<1> DEFINE top == Len(stack)
           su == Innermost.type
           sn == Innermost.n
           sf == Innermost.args + 1
<1>1. stack # <<>> /\ sf <= Len(Fields[su]) /\ t = Fields[su][sf] /\ listed' = listed
  BY StackTypes DEF Provide, ProvideClone, ProvideComponent, Asks, Innermost, Frame
<1>2. /\ top \in 1 .. top /\ su \in Type /\ sn \in Nat
      /\ Innermost.args \in Nat /\ sf \in Nat \ {0} /\ sn \in 1 .. made[su]
  <2>1. top \in 1 .. top
    BY <1>1, StackTypes
  <2>2. Innermost \in Frame /\ Innermost.n \in 1 .. made[Innermost.type]
    BY <2>1, StackTypes DEF Innermost, StackInv
  <2>3. QED
    BY <2>1, <2>2 DEF Frame
<1>3. Waiting(su, sn, sf)
  <2>1. stack[top].type = su /\ stack[top].n = sn /\ sf > stack[top].args
    BY <1>2 DEF Innermost
  <2>2. QED
    BY <1>2, <2>1 DEF Waiting
<1>4. /\ Asked \in Seq(Frame) /\ Len(Asked) = top
      /\ \A d \in 1 .. top :
           /\ Asked[d].type = stack[d].type /\ Asked[d].n = stack[d].n
           /\ Asked[d].args = IF d = top THEN stack[d].args + 1 ELSE stack[d].args
  BY <1>1, AskedProperties DEF StackInv
<1>5. \A d \in 1 .. top : d # top => stack[d].type # su \/ stack[d].n # sn
  BY <1>2 DEF StackInv, Innermost
<1> DEFINE Behind(u, n, f) ==
             \E d \in 1 .. top : Asked[d].type = u /\ Asked[d].n = n /\ f > Asked[d].args
<1>6. ASSUME NEW u \in Type, NEW n \in Nat, NEW f \in Nat
      PROVE  Behind(u, n, f) <=> Waiting(u, n, f) /\ <<u, n, f>> # <<su, sn, sf>>
  <2>1. ASSUME NEW d \in 1 .. top
        PROVE  stack[d].type = u /\ stack[d].n = n /\ f > Asked[d].args
               <=> stack[d].type = u /\ stack[d].n = n /\ f > stack[d].args
                   /\ ~ (u = su /\ n = sn /\ f = sf)
    <3>1. CASE d = top
      BY <1>2, <1>4, <3>1, StackTypes DEF Innermost, Frame
    <3>2. CASE d # top
      BY <1>4, <1>5, <3>2
    <3>3. QED
      BY <3>1, <3>2
  <2>2. QED
    BY <1>4, <2>1 DEF Waiting
<1>7. CASE ProvideClone(t)
  <2>1. stack' = Asked /\ made' = made
    BY <1>7 DEF ProvideClone
  <2>2. StackInv'
    BY <1>1, <1>2, <1>4, <2>1 DEF StackInv, Innermost
  <2>3. \A u \in Type, n, f \in Nat : Waiting(u, n, f)' <=> Behind(u, n, f)
    BY <1>4, <2>1 DEF Waiting
  <2>4. \A u \in Type, n, f \in Nat :
          Got(u, n, f)' <=> Got(u, n, f) \/ <<u, n, f>> = <<su, sn, sf>>
    <3>1. \A u \in Type, n, f \in Nat :
            Got(u, n, f)' <=> /\ n \in 1 .. made[u] /\ f \in 1 .. Len(Fields[u])
                              /\ ~ Waiting(u, n, f) \/ <<u, n, f>> = <<su, sn, sf>>
      BY <1>6, <2>1, <2>3 DEF Got
    <3>2. sn \in 1 .. made[su] /\ sf \in 1 .. Len(Fields[su])
      BY <1>1, <1>2, StackTypes
    <3>3. QED
      BY <3>1, <3>2 DEF Got
  <2>5. QED
    BY <1>1, <1>2, <1>3, <2>2, <2>4 DEF Got
<1>8. CASE ProvideComponent(t)
  <2> DEFINE fr == [type |-> t, n |-> made[t] + 1, args |-> 0]
  <2>1. stack' = Append(Asked, fr) /\ made' = [made EXCEPT ![t] = @ + 1]
    BY <1>8 DEF ProvideComponent, Call
  <2>2. fr \in Frame
    BY DEF Frame, StackInv
  <2>3. /\ stack' \in Seq(Frame) /\ Len(stack') = top + 1 /\ stack'[top + 1] = fr
        /\ \A d \in 1 .. top : stack'[d] = Asked[d]
    BY <1>4, <2>1, <2>2, CallProperties
  <2>4. \A d \in 1 .. top + 1 : d = top + 1 \/ d \in 1 .. top
    BY <1>2
  <2>5. made' \in [Type -> Nat]
    BY <2>1 DEF StackInv
  <2>6. \A d \in 1 .. top : stack[d].type \in Type /\ stack[d].n \in 1 .. made[stack[d].type]
    BY StackTypes DEF Frame, StackInv
  <2>7. StackInv'
    <3>1. \A d \in 1 .. top + 1 :
            stack'[d].n \in 1 .. made'[stack'[d].type] /\ stack'[d].args <= Len(Fields[stack'[d].type])
      <4>1. \A u \in Type : made[u] \in Nat /\ made'[u] \in Nat /\ made[u] <= made'[u]
        BY <2>1 DEF StackInv
      <4>2. \A d \in 1 .. top : Asked[d].args <= Len(Fields[stack[d].type])
        BY <1>1, <1>4 DEF StackInv, Innermost
      <4>3. \A d \in 1 .. top : stack'[d].n \in 1 .. made'[stack'[d].type]
        BY <1>4, <2>3, <2>6, <4>1
      <4>4. fr.n \in 1 .. made'[fr.type] /\ fr.args <= Len(Fields[fr.type])
        BY <2>1, StackTypes DEF StackInv
      <4>5. QED
        BY <1>4, <2>3, <2>4, <4>2, <4>3, <4>4
    <3>2. \A d, e \in 1 .. top + 1 :
            stack'[d].type = stack'[e].type /\ stack'[d].n = stack'[e].n => d = e
      <4>1. \A d \in 1 .. top : ~ (stack[d].type = t /\ stack[d].n = made[t] + 1)
        BY <2>6 DEF StackInv
      <4>2. \A d \in 1 .. top : stack'[d].type = stack[d].type /\ stack'[d].n = stack[d].n
        BY <1>4, <2>3
      <4>3. QED
        BY <2>3, <2>4, <4>1, <4>2 DEF StackInv
    <3>3. QED
      BY <1>1, <2>3, <2>5, <3>1, <3>2 DEF StackInv
  <2>8. ASSUME NEW u \in Type, NEW n \in Nat, NEW f \in Nat
        PROVE  Waiting(u, n, f)' <=> Behind(u, n, f) \/ (u = t /\ n = made[t] + 1 /\ f > 0)
    BY <1>2, <2>3, <2>4 DEF Waiting
  <2>9. ASSUME NEW u \in Type, NEW n \in Nat, NEW f \in Nat
        PROVE  Got(u, n, f)' <=> Got(u, n, f) \/ <<u, n, f>> = <<su, sn, sf>>
    <3>1. CASE u = t /\ n = made[t] + 1
      <4>1. n \notin 1 .. made[u] /\ <<u, n, f>> # <<su, sn, sf>>
        BY <1>2, <3>1 DEF StackInv
      <4>2. QED
        BY <2>8, <3>1, <4>1 DEF Got
    <3>2. CASE ~ (u = t /\ n = made[t] + 1)
      <4>1. n \in 1 .. made'[u] <=> n \in 1 .. made[u]
        BY <2>1, <3>2 DEF StackInv
      <4>2. Got(u, n, f)' <=> /\ n \in 1 .. made[u] /\ f \in 1 .. Len(Fields[u])
                              /\ ~ Waiting(u, n, f) \/ <<u, n, f>> = <<su, sn, sf>>
        BY <1>6, <2>8, <3>2, <4>1 DEF Got
      <4>3. sf \in 1 .. Len(Fields[su])
        BY <1>1, <1>2, StackTypes
      <4>4. QED
        BY <1>2, <4>2, <4>3 DEF Got
    <3>3. QED
      BY <3>1, <3>2
  <2>10. QED
    BY <1>1, <1>2, <1>3, <2>7, <2>9 DEF Got
<1>9. QED
  BY <1>7, <1>8 DEF Provide

\* The fields of type t that have been asked for.
Had(t) ==
  {x \in Type \X Nat \X Nat : Got(x[1], x[2], x[3]) /\ Fields[x[1]][x[3]] = t}

\* Every list entry and field that wants a t has led to one instance of it.
OneEach(t) ==
  /\ IsFiniteSet(ListsWith(t)) /\ IsFiniteSet(Had(t))
  /\ made[t] = Cardinality(ListsWith(t)) + Cardinality(Had(t))

InstanceInv == StackInv /\ \A t \in Type \ Provided : OneEach(t)

LEMMA InstanceStep ==
  ASSUME InstanceInv, [InjNext]_<<appVars, injVars>>
  PROVE  InstanceInv'
<1>0. StackInv /\ \A t \in Type \ Provided : OneEach(t)
  BY DEF InstanceInv
<1>1. ASSUME UNCHANGED injVars PROVE InstanceInv'
  BY <1>0, <1>1 DEF InstanceInv, StackInv, OneEach, ListsWith, Had, Got, Waiting, injVars
<1>2. CASE ConstructRoot
  <2> DEFINE t == Roots[listed + 1]
  <2>1. StackInv' /\ \A u \in Type, n, f \in Nat : Got(u, n, f)' <=> Got(u, n, f)
    BY <1>0, <1>2, RootBegins
  <2>2. ASSUME NEW v \in Type \ Provided PROVE OneEach(v)'
    <3>1. Had(v)' = Had(v)
      BY <2>1 DEF Had
    <3>2. listed' = listed + 1 /\ listed \in Nat
      BY <1>0, <1>2, JobsAssumption, ConstantsAssumption DEF ConstructRoot, StackInv
    <3>3. made' = [made EXCEPT ![t] = @ + 1] /\ made \in [Type -> Nat]
      BY <1>0, <1>2 DEF ConstructRoot, Call, StackInv
    <3>4. CASE v = t
      <4>1. ListsWith(v)' = ListsWith(v) \cup {listed + 1} /\ listed + 1 \notin ListsWith(v)
        BY <3>2, <3>4 DEF ListsWith
      <4>2. Cardinality(ListsWith(v)) \in Nat /\ Cardinality(Had(v)) \in Nat
        BY <1>0, FS_CardinalityType DEF OneEach
      <4>3. /\ IsFiniteSet(ListsWith(v)')
            /\ Cardinality(ListsWith(v)') = Cardinality(ListsWith(v)) + 1
        BY <1>0, <4>1, FS_AddElement DEF OneEach
      <4>4. QED
        BY <1>0, <3>1, <3>3, <3>4, <4>2, <4>3 DEF OneEach
    <3>5. CASE v # t
      <4>1. ListsWith(v)' = ListsWith(v)
        BY <3>2, <3>5 DEF ListsWith
      <4>2. QED
        BY <1>0, <3>1, <3>3, <3>5, <4>1 DEF OneEach
    <3>6. QED
      BY <3>4, <3>5
  <2>3. QED
    BY <2>1, <2>2 DEF InstanceInv
<1>3. CASE Constructed
  <2>1. /\ StackInv' /\ \A u \in Type, n, f \in Nat : Got(u, n, f)' <=> Got(u, n, f)
        /\ made' = made /\ listed' = listed
    BY <1>0, <1>3, ConstructorReturns DEF Constructed
  <2>2. ASSUME NEW v \in Type \ Provided PROVE OneEach(v)'
    <3>1. Had(v)' = Had(v)
      BY <2>1 DEF Had
    <3>2. QED
      BY <1>0, <2>1, <3>1 DEF OneEach, ListsWith
  <2>3. QED
    BY <2>1, <2>2 DEF InstanceInv
<1>4. ASSUME NEW t \in Type, Provide(t) PROVE InstanceInv'
  <2> DEFINE slot == <<Innermost.type, Innermost.n, Innermost.args + 1>>
  <2>1. /\ StackInv'
        /\ slot \in Type \X Nat \X Nat /\ t = Fields[slot[1]][slot[3]]
        /\ ~ Got(slot[1], slot[2], slot[3])
        /\ \A u \in Type, n, f \in Nat : Got(u, n, f)' <=> Got(u, n, f) \/ <<u, n, f>> = slot
    BY <1>0, <1>4, FieldIsAsked
  <2> HIDE DEF slot
  <2>2. listed' = listed
    BY <1>4 DEF Provide, ProvideClone, ProvideComponent
  <2>3. ASSUME NEW x \in Type \X Nat \X Nat
        PROVE  Got(x[1], x[2], x[3])' <=> Got(x[1], x[2], x[3]) \/ x = slot
    BY <2>1
  <2>4. ASSUME NEW v \in Type \ Provided PROVE OneEach(v)'
    <3>1. ListsWith(v)' = ListsWith(v)
      BY <2>2 DEF ListsWith
    <3>2. CASE v = t
      <4>1. Had(v)' = Had(v) \cup {slot} /\ slot \notin Had(v)
        BY <2>1, <2>3, <3>2 DEF Had
      <4>2. Cardinality(ListsWith(v)) \in Nat /\ Cardinality(Had(v)) \in Nat
        BY <1>0, FS_CardinalityType DEF OneEach
      <4>3. IsFiniteSet(Had(v)') /\ Cardinality(Had(v)') = Cardinality(Had(v)) + 1
        BY <1>0, <4>1, FS_AddElement DEF OneEach
      <4>4. made' = [made EXCEPT ![t] = @ + 1] /\ made \in [Type -> Nat]
        BY <1>0, <1>4, <3>2 DEF Provide, ProvideClone, ProvideComponent, Call, StackInv
      <4>5. QED
        BY <1>0, <3>1, <3>2, <4>2, <4>3, <4>4 DEF OneEach
    <3>3. CASE v # t
      <4>1. Had(v)' = Had(v)
        BY <2>1, <2>3, <3>3 DEF Had
      <4>2. made'[v] = made[v]
        BY <1>0, <1>4, <3>3 DEF Provide, ProvideClone, ProvideComponent, Call, StackInv
      <4>3. QED
        BY <1>0, <3>1, <4>1, <4>2 DEF OneEach
    <3>4. QED
      BY <3>2, <3>3
  <2>5. QED
    BY <2>1, <2>4 DEF InstanceInv
<1>5. QED
  BY <1>1, <1>2, <1>3, <1>4 DEF InjNext, Construct, StartUp, injVars

LEMMA InstanceInvAlways == InjSpec => []InstanceInv
<1>1. ASSUME InjInit PROVE InstanceInv
  <2>1. stack = <<>> /\ listed = 0 /\ made = [t \in Type |-> 0]
    BY <1>1 DEF InjInit
  <2>2. StackInv
    BY <2>1, EmptySeq, JobsAssumption, ConstantsAssumption DEF StackInv
  <2>3. ASSUME NEW t \in Type PROVE ListsWith(t) = {} /\ Had(t) = {}
    BY <2>1 DEF ListsWith, Had, Got
  <2>4. ASSUME NEW t \in Type PROVE OneEach(t)
    <3>1. made[t] = 0 + 0
      BY <2>1
    <3>2. /\ IsFiniteSet(ListsWith(t)) /\ Cardinality(ListsWith(t)) = 0
          /\ IsFiniteSet(Had(t)) /\ Cardinality(Had(t)) = 0
      BY <2>3, FS_EmptySet
    <3>3. QED
      BY <3>1, <3>2 DEF OneEach
  <2>5. QED
    BY <2>2, <2>4, InjectionAssumption DEF InstanceInv
<1>2. InstanceInv /\ [InjNext]_<<appVars, injVars>> => InstanceInv'
  BY InstanceStep
<1>3. QED
  BY <1>1, <1>2, PTL DEF InjSpec

\* However the dependencies are wired, as long as the stack lasts, no instance
\* is shared and none is made for nobody.
THEOREM OneInstancePerDependent == InjSpec => []InstancePerDependent
<1>1. ASSUME InstanceInv, stack = <<>>, NEW t \in Type \ Provided
      PROVE  made[t] = Cardinality(ListsWith(t)) + Cardinality(FieldsWith(t))
  <2>1. \A u \in Type : \A n, f : Got(u, n, f) <=> n \in 1 .. made[u] /\ f \in 1 .. Len(Fields[u])
    BY <1>1, EmptySeq DEF Got, Waiting
  <2>2. \A u \in Type : DOMAIN Fields[u] = 1 .. Len(Fields[u]) /\ made[u] \in Nat
                        /\ Len(Fields[u]) \in Nat
    BY <1>1, InjectionAssumption, LenProperties DEF InstanceInv, StackInv
  <2>3. Had(t) = FieldsWith(t)
    <3>1. ASSUME NEW x \in FieldsWith(t) PROVE x \in Had(t)
      BY <2>1, <2>2 DEF FieldsWith, Had
    <3>2. ASSUME NEW x \in Had(t) PROVE x \in FieldsWith(t)
      BY <2>1, <2>2 DEF FieldsWith, Had
    <3>3. QED
      BY <3>1, <3>2
  <2>4. QED
    BY <1>1, <2>3 DEF InstanceInv, OneEach
<1>2. InstanceInv => InstancePerDependent
  BY <1>1 DEF InstancePerDependent
<1>3. QED
  BY <1>2, InstanceInvAlways, PTL

\* Construction only delays the start-up: the jobs and services it builds are
\* run as those of Application.
THEOREM InjImplementsApp == InjSpec => AppSpec
<1>1. InjInit => AppInit
  BY DEF InjInit
<1>2. [InjNext]_<<appVars, injVars>> => [AppNext]_appVars
  BY DEF InjNext, Construct, StartUp
<1>3. QED
  BY <1>1, <1>2, PTL DEF InjSpec, AppSpec

\* The types of the construction and of the application it serves.
THEOREM InjTypeCorrect == InjSpec => []InjTypeOK
<1>1. AppTypeOK /\ InstanceInv => InjTypeOK
  BY DEF InjTypeOK, InstanceInv, StackInv
<1>2. QED
  BY <1>1, InjImplementsApp, AppTypeCorrect, InstanceInvAlways, PTL

\* The program that application! writes, from its constructors to its monitor:
\* its services are untouched until the init jobs have succeeded, and then the
\* orchestrator keeps every promise it makes, up to its abstract specification.
THEOREM WholeProgram ==
  InjSpec => /\ [](NothingRunsBeforeInit /\ LockIsFree)
             /\ [](AtMostOneTask /\ NeverForgotten /\ AwaitsAborted)
             /\ FailingSinceIsSticky
             /\ Supervises
<1>1. InjSpec => [](NothingRunsBeforeInit /\ LockIsFree)
  BY InjImplementsApp, InitComesFirst, AppLocksAreFree, PTL
<1>2. InjSpec => Spec
  BY InjImplementsApp, AppImplementsManager, PTL
<1>3. Spec => [](AtMostOneTask /\ NeverForgotten /\ AwaitsAborted)
  BY OneTask, NoneForgotten, AbortAwaitsAborted, PTL
<1>4. QED
  BY <1>1, <1>2, <1>3, FirstMarkStays, ImplementsSupervision, PTL

\* In it, too, a punctual job is never found silent, and not aborted unless it
\* fails.
THEOREM WholeProgramIsCalm ==
  ASSUME Punctual
  PROVE  InjSpec => [](PunctualJobIsNotSilent /\ NoFalseAlarm)
  BY InjImplementsApp, AppPunctualJobs, AppLeftAlone, PTL

-----------------------------------------------------------------------------
(***************************************************************************)
(* Injection: the constructors come to an end.  The types are in layers if *)
(* every field that is not provided is of a lower layer than its owner,    *)
(* which is to say that every cycle of dependencies is cut by a provider.  *)
(***************************************************************************)
Layered(layer, height) ==
  /\ height \in Nat /\ layer \in [Type -> 0 .. height - 1]
  /\ \A t \in Type : \A f \in 1 .. Len(Fields[t]) :
       Fields[t][f] \notin Provided => layer[Fields[t][f]] < layer[t]

\* Each constructor that runs is of a lower layer than its callers.
Descends(layer) ==
  \A d, e \in 1 .. Len(stack) : d < e => layer[stack[e].type] < layer[stack[d].type]

Shallow(layer, height) ==
  \A d \in 1 .. Len(stack) : d + layer[stack[d].type] <= height

LayerInv(layer, height) == StackInv /\ Descends(layer) /\ Shallow(layer, height)

\* A component of a lower layer is called upon frames that are those of the
\* stack but for their args.
LEMMA CallDescends ==
  ASSUME NEW layer, NEW height, Layered(layer, height), LayerInv(layer, height),
         StackInv', NEW t \in Type, NEW frames \in Seq(Frame),
         Len(frames) = Len(stack),
         \A d \in 1 .. Len(stack) : frames[d].type = stack[d].type,
         stack # <<>> => layer[t] < layer[Innermost.type],
         stack' = Append(frames, [type |-> t, n |-> made[t] + 1, args |-> 0])
  PROVE  LayerInv(layer, height)'
<1> DEFINE top == Len(stack)
           fr == [type |-> t, n |-> made[t] + 1, args |-> 0]
           of(d) == IF d = top + 1 THEN layer[t] ELSE layer[stack[d].type]
<1>1. top \in Nat /\ fr \in Frame
  BY StackTypes DEF LayerInv, StackInv, Frame
<1>2. /\ Len(stack') = top + 1
      /\ \A d \in 1 .. top + 1 : layer[stack'[d].type] = of(d)
  BY <1>1, CallProperties
<1>3. /\ height \in Nat /\ layer[t] \in 0 .. height - 1
      /\ \A d \in 1 .. top : layer[stack[d].type] \in Int
  BY StackTypes DEF Layered, LayerInv, Frame
<1>4. \A d \in 1 .. top : layer[t] < layer[stack[d].type]
  <2> SUFFICES ASSUME NEW d \in 1 .. top PROVE layer[t] < layer[stack[d].type]
    OBVIOUS
  <2>1. stack # <<>> /\ top \in 1 .. top
    BY <1>1, EmptySeq
  <2>2. layer[t] < layer[stack[top].type]
    BY <2>1 DEF Innermost
  <2>3. d = top \/ layer[stack[top].type] < layer[stack[d].type]
    BY <1>1, <2>1 DEF LayerInv, Descends
  <2>4. QED
    BY <1>3, <2>1, <2>2, <2>3
<1>5. top + 1 + layer[t] <= height
  <2>1. CASE top = 0
    BY <1>3, <2>1
  <2>2. CASE top # 0
    <3>1. top \in 1 .. top /\ top + layer[stack[top].type] <= height
      BY <1>1, <2>2 DEF LayerInv, Shallow
    <3>2. QED
      BY <1>1, <1>3, <1>4, <3>1
  <2>3. QED
    BY <2>1, <2>2
<1>6. \A d \in 1 .. top + 1 : d = top + 1 \/ d \in 1 .. top
  BY <1>1
<1>7. \A d, e \in 1 .. top + 1 : d < e => of(e) < of(d)
  BY <1>1, <1>4, <1>6 DEF LayerInv, Descends
<1>8. \A d \in 1 .. top + 1 : d + of(d) <= height
  BY <1>5, <1>6 DEF LayerInv, Shallow
<1> HIDE DEF of
<1>9. QED
  BY <1>2, <1>7, <1>8 DEF LayerInv, Descends, Shallow

LEMMA LayerStep ==
  ASSUME NEW layer, NEW height, Layered(layer, height), LayerInv(layer, height),
         [InjNext]_<<appVars, injVars>>
  PROVE  LayerInv(layer, height)'
<1> StackInv
  BY DEF LayerInv
<1>1. ASSUME UNCHANGED injVars
      PROVE  LayerInv(layer, height)'
  BY <1>1 DEF LayerInv, StackInv, Descends, Shallow, injVars
<1>2. CASE ConstructRoot
  <2>1. StackInv'
    BY <1>2, RootBegins
  <2>2. Roots[listed + 1] \in Type
    BY <1>2, RootTypes, JobsAssumption, ConstantsAssumption DEF StackInv, ConstructRoot
  <2>3. /\ stack = <<>>
        /\ stack' = Append(stack, [type |-> Roots[listed + 1],
                                   n |-> made[Roots[listed + 1]] + 1, args |-> 0])
    BY <1>2 DEF ConstructRoot, Call
  <2>4. QED
    BY <2>1, <2>2, <2>3, CallDescends DEF StackInv
<1>3. CASE Constructed
  <2>1. StackInv'
    BY <1>3, ConstructorReturns
  <2>2. /\ Len(stack') = Len(stack) - 1
        /\ \A d \in 1 .. Len(stack) - 1 : stack'[d] = stack[d]
    BY <1>3, ReturnProperties DEF Constructed, StackInv
  <2>3. \A d \in 1 .. Len(stack') : d \in 1 .. Len(stack) /\ stack'[d] = stack[d]
    BY <2>2, StackTypes
  <2>4. QED
    BY <2>1, <2>3 DEF LayerInv, Descends, Shallow
<1>4. ASSUME NEW t \in Type, Provide(t)
      PROVE  LayerInv(layer, height)'
  <2>1. StackInv'
    BY <1>4, FieldIsAsked
  <2>2. /\ stack # <<>> /\ Innermost \in Frame
        /\ Innermost.args + 1 \in 1 .. Len(Fields[Innermost.type])
        /\ t = Fields[Innermost.type][Innermost.args + 1]
    <3>1. stack # <<>> /\ Innermost \in Frame
      BY <1>4, StackTypes DEF Provide, ProvideClone, ProvideComponent, Asks, Innermost
    <3>2. QED
      BY <1>4, <3>1, StackTypes DEF Provide, ProvideClone, ProvideComponent, Asks, Frame
  <2>3. /\ Asked \in Seq(Frame) /\ Len(Asked) = Len(stack)
        /\ \A d \in 1 .. Len(stack) : Asked[d].type = stack[d].type
    BY <2>2, AskedProperties DEF StackInv
  <2>4. CASE ProvideClone(t)
    BY <2>1, <2>3, <2>4 DEF ProvideClone, LayerInv, Descends, Shallow
  <2>5. CASE ProvideComponent(t)
    <3>1. layer[t] < layer[Innermost.type]
      BY <2>2, <2>5 DEF ProvideComponent, Layered, Frame
    <3>2. stack' = Append(Asked, [type |-> t, n |-> made[t] + 1, args |-> 0])
      BY <2>5 DEF ProvideComponent, Call
    <3>3. QED
      BY <2>1, <2>3, <3>1, <3>2, CallDescends
  <2>6. QED
    BY <1>4, <2>4, <2>5 DEF Provide
<1>5. QED
  BY <1>1, <1>2, <1>3, <1>4 DEF InjNext, Construct, StartUp, injVars

LEMMA LayerInvAlways ==
  ASSUME NEW layer, NEW height, Layered(layer, height)
  PROVE  InjSpec => []LayerInv(layer, height)
<1>1. ASSUME InjInit
      PROVE  LayerInv(layer, height)
  <2>1. stack = <<>> /\ listed = 0 /\ made = [t \in Type |-> 0]
    BY <1>1 DEF InjInit
  <2>2. StackInv
    BY <2>1, EmptySeq, JobsAssumption, ConstantsAssumption DEF StackInv
  <2>3. QED
    BY <2>1, <2>2 DEF LayerInv, Descends, Shallow
<1>2. LayerInv(layer, height) /\ [InjNext]_<<appVars, injVars>> => LayerInv(layer, height)'
  BY LayerStep
<1>3. QED
  BY <1>1, <1>2, PTL DEF InjSpec

\* Where every cycle of dependencies is cut by a provider, no constructor waits
\* for one of its own type, and there are at most as many as there are layers.
THEOREM NoConstructorRepeats ==
  ASSUME NEW layer, NEW height, Layered(layer, height)
  PROVE  InjSpec => [](/\ Len(stack) <= height
                       /\ \A d, e \in 1 .. Len(stack) :
                            stack[d].type = stack[e].type => d = e)
<1> DEFINE Short == Len(stack) <= height
           Distinct == \A d, e \in 1 .. Len(stack) : stack[d].type = stack[e].type => d = e
<1>1. LayerInv(layer, height) => Short
  <2> SUFFICES ASSUME LayerInv(layer, height) PROVE Short
    OBVIOUS
  <2>1. Len(stack) \in Nat /\ height \in Nat
    BY StackTypes DEF LayerInv, Layered
  <2>2. CASE Len(stack) = 0
    BY <2>1, <2>2
  <2>3. CASE Len(stack) # 0
    <3>1. Len(stack) \in 1 .. Len(stack)
      BY <2>1, <2>3
    <3>2. layer[stack[Len(stack)].type] \in Nat
      BY <3>1, StackTypes DEF LayerInv, Layered, Frame
    <3>3. QED
      BY <2>1, <3>1, <3>2 DEF LayerInv, Shallow
  <2>4. QED
    BY <2>2, <2>3
<1>2. LayerInv(layer, height) => Distinct
  <2> SUFFICES ASSUME LayerInv(layer, height),
                      NEW d \in 1 .. Len(stack), NEW e \in 1 .. Len(stack),
                      stack[d].type = stack[e].type
               PROVE  d = e
    OBVIOUS
  <2>1. layer[stack[d].type] \in Int
    BY StackTypes DEF LayerInv, Layered, Frame
  <2>2. ~ (d < e) /\ ~ (e < d)
    BY <2>1 DEF LayerInv, Descends
  <2>3. QED
    BY <2>2
<1>3. QED
  BY <1>1, <1>2, LayerInvAlways, PTL

\* A stack with room for all the layers is never exhausted: whatever component
\* the application is asked for, there is room to construct it.
THEOREM StackSuffices ==
  ASSUME NEW layer, NEW height, Layered(layer, height), height <= StackLimit
  PROVE  InjSpec => [](\A t \in Type \ Provided : Asks(t) => Len(Asked) < StackLimit)
<1>1. ASSUME LayerInv(layer, height), NEW t \in Type \ Provided, Asks(t)
      PROVE  Len(Asked) < StackLimit
  <2> DEFINE top == Len(stack)
  <2>1. stack # <<>> /\ top \in 1 .. top /\ Innermost \in Frame /\ Len(Asked) = top
    BY <1>1, StackTypes, AskedProperties DEF Asks, Innermost, LayerInv, StackInv
  <2>2. Innermost.args + 1 \in 1 .. Len(Fields[Innermost.type])
    BY <1>1, <2>1, StackTypes DEF Asks, LayerInv, Frame
  <2>3. layer[t] < layer[Innermost.type]
    BY <1>1, <2>1, <2>2 DEF Asks, Layered, Frame
  <2>4. top + layer[Innermost.type] <= height
    BY <1>1, <2>1 DEF LayerInv, Shallow, Innermost
  <2>5. layer[t] \in Nat /\ layer[Innermost.type] \in Nat /\ height \in Nat
    BY <2>1 DEF Layered, Frame
  <2>6. QED
    BY <2>1, <2>3, <2>4, <2>5, InjectionAssumption
<1>2. LayerInv(layer, height) =>
        \A t \in Type \ Provided : Asks(t) => Len(Asked) < StackLimit
  BY <1>1
<1>3. QED
  BY <1>2, LayerInvAlways, PTL

=============================================================================
