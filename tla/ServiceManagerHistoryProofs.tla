-------------------- MODULE ServiceManagerHistoryProofs --------------------
(***************************************************************************)
(* There is no restart storm under one monitor, whatever its speed; and    *)
(* what the width of the timestamps makes of the orchestrator.             *)
(***************************************************************************)
EXTENDS ServiceManagerHistory, ServiceManagerProofs, UnhealthyTime

\* The services that never fail their own health check.
Sound == Service \ SelfDiagnosing

OutlivedItsGrace(s) == now > spawnedAt[s] + Ttl[s] + AttemptRecoveryAfter

\* What monitor m has learnt of the services concerns the tasks they have now:
\* it consumes a report of a service before it restarts that service.
Knows(m) ==
  /\ \A s \in Sound : s \in dead[m] => since[m][s] >= spawnedAt[s] + Ttl[s]
  /\ pc[m] \in {"health", "clear", "mark"} => lastBeat[m] >= spawnedAt[at[m]]
  /\ pc[m] = "mark" => at[m] \in SelfDiagnosing
  /\ pc[m] \in {"abort", "join", "spawn"} =>
       at[m] \notin dead[m] /\ (at[m] \in Sound => OutlivedItsGrace(at[m]))

HistoryInv ==
  /\ spawnedAt \in [Service -> Time]
  /\ \A s \in Service : spawnedAt[s] <= heart[s]
  /\ \A s \in Sound : healthy[s]
  /\ \A s \in Service : spawnedAt[s] # 0 => s <= spawned
  /\ spawned < NumServices => \A m \in Monitors : pc[m] = "check" /\ dead[m] = {}
  /\ \A m \in Monitors : Knows(m)

LEMMA InitHistoryInv == HInit => HistoryInv
<1> SUFFICES ASSUME HInit PROVE HistoryInv
  OBVIOUS
<1> \A m \in Monitors : pc[m] = "check" /\ dead[m] = {}
  BY DEF HInit, Init, Checkers
<1>1. \A m \in Monitors : Knows(m)
  BY DEF Knows
<1>2. \A s \in Service : spawnedAt[s] = 0 /\ heart[s] = 0 /\ healthy[s]
  BY DEF HInit, Init
<1>3. spawnedAt \in [Service -> Time]
  BY FirstService DEF HInit
<1>4. QED
  BY <1>1, <1>2, <1>3 DEF HistoryInv, Sound

\* Tasks are started by spawn_services and by the monitors, and nobody else.
LEMMA WhoStarts ==
  ASSUME TypeOK, [Next]_vars, NEW s \in Service, Starts(s)
  PROVE  \/ SpawnServices /\ s = spawned + 1
         \/ \E m \in Monitors : SpawnTask(m) /\ s = at[m]
<1> USE DEF serviceVars, Starts
<1> handle[s] = "none" /\ handle'[s] = "running"
  OBVIOUS
<1>1. CASE SpawnServices
  BY <1>1 DEF SpawnServices, StartTask, TypeOK
<1>2. ASSUME NEW m \in Monitors, MonitorStep(m), ~ CheckStep(m)
      PROVE  SpawnTask(m) /\ s = at[m]
  <2>1. SpawnTask(m)
    BY <1>2 DEF MonitorStep, RestartStep, DecideRestart, TooRecent, RoundDone, Wake,
       AbortFinished, AbortPending, Join, JoinTimeout, SpawnBails, SpawnResets,
       DropHandle, TypeOK
  <2>2. QED
    BY <2>1 DEF SpawnTask, StartTask, TypeOK
<1>3. ASSUME NEW c \in Checkers, CheckStep(c) \/ Respond(c)
      PROVE  FALSE
  BY <1>3 DEF CheckStep, BeginCheck, LoadHeart, AskHealth, ClearFailing, MarkFailing,
     Respond
<1>4. ASSUME NEW r \in Service, TaskStep(r)
      PROVE  FALSE
  BY <1>4 DEF TaskStep, Beat, Panic, AbortLands, Diagnose, TypeOK
<1>5. CASE Tick \/ UNCHANGED vars
  BY <1>5 DEF Tick, vars
<1>6. QED
  BY <1>1, <1>2, <1>3, <1>4, <1>5 DEF Next, Monitor, Probe, ProbeStep, Task, Checkers

\* A monitor that stays where it is, while no service is started, knows no less.
LEMMA KnowsFrame ==
  ASSUME TypeOK, TypeOK', NEW m \in Monitors, Knows(m), spawnedAt \in [Service -> Time],
         spawnedAt' = spawnedAt, now' >= now,
         pc'[m] = pc[m], at'[m] = at[m], dead'[m] = dead[m], since'[m] = since[m],
         lastBeat'[m] = lastBeat[m]
  PROVE  Knows(m)'
<1>1. \A s \in Service : OutlivedItsGrace(s) => OutlivedItsGrace(s)'
  BY ConstantsAssumption DEF OutlivedItsGrace, TypeOK, Time
<1>2. QED
  BY <1>1 DEF Knows, Sound

\* A step of check.
LEMMA KnowsCheck ==
  ASSUME TypeOK, HistoryInv, spawnedAt' = spawnedAt, NEW m \in Monitors, CheckStep(m)
  PROVE  Knows(m)'
<1> USE DEF Goto, serviceVars, reportVars
<1> m \in Checkers /\ at[m] \in Service /\ Knows(m)
  BY DEF Checkers, TypeOK, HistoryInv
<1> DEFINE Reports == \A s \in Sound : s \in dead'[m] => since'[m][s] >= spawnedAt[s] + Ttl[s]
<1>0. ASSUME pc'[m] \in {"heart", "health", "clear", "scan"}, Reports,
             pc'[m] \in {"health", "clear"} => lastBeat'[m] >= spawnedAt[at'[m]]
      PROVE  Knows(m)'
  BY <1>0 DEF Knows
<1>1. CASE BeginCheck(m)
  BY <1>0, <1>1 DEF BeginCheck, TypeOK, Knows
<1>2. CASE LoadHeart(m)
  <2>1. /\ lastBeat'[m] = heart[at[m]] /\ at'[m] = at[m] /\ pc'[m] = "health"
        /\ dead' = dead /\ since' = since
    BY <1>2 DEF LoadHeart, TypeOK
  <2>2. QED
    BY <1>0, <2>1 DEF HistoryInv, Knows
<1>3. CASE AskHealth(m)
  <2>1. /\ lastBeat' = lastBeat /\ at' = at /\ dead' = dead /\ since' = since
        /\ pc[m] = "health" /\ pc'[m] = IF healthy[at[m]] THEN "clear" ELSE "mark"
    BY <1>3 DEF AskHealth, TypeOK
  <2>2. ~ healthy[at[m]] => at[m] \in SelfDiagnosing
    BY DEF HistoryInv, Sound
  <2>3. QED
    BY <2>1, <2>2 DEF Knows
<1>4. ASSUME Advance(m)
      PROVE  pc'[m] \in {"heart", "scan"}
  BY <1>4 DEF Advance, TypeOK
<1>5. CASE ClearFailing(m)
  <2>1. CASE Silent(m)
    <3>1. /\ dead'[m] = dead[m] \cup {at[m]}
          /\ since' = [since EXCEPT ![m][at[m]] = SilentSince(m)]
      BY <1>5, <2>1 DEF ClearFailing, ReportDead, TypeOK
    <3>2. /\ since'[m][at[m]] = SilentSince(m)
          /\ \A s \in Service : s # at[m] => since'[m][s] = since[m][s]
      BY <3>1 DEF TypeOK
    <3>3. SilentSince(m) >= spawnedAt[at[m]] + Ttl[at[m]]
      <4>1. lastBeat[m] >= spawnedAt[at[m]]
        BY <1>5 DEF Knows, ClearFailing
      <4>2. spawnedAt[at[m]] \in Nat
        BY ConstantsAssumption DEF HistoryInv, Time
      <4>3. QED
        BY <2>1, <4>1, <4>2, NumbersTypes DEF SilentSince
    <3>4. Reports
      BY <3>1, <3>2, <3>3 DEF Knows, Sound
    <3>5. QED
      BY <1>0, <1>4, <1>5, <3>4 DEF ClearFailing
  <2>2. CASE ~ Silent(m)
    BY <1>0, <1>4, <1>5, <2>2 DEF ClearFailing, Knows
  <2>3. QED
    BY <2>1, <2>2
<1>6. CASE MarkFailing(m)
  <2>1. at[m] \in SelfDiagnosing
    BY <1>6 DEF MarkFailing, Knows
  <2>2. /\ dead'[m] = dead[m] \cup {at[m]}
        /\ \A s \in Service : s # at[m] => since'[m][s] = since[m][s]
    BY <1>6 DEF MarkFailing, ReportDead, TypeOK
  <2>3. Reports
    BY <2>1, <2>2 DEF Knows, Sound
  <2>4. QED
    BY <1>0, <1>4, <1>6, <2>3 DEF MarkFailing
<1>7. QED
  BY <1>1, <1>2, <1>3, <1>5, <1>6 DEF CheckStep

\* A step between two checks.
LEMMA KnowsRecover ==
  ASSUME TypeOK, HistoryInv, NEW m \in Monitors, MonitorStep(m), ~ CheckStep(m),
         now' = now, SpawnTask(m) \/ spawnedAt' = spawnedAt,
         \A s \in Service : s # at[m] => spawnedAt'[s] = spawnedAt[s]
  PROVE  Knows(m)'
<1> USE DEF Goto, serviceVars, reportVars
<1> m \in Checkers /\ at[m] \in Service /\ Knows(m)
  BY DEF Checkers, TypeOK, HistoryInv
<1>1. ASSUME NEW s \in Service, DecideRestart(m, s) \/ TooRecent(m, s)
      PROVE  Knows(m)'
  <2>1. /\ at'[m] = s /\ dead'[m] = dead[m] \ {s} /\ s \in dead[m]
        /\ \A r \in Service : r # s => since'[m][r] = since[m][r]
    BY <1>1 DEF DecideRestart, TooRecent, Consume, NextDead, TypeOK
  <2>2. spawnedAt' = spawnedAt /\ now' = now
    BY <1>1 DEF DecideRestart, TooRecent, SpawnTask
  <2>3. \A r \in Sound : r \in dead'[m] => since'[m][r] >= spawnedAt'[r] + Ttl[r]
    BY <2>1, <2>2 DEF Knows, Sound
  <2>4. CASE DecideRestart(m, s)
    <3>1. pc'[m] = "abort" /\ since[m][s] + AttemptRecoveryAfter < now
      BY <2>4 DEF DecideRestart, TypeOK
    <3>2. /\ since[m][s] \in Nat /\ spawnedAt[s] \in Nat /\ Ttl[s] \in Nat
          /\ now \in Nat /\ AttemptRecoveryAfter \in Nat
      BY ConstantsAssumption DEF TypeOK, HistoryInv, Time
    <3>3. s \in Sound => OutlivedItsGrace(s)'
      BY <2>1, <2>2, <3>1, <3>2 DEF Knows, OutlivedItsGrace
    <3>4. QED
      BY <2>1, <2>3, <3>1, <3>3 DEF Knows
  <2>5. CASE TooRecent(m, s)
    <3>1. pc'[m] = "scan"
      BY <2>5 DEF TooRecent
    <3>2. QED
      BY <2>3, <3>1 DEF Knows
  <2>6. QED
    BY <1>1, <2>4, <2>5
<1>2. ASSUME UNCHANGED <<dead, since, at>>, spawnedAt' = spawnedAt,
             \/ pc'[m] \in {"check", "scan", "sleep"}
             \/ pc[m] \in {"abort", "join"} /\ pc'[m] \in {"join", "spawn"}
      PROVE  Knows(m)'
  BY <1>2 DEF Knows, OutlivedItsGrace
<1>3. CASE RoundDone(m) \/ Wake(m) \/ JoinTimeout(m) \/ SpawnBails(m) \/ SpawnResets(m)
  <2>1. UNCHANGED <<dead, since, at>> /\ pc'[m] \in {"check", "scan", "sleep"}
    BY <1>3 DEF RoundDone, Wake, JoinTimeout, SpawnBails, SpawnResets, TypeOK
  <2>2. spawnedAt' = spawnedAt
    BY <1>3 DEF RoundDone, Wake, JoinTimeout, SpawnBails, SpawnResets, SpawnTask,
       StartTask
  <2>3. QED
    BY <1>2, <2>1, <2>2
<1>4. CASE AbortFinished(m) \/ AbortPending(m) \/ Join(m)
  <2>1. /\ UNCHANGED <<dead, since, at>>
        /\ pc[m] \in {"abort", "join"} /\ pc'[m] \in {"join", "spawn"}
    BY <1>4 DEF AbortFinished, AbortPending, Join, TypeOK
  <2>2. spawnedAt' = spawnedAt
    BY <1>4 DEF AbortFinished, AbortPending, Join, SpawnTask
  <2>3. QED
    BY <1>2, <2>1, <2>2
<1>5. CASE SpawnTask(m)
  <2>1. UNCHANGED <<dead, since, at>> /\ pc'[m] = "reset" /\ pc[m] = "spawn"
    BY <1>5 DEF SpawnTask, TypeOK
  <2>2. at[m] \notin dead[m]
    BY <2>1 DEF Knows
  <2>3. QED
    BY <2>1, <2>2 DEF Knows, Sound
<1>6. QED
  BY <1>1, <1>3, <1>4, <1>5 DEF MonitorStep, RestartStep

\* A step of anybody else but the monitors leaves them where they are.
LEMMA OthersLeave ==
  ASSUME TypeOK, NEW m \in Monitors,
         \/ Tick \/ SpawnServices \/ UNCHANGED vars
         \/ \E s \in Service : TaskStep(s)
         \/ \E p \in Probes : ProbeStep(p)
  PROVE  /\ pc'[m] = pc[m] /\ at'[m] = at[m] /\ dead'[m] = dead[m]
         /\ since'[m] = since[m] /\ lastBeat'[m] = lastBeat[m]
<1> USE DEF serviceVars, reportVars, vars, Goto
<1>1. CASE Tick \/ SpawnServices \/ UNCHANGED vars \/ \E s \in Service : TaskStep(s)
  BY <1>1 DEF Tick, SpawnServices, TaskStep, Beat, Panic, AbortLands, Diagnose
<1>2. ASSUME NEW p \in Probes, ProbeStep(p)
      PROVE  /\ pc'[m] = pc[m] /\ at'[m] = at[m] /\ dead'[m] = dead[m]
             /\ since'[m] = since[m] /\ lastBeat'[m] = lastBeat[m]
  <2> USE DEF ProbeStep, CheckStep, BeginCheck, LoadHeart, AskHealth, ClearFailing,
              MarkFailing, Respond, TypeOK
  <2> p # m /\ m \in Checkers /\ p \in Checkers
    BY ProcessesAssumption DEF Checkers
  <2>1. pc'[m] = pc[m]
    BY <1>2 DEF Advance
  <2>2. at'[m] = at[m]
    BY <1>2 DEF Advance
  <2>3. dead'[m] = dead[m]
    BY <1>2 DEF ReportDead
  <2>4. since'[m] = since[m]
    BY <1>2 DEF ReportDead
  <2>5. lastBeat'[m] = lastBeat[m]
    BY <1>2 DEF Advance
  <2>6. QED
    BY <2>1, <2>2, <2>3, <2>4, <2>5
<1>3. QED
  BY <1>1, <1>2

-----------------------------------------------------------------------------
\* A single monitor: nobody else restarts the services it has reports of.
OneMonitor == \A m, n \in Monitors : m = n

\* The spawn that a step performs, if any, is recorded with its time.
LEMMA Recording ==
  ASSUME TypeOK, [Next]_vars, HistoryInv, HNext \/ UNCHANGED hvars
  PROVE  /\ \A s \in Service : spawnedAt'[s] = IF Starts(s) THEN now ELSE spawnedAt[s]
         /\ spawnedAt' \in [Service -> Time]
<1> USE DEF HistoryInv
<1>1. CASE HNext
  <2>1. spawnedAt' = [s \in Service |-> IF Starts(s) THEN now ELSE spawnedAt[s]]
    BY <1>1 DEF HNext
  <2>2. QED
    BY <2>1, NowIsTime
<1>2. CASE UNCHANGED hvars
  <2>1. spawnedAt' = spawnedAt /\ handle' = handle
    BY <1>2 DEF hvars, vars, serviceVars
  <2>2. \A s \in Service : ~ Starts(s)
    BY <2>1 DEF Starts
  <2>3. QED
    BY <2>1, <2>2
<1>3. QED
  BY <1>1, <1>2

LEMMA HistoryStep ==
  ASSUME TypeOK, TypeOK', HeartInv, HistoryInv, OneMonitor,
         HNext \/ UNCHANGED hvars
  PROVE  HistoryInv'
<1> [Next]_vars
  BY DEF HNext, hvars
<1> HeartRises
  BY HeartStep
<1> USE DEF serviceVars, reportVars
<1>1. /\ \A s \in Service : spawnedAt'[s] = IF Starts(s) THEN now ELSE spawnedAt[s]
      /\ spawnedAt' \in [Service -> Time]
  BY Recording
<1>n. /\ spawned \in Nat /\ NumServices \in Nat /\ spawned <= NumServices
      /\ \A s \in Service : s \in Nat /\ s <= NumServices
      /\ now \in Nat /\ (now' = now \/ now' = now + 1)
  <2>1. /\ spawned \in Nat /\ NumServices \in Nat /\ spawned <= NumServices
        /\ \A s \in Service : s \in Nat /\ s <= NumServices
        /\ now \in Nat
    BY ConstantsAssumption, NumbersTypes DEF TypeOK
  <2>2. now' = now \/ now' = now + 1
    <3>1. ASSUME NEW c \in Checkers, CheckStep(c) \/ Respond(c)
          PROVE  now' = now
      BY <3>1 DEF CheckStep, BeginCheck, LoadHeart, AskHealth, ClearFailing,
         MarkFailing, Respond
    <3>2. ASSUME NEW m \in Monitors, MonitorStep(m), ~ CheckStep(m)
          PROVE  now' = now
      BY <3>2 DEF MonitorStep, RestartStep, DecideRestart, TooRecent, RoundDone, Wake,
         AbortFinished, AbortPending, Join, JoinTimeout, SpawnTask, SpawnBails,
         SpawnResets
    <3>3. ASSUME NEW s \in Service, TaskStep(s)
          PROVE  now' = now
      BY <3>3 DEF TaskStep, Beat, Panic, AbortLands, Diagnose
    <3>4. CASE Tick \/ SpawnServices \/ UNCHANGED vars
      BY <3>4 DEF Tick, SpawnServices, vars
    <3>5. QED
      BY <3>1, <3>2, <3>3, <3>4 DEF Next, Monitor, Probe, ProbeStep, Task, Checkers
  <2>3. QED
    BY <2>1, <2>2
<1>2. \A s \in Service : Starts(s) => heart'[s] = now
  <2> SUFFICES ASSUME NEW s \in Service, Starts(s) PROVE heart'[s] = now
    OBVIOUS
  <2>1. StartTask(s)
    BY WhoStarts DEF SpawnServices, SpawnTask
  <2>2. QED
    BY <2>1 DEF StartTask, TypeOK
<1>3. \A s \in Service : spawnedAt'[s] <= heart'[s]
  <2> SUFFICES ASSUME NEW s \in Service PROVE spawnedAt'[s] <= heart'[s]
    OBVIOUS
  <2>1. CASE Starts(s)
    BY <1>1, <1>2, <1>n, <2>1
  <2>2. CASE ~ Starts(s)
    <3>1. spawnedAt[s] <= heart[s] /\ heart[s] <= heart'[s] /\ spawnedAt'[s] = spawnedAt[s]
      BY <1>1, <2>2 DEF HistoryInv, HeartRises
    <3>2. spawnedAt[s] \in Nat /\ heart[s] \in Nat /\ heart'[s] \in Nat
      BY ConstantsAssumption DEF HistoryInv, TypeOK, Time
    <3>3. QED
      BY <3>1, <3>2
  <2>3. QED
    BY <2>1, <2>2
<1>4. \A s \in Sound : healthy'[s]
  <2>1. ASSUME NEW c \in Checkers, CheckStep(c) \/ Respond(c)
        PROVE  healthy' = healthy
    BY <2>1 DEF CheckStep, BeginCheck, LoadHeart, AskHealth, ClearFailing,
       MarkFailing, Respond
  <2>2. ASSUME NEW m \in Monitors, MonitorStep(m), ~ CheckStep(m)
        PROVE  healthy' = healthy
    BY <2>2 DEF MonitorStep, RestartStep, DecideRestart, TooRecent, RoundDone, Wake,
       AbortFinished, AbortPending, Join, JoinTimeout, SpawnTask, SpawnBails,
       SpawnResets
  <2>3. ASSUME NEW s \in Service, TaskStep(s)
        PROVE  \A r \in Sound : healthy'[r] = healthy[r]
    BY <2>3 DEF TaskStep, Beat, Panic, AbortLands, Diagnose, TypeOK, Sound
  <2>4. CASE Tick \/ SpawnServices \/ UNCHANGED vars
    BY <2>4 DEF Tick, SpawnServices, vars, HistoryInv
  <2>5. QED
    BY <2>1, <2>2, <2>3, <2>4 DEF Next, Monitor, Probe, ProbeStep, Task, Checkers, HistoryInv
<1>o. ASSUME NEW m \in Monitors, MonitorStep(m)
      PROVE  spawned' = spawned /\ spawned = NumServices
  <2>1. spawned' = spawned
    BY <1>o DEF MonitorStep, CheckStep, BeginCheck, LoadHeart, AskHealth, ClearFailing,
       MarkFailing, RestartStep, DecideRestart, TooRecent, RoundDone, Wake,
       AbortFinished, AbortPending, Join, JoinTimeout, SpawnTask, SpawnBails, SpawnResets
  <2>2. pc[m] = "check" => spawned = NumServices
    BY <1>o DEF MonitorStep, CheckStep, BeginCheck, LoadHeart, AskHealth, ClearFailing,
       MarkFailing, RestartStep, DecideRestart, TooRecent, RoundDone, Wake,
       AbortFinished, AbortPending, Join, JoinTimeout, SpawnTask, SpawnBails, SpawnResets
  <2>3. QED
    BY <1>n, <2>1, <2>2 DEF HistoryInv
\* Which services were started, and when: by spawn_services, or by the monitor.
<1>5. CASE \E m \in Monitors : Monitor(m)
  <2> PICK m \in Monitors : MonitorStep(m)
    BY <1>5 DEF Monitor
  <2>1. spawned' = spawned /\ spawned = NumServices
    BY <1>o
  <2>2. \A n \in Monitors : n = m
    BY DEF OneMonitor
  <2>3. ~ SpawnServices
    BY <1>n, <2>1 DEF SpawnServices
  <2>4. \A s \in Service : Starts(s) => SpawnTask(m) /\ s = at[m]
    BY <2>2, <2>3, WhoStarts
  <2>5. Knows(m)'
    <3>1. CASE CheckStep(m)
      <4>1. ~ SpawnTask(m)
        BY <3>1 DEF CheckStep, BeginCheck, LoadHeart, AskHealth, ClearFailing,
           MarkFailing, SpawnTask
      <4>2. \A s \in Service : spawnedAt'[s] = spawnedAt[s]
        BY <1>1, <2>4, <4>1
      <4>3. spawnedAt' = spawnedAt
        BY <1>1, <4>2 DEF HistoryInv
      <4>4. QED
        BY <3>1, <4>3, KnowsCheck
    <3>2. CASE ~ CheckStep(m)
      <4>1. \A s \in Service : s # at[m] => spawnedAt'[s] = spawnedAt[s]
        BY <1>1, <2>4
      <4>2. SpawnTask(m) \/ spawnedAt' = spawnedAt
        BY <1>1, <2>4 DEF HistoryInv
      <4>3. now' = now
        BY <3>2 DEF MonitorStep, RestartStep, DecideRestart, TooRecent, RoundDone, Wake,
           AbortFinished, AbortPending, Join, JoinTimeout, SpawnTask, SpawnBails,
           SpawnResets
      <4>4. QED
        BY <3>2, <4>1, <4>2, <4>3, KnowsRecover
    <3>3. QED
      BY <3>1, <3>2
  <2>6. QED
    BY <1>1, <1>3, <1>4, <1>n, <2>1, <2>2, <2>5 DEF HistoryInv
<1>6. CASE SpawnServices
  <2>1. \A m \in Monitors : pc[m] = "check" /\ dead[m] = {}
    BY <1>6 DEF SpawnServices, HistoryInv
  <2>2. \A m \in Monitors : pc'[m] = "check" /\ dead'[m] = {}
    BY <1>6, <2>1, OthersLeave
  <2>3. \A m \in Monitors : Knows(m)'
    BY <2>2 DEF Knows
  <2>4. \A s \in Service : Starts(s) => s = spawned + 1
    BY <1>n, <2>1, WhoStarts DEF SpawnTask
  <2>5. spawned' = spawned + 1
    BY <1>6 DEF SpawnServices
  <2>6. \A s \in Service : spawnedAt'[s] # 0 => s <= spawned'
    BY <1>1, <1>n, <2>4, <2>5 DEF HistoryInv
  <2>7. QED
    BY <1>1, <1>3, <1>4, <2>2, <2>3, <2>6 DEF HistoryInv
<1>7. CASE \/ Tick \/ UNCHANGED vars
           \/ \E s \in Service : Task(s)
           \/ \E p \in Probes : Probe(p)
  <2>1. spawned' = spawned /\ (\A s \in Service : ~ Starts(s))
    <3>1. CASE Tick \/ UNCHANGED vars
      BY <3>1 DEF Tick, vars, Starts
    <3>2. CASE \E s \in Service : Task(s)
      BY <3>2 DEF Task, TaskStep, Beat, Panic, AbortLands, Diagnose, Starts, TypeOK
    <3>3. CASE \E p \in Probes : Probe(p)
      BY <3>3 DEF Probe, ProbeStep, CheckStep, BeginCheck, LoadHeart, AskHealth,
         ClearFailing, MarkFailing, Respond, Starts
    <3>4. QED
      BY <1>7, <3>1, <3>2, <3>3
  <2>2. spawnedAt' = spawnedAt
    BY <1>1, <2>1 DEF HistoryInv
  <2>3. \A m \in Monitors :
          /\ pc'[m] = pc[m] /\ at'[m] = at[m] /\ dead'[m] = dead[m]
          /\ since'[m] = since[m] /\ lastBeat'[m] = lastBeat[m]
    BY <1>7, OthersLeave DEF Task, Probe
  <2>4. \A m \in Monitors : Knows(m)'
    BY <1>n, <2>2, <2>3, KnowsFrame DEF HistoryInv
  <2>5. QED
    BY <1>1, <1>3, <1>4, <2>1, <2>2, <2>3, <2>4 DEF HistoryInv
<1>8. QED
  BY <1>5, <1>6, <1>7 DEF Next

\* The history variables only watch.
LEMMA HistoryIsManager == HSpec => Spec
<1>1. HInit => Init
  BY DEF HInit
<1>2. [HNext]_hvars => [Next]_vars
  BY DEF HNext, hvars
<1>3. QED
  BY <1>1, <1>2, PTL DEF HSpec, Spec

\* A service that never fails its own health check is never restarted before
\* its ttl and the configured delay have passed since it was last spawned.
THEOREM NoStorm == ASSUME OneMonitor PROVE HSpec => NoRestartStorm
<1> DEFINE Spaced ==
      \A s \in Service \ SelfDiagnosing :
        Starts(s) /\ spawnedAt[s] # 0 =>
          now > spawnedAt[s] + Ttl[s] + AttemptRecoveryAfter
<1>1. HInit => HeartInv
  BY ConstantsAssumption DEF HInit, Init, HeartInv
<1>2. TypeOK /\ HeartInv /\ [HNext]_hvars => HeartInv'
  BY HeartStep DEF HNext, hvars
<1>3. TypeOK /\ TypeOK' /\ HeartInv /\ HistoryInv /\ [HNext]_hvars => HistoryInv'
  BY HistoryStep
<1>4. TypeOK /\ HistoryInv /\ [HNext]_hvars => [Spaced]_hvars
  <2> SUFFICES ASSUME TypeOK, HistoryInv, HNext, NEW s \in Service \ SelfDiagnosing,
                      Starts(s), spawnedAt[s] # 0
               PROVE  now > spawnedAt[s] + Ttl[s] + AttemptRecoveryAfter
    OBVIOUS
  <2>1. ~ (s = spawned + 1)
    BY ConstantsAssumption DEF HistoryInv, TypeOK, Service
  <2>2. PICK m \in Monitors : SpawnTask(m) /\ s = at[m]
    BY <2>1, WhoStarts DEF HNext
  <2>3. QED
    BY <2>2 DEF HistoryInv, Knows, Sound, OutlivedItsGrace, SpawnTask
<1>5. HSpec => Spec
  BY HistoryIsManager
<1>6. QED
  BY <1>1, <1>2, <1>3, <1>4, <1>5, InitHistoryInv, TypeCorrect, PTL
  DEF HSpec, NoRestartStorm

-----------------------------------------------------------------------------
(***************************************************************************)
(* When restarts are justified.  Nobody interrupts the stretch of a check  *)
(* on a single thread, so that the report of the one service agrees with   *)
(* its heart until the decision has been taken.                            *)
(***************************************************************************)
AloneOnOneThread == NumServices = 1 /\ SelfDiagnosing = {} /\ ~ Parallel

\* What monitor m has learnt of the service is still so.
Current(m) ==
  /\ pc[m] # "mark"
  /\ pc[m] \in {"health", "clear"} => lastBeat[m] = heart[at[m]]
  /\ pc[m] # "scan" => dead[m] = {}
  /\ \A s \in dead[m] : since[m][s] = heart[s] + Ttl[s]

CurrentInv ==
  /\ \A s \in Service : healthy[s]
  /\ spawned < NumServices => \A m \in Monitors : pc[m] = "check"
  /\ \A m \in Monitors : Current(m)

\* The step of another leaves what m knows alone, and the heart while m is in a
\* stretch of its own.
LEMMA CurrentFrame ==
  ASSUME NEW m \in Monitors, Current(m),
         pc'[m] = pc[m], at'[m] = at[m], dead'[m] = dead[m], since'[m] = since[m],
         lastBeat'[m] = lastBeat[m],
         MidStretch(m) => heart' = heart
  PROVE  Current(m)'
  BY DEF Current, MidStretch, CheckPc

\* The step of monitor m itself.
LEMMA CurrentStep ==
  ASSUME TypeOK, AloneOnOneThread, CurrentInv, NEW m \in Monitors, MonitorStep(m)
  PROVE  Current(m)'
<1> USE DEF serviceVars, reportVars, Goto
<1>0. /\ m \in Checkers /\ at[m] \in Service /\ Service = {1} /\ at[m] = 1 /\ NumServices = 1
      /\ dead[m] \subseteq Service /\ Current(m) /\ healthy[1]
      /\ Ttl[1] \in Nat /\ lastBeat[m] \in Nat /\ ts[m] \in Nat /\ heart[1] \in Nat
  BY ConstantsAssumption
  DEF TypeOK, Checkers, AloneOnOneThread, CurrentInv, Service, Time
<1>1. CASE BeginCheck(m) \/ LoadHeart(m)
  BY <1>0, <1>1 DEF BeginCheck, LoadHeart, TypeOK, Current
<1>2. CASE AskHealth(m)
  BY <1>0, <1>2 DEF AskHealth, TypeOK, Current
<1>3. CASE ClearFailing(m)
  <2>1. /\ heart' = heart /\ pc'[m] = "scan" /\ lastBeat[m] = heart[1] /\ dead[m] = {}
        /\ \/ Silent(m) /\ ReportDead(m, SilentSince(m))
           \/ dead' = dead
    BY <1>0, <1>3 DEF ClearFailing, Advance, TypeOK, Current
  <2>2. CASE Silent(m) /\ ReportDead(m, SilentSince(m))
    <3>1. dead'[m] = {1} /\ since'[m][1] = lastBeat[m] + Ttl[1]
      BY <1>0, <2>1, <2>2 DEF ReportDead, SilentSince, TypeOK
    <3>2. QED
      BY <1>0, <2>1, <3>1 DEF Current
  <2>3. CASE dead' = dead
    BY <2>1, <2>3 DEF Current
  <2>4. QED
    BY <2>1, <2>2, <2>3
<1>4. CASE MarkFailing(m)
  BY <1>0, <1>4 DEF MarkFailing, Current
<1>5. ASSUME NEW s \in Service, DecideRestart(m, s) \/ TooRecent(m, s)
      PROVE  Current(m)'
  <2>1. s = 1 /\ dead'[m] = {} /\ pc'[m] \in {"scan", "abort"}
    BY <1>0, <1>5 DEF DecideRestart, TooRecent, Consume, NextDead, TypeOK
  <2>2. QED
    BY <2>1 DEF Current
<1>6. CASE RoundDone(m) \/ Wake(m) \/ RestartStep(m)
  <2>1. dead[m] = {} /\ dead' = dead
    BY <1>0, <1>6 DEF RoundDone, Wake, RestartStep, AbortFinished, AbortPending, Join,
       JoinTimeout, SpawnTask, SpawnBails, SpawnResets, Current
  <2>2. pc'[m] \notin {"mark", "health", "clear"}
    BY <1>0, <1>6 DEF RoundDone, Wake, RestartStep, AbortFinished, AbortPending, Join,
       JoinTimeout, SpawnTask, SpawnBails, SpawnResets, TypeOK
  <2>3. QED
    BY <2>1, <2>2 DEF Current
<1>7. QED
  BY <1>1, <1>2, <1>3, <1>4, <1>5, <1>6 DEF MonitorStep, CheckStep

\* What monitor m does to another monitor d.
LEMMA MonitorLeaves ==
  ASSUME TypeOK, NEW m \in Monitors, MonitorStep(m), NEW d \in Monitors, d # m
  PROVE  /\ pc'[d] = pc[d] /\ at'[d] = at[d] /\ dead'[d] = dead[d]
         /\ since'[d] = since[d] /\ lastBeat'[d] = lastBeat[d]
<1> USE DEF serviceVars, reportVars, Goto, TypeOK
<1> m \in Checkers /\ d \in Checkers
  BY DEF Checkers
<1>1. CASE BeginCheck(m) \/ LoadHeart(m) \/ AskHealth(m)
  BY <1>1 DEF BeginCheck, LoadHeart, AskHealth
<1>2. CASE ClearFailing(m)
  <2>1. pc'[d] = pc[d] /\ at'[d] = at[d] /\ lastBeat'[d] = lastBeat[d]
    BY <1>2 DEF ClearFailing, Advance
  <2>2. dead'[d] = dead[d] /\ since'[d] = since[d]
    BY <1>2 DEF ClearFailing, ReportDead
  <2>3. QED
    BY <2>1, <2>2
<1>3. CASE MarkFailing(m)
  <2>1. pc'[d] = pc[d] /\ at'[d] = at[d] /\ lastBeat'[d] = lastBeat[d]
    BY <1>3 DEF MarkFailing, Advance
  <2>2. dead'[d] = dead[d] /\ since'[d] = since[d]
    BY <1>3 DEF MarkFailing, ReportDead
  <2>3. QED
    BY <2>1, <2>2
<1>4. ASSUME NEW s \in Service, DecideRestart(m, s) \/ TooRecent(m, s)
      PROVE  /\ pc'[d] = pc[d] /\ at'[d] = at[d] /\ dead'[d] = dead[d]
             /\ since'[d] = since[d] /\ lastBeat'[d] = lastBeat[d]
  BY <1>4 DEF DecideRestart, TooRecent, Consume
<1>5. CASE RoundDone(m) \/ Wake(m) \/ RestartStep(m)
  BY <1>5 DEF RoundDone, Wake, RestartStep, AbortFinished, AbortPending, Join,
     JoinTimeout, SpawnTask, SpawnBails, SpawnResets
<1>6. QED
  BY <1>1, <1>2, <1>3, <1>4, <1>5 DEF MonitorStep, CheckStep

LEMMA CurrentInvStep ==
  ASSUME TypeOK, AloneOnOneThread, CurrentInv, [Next]_vars
  PROVE  CurrentInv'
<1> USE DEF serviceVars, reportVars
<1>0. ~ Parallel /\ SelfDiagnosing = {} /\ NumServices \in Nat /\ spawned \in Nat
  BY ConstantsAssumption DEF AloneOnOneThread, TypeOK
<1>1. \A s \in Service : healthy'[s]
  <2>1. healthy' = healthy
    <3>1. CASE Tick \/ SpawnServices \/ UNCHANGED vars
      BY <3>1 DEF Tick, SpawnServices, vars
    <3>2. ASSUME NEW s \in Service, Task(s) PROVE healthy' = healthy
      BY <1>0, <3>2 DEF Task, TaskStep, Beat, Panic, AbortLands, Diagnose
    <3>3. ASSUME NEW p \in Probes, Probe(p) PROVE healthy' = healthy
      BY <3>3 DEF Probe, ProbeStep, CheckStep, BeginCheck, LoadHeart, AskHealth,
         ClearFailing, MarkFailing, Respond
    <3>4. ASSUME NEW m \in Monitors, Monitor(m) PROVE healthy' = healthy
      BY <3>4 DEF Monitor, MonitorStep, CheckStep, BeginCheck, LoadHeart, AskHealth,
         ClearFailing, MarkFailing, RestartStep, DecideRestart, TooRecent, RoundDone, Wake,
         AbortFinished, AbortPending, Join, JoinTimeout, SpawnTask, SpawnBails, SpawnResets
    <3>5. QED
      BY <3>1, <3>2, <3>3, <3>4 DEF Next
  <2>2. QED
    BY <2>1 DEF CurrentInv
<1>2. ASSUME NEW m \in Monitors, Monitor(m)
      PROVE  (\A d \in Monitors : Current(d)')
             /\ (spawned' < NumServices => \A d \in Monitors : pc'[d] = "check")
  <2>1. Current(m)'
    BY <1>2, CurrentStep DEF Monitor
  <2>2. ASSUME NEW d \in Monitors, d # m PROVE Current(d)'
    <3>1. ~ MidStretch(d)
      BY <1>0, <1>2, <2>2 DEF Monitor, OthersIdle, Checkers
    <3>2. Current(d)
      BY DEF CurrentInv
    <3>3. QED
      BY <1>2, <2>2, <3>1, <3>2, MonitorLeaves, CurrentFrame DEF Monitor
  <2>3. spawned' = spawned /\ (pc[m] = "check" => spawned = NumServices)
    BY <1>2 DEF Monitor, MonitorStep, CheckStep, BeginCheck, LoadHeart, AskHealth,
       ClearFailing, MarkFailing, RestartStep, DecideRestart, TooRecent, RoundDone, Wake,
       AbortFinished, AbortPending, Join, JoinTimeout, SpawnTask, SpawnBails, SpawnResets
  <2>4. ~ (spawned' < NumServices)
    BY <1>0, <2>3 DEF CurrentInv
  <2>5. QED
    BY <2>1, <2>2, <2>4
<1>3. ASSUME \/ Tick \/ SpawnServices \/ UNCHANGED vars
             \/ \E s \in Service : Task(s)
             \/ \E p \in Probes : Probe(p)
      PROVE  (\A d \in Monitors : Current(d)')
             /\ (spawned' < NumServices => \A d \in Monitors : pc'[d] = "check")
  <2>1. ASSUME NEW d \in Monitors
        PROVE  /\ pc'[d] = pc[d] /\ at'[d] = at[d] /\ dead'[d] = dead[d]
               /\ since'[d] = since[d] /\ lastBeat'[d] = lastBeat[d]
    BY <1>3, OthersLeave DEF Task, Probe
  <2>2. ASSUME NEW d \in Monitors, MidStretch(d) PROVE heart' = heart
    <3>1. CASE Tick \/ UNCHANGED vars
      BY <3>1 DEF Tick, vars
    <3>2. CASE SpawnServices
      <4>1. pc[d] = "check"
        BY <3>2 DEF SpawnServices, CurrentInv
      <4>2. QED
        BY <2>2, <4>1 DEF MidStretch, CheckPc
    <3>3. ASSUME NEW s \in Service, Task(s) PROVE heart' = heart
      BY <1>0, <2>2, <3>3 DEF Task, AllIdle, Checkers
    <3>4. ASSUME NEW p \in Probes, Probe(p) PROVE heart' = heart
      BY <3>4 DEF Probe, ProbeStep, CheckStep, BeginCheck, LoadHeart, AskHealth,
         ClearFailing, MarkFailing, Respond
    <3>5. QED
      BY <1>3, <3>1, <3>2, <3>3, <3>4
  <2>3. \A d \in Monitors : Current(d)'
    BY <2>1, <2>2, CurrentFrame DEF CurrentInv
  <2>4. spawned' = spawned \/ (spawned' = spawned + 1 /\ spawned < NumServices)
    <3>1. CASE Tick \/ SpawnServices \/ UNCHANGED vars
      BY <3>1 DEF Tick, SpawnServices, vars
    <3>2. ASSUME NEW s \in Service, Task(s) PROVE spawned' = spawned
      BY <3>2 DEF Task, TaskStep, Beat, Panic, AbortLands, Diagnose
    <3>3. ASSUME NEW p \in Probes, Probe(p) PROVE spawned' = spawned
      BY <3>3 DEF Probe, ProbeStep, CheckStep, BeginCheck, LoadHeart, AskHealth,
         ClearFailing, MarkFailing, Respond
    <3>4. QED
      BY <1>3, <3>1, <3>2, <3>3
  <2>5. spawned' < NumServices => spawned < NumServices
    BY <1>0, <2>4
  <2>6. QED
    BY <2>1, <2>3, <2>5 DEF CurrentInv
<1>4. QED
  BY <1>1, <1>2, <1>3 DEF Next, CurrentInv

\* attempt_recovery_after means what it says for one service that never fails
\* its own health check, on a single thread, for any number of monitors and
\* probes: it is restarted only if it is silent for that long at the decision.
\* Each hypothesis is needed: a second service, a second thread or a failed
\* health check lets the monitor restart what is not failing for so long.
THEOREM RestartsTheSilent == ASSUME AloneOnOneThread PROVE HSpec => RestartsOnlyFailing
<1> DEFINE Justified ==
      \A m \in Monitors :
        pc[m] = "scan" /\ pc'[m] = "abort" => FailingLongEnough(at'[m])
<1>1. HInit => CurrentInv
  BY DEF HInit, Init, CurrentInv, Current, Checkers
<1>2. TypeOK /\ CurrentInv /\ [HNext]_hvars => CurrentInv'
  BY CurrentInvStep DEF HNext, hvars
<1>3. TypeOK /\ CurrentInv /\ [HNext]_hvars => [Justified]_hvars
  <2> SUFFICES ASSUME TypeOK, CurrentInv, HNext, NEW m \in Monitors,
                      pc[m] = "scan", pc'[m] = "abort"
               PROVE  FailingLongEnough(at'[m])
    OBVIOUS
  <2> USE DEF serviceVars, reportVars, Goto
  <2>0. m \in Checkers /\ ~ Parallel
    BY DEF Checkers, AloneOnOneThread
  <2>1. \/ MonitorStep(m)
        \/ \E d \in Monitors : d # m /\ MonitorStep(d)
        \/ \/ Tick \/ SpawnServices \/ UNCHANGED vars
           \/ \E s \in Service : TaskStep(s)
           \/ \E p \in Probes : ProbeStep(p)
    BY DEF HNext, Next, Monitor, Task, Probe
  <2>2. MonitorStep(m)
    BY <2>1, MonitorLeaves, OthersLeave
  <2>3. PICK s \in Service : DecideRestart(m, s)
    BY <2>0, <2>2 DEF MonitorStep, CheckStep, BeginCheck, LoadHeart, AskHealth, ClearFailing,
       MarkFailing, RestartStep, TooRecent, RoundDone, Wake, AbortFinished, AbortPending,
       Join, JoinTimeout, SpawnTask, SpawnBails, SpawnResets, TypeOK
  <2>4. s \in dead[m] /\ since[m][s] + AttemptRecoveryAfter < now /\ at'[m] = s
    BY <2>0, <2>3 DEF DecideRestart, NextDead, Consume, TypeOK
  <2>5. since[m][s] = heart[s] + Ttl[s]
    BY <2>4 DEF CurrentInv, Current
  <2>6. /\ heart[s] \in Nat /\ Ttl[s] \in Nat /\ AttemptRecoveryAfter \in Nat /\ now \in Nat
    BY ConstantsAssumption DEF TypeOK, Time
  <2>7. QED
    BY <2>4, <2>5, <2>6 DEF FailingLongEnough
<1>4. HSpec => Spec
  BY HistoryIsManager
<1>5. QED
  BY <1>1, <1>2, <1>3, <1>4, TypeCorrect, PTL DEF HSpec, RestartsOnlyFailing

-----------------------------------------------------------------------------
(***************************************************************************)
(* The words of UnhealthyTime, for every width of the word and every time  *)
(* at which its clock begins, wraps included unless they are excluded.     *)
(***************************************************************************)
\* How often the word has wrapped before timestamp n.
Era(n) == (n + Half) \div (2 * Half)

LEMMA Division ==
  ASSUME NEW n \in Int, NEW w \in Nat \ {0}
  PROVE  /\ n \div w \in Int /\ n % w \in 0 .. w - 1
         /\ n = w * (n \div w) + (n % w)
  OBVIOUS

LEMMA OnlyZero ==
  ASSUME NEW w \in Nat \ {0}, NEW d \in Int, -w < w * d, w * d < w
  PROVE  d = 0
<1>1. ASSUME d >= 1
      PROVE  FALSE
  <2>1. w * d = w + w * (d - 1)
    OBVIOUS
  <2>2. w * (d - 1) >= 0
    BY <1>1
  <2>3. QED
    BY <2>1, <2>2
<1>2. ASSUME d <= -1
      PROVE  FALSE
  <2>1. w * d = w * (d + 1) - w
    OBVIOUS
  <2>2. w * (d + 1) <= 0
    BY <1>2
  <2>3. QED
    BY <2>1, <2>2
<1>3. QED
  BY <1>1, <1>2

\* A word is the integer minus the eras before it, and lies within the word.
LEMMA WordOfEra ==
  ASSUME NEW n \in Int
  PROVE  /\ Era(n) \in Int /\ Word(n) \in Int
         /\ Word(n) = n - (2 * Half) * Era(n)
         /\ -Half <= Word(n) /\ Word(n) < Half
<1>1. Half \in Nat \ {0} /\ 2 * Half \in Nat \ {0} /\ n + Half \in Int
  BY WordAssumption
<1> DEFINE m == n + Half
           w == 2 * Half
<1> HIDE DEF m, w
<1>2. m \in Int /\ w \in Nat \ {0}
  BY <1>1 DEF m, w
<1>3. /\ m \div w \in Int /\ m % w \in 0 .. w - 1
      /\ m = w * (m \div w) + (m % w)
  BY <1>2, Division
<1>4. Era(n) = m \div w /\ Word(n) = (m % w) - Half
  BY DEF Era, Word, m, w
<1>5. w * (m \div w) = (2 * Half) * Era(n) /\ w * (m \div w) \in Int
  BY <1>2, <1>3, <1>4 DEF w
<1>6. n = m - Half /\ w - 1 - Half < Half
  BY <1>1 DEF m, w
<1>7. QED
  BY <1>1, <1>2, <1>3, <1>4, <1>5, <1>6

\* An integer within the word that differs by whole eras is the word.
LEMMA WordUnique ==
  ASSUME NEW n \in Int, NEW k \in Int, NEW v \in Int,
         v = n - (2 * Half) * k, -Half <= v, v < Half
  PROVE  Word(n) = v
<1> DEFINE w == 2 * Half
           d == k - Era(n)
<1>1. w \in Nat \ {0} /\ d \in Int
  BY WordAssumption, WordOfEra
<1>2. w * d = w * k - w * Era(n)
  BY <1>1, WordOfEra
<1>3. w * d = Word(n) - v
  BY <1>2, WordOfEra, WordAssumption
<1>4. -w < w * d /\ w * d < w
  BY <1>3, WordOfEra, WordAssumption
<1>5. d = 0
  BY <1>1, <1>4, OnlyZero
<1>6. w * d = 0
  BY <1>1, <1>5
<1>7. QED
  BY <1>3, <1>6, WordOfEra

\* Two timestamps whose distance fits the word have that distance as words.
LEMMA WordDifference ==
  ASSUME NEW a \in Int, NEW b \in Int, -Half <= a - b, a - b < Half
  PROVE  Word(Word(a) - Word(b)) = a - b
<1> DEFINE w == 2 * Half
           k == Era(b) - Era(a)
<1>1. /\ w \in Nat \ {0} /\ k \in Int
      /\ Word(a) - Word(b) \in Int /\ a - b \in Int
  BY WordAssumption, WordOfEra
<1>2. w * k = w * Era(b) - w * Era(a)
  BY <1>1, WordOfEra
<1>3. a - b = (Word(a) - Word(b)) - w * k
  BY <1>1, <1>2, WordOfEra
<1>4. QED
  BY <1>1, <1>3, WordUnique

\* What is within the word is its own word.
LEMMA SmallWord ==
  ASSUME NEW n \in Int, -Half <= n, n < Half
  PROVE  Word(n) = n
<1>1. n = n - (2 * Half) * 0
  BY WordAssumption
<1>2. QED
  BY <1>1, WordUnique

\* The subtraction of words is exact, as beats and checks are less than half a
\* word apart.
LEMMA SilentByWords ==
  ASSUME TypeOK, NEW c \in Checkers
  PROVE  /\ WordSilent(c) <=> Silent(c)
         /\ WordSilentSince(c) = SilentSince(c)
<1>1. /\ ts[c] \in 0 .. MaxTime /\ lastBeat[c] \in 0 .. MaxTime
      /\ MaxTime \in Nat /\ MaxTime < Half /\ Half \in Nat /\ Epoch \in Nat
  BY WordAssumption, ConstantsAssumption, FirstService DEF TypeOK, Time
<1>2. Word(Stamp(ts[c]) - Stamp(lastBeat[c])) = ts[c] - lastBeat[c]
  BY <1>1, WordDifference DEF Stamp
<1>3. QED
  BY <1>2 DEF WordSilent, Silent, WordSilentSince, SilentSince

-----------------------------------------------------------------------------
\* The steps in which the arithmetic of words shows.
WordStep(c) ==
  \/ WordMarkFailing(c)
  \/ c \in Monitors /\ \E s \in Service : WordDecide(c, s)

LEMMA WordSteps ==
  ASSUME TypeOK, WordNext
  PROVE  Next \/ \E c \in Checkers : WordStep(c)
<1>1. ASSUME NEW c \in Checkers, WordCheckStep(c)
      PROVE  CheckStep(c) \/ WordStep(c)
  <2>1. WordClearFailing(c) => ClearFailing(c)
    BY SilentByWords DEF WordClearFailing, ClearFailing
  <2>2. QED
    BY <1>1, <2>1 DEF WordCheckStep, CheckStep, WordStep
<1>2. ASSUME NEW m \in Monitors, OthersIdle(m), WordMonitorStep(m)
      PROVE  Monitor(m) \/ WordStep(m)
  BY <1>1, <1>2 DEF WordMonitorStep, MonitorStep, Monitor, WordStep, Checkers
<1>3. ASSUME NEW p \in Probes, OthersIdle(p), WordCheckStep(p) \/ Respond(p)
      PROVE  Probe(p) \/ WordStep(p)
  BY <1>1, <1>3 DEF ProbeStep, Probe, Checkers
<1>4. QED
  BY <1>2, <1>3 DEF WordNext, Next, Checkers

\* They move one checker, which is not inside of a restart, and no task.
LEMMA WordStepFrame ==
  ASSUME TypeOK, NEW c \in Checkers, WordStep(c)
  PROVE  /\ UNCHANGED <<now, heart, handle, detached, healthy, spawned, ts, answer>>
         /\ pc[c] \notin {"join", "spawn", "reset"}
         /\ pc'[c] \notin {"join", "spawn", "reset"}
         /\ \A d \in Checkers \ {c} : pc'[d] = pc[d] /\ at'[d] = at[d]
<1> USE DEF TypeOK, serviceVars
<1>1. CASE WordMarkFailing(c)
  BY <1>1 DEF WordMarkFailing, Advance, Goto
<1>2. ASSUME NEW s \in Service, WordDecide(c, s)
      PROVE  /\ UNCHANGED <<now, heart, handle, detached, healthy, spawned, ts, answer>>
             /\ pc[c] \notin {"join", "spawn", "reset"}
             /\ pc'[c] \notin {"join", "spawn", "reset"}
             /\ \A d \in Checkers \ {c} : pc'[d] = pc[d] /\ at'[d] = at[d]
  BY <1>2 DEF WordDecide, Consume, Goto
<1>3. QED
  BY <1>1, <1>2 DEF WordStep

LEMMA WordMarkTypeOK ==
  ASSUME TypeOK, NEW c \in Checkers, WordMarkFailing(c)
  PROVE  TypeOK'
<1> USE DEF TypeOK
<1> DEFINE mark == IF failingSince[at[c]] = 0 THEN ts[c] ELSE failingSince[at[c]]
<1>1. mark \in Time /\ (IF WordOf(mark) = 0 THEN 0 ELSE mark) \in Time
  BY FirstService
<1>2. SilentSince(c) \in Time
  BY ConstantsAssumption DEF SilentSince, Silent, Time
<1>3. WordEarlier(mark, WordSilentSince(c)) \in Time
  BY <1>1, <1>2, SilentByWords DEF WordEarlier
<1>4. failingSince' \in [Service -> Time]
  BY <1>1 DEF WordMarkFailing
<1>5. /\ dead' \in [Checkers -> SUBSET Service]
      /\ since' \in [Checkers -> [Service -> Time]]
  <2>1. ReportDead(c, WordEarlier(mark, WordSilentSince(c)))
    BY DEF WordMarkFailing
  <2>2. dead' \in [Checkers -> SUBSET Service]
    BY <2>1 DEF ReportDead
  <2>3. since' \in [Checkers -> [Service -> Time]]
    BY <1>3, <2>1 DEF ReportDead
  <2>4. QED
    BY <2>2, <2>3
<1>6. Advance(c)
  BY DEF WordMarkFailing
<1>7. lastBeat' \in [Checkers -> Time]
  BY <1>6, FirstService DEF Advance
<1>8. at' \in [Checkers -> Service]
  <2>1. CASE at[c] < NumServices
    BY <1>6, <2>1, ServiceAfter DEF Advance
  <2>2. CASE ~ (at[c] < NumServices)
    BY <1>6, <2>2 DEF Advance
  <2>3. QED
    BY <2>1, <2>2
<1>9. pc' \in [Checkers -> MonitorPc \cup ProbePc]
  BY <1>6, Labels DEF Advance, Goto
<1>10. QED
  BY <1>4, <1>5, <1>7, <1>8, <1>9 DEF WordMarkFailing

LEMMA WordDecideTypeOK ==
  ASSUME TypeOK, NEW m \in Monitors, NEW s \in Service, WordDecide(m, s)
  PROVE  TypeOK'
<1> USE DEF TypeOK, serviceVars
<1> m \in Checkers
  BY DEF Checkers
<1> Consume(m, s)
  BY DEF WordDecide
<1>1. at' \in [Checkers -> Service]
  BY DEF Consume
<1>2. dead' \in [Checkers -> SUBSET Service]
  BY DEF Consume
<1>3. since' \in [Checkers -> [Service -> Time]]
  BY FirstService DEF Consume
<1>4. pc' \in [Checkers -> MonitorPc \cup ProbePc]
  BY Labels DEF WordDecide, Goto
<1>5. QED
  BY <1>1, <1>2, <1>3, <1>4 DEF WordDecide

LEMMA WordTypeOKStep == TypeOK /\ [WordNext]_vars => TypeOK'
<1> SUFFICES ASSUME TypeOK, [WordNext]_vars PROVE TypeOK'
  OBVIOUS
<1>1. CASE [Next]_vars
  BY <1>1, TypeOKStep
<1>2. ASSUME NEW c \in Checkers, WordStep(c)
      PROVE  TypeOK'
  BY <1>2, WordMarkTypeOK, WordDecideTypeOK DEF WordStep
<1>3. QED
  BY <1>1, <1>2, WordSteps

\* Times keep their bounds whatever the words decide, wraps included.
THEOREM WordTypeCorrect == WordSpec => []TypeOK
  BY InitTypeOK, WordTypeOKStep, PTL DEF WordSpec

\* A check subtracts words and finds the same services silent as with unbounded
\* timestamps, wherever in the word the heartbeat and the check lie.
THEOREM ExactSilence == WordSpec => []SilenceIsExact
<1>1. TypeOK => SilenceIsExact
  BY SilentByWords DEF SilenceIsExact
<1>2. QED
  BY <1>1, WordTypeCorrect, PTL

LEMMA WordSafetyStep == SafetyInv /\ TypeOK /\ [WordNext]_vars => SafetyInv'
<1> SUFFICES ASSUME SafetyInv, TypeOK, [WordNext]_vars PROVE SafetyInv'
  OBVIOUS
<1>1. CASE [Next]_vars
  BY <1>1, SafetyInvStep
<1>2. ASSUME NEW c \in Checkers, WordStep(c)
      PROVE  SafetyInv'
  BY <1>2, WordStepFrame, OutsideRestart
<1>3. QED
  BY <1>1, <1>2, WordSteps

\* A wrong restart decision is a safe one: across any wrap no service has two
\* tasks, none is forgotten, and abort awaits what it aborted.
THEOREM WordsAreSafe == WordSpec => [](AtMostOneTask /\ NeverForgotten /\ AwaitsAborted)
<1>1. SafetyInv => AtMostOneTask /\ NeverForgotten /\ AwaitsAborted
  BY DEF SafetyInv, NoneDetached, AtMostOneTask, LiveTasks
<1>2. QED
  BY <1>1, InitSafetyInv, WordSafetyStep, WordTypeCorrect, PTL DEF WordSpec

\* The orchestrator keeps what Supervision promises across any wrap.
THEOREM WordsSupervise == WordSpec => Supervises
<1>1. Init => Promise!Init
  BY DEF Init, Promise!Init, TaskOf, LiveTasks, Pending
<1>2. TypeOK /\ TypeOK' /\ SafetyInv /\ SafetyInv' /\ [WordNext]_vars
        => [Promise!Next]_(Promise!avars)
  <2> SUFFICES ASSUME TypeOK, TypeOK', SafetyInv, SafetyInv', [WordNext]_vars
               PROVE  [Promise!Next]_(Promise!avars)
    OBVIOUS
  <2>1. CASE [Next]_vars
    BY <2>1, SupervisionStep DEF Promise!avars, Tasks
  <2>2. ASSUME NEW c \in Checkers, WordStep(c)
        PROVE  UNCHANGED Promise!avars
    BY <2>2, WordStepFrame, HandlesStay DEF Promise!avars, Tasks
  <2>3. QED
    BY <2>1, <2>2, WordSteps
<1>3. QED
  BY <1>1, <1>2, InitSafetyInv, WordSafetyStep, WordTypeCorrect, PTL
  DEF WordSpec, Supervises, Promise!Spec

\* The first observer's mark stays, as a time and so as a word.
THEOREM WordMarkStays == WordSpec => FailingSinceIsSticky
<1>1. TypeOK /\ [WordNext]_vars => [MarkStays]_vars
  <2> SUFFICES ASSUME TypeOK, WordNext PROVE MarkStays \/ UNCHANGED vars
    OBVIOUS
  <2>1. CASE Next
    BY <2>1, MarkStep
  <2>2. ASSUME NEW c \in Checkers, WordMarkFailing(c)
        PROVE  MarkStays
    BY <2>2 DEF WordMarkFailing, MarkStays, TypeOK
  <2>3. ASSUME NEW m \in Monitors, NEW s \in Service, WordDecide(m, s)
        PROVE  MarkStays
    BY <2>3 DEF WordDecide, serviceVars, MarkStays
  <2>4. QED
    BY <2>1, <2>2, <2>3, WordSteps DEF WordStep
<1>2. QED
  BY <1>1, WordTypeCorrect, PTL DEF WordSpec, FailingSinceIsSticky, MarkStays

-----------------------------------------------------------------------------
(***************************************************************************)
(* Before the wrap.  A mark and the time of a check are never later than   *)
(* the clock, so the words of all that is compared are the numbers.        *)
(***************************************************************************)
Past ==
  /\ \A c \in Checkers : ts[c] <= now
  /\ \A s \in Service : failingSince[s] <= now

LEMMA InitPast == Init => Past
  BY ConstantsAssumption DEF Init, Past

\* Times are read from the clock or erased; marks are times of checks.
LEMMA TimesAreRead ==
  ASSUME TypeOK, [WordNext]_vars
  PROVE  /\ now' \in {now, now + 1}
         /\ \A c \in Checkers : ts'[c] \in {ts[c], now}
         /\ \A s \in Service : \/ failingSince'[s] \in {failingSince[s], 0}
                               \/ \E c \in Checkers : failingSince'[s] = ts[c]
<1> DEFINE P == /\ now' \in {now, now + 1}
                /\ \A c \in Checkers : ts'[c] \in {ts[c], now}
                /\ \A s \in Service : \/ failingSince'[s] \in {failingSince[s], 0}
                                      \/ \E c \in Checkers : failingSince'[s] = ts[c]
<1> USE DEF serviceVars, reportVars
<1>1. ASSUME now' \in {now, now + 1}, ts' = ts, failingSince' = failingSince
      PROVE  P
  BY <1>1
<1>2. ASSUME NEW s \in Service, now' = now, ts' = ts,
             failingSince' = [failingSince EXCEPT ![s] = 0]
      PROVE  P
  BY <1>2 DEF TypeOK
<1>3. ASSUME NEW c \in Checkers, WordStep(c) \/ CheckStep(c) \/ Respond(c)
      PROVE  P
  <2>1. at[c] \in Service
    BY DEF TypeOK
  <2>2. CASE MarkFailing(c) \/ WordMarkFailing(c)
    BY <2>1, <2>2 DEF MarkFailing, WordMarkFailing, TypeOK
  <2>3. CASE ClearFailing(c)
    BY <1>2, <2>1, <2>3 DEF ClearFailing
  <2>4. CASE BeginCheck(c)
    BY <2>4 DEF BeginCheck, TypeOK
  <2>5. CASE LoadHeart(c) \/ AskHealth(c) \/ Respond(c) \/ \E s \in Service : WordDecide(c, s)
    BY <1>1, <2>5 DEF LoadHeart, AskHealth, Respond, WordDecide
  <2>6. QED
    BY <1>3, <2>2, <2>3, <2>4, <2>5 DEF WordStep, CheckStep
<1>4. ASSUME NEW m \in Monitors, MonitorStep(m), ~ CheckStep(m)
      PROVE  P
  <2>1. CASE SpawnResets(m)
    BY <1>2, <2>1 DEF SpawnResets, TypeOK, Checkers
  <2>2. CASE ~ SpawnResets(m)
    BY <1>1, <1>4, <2>2 DEF MonitorStep, RestartStep, DecideRestart, TooRecent,
       RoundDone, Wake, AbortFinished, AbortPending, Join, JoinTimeout, SpawnTask,
       SpawnBails
  <2>3. QED
    BY <2>1, <2>2
<1>5. CASE SpawnServices
  <2>1. spawned + 1 \in Service
    BY <1>5, ConstantsAssumption DEF SpawnServices, Service, TypeOK
  <2>2. QED
    BY <1>2, <1>5, <2>1 DEF SpawnServices
<1>6. CASE \/ Tick \/ UNCHANGED vars
           \/ \E s \in Service : TaskStep(s)
  BY <1>1, <1>6 DEF Tick, vars, TaskStep, Beat, Panic, AbortLands, Diagnose
<1>7. QED
  BY <1>3, <1>4, <1>5, <1>6, WordSteps
  DEF Next, Monitor, Probe, ProbeStep, Task, Checkers

LEMMA PastStep == TypeOK /\ Past /\ [WordNext]_vars => Past'
<1> SUFFICES ASSUME TypeOK, Past, [WordNext]_vars PROVE Past'
  OBVIOUS
<1>1. /\ now \in Nat
      /\ \A c \in Checkers : ts[c] \in Nat
      /\ \A s \in Service : failingSince[s] \in Nat
  BY ConstantsAssumption DEF TypeOK, Time
<1>2. now' \in Nat /\ now <= now'
  BY <1>1, TimesAreRead
<1>3. ASSUME NEW c \in Checkers
      PROVE  ts'[c] <= now'
  BY <1>1, <1>2, TimesAreRead DEF Past
<1>4. ASSUME NEW s \in Service
      PROVE  failingSince'[s] <= now'
  BY <1>1, <1>2, TimesAreRead DEF Past
<1>5. QED
  BY <1>3, <1>4 DEF Past

\* The word of a time before the wrap, the literal 0 included.
LEMMA WordBeforeWrap ==
  ASSUME NEW t \in Nat, Epoch + t < Half
  PROVE  WordOf(t) = IF t = 0 THEN 0 ELSE Epoch + t
<1>1. Epoch + t \in Int /\ -Half <= Epoch + t
  BY WordAssumption
<1>2. QED
  BY <1>1, SmallWord DEF WordOf, Stamp

LEMMA StepBeforeWrap ==
  ASSUME TypeOK, Past, BeforeWrap, WordNext
  PROVE  Next
<1>1. /\ Epoch \in Nat /\ Half \in Nat /\ AttemptRecoveryAfter \in Nat
      /\ now \in Nat /\ Epoch + now < Half
  BY WordAssumption, ConstantsAssumption DEF TypeOK, BeforeWrap
<1>2. ASSUME NEW c \in Checkers, WordMarkFailing(c)
      PROVE  MarkFailing(c)
  <2> DEFINE mark == IF failingSince[at[c]] = 0 THEN ts[c] ELSE failingSince[at[c]]
             quiet == SilentSince(c)
  <2>1. mark \in Nat /\ mark <= now /\ ts[c] \in Nat /\ ts[c] <= now
    BY ConstantsAssumption DEF TypeOK, Past, Time
  <2>2. quiet \in Nat /\ quiet <= ts[c]
    BY ConstantsAssumption DEF SilentSince, Silent, Time, TypeOK
  <2>3. /\ WordOf(mark) = IF mark = 0 THEN 0 ELSE Epoch + mark
        /\ WordOf(quiet) = IF quiet = 0 THEN 0 ELSE Epoch + quiet
    <3>1. Epoch + mark < Half /\ Epoch + quiet < Half
      BY <1>1, <2>1, <2>2
    <3>2. QED
      BY <2>1, <2>2, <3>1, WordBeforeWrap
  <2>4. WordSilentSince(c) = quiet
    BY SilentByWords
  <2>5. (IF WordOf(mark) = 0 THEN 0 ELSE mark) = mark
    BY <1>1, <2>1, <2>3
  <2>6. WordEarlier(mark, quiet) = Earlier(mark, quiet)
    BY <1>1, <2>1, <2>2, <2>3 DEF WordEarlier, Earlier
  <2>7. QED
    BY <1>2, <2>4, <2>5, <2>6 DEF WordMarkFailing, MarkFailing
<1>3. ASSUME NEW m \in Monitors, NEW s \in Service, WordDecide(m, s)
      PROVE  DecideRestart(m, s) \/ TooRecent(m, s)
  <2> DEFINE t == since[m][s]
  <2>1. s \in dead[m] /\ t \in Nat /\ Epoch + t + AttemptRecoveryAfter < Half
    BY <1>3, ConstantsAssumption DEF WordDecide, NextDead, BeforeWrap, TypeOK, Time, Checkers
  <2>2. Stamp(now) = Epoch + now
    <3>1. Epoch + now \in Int /\ -Half <= Epoch + now
      BY <1>1
    <3>2. QED
      BY <1>1, <3>1, SmallWord DEF Stamp
  <2>3. WordOf(t) = IF t = 0 THEN 0 ELSE Epoch + t
    BY <1>1, <2>1, WordBeforeWrap
  <2>4. Word(WordOf(t) + AttemptRecoveryAfter) = WordOf(t) + AttemptRecoveryAfter
    <3>1. /\ WordOf(t) + AttemptRecoveryAfter \in Int
          /\ -Half <= WordOf(t) + AttemptRecoveryAfter
          /\ WordOf(t) + AttemptRecoveryAfter < Half
      BY <1>1, <2>1, <2>3
    <3>2. QED
      BY <3>1, SmallWord
  <2>5. now > AttemptRecoveryAfter
    BY <1>1, ConstantsAssumption DEF TypeOK
  <2>6. WordDue(t) <=> t + AttemptRecoveryAfter < now
    BY <1>1, <2>1, <2>2, <2>3, <2>4, <2>5 DEF WordDue
  <2>7. QED
    BY <1>3, <2>6 DEF WordDecide, DecideRestart, TooRecent
<1>4. ASSUME NEW c \in Checkers, WordCheckStep(c)
      PROVE  CheckStep(c)
  <2>1. WordClearFailing(c) => ClearFailing(c)
    BY SilentByWords DEF WordClearFailing, ClearFailing
  <2>2. QED
    BY <1>2, <1>4, <2>1 DEF WordCheckStep, CheckStep
<1>5. ASSUME NEW m \in Monitors, WordMonitorStep(m)
      PROVE  MonitorStep(m)
  BY <1>3, <1>4, <1>5 DEF WordMonitorStep, MonitorStep, Checkers
<1>6. QED
  BY <1>4, <1>5 DEF WordNext, Next, Monitor, Probe, ProbeStep, Checkers

\* Until a mark, a due time or the clock passes the largest word, the code takes
\* only steps of ServiceManager: the minimum with the literal 0 and the restart
\* decision come out the same.  The due times of what is reported are in
\* BeforeWrap; that marks and checks are not later than the clock is proved.
THEOREM RightUntilWrap == WordSpec => ManagerUntilWrap
<1>1. TypeOK /\ Past /\ [WordNext]_vars => [BeforeWrap => Next]_vars
  BY StepBeforeWrap
<1>2. QED
  BY <1>1, InitPast, PastStep, WordTypeCorrect, PTL DEF WordSpec, ManagerUntilWrap

\* As long as no time that is modelled reaches the wrap, as before 2038 with an
\* unscaled clock, the code with its words implements ServiceManager, and with
\* it everything that is proved of it.
THEOREM WordsImplementManager ==
  ASSUME Epoch + MaxTime + AttemptRecoveryAfter < Half
  PROVE  WordSpec => Spec
<1>1. TypeOK => BeforeWrap
  <2> SUFFICES ASSUME TypeOK PROVE BeforeWrap
    OBVIOUS
  <2>1. /\ Epoch \in Nat /\ Half \in Nat /\ AttemptRecoveryAfter \in Nat
        /\ now \in 0 .. MaxTime /\ MaxTime \in Nat
    BY WordAssumption, ConstantsAssumption DEF TypeOK
  <2>2. ASSUME NEW m \in Monitors, NEW s \in dead[m]
        PROVE  since[m][s] \in 0 .. MaxTime
    BY DEF TypeOK, Time, Checkers
  <2>3. QED
    BY <2>1, <2>2 DEF BeforeWrap
<1>2. TypeOK /\ Past /\ [WordNext]_vars => [Next]_vars
  BY <1>1, StepBeforeWrap
<1>3. QED
  BY <1>2, InitPast, PastStep, WordTypeCorrect, PTL DEF WordSpec, Spec

=============================================================================
