------------------------ MODULE ServiceManagerProofs ------------------------
(***************************************************************************)
(* Type correctness of ServiceManager, the safety of its restarts and of   *)
(* its health endpoint, and that it implements Supervision, for every      *)
(* number of services, monitors and probes.                                *)
(***************************************************************************)
EXTENDS ServiceManager, TLAPS

\* Facts about the small sets, so that the proofs below need not expand them.
LEMMA NowIsTime == ASSUME TypeOK PROVE now \in Time
  BY ConstantsAssumption DEF TypeOK, Time

LEMMA FirstService == 1 \in Service /\ 0 \in Time
  BY ConstantsAssumption DEF Service, Time

LEMMA ServiceAfter ==
  ASSUME NEW s \in Service, s < NumServices
  PROVE  s + 1 \in Service
  BY ConstantsAssumption DEF Service

LEMMA Labels ==
  /\ CheckPc \cup {"check", "scan", "abort", "join", "spawn", "reset", "sleep",
                   "idle", "respond"} \subseteq MonitorPc \cup ProbePc
  /\ {"heart", "health", "clear", "mark"} \subseteq MonitorPc \cup ProbePc
  BY DEF MonitorPc, ProbePc, CheckPc

LEMMA InitTypeOK == Init => TypeOK
<1> SUFFICES ASSUME Init PROVE TypeOK
  OBVIOUS
<1>1. now \in StartTime .. MaxTime /\ spawned \in 0 .. NumServices
  BY ConstantsAssumption DEF Init
<1>2. /\ heart \in [Service -> Time]
      /\ failingSince \in [Service -> Time]
      /\ handle \in [Service -> HandleState]
      /\ detached \in [Service -> Nat]
      /\ healthy \in [Service -> BOOLEAN]
  BY FirstService DEF Init, HandleState
<1>3. pc \in [Checkers -> MonitorPc \cup ProbePc]
  BY Labels DEF Init
<1>4. at \in [Checkers -> Service] /\ ts \in [Checkers -> Time]
  BY FirstService DEF Init
<1>5. lastBeat \in [Checkers -> Time] /\ since \in [Checkers -> [Service -> Time]]
  BY FirstService DEF Init
<1>6. dead \in [Checkers -> SUBSET Service]
  BY DEF Init
<1>7. answer \in [Probes -> {"none", "success", "fail"}]
  BY DEF Init
<1>8. QED
  BY <1>1, <1>2, <1>3, <1>4, <1>5, <1>6, <1>7 DEF TypeOK

\* A check of some checker c keeps the types.  A reported time lies between 0
\* and the timestamp of the check, because only a silent service adds its ttl.
LEMMA CheckTypeOK ==
  ASSUME TypeOK, NEW c \in Checkers, CheckStep(c)
  PROVE  TypeOK'
<1> USE DEF TypeOK, serviceVars, reportVars, Goto
<1>1. CASE BeginCheck(c)
  <2>1. ts' \in [Checkers -> Time]
    BY <1>1, NowIsTime DEF BeginCheck
  <2>2. at' \in [Checkers -> Service]
    BY <1>1, FirstService DEF BeginCheck
  <2>3. pc' \in [Checkers -> MonitorPc \cup ProbePc]
    BY <1>1, Labels DEF BeginCheck
  <2>4. QED
    BY <1>1, <2>1, <2>2, <2>3 DEF BeginCheck
<1>2. CASE LoadHeart(c)
  <2>1. lastBeat' \in [Checkers -> Time]
    BY <1>2 DEF LoadHeart
  <2>2. pc' \in [Checkers -> MonitorPc \cup ProbePc]
    BY <1>2, Labels DEF LoadHeart
  <2>3. QED
    BY <1>2, <2>1, <2>2 DEF LoadHeart
<1>3. CASE AskHealth(c)
  <2>1. pc' \in [Checkers -> MonitorPc \cup ProbePc]
    BY <1>3, Labels DEF AskHealth
  <2>2. QED
    BY <1>3, <2>1 DEF AskHealth
<1>4. SilentSince(c) \in Time
  BY ConstantsAssumption DEF SilentSince, Silent, Time
<1>5. ASSUME Advance(c)
      PROVE  /\ lastBeat' \in [Checkers -> Time]
             /\ at' \in [Checkers -> Service]
             /\ pc' \in [Checkers -> MonitorPc \cup ProbePc]
  <2>1. lastBeat' \in [Checkers -> Time]
    BY <1>5, FirstService DEF Advance
  <2>2. at' \in [Checkers -> Service]
    <3>1. CASE at[c] < NumServices
      <4>1. at[c] + 1 \in Service
        BY <3>1, ServiceAfter
      <4>2. QED
        BY <1>5, <3>1, <4>1 DEF Advance
    <3>2. CASE ~ (at[c] < NumServices)
      BY <1>5, <3>2 DEF Advance
    <3>3. QED
      BY <3>1, <3>2
  <2>3. pc' \in [Checkers -> MonitorPc \cup ProbePc]
    BY <1>5, Labels DEF Advance
  <2>4. QED
    BY <2>1, <2>2, <2>3
<1>6. ASSUME NEW t \in Time, ReportDead(c, t)
      PROVE  /\ dead' \in [Checkers -> SUBSET Service]
             /\ since' \in [Checkers -> [Service -> Time]]
  <2>1. dead' \in [Checkers -> SUBSET Service]
    BY <1>6 DEF ReportDead
  <2>2. since' \in [Checkers -> [Service -> Time]]
    BY <1>6 DEF ReportDead
  <2>3. QED
    BY <2>1, <2>2
<1>7. CASE ClearFailing(c)
  <2>1. failingSince' \in [Service -> Time]
    BY <1>7, FirstService DEF ClearFailing
  <2>2. /\ dead' \in [Checkers -> SUBSET Service]
        /\ since' \in [Checkers -> [Service -> Time]]
    BY <1>7, <1>4, <1>6 DEF ClearFailing
  <2>3. QED
    BY <1>7, <1>5, <2>1, <2>2 DEF ClearFailing
<1>8. CASE MarkFailing(c)
  <2> DEFINE mark == IF failingSince[at[c]] = 0 THEN ts[c] ELSE failingSince[at[c]]
  <2>1. mark \in Time
    OBVIOUS
  <2>2. Earlier(mark, SilentSince(c)) \in Time
    BY <1>4, <2>1 DEF Earlier
  <2>3. failingSince' \in [Service -> Time]
    BY <1>8, <2>1 DEF MarkFailing
  <2>4. /\ dead' \in [Checkers -> SUBSET Service]
        /\ since' \in [Checkers -> [Service -> Time]]
    BY <1>8, <2>2, <1>6 DEF MarkFailing
  <2>5. QED
    BY <1>8, <1>5, <2>3, <2>4 DEF MarkFailing
<1>9. QED
  BY <1>1, <1>2, <1>3, <1>7, <1>8 DEF CheckStep

\* What monitor m does between two checks keeps the types.
LEMMA RecoveryTypeOK ==
  ASSUME TypeOK, NEW m \in Monitors, MonitorStep(m), ~ CheckStep(m)
  PROVE  TypeOK'
<1> USE DEF TypeOK, serviceVars, reportVars
<1> m \in Checkers
  BY DEF Checkers
<1>0. ASSUME NEW l \in MonitorPc \cup ProbePc, Goto(m, l)
      PROVE  pc' \in [Checkers -> MonitorPc \cup ProbePc]
  BY <1>0 DEF Goto
<1>1. ASSUME NEW s \in Service, DecideRestart(m, s) \/ TooRecent(m, s)
      PROVE  TypeOK'
  <2> Consume(m, s)
    BY <1>1 DEF DecideRestart, TooRecent
  <2>1. at' \in [Checkers -> Service]
    BY DEF Consume
  <2>2. dead' \in [Checkers -> SUBSET Service]
    BY DEF Consume
  <2>3. since' \in [Checkers -> [Service -> Time]]
    BY FirstService DEF Consume
  <2>4. pc' \in [Checkers -> MonitorPc \cup ProbePc]
    BY <1>0, <1>1, Labels DEF DecideRestart, TooRecent
  <2>5. QED
    BY <1>1, <2>1, <2>2, <2>3, <2>4 DEF DecideRestart, TooRecent
<1>2. CASE RoundDone(m)
  BY <1>0, <1>2, Labels DEF RoundDone
<1>3. CASE Wake(m)
  BY <1>0, <1>3, Labels DEF Wake
<1>4. ASSUME NEW s \in Service, DropHandle(s)
      PROVE  handle' \in [Service -> HandleState] /\ detached' \in [Service -> Nat]
  <2>1. handle' \in [Service -> HandleState]
    BY <1>4 DEF DropHandle, HandleState
  <2>2. detached' \in [Service -> Nat]
    BY <1>4 DEF DropHandle
  <2>3. QED
    BY <2>1, <2>2
<1>5. CASE AbortFinished(m)
  BY <1>0, <1>4, <1>5, Labels DEF AbortFinished
<1>6. CASE AbortPending(m)
  <2>1. handle' \in [Service -> HandleState]
    BY <1>6 DEF AbortPending, HandleState
  <2>2. QED
    BY <1>0, <1>6, <2>1, Labels DEF AbortPending
<1>7. CASE Join(m)
  BY <1>0, <1>4, <1>7, Labels DEF Join
<1>8. CASE JoinTimeout(m)
  BY <1>0, <1>8, Labels DEF JoinTimeout
<1>9. CASE SpawnTask(m)
  <2>1. heart' \in [Service -> Time]
    BY <1>9, NowIsTime DEF SpawnTask, StartTask
  <2>2. handle' \in [Service -> HandleState]
    BY <1>9 DEF SpawnTask, StartTask, HandleState
  <2>3. QED
    BY <1>0, <1>9, <2>1, <2>2, Labels DEF SpawnTask
<1>10. CASE SpawnBails(m)
  BY <1>0, <1>10, Labels DEF SpawnBails
<1>11. CASE SpawnResets(m)
  <2>1. failingSince' \in [Service -> Time]
    BY <1>11, FirstService DEF SpawnResets
  <2>2. QED
    BY <1>0, <1>11, <2>1, Labels DEF SpawnResets
<1>12. QED
  BY <1>1, <1>2, <1>3, <1>5, <1>6, <1>7, <1>8, <1>9, <1>10, <1>11
  DEF MonitorStep, RestartStep

\* Clock, start-up, probes and service tasks keep the types.
LEMMA OtherTypeOK ==
  ASSUME TypeOK,
         \/ Tick
         \/ SpawnServices
         \/ \E p \in Probes : Respond(p)
         \/ \E s \in Service : TaskStep(s)
  PROVE  TypeOK'
<1> USE DEF TypeOK, serviceVars, reportVars
<1>1. CASE Tick
  <2>1. now' \in StartTime .. MaxTime
    BY <1>1, ConstantsAssumption DEF Tick
  <2>2. QED
    BY <1>1, <2>1 DEF Tick
<1>2. CASE SpawnServices
  <2>1. spawned' \in 0 .. NumServices /\ spawned + 1 \in Service
    BY <1>2, ConstantsAssumption DEF SpawnServices, Service
  <2>2. failingSince' \in [Service -> Time]
    BY <1>2, FirstService DEF SpawnServices
  <2>3. heart' \in [Service -> Time]
    BY <1>2, NowIsTime DEF SpawnServices, StartTask
  <2>4. handle' \in [Service -> HandleState]
    BY <1>2 DEF SpawnServices, StartTask, HandleState
  <2>5. QED
    BY <1>2, <2>1, <2>2, <2>3, <2>4 DEF SpawnServices
<1>3. ASSUME NEW p \in Probes, Respond(p)
      PROVE  TypeOK'
  <2>1. dead' \in [Checkers -> SUBSET Service]
    BY <1>3 DEF Respond
  <2>2. since' \in [Checkers -> [Service -> Time]]
    BY <1>3, FirstService DEF Respond
  <2>3. pc' \in [Checkers -> MonitorPc \cup ProbePc]
    BY <1>3, Labels DEF Respond, Goto
  <2>4. answer' \in [Probes -> {"none", "success", "fail"}]
    BY <1>3 DEF Respond
  <2>5. QED
    BY <1>3, <2>1, <2>2, <2>3, <2>4 DEF Respond
<1>4. ASSUME NEW s \in Service, TaskStep(s)
      PROVE  TypeOK'
  <2>1. CASE Beat(s)
    <3>1. heart' \in [Service -> Time]
      BY <2>1, NowIsTime DEF Beat
    <3>2. QED
      BY <2>1, <3>1 DEF Beat
  <2>2. CASE Panic(s) \/ AbortLands(s)
    <3>1. handle' \in [Service -> HandleState]
      BY <2>2 DEF Panic, AbortLands, HandleState
    <3>2. QED
      BY <2>2, <3>1 DEF Panic, AbortLands
  <2>3. CASE Diagnose(s)
    <3>1. healthy' \in [Service -> BOOLEAN]
      BY <2>3 DEF Diagnose
    <3>2. QED
      BY <2>3, <3>1 DEF Diagnose
  <2>4. QED
    BY <1>4, <2>1, <2>2, <2>3 DEF TaskStep
<1>5. QED
  BY <1>1, <1>2, <1>3, <1>4

LEMMA TypeOKStep == TypeOK /\ [Next]_vars => TypeOK'
<1> SUFFICES ASSUME TypeOK, [Next]_vars
             PROVE  TypeOK'
  OBVIOUS
<1>1. CASE UNCHANGED vars
  BY <1>1 DEF vars, serviceVars, reportVars, TypeOK
<1>2. ASSUME NEW m \in Monitors, Monitor(m)
      PROVE  TypeOK'
  BY <1>2, CheckTypeOK, RecoveryTypeOK DEF Monitor, Checkers
<1>3. ASSUME NEW p \in Probes, Probe(p)
      PROVE  TypeOK'
  BY <1>3, CheckTypeOK, OtherTypeOK DEF Probe, ProbeStep, Checkers
<1>4. CASE Tick \/ SpawnServices \/ \E s \in Service : Task(s)
  BY <1>4, OtherTypeOK DEF Task
<1>5. QED
  BY <1>1, <1>2, <1>3, <1>4 DEF Next

\* Every variable of the orchestrator keeps its type; in particular no time
\* that is stored or reported lies beyond the clock's current bound.
THEOREM TypeCorrect == Spec => []TypeOK
  BY InitTypeOK, TypeOKStep, PTL DEF Spec

-----------------------------------------------------------------------------
(***************************************************************************)
(* The safety of restarting.  AtMostOneTask and NeverForgotten follow from *)
(* SafetyInv; AwaitsAborted is inductive only together with the exclusion  *)
(* that the handle's mutex provides.                                       *)
(***************************************************************************)
NoneDetached == \A s \in Service : detached[s] = 0

Exclusion ==
  \A m, n \in Monitors :
    pc[m] \in {"join", "reset"} /\ Holds(n, at[m]) => m = n

SafetyInv == NoneDetached /\ NeverForgotten /\ Exclusion /\ AwaitsAborted

LEMMA InitSafetyInv == Init => SafetyInv
<1> SUFFICES ASSUME Init PROVE SafetyInv
  OBVIOUS
<1> \A m \in Monitors : pc[m] = "check"
  BY DEF Init, Checkers
<1>1. NoneDetached /\ Exclusion /\ AwaitsAborted
  BY DEF Init, NoneDetached, Exclusion, AwaitsAborted, Holds
<1>2. NeverForgotten
  BY DEF Init, NeverForgotten, Service
<1>3. QED
  BY <1>1, <1>2 DEF SafetyInv

\* A step that leaves the handles alone, and moves at most one checker that
\* is outside of restart before and after it, keeps the invariant.
LEMMA OutsideRestart ==
  ASSUME SafetyInv, TypeOK, NEW c \in Checkers,
         UNCHANGED <<handle, detached, spawned>>,
         pc[c] \notin {"join", "spawn", "reset"},
         pc'[c] \notin {"join", "spawn", "reset"},
         \A d \in Checkers \ {c} : pc'[d] = pc[d] /\ at'[d] = at[d]
  PROVE  SafetyInv'
<1> \A m \in Monitors : pc'[m] \in {"join", "spawn", "reset"} =>
                          pc[m] = pc'[m] /\ at[m] = at'[m]
  BY DEF Checkers
<1> \A m \in Monitors : pc[m] \in {"join", "spawn", "reset"} =>
                          pc[m] = pc'[m] /\ at[m] = at'[m]
  BY DEF Checkers
<1>1. NoneDetached'
  BY DEF SafetyInv, NoneDetached
<1>2. NeverForgotten'
  BY DEF SafetyInv, NeverForgotten
<1>3. Exclusion'
  BY DEF SafetyInv, Exclusion, Holds
<1>4. AwaitsAborted'
  BY DEF SafetyInv, AwaitsAborted
<1>5. QED
  BY <1>1, <1>2, <1>3, <1>4 DEF SafetyInv

\* The steps of restart.
LEMMA RestartSafetyInv ==
  ASSUME SafetyInv, TypeOK, NEW m \in Monitors, RestartStep(m)
  PROVE  SafetyInv'
<1> USE DEF SafetyInv
<1> m \in Checkers /\ at[m] \in Service
  BY DEF Checkers, TypeOK
<1>0. ASSUME NEW l, Goto(m, l), UNCHANGED at
      PROVE  /\ pc'[m] = l
             /\ \A n \in Monitors : at'[n] = at[n]
             /\ \A n \in Monitors \ {m} : pc'[n] = pc[n]
  BY <1>0 DEF Goto, TypeOK, Checkers
\* abort and its await end: the handle of a finished task becomes None.
<1>1. ASSUME ~ Pending(at[m]), DropHandle(at[m]), Goto(m, "spawn"),
             UNCHANGED <<at, spawned>>,
             pc[m] = "join" \/ ~ Locked(at[m])
      PROVE  SafetyInv'
  <2>1. NoneDetached'
    BY <1>1 DEF DropHandle, NoneDetached, TypeOK
  <2> \A s \in Service : s # at[m] => handle'[s] = handle[s]
    BY <1>1 DEF DropHandle, TypeOK
  <2>2. NeverForgotten'
    <3> SUFFICES ASSUME NEW s \in Service, handle'[s] = "none", ~ (s > spawned')
                 PROVE  \E n \in Monitors : pc'[n] = "spawn" /\ at'[n] = s
      BY DEF NeverForgotten
    <3>1. CASE s = at[m]
      BY <1>0, <1>1, <3>1
    <3>2. CASE s # at[m]
      <4>1. PICK n \in Monitors : pc[n] = "spawn" /\ at[n] = s
        BY <1>1, <3>2 DEF NeverForgotten
      <4>2. QED
        BY <1>0, <1>1, <3>2, <4>1
    <3>3. QED
      BY <3>1, <3>2
  <2>3. Exclusion'
    BY <1>0, <1>1 DEF Exclusion, Holds
  <2>4. AwaitsAborted'
    <3> SUFFICES ASSUME NEW n \in Monitors, pc'[n] = "join"
                 PROVE  handle'[at'[n]] \in {"aborted", "done"}
      BY DEF AwaitsAborted
    <3>1. n # m /\ pc[n] = "join" /\ at'[n] = at[n] /\ at[n] \in Service
      BY <1>0, <1>1 DEF TypeOK, Checkers
    <3>2. at[n] # at[m]
      BY <1>1, <3>1 DEF Exclusion, Holds, Locked
    <3>3. QED
      BY <3>1, <3>2 DEF AwaitsAborted
  <2>5. QED
    BY <2>1, <2>2, <2>3, <2>4
<1>2. CASE AbortFinished(m)
  BY <1>1, <1>2 DEF AbortFinished
<1>3. CASE Join(m)
  BY <1>1, <1>3 DEF Join
\* abort takes the mutex and tells the task to end.
<1>4. CASE AbortPending(m)
  <2> handle' = [handle EXCEPT ![at[m]] = "aborted"] /\ UNCHANGED <<at, spawned, detached>>
    BY <1>4 DEF AbortPending
  <2> Goto(m, "join") /\ pc[m] = "abort" /\ ~ Locked(at[m])
    BY <1>4 DEF AbortPending
  <2>1. NoneDetached'
    BY DEF NoneDetached
  <2>2. NeverForgotten'
    BY <1>0 DEF NeverForgotten, TypeOK
  <2>3. Exclusion'
    BY <1>0 DEF Exclusion, Holds, Locked
  <2>4. AwaitsAborted'
    BY <1>0 DEF AwaitsAborted, TypeOK, Checkers
  <2>5. QED
    BY <2>1, <2>2, <2>3, <2>4
\* the mutex is given back without touching the handle.
<1>5. ASSUME UNCHANGED <<handle, detached, spawned, at>>, Goto(m, "scan"),
             pc[m] = "spawn" => handle[at[m]] # "none"
      PROVE  SafetyInv'
  <2>1. NoneDetached'
    BY <1>5 DEF NoneDetached
  <2>2. NeverForgotten'
    BY <1>0, <1>5 DEF NeverForgotten
  <2>3. Exclusion'
    BY <1>0, <1>5 DEF Exclusion, Holds
  <2>4. AwaitsAborted'
    BY <1>0, <1>5 DEF AwaitsAborted
  <2>5. QED
    BY <2>1, <2>2, <2>3, <2>4
<1>6. CASE JoinTimeout(m)
  BY <1>5, <1>6 DEF JoinTimeout, serviceVars
<1>7. CASE SpawnBails(m)
  BY <1>5, <1>7 DEF SpawnBails, serviceVars
<1>8. CASE SpawnResets(m)
  BY <1>5, <1>8 DEF SpawnResets
\* spawn takes the mutex; no monitor awaits the end of the task it starts.
<1>9. CASE SpawnTask(m)
  <2> handle' = [handle EXCEPT ![at[m]] = "running"] /\ UNCHANGED <<at, spawned, detached>>
    BY <1>9 DEF SpawnTask, StartTask
  <2> Goto(m, "reset") /\ pc[m] = "spawn" /\ ~ Locked(at[m])
    BY <1>9 DEF SpawnTask
  <2>1. NoneDetached'
    BY DEF NoneDetached
  <2>2. NeverForgotten'
    BY <1>0 DEF NeverForgotten, TypeOK
  <2>3. Exclusion'
    BY <1>0 DEF Exclusion, Holds, Locked
  <2>4. AwaitsAborted'
    BY <1>0 DEF AwaitsAborted, Locked, Holds, TypeOK, Checkers
  <2>5. QED
    BY <2>1, <2>2, <2>3, <2>4
<1>10. QED
  BY <1>2, <1>3, <1>4, <1>6, <1>7, <1>8, <1>9 DEF RestartStep

\* The steps of check and of the loops around it never take the mutex.
LEMMA WatchSafetyInv ==
  ASSUME SafetyInv, TypeOK, NEW c \in Checkers,
         \/ CheckStep(c)
         \/ c \in Probes /\ Respond(c)
         \/ c \in Monitors /\ MonitorStep(c) /\ ~ RestartStep(c)
  PROVE  SafetyInv'
<1> USE DEF serviceVars, reportVars, TypeOK
<1>1. UNCHANGED <<handle, detached, spawned>>
  BY DEF CheckStep, BeginCheck, LoadHeart, AskHealth, ClearFailing, MarkFailing,
         Respond, MonitorStep, DecideRestart, TooRecent, RoundDone, Wake
<1>2. pc[c] \notin {"join", "spawn", "reset"}
  BY DEF CheckStep, BeginCheck, LoadHeart, AskHealth, ClearFailing, MarkFailing,
         Respond, MonitorStep, DecideRestart, TooRecent, RoundDone, Wake
<1>3. pc'[c] \notin {"join", "spawn", "reset"}
  BY DEF CheckStep, BeginCheck, LoadHeart, AskHealth, ClearFailing, MarkFailing,
         Respond, MonitorStep, DecideRestart, TooRecent, RoundDone, Wake, Goto,
         Advance
<1>4. \A d \in Checkers \ {c} : pc'[d] = pc[d]
  BY DEF CheckStep, BeginCheck, LoadHeart, AskHealth, ClearFailing, MarkFailing,
         Respond, MonitorStep, DecideRestart, TooRecent, RoundDone, Wake, Goto,
         Advance
<1>5. \A d \in Checkers \ {c} : at'[d] = at[d]
  BY DEF CheckStep, BeginCheck, LoadHeart, AskHealth, ClearFailing, MarkFailing,
         Respond, MonitorStep, DecideRestart, TooRecent, RoundDone, Wake,
         Advance, Consume
<1>6. QED
  BY <1>1, <1>2, <1>3, <1>4, <1>5, OutsideRestart

\* The clock, spawn_services and the tasks themselves.
LEMMA OtherSafetyInv ==
  ASSUME SafetyInv, TypeOK,
         Tick \/ SpawnServices \/ \E s \in Service : TaskStep(s)
  PROVE  SafetyInv'
<1> USE DEF serviceVars, reportVars, SafetyInv
<1>0. UNCHANGED <<detached, pc, at>>
  BY DEF Tick, SpawnServices, TaskStep, Beat, Panic, AbortLands, Diagnose
<1>1. NoneDetached' /\ Exclusion'
  BY <1>0 DEF NoneDetached, Exclusion, Holds
<1>2. ASSUME UNCHANGED <<handle, spawned>>
      PROVE  NeverForgotten' /\ AwaitsAborted'
  BY <1>0, <1>2 DEF NeverForgotten, AwaitsAborted
<1>3. CASE SpawnServices
  <2> spawned + 1 \in Service /\ spawned \in Nat
    BY <1>3, ConstantsAssumption DEF SpawnServices, Service, TypeOK
  <2> /\ handle' = [handle EXCEPT ![spawned + 1] = "running"]
      /\ handle[spawned + 1] = "none"
      /\ spawned' = spawned + 1
    BY <1>3 DEF SpawnServices, StartTask
  <2>1. NeverForgotten'
    <3> SUFFICES ASSUME NEW s \in Service, handle'[s] = "none", ~ (s > spawned')
                 PROVE  \E n \in Monitors : pc'[n] = "spawn" /\ at'[n] = s
      BY DEF NeverForgotten
    <3>1. s # spawned + 1 /\ handle[s] = "none"
      BY DEF TypeOK
    <3>2. ~ (s > spawned)
      BY <3>1 DEF Service
    <3>3. QED
      BY <1>0, <3>1, <3>2 DEF NeverForgotten
  <2>2. AwaitsAborted'
    BY <1>0 DEF AwaitsAborted, TypeOK, Checkers
  <2>3. QED
    BY <1>1, <2>1, <2>2
<1>4. ASSUME NEW s \in Service, Panic(s) \/ AbortLands(s)
      PROVE  SafetyInv'
  <2> handle' = [handle EXCEPT ![s] = "done"] /\ UNCHANGED spawned
    BY <1>4 DEF Panic, AbortLands
  <2>1. NeverForgotten'
    BY <1>0 DEF NeverForgotten, TypeOK
  <2>2. AwaitsAborted'
    BY <1>0 DEF AwaitsAborted, TypeOK, Checkers
  <2>3. QED
    BY <1>1, <2>1, <2>2
<1>5. CASE Tick
  BY <1>1, <1>2, <1>5 DEF Tick
<1>6. ASSUME NEW s \in Service, Beat(s) \/ Diagnose(s)
      PROVE  SafetyInv'
  BY <1>1, <1>2, <1>6 DEF Beat, Diagnose
<1>7. QED
  BY <1>3, <1>4, <1>5, <1>6 DEF TaskStep

LEMMA SafetyInvStep == SafetyInv /\ TypeOK /\ [Next]_vars => SafetyInv'
<1> SUFFICES ASSUME SafetyInv, TypeOK, [Next]_vars
             PROVE  SafetyInv'
  OBVIOUS
<1>1. CASE UNCHANGED vars
  BY <1>1 DEF vars, serviceVars, SafetyInv, NoneDetached, NeverForgotten,
              Exclusion, Holds, AwaitsAborted
<1>2. ASSUME NEW m \in Monitors, Monitor(m)
      PROVE  SafetyInv'
  BY <1>2, RestartSafetyInv, WatchSafetyInv DEF Monitor, Checkers
<1>3. ASSUME NEW p \in Probes, Probe(p)
      PROVE  SafetyInv'
  BY <1>3, WatchSafetyInv DEF Probe, ProbeStep, Checkers
<1>4. CASE Tick \/ SpawnServices \/ \E s \in Service : Task(s)
  BY <1>4, OtherSafetyInv DEF Task
<1>5. QED
  BY <1>1, <1>2, <1>3, <1>4 DEF Next

\* Restarts are safe for any number of monitors: no task is detached, one monitor
\* at a time holds a service's mutex, no service is forgotten, and abort awaits
\* what it aborted.
THEOREM SafetyInvariant == Spec => []SafetyInv
  BY InitSafetyInv, TypeCorrect, SafetyInvStep, PTL DEF Spec

\* Whatever the number of monitors, no service ever has two tasks at once:
\* a handle is only dropped when its task is over, so none is ever detached.
THEOREM OneTask == Spec => []AtMostOneTask
<1>1. SafetyInv => AtMostOneTask
  BY DEF SafetyInv, NoneDetached, AtMostOneTask, LiveTasks
<1>2. QED
  BY SafetyInvariant, <1>1, PTL

\* A started service has a handle unless a monitor is about to spawn it.
THEOREM NoneForgotten == Spec => []NeverForgotten
<1>1. SafetyInv => NeverForgotten
  BY DEF SafetyInv
<1>2. QED
  BY SafetyInvariant, <1>1, PTL

\* Under its timeout, abort awaits the task it aborted and no other.
THEOREM AbortAwaitsAborted == Spec => []AwaitsAborted
<1>1. SafetyInv => AwaitsAborted
  BY DEF SafetyInv
<1>2. QED
  BY SafetyInvariant, <1>1, PTL

-----------------------------------------------------------------------------
(***************************************************************************)
(* The health endpoint.  Beats only ever raise a heart, so what a probe    *)
(* has seen of the services behind it stays true while it goes on.         *)
(***************************************************************************)
Fresh(p, s) == heart[s] + Ttl[s] > ts[p]

Walk(p) ==
  /\ pc[p] \in CheckPc => \A s \in Service : s < at[p] => s \in dead[p] \/ Fresh(p, s)
  /\ pc[p] \in {"health", "clear", "mark"} => lastBeat[p] <= heart[at[p]]
  /\ pc[p] = "respond" => \A s \in Service : s \in dead[p] \/ Fresh(p, s)
  /\ pc[p] = "idle" /\ answer[p] = "success" => \A s \in Service : Fresh(p, s)

HeartInv == \A s \in Service : heart[s] <= now

HeartRises == \A s \in Service : heart'[s] >= heart[s]

LEMMA NumbersTypes ==
  ASSUME TypeOK
  PROVE  /\ \A s \in Service : heart[s] \in Nat /\ Ttl[s] \in Nat
         /\ \A c \in Checkers : ts[c] \in Nat /\ lastBeat[c] \in Nat /\ at[c] \in Service
         /\ now \in Nat /\ NumServices \in Nat
         /\ \A s \in Service : s \in Nat /\ s <= NumServices
  BY ConstantsAssumption DEF TypeOK, Time, Service

\* No step makes a service look older than it did.
LEMMA HeartStep ==
  ASSUME TypeOK, HeartInv, [Next]_vars
  PROVE  HeartInv' /\ HeartRises
<1> USE DEF HeartInv, HeartRises, serviceVars
<1>1. ASSUME UNCHANGED heart, now' = now \/ now' = now + 1
      PROVE  HeartInv' /\ HeartRises
  BY <1>1, NumbersTypes
<1>2. ASSUME NEW s \in Service, heart' = [heart EXCEPT ![s] = now], UNCHANGED now
      PROVE  HeartInv' /\ HeartRises
  BY <1>2, NumbersTypes DEF TypeOK
<1>3. CASE UNCHANGED vars
  BY <1>1, <1>3 DEF vars
<1>4. CASE Tick
  BY <1>1, <1>4 DEF Tick
<1>5. CASE SpawnServices
  <2>1. spawned + 1 \in Service
    BY <1>5, ConstantsAssumption DEF SpawnServices, Service, TypeOK
  <2>2. QED
    BY <1>2, <1>5, <2>1 DEF SpawnServices, StartTask
<1>6. ASSUME NEW c \in Checkers, CheckStep(c) \/ Respond(c)
      PROVE  HeartInv' /\ HeartRises
  <2>1. UNCHANGED <<heart, now>>
    BY <1>6 DEF CheckStep, BeginCheck, LoadHeart, AskHealth, ClearFailing,
                MarkFailing, Respond
  <2>2. QED
    BY <1>1, <2>1
<1>7. ASSUME NEW m \in Monitors, MonitorStep(m), ~ CheckStep(m)
      PROVE  HeartInv' /\ HeartRises
  <2>1. CASE SpawnTask(m)
    <3>1. at[m] \in Service
      BY NumbersTypes DEF Checkers
    <3>2. QED
      BY <1>2, <2>1, <3>1 DEF SpawnTask, StartTask
  <2>2. CASE ~ SpawnTask(m)
    <3>1. UNCHANGED <<heart, now>>
      BY <1>7, <2>2 DEF MonitorStep, DecideRestart, TooRecent, RoundDone, Wake,
           RestartStep, AbortFinished, AbortPending, Join, JoinTimeout, SpawnBails,
           SpawnResets
    <3>2. QED
      BY <1>1, <3>1
  <2>3. QED
    BY <2>1, <2>2
<1>8. ASSUME NEW s \in Service, TaskStep(s)
      PROVE  HeartInv' /\ HeartRises
  BY <1>1, <1>2, <1>8 DEF TaskStep, Beat, Panic, AbortLands, Diagnose
<1>9. QED
  BY <1>3, <1>4, <1>5, <1>6, <1>7, <1>8
  DEF Next, Monitor, Probe, ProbeStep, Task, Checkers

\* A probe that does not move keeps what it knows.
LEMMA WalkFrame ==
  ASSUME TypeOK, NEW p \in Probes, Walk(p), HeartRises, TypeOK',
         pc'[p] = pc[p], at'[p] = at[p], ts'[p] = ts[p], lastBeat'[p] = lastBeat[p],
         dead'[p] = dead[p], answer'[p] = answer[p]
  PROVE  Walk(p)'
<1> p \in Checkers
  BY DEF Checkers
<1>1. \A s \in Service : Fresh(p, s) => Fresh(p, s)'
  BY NumbersTypes DEF Fresh, HeartRises, TypeOK, Time
<1>2. lastBeat[p] <= heart[at[p]] => lastBeat'[p] <= heart'[at'[p]]
  BY NumbersTypes DEF HeartRises, TypeOK, Time
<1>3. QED
  BY <1>1, <1>2 DEF Walk

\* A step of the probe itself.
LEMMA WalkStep ==
  ASSUME TypeOK, NEW p \in Probes, Walk(p), CheckStep(p) \/ Respond(p)
  PROVE  Walk(p)'
<1> USE DEF Goto
<1> p \in Checkers /\ p \notin Monitors
  BY ProcessesAssumption DEF Checkers
<1>1. CASE BeginCheck(p)
  <2>1. pc'[p] = "heart" /\ at'[p] = 1
    BY <1>1 DEF BeginCheck, TypeOK
  <2>2. QED
    BY <2>1, NumbersTypes DEF Walk, CheckPc, Service
<1>2. CASE LoadHeart(p)
  <2>1. /\ pc[p] = "heart" /\ pc'[p] = "health"
        /\ lastBeat'[p] = heart[at[p]]
        /\ UNCHANGED <<heart, at, ts, dead>>
    BY <1>2 DEF LoadHeart, TypeOK, serviceVars
  <2>2. lastBeat'[p] <= heart[at[p]]
    BY <2>1, NumbersTypes
  <2>3. QED
    BY <2>1, <2>2 DEF Walk, CheckPc, Fresh
<1>3. CASE AskHealth(p)
  <2>1. /\ pc[p] = "health" /\ pc'[p] \in {"clear", "mark"}
        /\ UNCHANGED <<heart, at, ts, dead, lastBeat>>
    BY <1>3 DEF AskHealth, TypeOK, serviceVars, reportVars
  <2>2. QED
    BY <2>1 DEF Walk, CheckPc, Fresh
\* The service at hand is reported dead or was fresh when its heart was read.
<1>4. ASSUME Advance(p), UNCHANGED <<heart, ts>>, pc[p] \in {"clear", "mark"},
             dead[p] \subseteq dead'[p], at[p] \in dead'[p] \/ ~ Silent(p)
      PROVE  Walk(p)'
  <2>1. at[p] \in dead'[p] \/ Fresh(p, at[p])
    <3>1. ~ Silent(p) => ts[p] - lastBeat[p] < Ttl[at[p]]
      BY NumbersTypes DEF Silent
    <3>2. lastBeat[p] <= heart[at[p]]
      BY <1>4 DEF Walk
    <3>3. QED
      BY <1>4, <3>1, <3>2, NumbersTypes DEF Fresh
  <2>2. \A s \in Service : s <= at[p] => s \in dead'[p] \/ Fresh(p, s)
    <3>1. \A s \in Service : s < at[p] => s \in dead'[p] \/ Fresh(p, s)
      BY <1>4 DEF Walk, CheckPc
    <3>2. QED
      BY <2>1, <3>1, NumbersTypes
  <2>3. CASE at[p] < NumServices
    <3>1. at'[p] = at[p] + 1 /\ pc'[p] = "heart"
      BY <1>4, <2>3 DEF Advance, TypeOK
    <3>2. \A s \in Service : s < at'[p] => s <= at[p]
      BY <3>1, NumbersTypes
    <3>3. QED
      BY <1>4, <2>2, <3>1, <3>2 DEF Walk, Fresh
  <2>4. CASE ~ (at[p] < NumServices)
    <3>1. pc'[p] = "respond"
      BY <1>4, <2>4 DEF Advance, TypeOK
    <3>2. \A s \in Service : s <= at[p]
      BY <2>4, NumbersTypes
    <3>3. QED
      BY <1>4, <2>2, <3>1, <3>2 DEF Walk, Fresh, CheckPc
  <2>5. QED
    BY <2>3, <2>4
<1>5. CASE ClearFailing(p)
  <2>1. CASE Silent(p)
    <3>1. dead' = [dead EXCEPT ![p] = dead[p] \cup {at[p]}]
      BY <1>5, <2>1 DEF ClearFailing, ReportDead
    <3>2. dead[p] \subseteq dead'[p] /\ at[p] \in dead'[p]
      BY <3>1 DEF TypeOK
    <3>3. QED
      BY <1>4, <1>5, <3>2 DEF ClearFailing
  <2>2. CASE ~ Silent(p)
    BY <1>4, <1>5, <2>2 DEF ClearFailing
  <2>3. QED
    BY <2>1, <2>2
<1>6. CASE MarkFailing(p)
  <2>1. dead' = [dead EXCEPT ![p] = dead[p] \cup {at[p]}]
    BY <1>6 DEF MarkFailing, ReportDead
  <2>2. dead[p] \subseteq dead'[p] /\ at[p] \in dead'[p]
    BY <2>1 DEF TypeOK
  <2>3. QED
    BY <1>4, <1>6, <2>2 DEF MarkFailing
<1>7. CASE Respond(p)
  <2>1. /\ pc[p] = "respond" /\ pc'[p] = "idle"
        /\ answer'[p] = "success" => dead[p] = {}
        /\ UNCHANGED <<heart, ts>>
    BY <1>7 DEF Respond, TypeOK, serviceVars
  <2>2. QED
    BY <2>1 DEF Walk, Fresh, CheckPc
<1>8. QED
  BY <1>1, <1>2, <1>3, <1>5, <1>6, <1>7 DEF CheckStep

\* A checker never touches what another one knows.
LEMMA OthersStay ==
  ASSUME TypeOK, NEW c \in Checkers, NEW p \in Probes, p # c,
         \/ CheckStep(c)
         \/ c \in Probes /\ Respond(c)
         \/ c \in Monitors /\ MonitorStep(c) /\ ~ CheckStep(c)
  PROVE  /\ pc'[p] = pc[p] /\ at'[p] = at[p] /\ ts'[p] = ts[p]
         /\ lastBeat'[p] = lastBeat[p] /\ dead'[p] = dead[p] /\ answer'[p] = answer[p]
<1> USE DEF Goto, serviceVars, reportVars, TypeOK, CheckStep, BeginCheck, LoadHeart,
            AskHealth, ClearFailing, MarkFailing, Respond, MonitorStep, DecideRestart,
            TooRecent, RoundDone, Wake, RestartStep, AbortFinished, AbortPending,
            Join, JoinTimeout, SpawnTask, SpawnBails, SpawnResets
<1> p \in Checkers
  BY DEF Checkers
<1>1. pc'[p] = pc[p]
  BY DEF Advance
<1>2. at'[p] = at[p]
  BY DEF Advance, Consume
<1>3. ts'[p] = ts[p]
  OBVIOUS
<1>4. lastBeat'[p] = lastBeat[p]
  BY DEF Advance
<1>5. dead'[p] = dead[p]
  BY DEF ReportDead, Consume
<1>6. answer'[p] = answer[p]
  OBVIOUS
<1>7. QED
  BY <1>1, <1>2, <1>3, <1>4, <1>5, <1>6

\* The answer "success" of the health endpoint is never wrong, whatever
\* restarts and other checks run meanwhile.
THEOREM ProbesAreRight == Spec => []SuccessIsEarned
<1> DEFINE Knows == HeartInv /\ \A p \in Probes : Walk(p)
<1>1. Init => Knows
  <2> SUFFICES ASSUME Init PROVE Knows
    OBVIOUS
  <2>1. HeartInv
    BY ConstantsAssumption DEF Init, HeartInv
  <2>2. \A p \in Probes : Walk(p)
    BY ProcessesAssumption DEF Init, Walk, CheckPc, Checkers
  <2>3. QED
    BY <2>1, <2>2
<1>2. TypeOK /\ TypeOK' /\ Knows /\ [Next]_vars => Knows'
  <2> SUFFICES ASSUME TypeOK, TypeOK', Knows, [Next]_vars, NEW p \in Probes
               PROVE  Walk(p)'
    BY HeartStep
  <2> HeartRises
    BY HeartStep
  <2>1. ASSUME UNCHANGED <<pc, at, ts, lastBeat, dead, answer>>
        PROVE  Walk(p)'
    BY <2>1, WalkFrame
  <2>2. CASE UNCHANGED vars
    BY <2>1, <2>2 DEF vars, reportVars
  <2>3. CASE Tick \/ SpawnServices
    BY <2>1, <2>3 DEF Tick, SpawnServices, reportVars
  <2>4. ASSUME NEW s \in Service, Task(s)
        PROVE  Walk(p)'
    BY <2>1, <2>4 DEF Task, TaskStep, Beat, Panic, AbortLands, Diagnose, reportVars
  <2>5. ASSUME NEW m \in Monitors, Monitor(m)
        PROVE  Walk(p)'
    <3>1. m \in Checkers /\ m # p
      BY ProcessesAssumption DEF Checkers
    <3>2. QED
      BY <2>5, <3>1, OthersStay, WalkFrame DEF Monitor
  <2>6. ASSUME NEW q \in Probes, Probe(q)
        PROVE  Walk(p)'
    <3>1. CASE q = p
      BY <2>6, <3>1, WalkStep DEF Probe, ProbeStep
    <3>2. CASE q # p
      BY <2>6, <3>2, OthersStay, WalkFrame DEF Probe, ProbeStep, Checkers
    <3>3. QED
      BY <3>1, <3>2
  <2>7. QED
    BY <2>2, <2>3, <2>4, <2>5, <2>6 DEF Next
<1>3. Knows => SuccessIsEarned
  BY DEF Walk, SuccessIsEarned, Fresh
<1>4. QED
  BY <1>1, <1>2, <1>3, TypeCorrect, PTL DEF Spec

-----------------------------------------------------------------------------
(***************************************************************************)
(* The refinement.  With no task detached, the handle of a service tells   *)
(* everything there is to know of its task.                                *)
(***************************************************************************)
Tasks == [s \in Service |-> TaskOf(s)]

HandleTask(h) ==
  IF h = "running" THEN "running" ELSE IF h = "aborted" THEN "told" ELSE "none"

\* The abstract tasks, before and after a step.
LEMMA TasksFromHandles ==
  /\ TypeOK /\ NoneDetached => Tasks = [s \in Service |-> HandleTask(handle[s])]
  /\ TypeOK' /\ NoneDetached' => Tasks' = [s \in Service |-> HandleTask(handle'[s])]
<1>1. TypeOK /\ NoneDetached => \A s \in Service : TaskOf(s) = HandleTask(handle[s])
  BY DEF TypeOK, NoneDetached, TaskOf, LiveTasks, Pending, HandleTask, HandleState
<1>2. TypeOK' /\ NoneDetached' => \A s \in Service : TaskOf(s)' = HandleTask(handle'[s])
  BY DEF TypeOK, NoneDetached, TaskOf, LiveTasks, Pending, HandleTask, HandleState
<1>3. QED
  BY <1>1, <1>2 DEF Tasks

\* A task that begins, and one that is told to end or is over.
LEMMA HandleChange ==
  ASSUME TypeOK, TypeOK', NoneDetached, NoneDetached', NEW s \in Service, NEW h \in HandleState,
         handle' = [handle EXCEPT ![s] = h]
  PROVE  Tasks' = [Tasks EXCEPT ![s] = HandleTask(h)]
<1>1. \A r \in Service : handle'[r] = IF r = s THEN h ELSE handle[r]
  BY DEF TypeOK
<1>2. Tasks = [r \in Service |-> HandleTask(handle[r])]
  BY TasksFromHandles
<1>3. Tasks' = [r \in Service |-> HandleTask(handle'[r])]
  BY TasksFromHandles
<1>4. \A r \in Service : HandleTask(handle'[r]) = IF r = s THEN HandleTask(h) ELSE HandleTask(handle[r])
  BY <1>1
<1>5. QED
  BY <1>2, <1>3, <1>4

\* What leaves the handles alone leaves the tasks alone.
LEMMA HandlesStay ==
  ASSUME handle' = handle, detached' = detached
  PROVE  Tasks' = Tasks
  BY DEF Tasks, TaskOf, LiveTasks, Pending

\* Every step of the orchestrator is a step of Supervision or changes nothing
\* that Supervision can see.
LEMMA SupervisionStep ==
  ASSUME TypeOK, TypeOK', SafetyInv, SafetyInv', [Next]_vars
  PROVE  Promise!Next \/ (now' = now /\ heart' = heart /\ Tasks' = Tasks)
<1> DEFINE Stutter == now' = now /\ heart' = heart /\ Tasks' = Tasks
<1> NoneDetached /\ NoneDetached'
  BY DEF SafetyInv
<1> USE DEF serviceVars, reportVars
<1>t. /\ \A s \in Service : Tasks[s] = HandleTask(handle[s])
      /\ \A s \in Service : handle[s] \in HandleState
  BY TasksFromHandles DEF TypeOK
<1>a. ASSUME NEW s \in Service, StartTask(s), now' = now
      PROVE  Promise!Next
  <2>1. handle[s] = "none" /\ heart' = [heart EXCEPT ![s] = now]
    BY <1>a DEF StartTask
  <2>2. Tasks[s] = "none"
    BY <1>t, <2>1 DEF HandleTask
  <2>3. Tasks' = [Tasks EXCEPT ![s] = "running"]
    BY <1>a, HandleChange DEF StartTask, HandleState, HandleTask
  <2>4. Promise!Begin(s)
    BY <1>a, <2>1, <2>2, <2>3 DEF Promise!Begin, Tasks
  <2>5. QED
    BY <2>4 DEF Promise!Next
<1>b. ASSUME NEW s \in Service, handle' = [handle EXCEPT ![s] = "done"], Pending(s),
             now' = now, heart' = heart
      PROVE  Promise!Next
  <2>1. Tasks[s] # "none"
    BY <1>b, <1>t DEF Pending, HandleTask
  <2>2. Tasks' = [Tasks EXCEPT ![s] = "none"]
    BY <1>b, HandleChange DEF HandleState, HandleTask
  <2>3. Promise!End(s)
    BY <1>b, <2>1, <2>2 DEF Promise!End, Tasks
  <2>4. QED
    BY <2>3 DEF Promise!Next
<1>c. ASSUME NEW s \in Service, DropHandle(s), ~ Pending(s), now' = now, heart' = heart
      PROVE  Stutter
  <2>1. handle' = [handle EXCEPT ![s] = "none"]
    BY <1>c DEF DropHandle
  <2>2. Tasks' = [Tasks EXCEPT ![s] = "none"]
    BY <2>1, HandleChange DEF HandleState, HandleTask
  <2>3. Tasks[s] = "none"
    BY <1>c, <1>t DEF Pending, HandleTask, HandleState
  <2>4. QED
    BY <1>c, <2>2, <2>3 DEF Tasks
<1>1. CASE UNCHANGED vars
  BY <1>1, HandlesStay DEF vars
<1>2. CASE Tick
  <2>1. Tasks' = Tasks
    BY <1>2, HandlesStay DEF Tick
  <2>2. Promise!Tick
    BY <1>2, <2>1 DEF Tick, Promise!Tick, Tasks
  <2>3. QED
    BY <2>2 DEF Promise!Next
<1>3. CASE SpawnServices
  <2>1. spawned + 1 \in Service
    BY <1>3, ConstantsAssumption DEF SpawnServices, Service, TypeOK
  <2>2. QED
    BY <1>3, <1>a, <2>1 DEF SpawnServices
<1>4. ASSUME NEW c \in Checkers, CheckStep(c) \/ Respond(c)
      PROVE  Stutter
  BY <1>4, HandlesStay DEF CheckStep, BeginCheck, LoadHeart, AskHealth, ClearFailing,
     MarkFailing, Respond
<1>5. ASSUME NEW m \in Monitors, MonitorStep(m), ~ CheckStep(m)
      PROVE  Promise!Next \/ Stutter
  <2> at[m] \in Service
    BY DEF TypeOK, Checkers
  <2>1. CASE \/ \E s \in Service : DecideRestart(m, s) \/ TooRecent(m, s)
             \/ RoundDone(m) \/ Wake(m) \/ JoinTimeout(m) \/ SpawnBails(m) \/ SpawnResets(m)
    BY <2>1, HandlesStay DEF DecideRestart, TooRecent, RoundDone, Wake, JoinTimeout,
       SpawnBails, SpawnResets
  <2>2. CASE AbortFinished(m) \/ Join(m)
    BY <1>c, <2>2 DEF AbortFinished, Join
  <2>3. CASE SpawnTask(m)
    BY <1>a, <2>3 DEF SpawnTask
  <2>4. CASE AbortPending(m)
    <3>1. handle' = [handle EXCEPT ![at[m]] = "aborted"] /\ now' = now /\ heart' = heart
      BY <2>4 DEF AbortPending
    <3>2. Tasks' = [Tasks EXCEPT ![at[m]] = "told"]
      BY <3>1, HandleChange DEF HandleState, HandleTask
    <3>3. CASE handle[at[m]] = "running"
      <4>1. Promise!Tell(at[m])
        <5>1. Tasks[at[m]] = "running"
          BY <1>t, <3>3 DEF HandleTask
        <5>2. QED
          BY <3>1, <3>2, <5>1 DEF Promise!Tell, Tasks
      <4>2. QED
        BY <4>1 DEF Promise!Next
    <3>4. CASE handle[at[m]] = "aborted"
      <4>1. Tasks[at[m]] = "told"
        BY <1>t, <3>4 DEF HandleTask
      <4>2. QED
        BY <3>1, <3>2, <4>1 DEF Tasks
    <3>5. QED
      BY <2>4, <3>3, <3>4 DEF AbortPending, Pending
  <2>5. QED
    BY <1>5, <2>1, <2>2, <2>3, <2>4 DEF MonitorStep, RestartStep
<1>6. ASSUME NEW s \in Service, TaskStep(s)
      PROVE  Promise!Next \/ Stutter
  <2>1. CASE Beat(s)
    <3>1. /\ Tasks' = Tasks /\ now' = now
          /\ heart' = [heart EXCEPT ![s] = now]
      BY <2>1, HandlesStay DEF Beat
    <3>2. Tasks[s] # "none"
      BY <1>t, <2>1 DEF Beat, LiveTasks, NoneDetached, Pending, HandleTask
    <3>3. Promise!Live(s)
      BY <3>1, <3>2 DEF Promise!Live, Tasks
    <3>4. QED
      BY <3>3 DEF Promise!Next
  <2>2. CASE Panic(s) \/ AbortLands(s)
    <3>1. /\ handle' = [handle EXCEPT ![s] = "done"] /\ Pending(s)
          /\ now' = now /\ heart' = heart
      BY <2>2 DEF Panic, AbortLands, Pending
    <3>2. QED
      BY <1>b, <3>1
  <2>3. CASE Diagnose(s)
    BY <2>3, HandlesStay DEF Diagnose
  <2>4. QED
    BY <1>6, <2>1, <2>2, <2>3 DEF TaskStep
<1>7. QED
  BY <1>1, <1>2, <1>3, <1>4, <1>5, <1>6 DEF Next, Monitor, Probe, ProbeStep, Task, Checkers

\* The orchestrator implements what it promises.
THEOREM ImplementsSupervision == Spec => Supervises
<1>1. Init => Promise!Init
  BY DEF Init, Promise!Init, TaskOf, LiveTasks, Pending
<1>2. TypeOK /\ TypeOK' /\ SafetyInv /\ SafetyInv' /\ [Next]_vars => [Promise!Next]_(Promise!avars)
  BY SupervisionStep DEF Promise!avars, Tasks
<1>3. QED
  BY <1>1, <1>2, TypeCorrect, SafetyInvariant, PTL DEF Spec, Supervises, Promise!Spec

-----------------------------------------------------------------------------
MarkStays ==
  \A s \in Service :
    failingSince[s] # 0 /\ failingSince'[s] # 0 => failingSince'[s] = failingSince[s]

\* A check stores its own time only where there is no mark, and everybody else
\* erases or leaves it.
LEMMA MarkStep == TypeOK /\ [Next]_vars => [MarkStays]_vars
<1> SUFFICES ASSUME TypeOK, Next PROVE MarkStays
  OBVIOUS
<1> USE DEF serviceVars, reportVars
<1>1. ASSUME UNCHANGED failingSince PROVE MarkStays
  BY <1>1 DEF MarkStays
<1>2. ASSUME NEW s \in Service, failingSince' = [failingSince EXCEPT ![s] = 0]
      PROVE  MarkStays
  BY <1>2 DEF TypeOK, MarkStays
<1>3. ASSUME NEW c \in Checkers, CheckStep(c) \/ Respond(c)
      PROVE  MarkStays
  <2>1. at[c] \in Service
    BY DEF TypeOK
  <2>2. CASE ClearFailing(c)
    BY <1>2, <2>1, <2>2 DEF ClearFailing
  <2>3. CASE MarkFailing(c)
    BY <2>1, <2>3 DEF MarkFailing, TypeOK, MarkStays
  <2>4. CASE BeginCheck(c) \/ LoadHeart(c) \/ AskHealth(c) \/ Respond(c)
    BY <1>1, <2>4 DEF BeginCheck, LoadHeart, AskHealth, Respond
  <2>5. QED
    BY <1>3, <2>2, <2>3, <2>4 DEF CheckStep
<1>4. ASSUME NEW m \in Monitors, MonitorStep(m), ~ CheckStep(m)
      PROVE  MarkStays
  <2>1. CASE SpawnResets(m)
    BY <1>2, <2>1 DEF SpawnResets, TypeOK, Checkers
  <2>2. CASE ~ SpawnResets(m)
    BY <1>1, <1>4, <2>2 DEF MonitorStep, RestartStep, DecideRestart, TooRecent,
       RoundDone, Wake, AbortFinished, AbortPending, Join, JoinTimeout, SpawnTask,
       SpawnBails
  <2>3. QED
    BY <2>1, <2>2
<1>5. CASE SpawnServices
  <2>1. spawned + 1 \in Service
    BY <1>5, ConstantsAssumption DEF SpawnServices, Service, TypeOK
  <2>2. QED
    BY <1>2, <1>5, <2>1 DEF SpawnServices
<1>6. CASE Tick \/ \E s \in Service : TaskStep(s)
  BY <1>1, <1>6 DEF Tick, TaskStep, Beat, Panic, AbortLands, Diagnose
<1>7. QED
  BY <1>3, <1>4, <1>5, <1>6 DEF Next, Monitor, Probe, ProbeStep, Task, Checkers

\* Whoever checks, and however the checks interleave, the first observer's mark
\* of a failing health check stays until it is erased.
THEOREM FirstMarkStays == Spec => FailingSinceIsSticky
  BY MarkStep, TypeCorrect, PTL DEF Spec, FailingSinceIsSticky, MarkStays

=============================================================================
