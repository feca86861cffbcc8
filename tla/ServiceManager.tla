--------------------------- MODULE ServiceManager ---------------------------
(***************************************************************************)
(* The service orchestrator of src/src/service_manager.rs.                 *)
(*                                                                         *)
(* A ServiceManager owns a vector of ManagedServices.  spawn_services      *)
(* starts one tokio task per service; afterwards any number of tasks share *)
(* the manager: monitors (monitor_with_recovery: check every service, then *)
(* abort and respawn the ones that are dead for too long) and probes       *)
(* (callers of check that never restart: the http handler of               *)
(* health_endpoint.rs and the loop of ServiceManager::monitor).            *)
(*                                                                         *)
(* One action is one stretch of code between two points where another      *)
(* thread can be observed: an await, or an access to one of the two        *)
(* atomics (heart, failing_health_checks_since).  The clock and the        *)
(* sleeper are injected separately (time.rs), so a sleep and the timeout   *)
(* of abort may end after any number of clock ticks.                       *)
(***************************************************************************)
EXTENDS Integers, FiniteSets

CONSTANTS
  NumServices,          \* length of managed_services
  Monitors,             \* tasks in monitor_with_recovery (one in run_custom)
  Probes,               \* tasks that call check and never restart
  Ttl,                  \* heartbeat_ttl() of every service
  AttemptRecoveryAfter, \* third argument of monitor_with_recovery
  SelfDiagnosing,       \* services whose is_healthy() may turn false
  Blocking,             \* services that may never reach an await again
  Parallel,             \* multi-threaded runtime; FALSE: all on one thread
  StartTime,            \* timestamp at which spawn_services begins
  MaxTime               \* bound: the clock stops here

Service == 1 .. NumServices
Checkers == Monitors \cup Probes
I32Max == 2147483647

(***************************************************************************)
(* Timestamps are i32 in the code.  The bound on the largest sum keeps     *)
(* this module away from its overflow, and StartTime, a Unix time, is      *)
(* larger than any delay that is configured.                               *)
(***************************************************************************)
ASSUME ConstantsAssumption ==
  /\ NumServices \in Nat \ {0}
  /\ Ttl \in [Service -> Nat \ {0}]
  /\ AttemptRecoveryAfter \in Nat
  /\ StartTime \in Nat /\ StartTime > AttemptRecoveryAfter
  /\ MaxTime \in Nat /\ MaxTime >= StartTime
  /\ \A s \in Service : MaxTime + Ttl[s] + AttemptRecoveryAfter <= I32Max

ASSUME ProcessesAssumption ==
  /\ Monitors \cap Probes = {}
  /\ SelfDiagnosing \subseteq Service
  /\ Blocking \subseteq Service
  /\ Parallel \in BOOLEAN
  /\ Blocking # {} => Parallel   \* else a blocked service stops the runtime

VARIABLES
  now,          \* clock.current_timestamp()
  heart,        \* ManagedService.heart: timestamp of the last beat
  failingSince, \* ManagedService.failing_health_checks_since, 0 is "not failing"
  handle,       \* ManagedService.handle and the state of the task it refers to
  detached,     \* number of running tasks whose JoinHandle was dropped
  healthy,      \* what service.is_healthy() returns
  spawned,      \* how many services spawn_services has started
  pc,           \* where each checker is
  at,           \* the service a checker is working on
  ts,           \* the timestamp a check runs with
  lastBeat,     \* the value a check loaded from heart
  dead,         \* ids in ServiceReportSummary.dead, not yet consumed
  since,        \* Unhealthy.since of those reports
  answer        \* last response of the health endpoint to each probe

serviceVars == <<heart, failingSince, handle, detached, healthy>>
reportVars == <<ts, lastBeat, dead, since, answer>>
vars == <<now, serviceVars, spawned, pc, at, reportVars>>

(***************************************************************************)
(* handle is None, or Some of a task that runs, that was told to abort and *)
(* has not reached an await yet, or that is over (aborted or panicked).    *)
(***************************************************************************)
HandleState == {"none", "running", "aborted", "done"}
CheckPc == {"heart", "health", "clear", "mark"}
MonitorPc == CheckPc \cup {"check", "scan", "abort", "join", "spawn", "reset", "sleep"}
ProbePc == CheckPc \cup {"idle", "respond"}
Time == 0 .. MaxTime

TypeOK ==
  /\ now \in StartTime .. MaxTime
  /\ heart \in [Service -> Time]
  /\ failingSince \in [Service -> Time]
  /\ handle \in [Service -> HandleState]
  /\ detached \in [Service -> Nat]
  /\ healthy \in [Service -> BOOLEAN]
  /\ spawned \in 0 .. NumServices
  /\ pc \in [Checkers -> MonitorPc \cup ProbePc]
  /\ at \in [Checkers -> Service]
  /\ ts \in [Checkers -> Time]
  /\ lastBeat \in [Checkers -> Time]
  /\ dead \in [Checkers -> SUBSET Service]
  /\ since \in [Checkers -> [Service -> Time]]
  /\ answer \in [Probes -> {"none", "success", "fail"}]

\* The state register_service leaves: never beaten, no task, nothing failing.
Init ==
  /\ now = StartTime
  /\ heart = [s \in Service |-> 0]
  /\ failingSince = [s \in Service |-> 0]
  /\ handle = [s \in Service |-> "none"]
  /\ detached = [s \in Service |-> 0]
  /\ healthy = [s \in Service |-> TRUE]
  /\ spawned = 0
  /\ pc = [c \in Checkers |-> IF c \in Monitors THEN "check" ELSE "idle"]
  /\ at = [c \in Checkers |-> 1]
  /\ ts = [c \in Checkers |-> 0]
  /\ lastBeat = [c \in Checkers |-> 0]
  /\ dead = [c \in Checkers |-> {}]
  /\ since = [c \in Checkers |-> [s \in Service |-> 0]]
  /\ answer = [p \in Probes |-> "none"]

Goto(c, label) == pc' = [pc EXCEPT ![c] = label]
Earlier(a, b) == IF a < b THEN a ELSE b

-----------------------------------------------------------------------------
(***************************************************************************)
(* The service tasks: user code behind the Service trait.                  *)
(***************************************************************************)

\* The task of s has not ended yet: its JoinHandle is pending.
Pending(s) == handle[s] \in {"running", "aborted"}

\* How many tasks are executing run_forever of s.
LiveTasks(s) == detached[s] + (IF Pending(s) THEN 1 ELSE 0)

\* The task calls Heartbeat::beat; an aborted one may until its next await.
Beat(s) ==
  /\ LiveTasks(s) > 0
  /\ heart' = [heart EXCEPT ![s] = now]
  /\ UNCHANGED <<now, failingSince, handle, detached, healthy, spawned, pc, at,
                 reportVars>>

\* run_forever never returns, so a task that ends by itself has panicked.
Panic(s) ==
  /\ handle[s] = "running"
  /\ handle' = [handle EXCEPT ![s] = "done"]
  /\ UNCHANGED <<now, heart, failingSince, detached, healthy, spawned, pc, at,
                 reportVars>>

\* An aborted task reaches an await (or panics) and is dropped by the runtime.
AbortLands(s) ==
  /\ handle[s] = "aborted"
  /\ handle' = [handle EXCEPT ![s] = "done"]
  /\ UNCHANGED <<now, heart, failingSince, detached, healthy, spawned, pc, at,
                 reportVars>>

\* The service changes its mind about its own health.
Diagnose(s) ==
  /\ s \in SelfDiagnosing
  /\ healthy' = [healthy EXCEPT ![s] = ~ @]
  /\ UNCHANGED <<now, heart, failingSince, handle, detached, spawned, pc, at,
                 reportVars>>

Tick ==
  /\ now < MaxTime
  /\ now' = now + 1
  /\ UNCHANGED <<serviceVars, spawned, pc, at, reportVars>>

-----------------------------------------------------------------------------
(***************************************************************************)
(* ManagedService::spawn, up to its second atomic store: the handle is     *)
(* empty, the manager beats on behalf of the service and starts its task.  *)
(***************************************************************************)
StartTaskWithoutBeat(s) ==
  /\ handle[s] = "none"
  /\ handle' = [handle EXCEPT ![s] = "running"]
  /\ UNCHANGED heart

StartTaskStoringDeadline(s) ==
  /\ handle[s] = "none"
  /\ heart' = [heart EXCEPT ![s] = now + Ttl[s]]
  /\ handle' = [handle EXCEPT ![s] = "running"]

StartTask(s) ==
  /\ handle[s] = "none"
  /\ heart' = [heart EXCEPT ![s] = now]
  /\ handle' = [handle EXCEPT ![s] = "running"]

\* spawn_services: &mut self, so no checker exists before its loop ends.
SpawnServices ==
  /\ spawned < NumServices
  /\ spawned' = spawned + 1
  /\ StartTask(spawned + 1)
  /\ failingSince' = [failingSince EXCEPT ![spawned + 1] = 0]
  /\ UNCHANGED <<now, detached, healthy, pc, at, reportVars>>

-----------------------------------------------------------------------------
(***************************************************************************)
(* ServiceManager::check and ManagedService::check.                        *)
(***************************************************************************)

\* The check reads the clock once, before it looks at the first service.
BeginCheck(c) ==
  /\ pc[c] \in {"check", "idle"}
  /\ spawned = NumServices
  /\ ts' = [ts EXCEPT ![c] = now]
  /\ at' = [at EXCEPT ![c] = 1]
  /\ Goto(c, "heart")
  /\ UNCHANGED <<now, serviceVars, spawned, lastBeat, dead, since, answer>>

LoadHeart(c) ==
  /\ pc[c] = "heart"
  /\ lastBeat' = [lastBeat EXCEPT ![c] = heart[at[c]]]
  /\ Goto(c, "health")
  /\ UNCHANGED <<now, serviceVars, spawned, at, ts, dead, since, answer>>

AskHealth(c) ==
  /\ pc[c] = "health"
  /\ Goto(c, IF healthy[at[c]] THEN "clear" ELSE "mark")
  /\ UNCHANGED <<now, serviceVars, spawned, at, reportVars>>

SilentStrict(c) == ts[c] - lastBeat[c] > Ttl[at[c]]

\* time_since_last_beat >= ttl
Silent(c) == ts[c] - lastBeat[c] >= Ttl[at[c]]

\* When the service was last due to beat; the initial 0 when it is not silent.
SilentSince(c) == IF Silent(c) THEN lastBeat[c] + Ttl[at[c]] ELSE 0

\* The report of the current service, and on to the next one or to the end.
ReportDead(c, t) ==
  /\ dead' = [dead EXCEPT ![c] = @ \cup {at[c]}]
  /\ since' = [since EXCEPT ![c][at[c]] = t]

Advance(c) ==
  /\ lastBeat' = [lastBeat EXCEPT ![c] = 0]
  /\ IF at[c] < NumServices
     THEN /\ at' = [at EXCEPT ![c] = @ + 1]
          /\ Goto(c, "heart")
     ELSE /\ UNCHANGED at
          /\ Goto(c, IF c \in Monitors THEN "scan" ELSE "respond")

\* is_healthy() returned true: forget that the health checks ever failed.
ClearFailing(c) ==
  /\ pc[c] = "clear"
  /\ failingSince' = [failingSince EXCEPT ![at[c]] = 0]
  /\ \/ Silent(c) /\ ReportDead(c, SilentSince(c))
     \/ ~ Silent(c) /\ UNCHANGED <<dead, since>>
  /\ Advance(c)
  /\ UNCHANGED <<now, heart, handle, detached, healthy, spawned, ts, answer>>

\* is_healthy() returned false: compare_exchange(0, ts) keeps an earlier mark.
MarkFailing(c) ==
  LET mark == IF failingSince[at[c]] = 0 THEN ts[c] ELSE failingSince[at[c]]
  IN  /\ pc[c] = "mark"
      /\ failingSince' = [failingSince EXCEPT ![at[c]] = mark]
      /\ ReportDead(c, Earlier(mark, SilentSince(c)))
      /\ Advance(c)
      /\ UNCHANGED <<now, heart, handle, detached, healthy, spawned, ts, answer>>

-----------------------------------------------------------------------------
(***************************************************************************)
(* health_endpoint::health: 200 exactly when the summary lists no dead.    *)
(***************************************************************************)
Respond(p) ==
  /\ pc[p] = "respond"
  /\ answer' = [answer EXCEPT ![p] = IF dead[p] = {} THEN "success" ELSE "fail"]
  /\ dead' = [dead EXCEPT ![p] = {}]
  /\ since' = [since EXCEPT ![p] = [s \in Service |-> 0]]
  /\ Goto(p, "idle")
  /\ UNCHANGED <<now, serviceVars, spawned, at, ts, lastBeat>>

-----------------------------------------------------------------------------
(***************************************************************************)
(* The recovery loop of monitor_with_recovery.  The report's dead services *)
(* are consumed in index order, each against a fresh reading of the clock. *)
(***************************************************************************)
NextDead(m, s) == s \in dead[m] /\ \A r \in dead[m] : s <= r

Consume(m, s) ==
  /\ at' = [at EXCEPT ![m] = s]
  /\ dead' = [dead EXCEPT ![m] = @ \ {s}]
  /\ since' = [since EXCEPT ![m][s] = 0]

DecideRestart(m, s) ==
  /\ pc[m] = "scan" /\ NextDead(m, s)
  /\ since[m][s] + AttemptRecoveryAfter < now
  /\ Consume(m, s)
  /\ Goto(m, "abort")
  /\ UNCHANGED <<now, serviceVars, spawned, ts, lastBeat, answer>>

TooRecent(m, s) ==
  /\ pc[m] = "scan" /\ NextDead(m, s)
  /\ ~ (since[m][s] + AttemptRecoveryAfter < now)
  /\ Consume(m, s)
  /\ UNCHANGED <<now, serviceVars, spawned, pc, ts, lastBeat, answer>>

RoundDone(m) ==
  /\ pc[m] = "scan" /\ dead[m] = {}
  /\ Goto(m, "sleep")
  /\ UNCHANGED <<now, serviceVars, spawned, at, reportVars>>

Wake(m) ==
  /\ pc[m] = "sleep"
  /\ Goto(m, "check")
  /\ UNCHANGED <<now, serviceVars, spawned, at, reportVars>>

(***************************************************************************)
(* ManagedService::restart = abort, then spawn, each with the handle's     *)
(* mutex.  abort keeps the guard while it awaits the aborted task, spawn   *)
(* until it returns; between the two the mutex is free.                    *)
(***************************************************************************)
Holds(m, s) == pc[m] \in {"join", "reset"} /\ at[m] = s
Locked(s) == \E m \in Monitors : Holds(m, s)

\* *handle_opt = None: a JoinHandle dropped before its task ended detaches it.
DropHandle(s) ==
  /\ handle' = [handle EXCEPT ![s] = "none"]
  /\ detached' = [detached EXCEPT ![s] = @ + (IF Pending(s) THEN 1 ELSE 0)]

AbortFinishedUnlocked(m) ==
  /\ pc[m] = "abort"
  /\ ~ Pending(at[m])
  /\ DropHandle(at[m])
  /\ Goto(m, "spawn")
  /\ UNCHANGED <<now, heart, failingSince, healthy, spawned, at, reportVars>>

\* abort finds no task, or one that is over (now_or_never() is Some).
AbortFinished(m) ==
  /\ pc[m] = "abort" /\ ~ Locked(at[m])
  /\ ~ Pending(at[m])
  /\ DropHandle(at[m])
  /\ Goto(m, "spawn")
  /\ UNCHANGED <<now, heart, failingSince, healthy, spawned, at, reportVars>>

\* abort finds a pending task: abort it and await it under the timeout.
AbortPending(m) ==
  /\ pc[m] = "abort" /\ ~ Locked(at[m])
  /\ Pending(at[m])
  /\ handle' = [handle EXCEPT ![at[m]] = "aborted"]
  /\ Goto(m, "join")
  /\ UNCHANGED <<now, heart, failingSince, detached, healthy, spawned, at,
                 reportVars>>

Join(m) ==
  /\ pc[m] = "join" /\ ~ Pending(at[m])
  /\ DropHandle(at[m])
  /\ Goto(m, "spawn")
  /\ UNCHANGED <<now, heart, failingSince, healthy, spawned, at, reportVars>>

JoinTimeoutIgnored(m) ==
  /\ pc[m] = "join" /\ Pending(at[m])
  /\ DropHandle(at[m])
  /\ Goto(m, "spawn")
  /\ UNCHANGED <<now, heart, failingSince, healthy, spawned, at, reportVars>>

JoinTimeoutForgets(m) ==
  /\ pc[m] = "join" /\ Pending(at[m])
  /\ DropHandle(at[m])
  /\ Goto(m, "scan")
  /\ UNCHANGED <<now, heart, failingSince, healthy, spawned, at, reportVars>>

JoinWithoutTimeout(m) == FALSE

\* The timeout elapses first: restart returns Err, the handle stays Some.
JoinTimeout(m) ==
  /\ pc[m] = "join" /\ Pending(at[m])
  /\ Goto(m, "scan")
  /\ UNCHANGED <<now, serviceVars, spawned, at, reportVars>>

SpawnTask(m) ==
  /\ pc[m] = "spawn" /\ ~ Locked(at[m])
  /\ StartTask(at[m])
  /\ Goto(m, "reset")
  /\ UNCHANGED <<now, failingSince, detached, healthy, spawned, at, reportVars>>

\* Another monitor was faster: "Cannot start service, already running".
SpawnBails(m) ==
  /\ pc[m] = "spawn" /\ ~ Locked(at[m])
  /\ handle[at[m]] # "none"
  /\ Goto(m, "scan")
  /\ UNCHANGED <<now, serviceVars, spawned, at, reportVars>>

\* The last store of spawn, after which the guard is dropped.
SpawnResets(m) ==
  /\ pc[m] = "reset"
  /\ failingSince' = [failingSince EXCEPT ![at[m]] = 0]
  /\ Goto(m, "scan")
  /\ UNCHANGED <<now, heart, handle, detached, healthy, spawned, at, reportVars>>

-----------------------------------------------------------------------------
CheckStep(c) ==
  \/ BeginCheck(c)
  \/ LoadHeart(c)
  \/ AskHealth(c)
  \/ ClearFailing(c)
  \/ MarkFailing(c)

RestartStep(m) ==
  \/ AbortFinished(m)
  \/ AbortPending(m)
  \/ Join(m)
  \/ JoinTimeout(m)
  \/ SpawnTask(m)
  \/ SpawnBails(m)
  \/ SpawnResets(m)

MonitorStep(m) ==
  \/ CheckStep(m)
  \/ \E s \in Service : DecideRestart(m, s) \/ TooRecent(m, s)
  \/ RoundDone(m)
  \/ Wake(m)
  \/ RestartStep(m)

ProbeStep(p) == CheckStep(p) \/ Respond(p)

TaskStep(s) == Beat(s) \/ Panic(s) \/ AbortLands(s) \/ Diagnose(s)

(***************************************************************************)
(* On a single-threaded runtime a stretch of code without an await is not  *)
(* interrupted: nothing else runs while some checker is inside one.        *)
(***************************************************************************)
MidStretch(c) == pc[c] \in CheckPc \cup {"scan", "respond", "reset"}

OthersIdle(c) == Parallel \/ \A d \in Checkers \ {c} : ~ MidStretch(d)
AllIdle == Parallel \/ \A d \in Checkers : ~ MidStretch(d)

Monitor(m) == OthersIdle(m) /\ MonitorStep(m)
Probe(p) == OthersIdle(p) /\ ProbeStep(p)
Task(s) == AllIdle /\ TaskStep(s)
Reap(s) == AllIdle /\ AbortLands(s)

Next ==
  \/ Tick
  \/ SpawnServices
  \/ \E m \in Monitors : Monitor(m)
  \/ \E p \in Probes : Probe(p)
  \/ \E s \in Service : Task(s)

(***************************************************************************)
(* Fairness: the clock advances, the runtime polls main and the monitors   *)
(* whenever they are ready, and it drops an aborted task at its next       *)
(* await, which a Blocking service may never reach.  Nothing obliges a     *)
(* service to beat, to panic or to diagnose itself, nor anybody to probe.  *)
(***************************************************************************)
Fairness ==
  /\ WF_vars(Tick)
  /\ WF_vars(SpawnServices)
  /\ \A m \in Monitors : WF_vars(Monitor(m))
  /\ \A s \in Service \ Blocking : WF_vars(Reap(s))

Spec == Init /\ [][Next]_vars
FairSpec == Spec /\ Fairness

-----------------------------------------------------------------------------
(***************************************************************************)
(* Properties.                                                             *)
(***************************************************************************)

\* Two executions of run_forever of one service never overlap, although any
\* number of monitors abort and spawn it and aborted tasks linger: restart
\* awaits the old task under the handle's mutex before it spawns the new one.
AtMostOneTask == \A s \in Service : LiveTasks(s) <= 1

\* A service that was started once is without a task handle only while some
\* monitor is on its way from abort to spawn: no timeout, failed spawn or
\* second monitor makes the manager forget to run it.
NeverForgotten ==
  \A s \in Service :
    handle[s] = "none" => \/ s > spawned
                         \/ \E m \in Monitors : pc[m] = "spawn" /\ at[m] = s

\* While abort awaits a task under its timeout, the handle still refers to the
\* task it told to abort, running its last stretch or over: no other monitor
\* replaces it by a fresh one, which restart would then forget while it runs.
AwaitsAborted ==
  \A m \in Monitors : pc[m] = "join" => handle[at[m]] \in {"aborted", "done"}

\* The health endpoint answers "success" only if every service has beaten
\* within its ttl of the moment the request's timestamp was taken, whatever
\* restarts and other checks ran while the handler walked over the services.
SuccessIsEarned ==
  \A p \in Probes :
    pc[p] = "idle" /\ answer[p] = "success" =>
      \A s \in Service : heart[s] + Ttl[s] > ts[p]

\* Checks that run concurrently never move the time since which a service
\* fails its health checks: the first observer's mark stays until a check
\* finds the service healthy or the service is spawned again.
FailingSinceIsSticky ==
  [][\A s \in Service :
       failingSince[s] # 0 /\ failingSince'[s] # 0 =>
         failingSince'[s] = failingSince[s]]_vars

\* The task of s as its users see it, whichever handle refers to it or none.
TaskOf(s) ==
  IF LiveTasks(s) = 0 THEN "none"
  ELSE IF handle[s] = "running" THEN "running" ELSE "told"

Promise ==
  INSTANCE Supervision WITH beat <- heart, task <- [s \in Service |-> TaskOf(s)]

\* The orchestrator implements Supervision: whatever its monitors do to each
\* other, a task is begun only after its predecessor is over, never without a
\* fresh heartbeat, and a heart that beats is that of a living task.
Supervises == Promise!Spec

\* Silent for more than the delay after which recovery is attempted.
Overdue(s) == heart[s] + Ttl[s] + AttemptRecoveryAfter < now

\* A service that panicked, hangs or simply stopped to beat beats again, or
\* is respawned, even if the monitor first has to give up on a Blocking one.
SilentServiceRecovers ==
  \A s \in Service \ Blocking : Overdue(s) ~> ~ Overdue(s)

=============================================================================
