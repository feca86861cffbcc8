----------------------------- MODULE LoopingJob -----------------------------
(***************************************************************************)
(* LoopingJobService of src/src/service.rs under the ServiceManager: every *)
(* service runs a job in a loop that beats, runs the job once, notes       *)
(* whether it failed, and sleeps.  The job is a Mutex<MutJob>, whose       *)
(* run_once holds the mutex until its future ends or is dropped.           *)
(*                                                                         *)
(* The tasks are prompt: they let the clock go on only while the job works *)
(* or the sleeper sleeps, and that for as long as the constants say.       *)
(* healthy[s] stands for consecutive_failures = 0.  There are no probes.   *)
(***************************************************************************)
EXTENDS ServiceManager

CONSTANTS
  Delay,         \* LoopConfig.delay_secs
  MaxIteration,  \* LoopConfig.max_iteration_secs
  Slowest        \* the longest that an iteration does take

\* heartbeat_ttl of LoopingJobService; the jobs of
\* SelfDiagnosing services may fail.
ASSUME LoopAssumption ==
  /\ Delay \in Nat /\ MaxIteration \in Nat /\ Slowest \in Nat
  /\ Ttl = [s \in Service |-> Delay + MaxIteration]

VARIABLES
  step,    \* where the loop of the last task of each service is
  limit,   \* until when the iteration, or the sleep, may take
  locked   \* whether the MutJob's mutex is locked

loopVars == <<step, limit, locked>>
jobVars == <<vars, loopVars>>

LoopTypeOK ==
  /\ TypeOK
  /\ step \in [Service -> {"none", "beat", "lock", "run", "sleep"}]
  /\ limit \in [Service -> Nat]
  /\ locked \in [Service -> BOOLEAN]

LoopInit ==
  /\ Init
  /\ step = [s \in Service |-> "none"]
  /\ limit = [s \in Service |-> 0]
  /\ locked = [s \in Service |-> FALSE]

-----------------------------------------------------------------------------
GotoStep(s, label) == step' = [step EXCEPT ![s] = label]

LoopBeat(s) ==
  /\ step[s] = "beat" /\ Pending(s)
  /\ Beat(s)
  /\ GotoStep(s, "lock")
  /\ UNCHANGED <<limit, locked>>

\* run_once of Mutex<MutJob> gets the lock.
Lock(s) ==
  /\ step[s] = "lock" /\ Pending(s)
  /\ ~ locked[s]
  /\ locked' = [locked EXCEPT ![s] = TRUE]
  /\ limit' = [limit EXCEPT ![s] = now + Slowest]
  /\ GotoStep(s, "run")
  /\ UNCHANGED vars

\* The job returned: Ok resets consecutive_failures, Err increments it.
Finish(s, ok) ==
  /\ step[s] = "run" /\ Pending(s)
  /\ ok \/ s \in SelfDiagnosing
  /\ healthy' = [healthy EXCEPT ![s] = ok]
  /\ locked' = [locked EXCEPT ![s] = FALSE]
  /\ limit' = [limit EXCEPT ![s] = now + Delay]
  /\ GotoStep(s, "sleep")
  /\ UNCHANGED <<now, heart, failingSince, handle, detached, spawned, pc, at,
                 reportVars>>

RepeatWithoutBeat(s) ==
  /\ step[s] = "sleep" /\ handle[s] = "running"
  /\ now >= limit[s]
  /\ GotoStep(s, "lock")
  /\ UNCHANGED <<vars, limit, locked>>

\* The sleeper is done, and the loop begins again.
Repeat(s) ==
  /\ step[s] = "sleep" /\ handle[s] = "running"
  /\ now >= limit[s]
  /\ GotoStep(s, "beat")
  /\ UNCHANGED <<vars, limit, locked>>

\* The task panics, or is dropped at an await after it was aborted; either way
\* its guard of the mutex is dropped.
End(s) ==
  /\ step[s] \in {"lock", "run", "sleep"}
  /\ AbortLands(s) \/ (Panic(s) /\ step[s] = "run")
  /\ locked' = [locked EXCEPT ![s] = FALSE]
  /\ GotoStep(s, "none")
  /\ UNCHANGED limit

\* A task that was aborted before it was polled at all ends without a beat.
EndUnpolled(s) ==
  /\ step[s] = "beat"
  /\ AbortLands(s)
  /\ GotoStep(s, "none")
  /\ UNCHANGED <<limit, locked>>

\* The runtime drops an aborted task, at an await or before it was polled.
Reaped(s) == handle[s] = "aborted" /\ (End(s) \/ EndUnpolled(s))

\* A task that the manager starts is at the top of the loop.
StartLoops ==
  /\ step' = [s \in Service |->
                IF handle[s] = "none" /\ handle'[s] = "running" THEN "beat" ELSE step[s]]
  /\ UNCHANGED <<limit, locked>>

LoopSpawn == SpawnServices /\ StartLoops
LoopMonitor(m) == Monitor(m) /\ StartLoops

LoopTick ==
  /\ \A s \in Service :
       Pending(s) => step[s] \in {"run", "sleep"} /\ now < limit[s]
  /\ Tick
  /\ UNCHANGED loopVars

LoopStep(s) ==
  \/ LoopBeat(s)
  \/ Lock(s)
  \/ \E ok \in BOOLEAN : Finish(s, ok)
  \/ Repeat(s)
  \/ End(s)
  \/ EndUnpolled(s)

LoopNext ==
  \/ LoopTick
  \/ LoopSpawn
  \/ \E m \in Monitors : LoopMonitor(m)
  \/ \E s \in Service : AllIdle /\ LoopStep(s)

LoopSpec == LoopInit /\ [][LoopNext]_jobVars

-----------------------------------------------------------------------------
\* The mutex of a MutJob is free whenever an iteration begins, so the sixty
\* second timeout of its lock never elapses: a restart never has two tasks in
\* one job, and an aborted one lets go of the mutex before its successor runs.
LockIsFree == \A s \in Service : step[s] = "lock" => ~ locked[s]

\* The monitor never finds a service silent that runs, if all of its iterations
\* stay below max_iteration_secs, although panics and failures lead to aborts and
\* restarts at any point of the loop.  heartbeat_ttl is delay_secs plus
\* max_iteration_secs and death is at >= ttl, so the condition has to be strict:
\* an iteration of exactly the maximum may be found silent.
PunctualJobIsNotSilent ==
  Slowest < MaxIteration =>
    \A m \in Monitors :
      pc[m] \in {"clear", "mark"} /\ handle[at[m]] = "running" => ~ Silent(m)

=============================================================================
