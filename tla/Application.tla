---------------------------- MODULE Application -----------------------------
(***************************************************************************)
(* Application::run_custom of src/src/service_manager.rs, from the call to *)
(* the supervised application: it validates its RunConfig, runs the init   *)
(* jobs one after the other, registers and spawns the services, starts the *)
(* health endpoint in a task of its own, and becomes the monitor.          *)
(*                                                                         *)
(* The services are looping jobs under their manager, as in LoopingJob.    *)
(* The requests that the endpoint serves are the probes of ServiceManager  *)
(* and left out here: what counts is that its task may end at any time.    *)
(***************************************************************************)
EXTENDS LoopingJob

CONSTANT NumJobs   \* length of the vector that init() returns

ASSUME JobsAssumption == NumJobs \in Nat

VARIABLES
  runConfig, \* whether the RunConfig is valid, and wants an endpoint
  phase,     \* where run_custom is; "failed": it returned its error
  jobsDone,  \* how many init jobs have succeeded
  endpoint   \* the task of health_endpoint::run

startVars == <<runConfig, phase, jobsDone, endpoint>>
appVars == <<jobVars, startVars>>

AppTypeOK ==
  /\ LoopTypeOK
  /\ runConfig \in [valid : BOOLEAN, endpoint : BOOLEAN]
  /\ phase \in {"validate", "init", "spawn", "run", "failed"}
  /\ jobsDone \in 0 .. NumJobs
  /\ endpoint \in {"none", "binding", "serving", "ended"}

AppInit ==
  /\ LoopInit
  /\ runConfig \in [valid : BOOLEAN, endpoint : BOOLEAN]
  /\ phase = "validate"
  /\ jobsDone = 0
  /\ endpoint = "none"

-----------------------------------------------------------------------------
(* main: run_custom and start *)

Validate ==
  /\ phase = "validate"
  /\ phase' = IF runConfig.valid THEN "init" ELSE "failed"
  /\ UNCHANGED <<jobVars, runConfig, jobsDone, endpoint>>

\* run_once of the vector of init jobs awaits them in order.
InitJobSucceeds ==
  /\ phase = "init" /\ jobsDone < NumJobs
  /\ jobsDone' = jobsDone + 1
  /\ UNCHANGED <<jobVars, runConfig, phase, endpoint>>

InitJobLogged ==
  /\ phase = "init" /\ jobsDone < NumJobs
  /\ phase' = "spawn"
  /\ UNCHANGED <<jobVars, runConfig, jobsDone, endpoint>>

\* The first error ends the vector's run_once, start and run_custom.
InitJobFails ==
  /\ phase = "init" /\ jobsDone < NumJobs
  /\ phase' = "failed"
  /\ UNCHANGED <<jobVars, runConfig, jobsDone, endpoint>>

\* services() constructs them, and register_service leaves each as LoopInit says.
Register ==
  /\ phase = "init" /\ jobsDone = NumJobs
  /\ phase' = "spawn"
  /\ UNCHANGED <<jobVars, runConfig, jobsDone, endpoint>>

StartService ==
  /\ phase = "spawn"
  /\ LoopSpawn
  /\ UNCHANGED startVars

\* start() has returned: spawn the endpoint if there is one, and monitor.
Supervise ==
  /\ phase = "spawn" /\ spawned = NumServices
  /\ phase' = "run"
  /\ endpoint' = IF runConfig.endpoint THEN "binding" ELSE "none"
  /\ UNCHANGED <<jobVars, runConfig, jobsDone>>

MonitorServicesSelecting(m) ==
  /\ phase = "run" /\ endpoint # "ended"
  /\ LoopMonitor(m)
  /\ UNCHANGED startVars

MonitorServices(m) ==
  /\ phase = "run"
  /\ LoopMonitor(m)
  /\ UNCHANGED startVars

-----------------------------------------------------------------------------
(* health_endpoint::run *)

Bind ==
  /\ endpoint = "binding"
  /\ endpoint' = "serving"
  /\ UNCHANGED <<jobVars, runConfig, phase, jobsDone>>

\* The address is taken, or the server gives up: a task ends that nobody joins.
EndpointEnds ==
  /\ endpoint \in {"binding", "serving"}
  /\ endpoint' = "ended"
  /\ UNCHANGED <<jobVars, runConfig, phase, jobsDone>>

-----------------------------------------------------------------------------
\* Before the first service is spawned nothing looks at the clock.
Passing ==
  /\ spawned > 0
  /\ LoopTick
  /\ UNCHANGED startVars

RunService(s) ==
  /\ AllIdle /\ LoopStep(s)
  /\ UNCHANGED startVars

Main ==
  \/ Validate
  \/ InitJobSucceeds
  \/ InitJobFails
  \/ Register
  \/ StartService
  \/ Supervise

AppNext ==
  \/ Main
  \/ Bind
  \/ EndpointEnds
  \/ Passing
  \/ \E m \in Monitors : MonitorServices(m)
  \/ \E s \in Service : RunService(s)

AppSpec == AppInit /\ [][AppNext]_appVars

\* Fairness as in ServiceManager, for an application that has come to run: the
\* clock, the monitor and the end of aborted tasks.  A job that hangs need not panic.
AppFairness ==
  /\ WF_appVars(Passing)
  /\ \A m \in Monitors : WF_appVars(MonitorServices(m))
  /\ \A s \in Service : WF_appVars(AllIdle /\ Reaped(s) /\ UNCHANGED startVars)

AppFairSpec == AppSpec /\ AppFairness

-----------------------------------------------------------------------------
\* No service is started, and none has a task or a heartbeat, unless the config
\* is valid and every init job has succeeded; an application whose start fails
\* leaves nothing running behind.
NothingRunsBeforeInit ==
  phase = "failed" \/ jobsDone < NumJobs \/ ~ runConfig.valid =>
    \A s \in Service : handle[s] = "none" /\ LiveTasks(s) = 0 /\ heart[s] = 0

\* "monitors their health, restarts unhealthy services": a supervised service
\* that is overdue beats again or is respawned, whether the health endpoint is
\* serving, never came up or has died.
RecoversWithoutEndpoint ==
  \A s \in Service : phase = "run" /\ Overdue(s) ~> ~ Overdue(s)

=============================================================================
