----------------------- MODULE ServiceManagerHistory ------------------------
(***************************************************************************)
(* ServiceManager with two history variables, for the properties about how *)
(* long a service has been running or failing when it is restarted.  They  *)
(* restrict nothing: every step of ServiceManager stays possible.          *)
(***************************************************************************)
EXTENDS ServiceManager

VARIABLES
  spawnedAt,    \* time of the last spawn of each service, 0 before the first
  sickSince     \* since when is_healthy() is false, 0 while it is true

hvars == <<vars, spawnedAt, sickSince>>

Starts(s) == handle[s] = "none" /\ handle'[s] = "running"

HInit ==
  /\ Init
  /\ spawnedAt = [s \in Service |-> 0]
  /\ sickSince = [s \in Service |-> 0]

HNext ==
  /\ Next
  /\ spawnedAt' = [s \in Service |-> IF Starts(s) THEN now ELSE spawnedAt[s]]
  /\ sickSince' = [s \in Service |-> IF healthy'[s] THEN 0
                                     ELSE IF healthy[s] THEN now ELSE sickSince[s]]

HSpec == HInit /\ [][HNext]_hvars
HFairSpec == HSpec /\ Fairness

\* With one monitor, a service that never fails its own health check is given
\* its whole ttl plus attempt_recovery_after between two of its spawns,
\* however slow the monitor is and whatever its report had become by then.
NoRestartStorm ==
  [][\A s \in Service \ SelfDiagnosing :
       Starts(s) /\ spawnedAt[s] # 0 =>
         now > spawnedAt[s] + Ttl[s] + AttemptRecoveryAfter]_hvars

\* The service is silent, or calls itself unhealthy, for the configured time.
FailingLongEnough(s) ==
  \/ heart[s] + Ttl[s] + AttemptRecoveryAfter <= now
  \/ sickSince[s] # 0 /\ sickSince[s] + AttemptRecoveryAfter <= now

\* RunConfig.attempt_recovery_after: "Services will be restarted after they
\* have been in a failing state for this many seconds" when the monitor
\* decides to restart them.
RestartsOnlyFailing ==
  [][\A m \in Monitors :
       pc[m] = "scan" /\ pc'[m] = "abort" => FailingLongEnough(at'[m])]_hvars

=============================================================================
