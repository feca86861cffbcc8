\* A probe walks over two services while the monitor restarts them; it may have
\* to give up on service 1 to reach service 2.
CONSTANTS
  NumServices = 2
  Monitors = {m1}
  Probes = {p1}
  Ttl <- MCTtl2
  AttemptRecoveryAfter = 0
  SelfDiagnosing = {}
  Blocking = {1}
  Parallel = TRUE
  StartTime = 1
  MaxTime = 3
SPECIFICATION HFairSpec
INVARIANT SuccessIsEarned
PROPERTIES SilentServiceRecovers NoRestartStorm
