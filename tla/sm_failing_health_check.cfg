\* One thread; the service beats but calls itself unhealthy.
CONSTANTS
  NumServices = 1
  Monitors = {m1}
  Probes = {}
  Ttl <- MCTtl1
  AttemptRecoveryAfter = 1
  SelfDiagnosing = {1}
  Blocking = {}
  Parallel = FALSE
  StartTime = 2
  MaxTime = 6
SPECIFICATION HSpec
PROPERTIES RestartsOnlyFailing
