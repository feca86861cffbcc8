\* Two monitors on one service, on parallel threads; the word of the timestamps
\* wraps between times 5 and 6.
CONSTANTS
  NumServices = 1
  Monitors = {m1, m2}
  Probes = {}
  Ttl <- MCTtl1
  AttemptRecoveryAfter = 1
  SelfDiagnosing = {1}
  Blocking = {}
  Parallel = TRUE
  StartTime = 2
  MaxTime = 6
  Half = 12
  Epoch = 6
SPECIFICATION WordSpec
INVARIANTS TypeOK AtMostOneTask NeverForgotten AwaitsAborted
  SilenceIsExact
PROPERTIES FailingSinceIsSticky Supervises ManagerUntilWrap
