\* Two init jobs and one looping job, constructed from their dependencies; iterations take at most half the maximum
\* and their failures lead to restarts.
CONSTANTS
  NumServices = 1
  Monitors = {m1}
  Probes = {}
  Ttl <- MCTtl3
  AttemptRecoveryAfter = 0
  SelfDiagnosing = {1}
  Blocking = {}
  Parallel = TRUE
  StartTime = 3
  MaxTime = 9
  Delay = 1
  MaxIteration = 2
  Slowest = 1
  NumJobs = 2
  Type <- MCType
  Fields <- MCFields
  Provided <- MCProvided
  JobTypes <- MCJobTypes
  ServiceTypes <- MCServiceTypes
  StackLimit = 4
SPECIFICATION InjFairSpec
INVARIANTS InjTypeOK InstancePerDependent NothingRunsBeforeInit LockIsFree PunctualJobIsNotSilent
PROPERTIES RecoversWithoutEndpoint ConstructionEnds
CHECK_DEADLOCK FALSE
