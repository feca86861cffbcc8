\* Two services, a log interval of two ticks, seven ticks.
CONSTANTS
  NumServices = 2
  LogInterval = 2
  StartTime = 1
  MaxTime = 7
SPECIFICATION Spec
INVARIANTS TypeOK LogIsCurrent LogIsRecent
PROPERTIES HealthyIsQuiet
