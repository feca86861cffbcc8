\* Exponential(2) from 1 to 3: all four delays and the cap are reached.
CONSTANTS
  Item = {i1, i2}
  MinDelay = 1
  MaxDelay = 3
  Strategy <- MCExponential2
  U64Max = 100
  StartTime = 1
  MaxTime = 12
SPECIFICATION Spec
INVARIANTS TypeOK CountsAreSpaced
PROPERTIES RateLimited DelayNeverShrinks LimitsRuns
