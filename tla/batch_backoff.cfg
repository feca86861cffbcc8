\* Two items share chunks; delays of 1 and then 2.
CONSTANTS
  Item = {i1, i2}
  Configs <- MCPlain
  StartTime = 1
  MaxTime = 6
  Timeout = 2
  HasBackoff = TRUE
  MinDelay = 1
  MaxDelay = 2
  Strategy <- MCExponential2
  U64Max = 100
SYMMETRY ItemSymmetry
SPECIFICATION BatchSpec
INVARIANTS BatchTypeOK TrackedSinceFailure
PROPERTY NoEarlyRetry
