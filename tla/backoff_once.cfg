\* BackoffConfig::once() on a 4-bit word.
CONSTANTS
  Item = {i1}
  MinDelay = 15
  MaxDelay = 15
  Strategy <- MCCliff0
  U64Max = 15
  StartTime = 1
  MaxTime = 4
SPECIFICATION Spec
INVARIANTS NeverReadyAgain
