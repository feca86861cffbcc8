\* Overrides change every setting from call to call.
CONSTANTS
  Item = {i1, i2}
  Configs <- MCOverrides
  StartTime = 4
  MaxTime = 8
SPECIFICATION FairSpec
INVARIANT TypeOK
PROPERTIES TakesAreSpaced DropsOnlyRecent ReturnsAreEarned
  RecvReturns AvailableIsReturned
