\* The cooldown of the receiver together with the delays of the tracker.
CONSTANTS
  Item = {i1}
  Configs <- MCCooldown
  StartTime = 3
  MaxTime = 9
  Timeout = 2
  HasBackoff = TRUE
  MinDelay = 2
  MaxDelay = 4
  Strategy <- MCExponential2
  U64Max = 100
SPECIFICATION BatchSpec
PROPERTY DroppedWasUsed
