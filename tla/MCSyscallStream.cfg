SPECIFICATION FairSpec
CONSTANTS
  HighWater = 3
  LowWater = 1
  StallTicks = 2
  MaxItems = 5
INVARIANTS
  Conservation
  NoLostWakeup
  PausedIsOwed
  GapBounded
PROPERTIES
  StallOnlyWhenSilent
  NextReturns
  StreamEnds
