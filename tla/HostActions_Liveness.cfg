SPECIFICATION FairSpec
CONSTANTS
  a = a
  b = b
  c = c
  Click <- TwoClicks
  CommandOf <- Actions
  Capacity = 4
  Life = {1}
  MaxTick = 1
PROPERTIES
  LatchesAreReleased
  UnloadEnds
CHECK_DEADLOCK FALSE
