SPECIFICATION Spec
CONSTANTS
  a = a
  b = b
  c = c
  Click <- TwoClicks
  CommandOf <- Mixed
  Capacity = 1
  Life = {1, 2}
  MaxTick = 2
INVARIANTS
  LatchesAreExact
  QuietAfterUnload
  ObservedIsLater
PROPERTIES
  ToldOnce
CHECK_DEADLOCK FALSE
