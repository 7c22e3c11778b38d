SPECIFICATION Spec
CONSTANTS
  a = a
  b = b
  c = c
  Click <- ThreeClicks
  CommandOf <- Minimizes
  Capacity = 4
  Life = {1}
  MaxTick = 1
SYMMETRY Symmetry
INVARIANTS
  OneActionInProgress
CHECK_DEADLOCK FALSE
