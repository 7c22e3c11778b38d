SPECIFICATION Spec
CONSTANTS
  l1 = l1
  l2 = l2
  r1 = r1
  r2 = r2
  NoLife = NoLife
  Request <- MCRequest
  Life <- MCLife
  Pid = {1}
  PidOf <- SamePid
SYMMETRY RequestSymmetry
INVARIANTS
  OnlyTheBoundTargetOnce
  RefusalIsFinal
  SuccessIsReal
  ViewIsItsOwnReport
PROPERTIES
  ImplementsContract
CHECK_DEADLOCK FALSE
