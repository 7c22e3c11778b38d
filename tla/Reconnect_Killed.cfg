SPECIFICATION Spec
CONSTANTS
  panel = panel
  overlay = overlay
  Caller = {panel}
  Commander = {panel}
  Grace = 2
  MaxClose = 2
INVARIANTS
  KilledOnlyWhenReplaced
CHECK_DEADLOCK FALSE
