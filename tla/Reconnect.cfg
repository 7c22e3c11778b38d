SPECIFICATION FairSpec
CONSTANTS
  panel = panel
  overlay = overlay
  Caller <- Callers
  Commander = {panel}
  Grace = 2
  MaxClose = 1
INVARIANTS
  NeverDoubleLaunch
  OneClientPerSession
  UnloadCancelsGrace
PROPERTIES
  NoCloseRelaunches
  ThreadsEnd
CHECK_DEADLOCK FALSE
