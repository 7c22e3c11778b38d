SPECIFICATION ProcessSpec
CONSTANTS
  Thresholds = {1, 3}
  MaxSeconds = 5
  MaxEpisode = 3
  primary = primary
  secondary = secondary
  pid1 = pid1
  pid2 = pid2
  Pid <- Pids
  Root <- Taskbars
  Limit = 2
  Process = {"explorer", "mstsc1", "mstsc2"}
INVARIANTS
  DismissedForTheEpisode
  UnloadLeavesNothing
PROPERTIES
  EveryHangIsAlerted
  SecretIsStable
  UnloadReturns
  OnlyTheHelperIsKilled
  WidgetSettles
CHECK_DEADLOCK FALSE
