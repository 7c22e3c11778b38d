\* The life of the client mod with the thread of the overlay and one settings change.
SPECIFICATION FairSpec
CONSTANTS
  Worker <- Overlay
  Optional = {"helper"}
  Acting = {"helper"}
  MaxChange = 1
INVARIANTS
  UnloadLeavesNothing
  SubclassedIsTracked
PROPERTIES
  UnloadReturns
CHECK_DEADLOCK FALSE
