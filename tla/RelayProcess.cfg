SPECIFICATION FairSpec
CONSTANTS
  p = p
  c = c
  k1 = k1
  k2 = k2
  Plugin = {p}
  Channel = {c}
  Owner <- OwnerOf
  Call <- Calls
  MaxRuns = 2
INVARIANTS
  AllOrNothing
  DiscoveryImpliesServer
  ServerOutlivesItsObjects
  ReferencesBalance
PROPERTIES
  ServerEnds
CHECK_DEADLOCK FALSE
