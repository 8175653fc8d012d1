SPECIFICATION Spec
CONSTANTS
  k1 = k1
  k2 = k2
  k3 = k3
  k4 = k4
  NoKey = NoKey
  Keys <- FourKeys
  Values <- Positive
  SizeOf <- OwnSize
  Capacities = {0, 1, 3}
INVARIANTS
  Consistent
  TrackerMatches
PROPERTIES
  EvictsLeastRecent
CHECK_DEADLOCK FALSE
