SPECIFICATION FairSpec
CONSTANTS
  c1 = c1
  c2 = c2
  k1 = k1
  k2 = k2
  NoItem = NoItem
  Clients <- OneClient
  Detached = {}
  Keys <- OneKey
  Calls <- Destroying
  MaxThreads = 1
  Sizes = {1}
  Capacities = {1}
  MaxItems = 2
  MayThrow = FALSE
  IdleResize = TRUE
  Spurious = FALSE
PROPERTIES
  DestructorReturns
CHECK_DEADLOCK FALSE
