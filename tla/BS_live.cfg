SPECIFICATION FairSpec
CONSTANTS
  c1 = c1
  c2 = c2
  k1 = k1
  k2 = k2
  NoItem = NoItem
  Clients <- TwoClients
  Detached = {}
  Keys <- OneKey
  Calls <- Blocking
  MaxThreads = 2
  Sizes = {1}
  Capacities = {1,2}
  MaxItems = 3
  MayThrow = TRUE
  IdleResize = TRUE
  Spurious = FALSE
PROPERTIES
  CallsReturn
  ItemsLeave
  IdleMeansDone
