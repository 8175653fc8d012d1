SPECIFICATION Spec
CONSTANTS
  c1 = c1
  c2 = c2
  k1 = k1
  k2 = k2
  NoItem = NoItem
  Clients <- TwoClients
  Detached = {}
  Keys <- TwoKeys
  Calls <- Queueing
  MaxThreads = 1
  Sizes = {1, 2}
  Capacities = {2}
  MaxItems = 4
  MayThrow = FALSE
  IdleResize = TRUE
  Spurious = TRUE
INVARIANTS
  TypeOK
  Accounting
PROPERTIES
  FifoWrites
  KeepsPromise
