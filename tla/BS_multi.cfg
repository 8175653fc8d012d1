SPECIFICATION Spec
CONSTANTS
  c1 = c1
  c2 = c2
  k1 = k1
  k2 = k2
  NoItem = NoItem
  Clients <- OneClient
  Detached = {}
  Keys <- TwoKeys
  Calls <- Owning
  MaxThreads = 2
  Sizes = {1, 2}
  Capacities = {2}
  MaxItems = 4
  MayThrow = TRUE
  IdleResize = TRUE
  Spurious = TRUE
INVARIANTS
  UsageAccounts
  NoParallelWrites
  KeyHeldOnce
  DestructorFinishesWrites
PROPERTIES
  KeepsPromise
