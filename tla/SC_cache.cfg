SPECIFICATION Spec
CONSTANTS
  p1 = p1
  v1 = v1
  v2 = v2
  NoValue = NoValue
  NoPath = NoPath
  NoItem = NoItem
  NoFrame = NoFrame
  Frames = {1, 2}
  Values <- TwoValues
  SizeOf <- SizeOne
  Capacities = {1, 2}
  QueueCapacities = {1, 2}
  Unbounded = 99
  MaxThreads = 2
  MaxQueue = 0
  Paths <- OnePath
SYMMETRY ValueSymmetry
CONSTRAINT SmallTogether
INVARIANTS
  Consistent
  FindsLatest
  ValidFramesAreCurrent
PROPERTIES
  FlushCoversAll
