SPECIFICATION Spec
VIEW View
CONSTANTS
  a = a
  b = b
  c = c
  LevelSets = {a, b}
  Outside = 900
  Inside <- DeepInside
  Maps <- TheMaps
  Files <- TheFiles
  AxisPermutations <- ThePermutations
  Dilations <- TheDilations
  Radii = {1}
  Bounds <- TheBounds
  Reuse = FALSE
  MaxPopulated = 4
  MaxVolume = 40
  MaxCalls <- TheCalls
INVARIANTS
  Consistent
  LookupFinds
  QueriesAgree
PROPERTIES
  KeepsPromise
CHECK_DEADLOCK FALSE
