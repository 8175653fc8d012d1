SPECIFICATION Spec
CONSTANTS
  v1 = v1
  v2 = v2
  v3 = v3
  v4 = v4
  v5 = v5
  v6 = v6
  v7 = v7
  INVALID = 99
  Vertices <- SevenVertices
  MaxFaces = 4
  FaceCounts <- All
  Meshes <- FewFaces
  EditedEdges <- SomePairs
  MaxHalfedges = 22
  BuildFirst = TRUE
INVARIANTS
  Manifold
PROPERTIES
  KeepsPromise
  FailsOnlyForMisfits
CHECK_DEADLOCK FALSE
