SPECIFICATION Spec
CONSTANTS
  v1 = v1
  v2 = v2
  v3 = v3
  v4 = v4
  v5 = v5
  v6 = v6
  v7 = v7
  INVALID = 99
  Vertices <- FourVertices
  MaxFaces = 4
  FaceCounts <- NoneOrAll
  Meshes <- AnyTriangles
  EditedEdges <- AllPairs
  MaxHalfedges = 12
  BuildFirst = FALSE
SYMMETRY Sym
INVARIANTS
  Consistent
  Manifold
PROPERTIES
  KeepsPromise
CHECK_DEADLOCK FALSE
