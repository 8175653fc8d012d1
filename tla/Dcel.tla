-------------------------------- MODULE Dcel --------------------------------
(***************************************************************************)
(* frantic::geometry::dcel as its clients use it: faces are added vertex by *)
(* vertex (trimesh3_to_dcel, mesh_interface_to_dcel), edges are collapsed   *)
(* (remove_coincident_geometry) and flipped, holes are numbered, and the    *)
(* structure is initialized again for the next mesh.                        *)
(***************************************************************************)
EXTENDS Halfedges

CONSTANTS
  MaxFaces,      \* bound: faces of a mesh
  Meshes,        \* the meshes that are loaded: sets of faces, each a sequence of three or more distinct vertices
  FaceCounts,    \* the face counts a mesh is initialized with; further faces are inserted
  BuildFirst,    \* no face is added once an edge was collapsed or flipped, as in every client
  EditedEdges,   \* the edges that clients collapse or flip, as sets of two vertices
  MaxHalfedges   \* bound: half-edges ever created

ASSUME DcelAssumption ==
  /\ IsFiniteSet(Vertices)
  /\ INVALID \in Nat /\ INVALID \notin Vertices
  /\ MaxFaces \in Nat /\ MaxHalfedges \in Nat
  /\ UNION Meshes \subseteq Seq(Vertices)
  /\ \A p \in UNION Meshes : Len(p) > 2 /\ \A i, j \in DOMAIN p : p[i] = p[j] => i = j
  /\ FaceCounts \subseteq 0..MaxFaces
  /\ BuildFirst \in BOOLEAN
  /\ EditedEdges \subseteq SUBSET Vertices
  /\ MaxHalfedges + MaxFaces < INVALID

VARIABLES
  edited,               \* history: an edge was collapsed or flipped since the mesh was begun
  pinched,              \* history: a face of the mesh has closed a fan next to another one
  input,                \* the mesh whose faces are added, in any order
  mesh,                 \* m_halfedges, m_vertexHalfedges, m_faceHalfedges
  info,                 \* m_faceConstructionInfo
  isAddingFace,         \* m_isAddingFace
  isTriangleMesh,       \* m_isTriangleMesh
  boundaryHalfedges,    \* m_boundaryHalfedges
  isBoundaryInfoCached, \* m_isBoundaryInfoCached
  faces                 \* history: the faces a client sees, see FacesOf, as long as none was pinched

dcelVars == <<edited, pinched, input, mesh, info, isAddingFace, isTriangleMesh, boundaryHalfedges, isBoundaryInfoCached, faces>>
historyVars == <<edited, pinched>>
boundaryVars == <<boundaryHalfedges, isBoundaryInfoCached>>
flagVars == <<isAddingFace, isTriangleMesh>>

\* private_face_construction_info::initialize; the vertices added so far stand for
\* count, firstVertexId and lastVertexId.
FaceInfo(f) ==
  [face |-> f, corners |-> <<>>, expectedNext |-> INVALID, previous |-> INVALID,
   first |-> INVALID, firstExisted |-> FALSE]

\* The directed edges of the faces of m, without the face that is being added.
FaceLoop(m, f) == {<<Source(m, h), m.vertex[h]>> : h \in {e \in ValidHalfedges(m) : m.face[e] = f}}

FacesOf(m, open) ==
  [f \in 0..(MaxFaces - 1) |->
     IF m.fault = "none" /\ f \in DOMAIN m.faceHalfedge /\ f # open THEN FaceLoop(m, f) ELSE {}]

Lost == [f \in 0..(MaxFaces - 1) |-> {}]

\* Some of the faces at v go all the way around it, and others are there too.
Around(seen, v) == {f \in DOMAIN seen : \E e \in seen[f] : e[1] = v}
ClosedFan(seen, v, S) == \A f \in S : \A e \in seen[f] : e[1] = v => \E g \in S : <<e[2], v>> \in seen[g]
Pinches(seen, v) == \E S \in (SUBSET Around(seen, v)) \ {{}, Around(seen, v)} : ClosedFan(seen, v, S)

\* dcel() and initialize( vertexCount, faceCount ), as in every client outside the tests.
Init ==
  /\ edited = FALSE
  /\ pinched = FALSE
  /\ input \in Meshes
  /\ \E n \in FaceCounts : mesh = EmptyMesh(n)
  /\ info = FaceInfo(INVALID)
  /\ isAddingFace = FALSE
  /\ isTriangleMesh = TRUE
  /\ boundaryHalfedges = <<>>
  /\ isBoundaryInfoCached = FALSE
  /\ faces = FacesOf(mesh, info.face)

Sound == mesh.fault = "none"
Ready == Sound /\ ~isAddingFace /\ DOMAIN mesh.vertexHalfedge = Vertices

\* A face that closes a fan next to another one is accepted.  What is left is no manifold, and
\* nothing is said of it until the structure is initialized again.
Regular == Ready /\ ~pinched
MayAddFace == Ready /\ ~(BuildFirst /\ edited)

-----------------------------------------------------------------------------
(* Construction of a face. *)

\* begin_face( faceId ); clients give the faces in order.
BeginFace(f) ==
  /\ MayAddFace
  /\ mesh.faceHalfedge[f] = INVALID
  /\ \A g \in 0..(f - 1) : mesh.faceHalfedge[g] # INVALID
  /\ isAddingFace' = TRUE
  /\ info' = FaceInfo(f)
  /\ UNCHANGED <<historyVars, input, mesh, isTriangleMesh, boundaryVars>>

\* begin_face() with insert_new_face_id.
BeginNewFace ==
  /\ MayAddFace
  /\ FaceCount(mesh) < MaxFaces
  /\ mesh' = [mesh EXCEPT !.faceHalfedge = [f \in 0..FaceCount(mesh) |-> IF f < FaceCount(mesh) THEN @[f] ELSE INVALID]]
  /\ isAddingFace' = TRUE
  /\ info' = FaceInfo(FaceCount(mesh))
  /\ UNCHANGED <<historyVars, input, isTriangleMesh, boundaryVars>>

\* begin_face throws: an exception in the middle of a face left m_isAddingFace set, and
\* initialize did not reset it.
BeginFaceRefused ==
  /\ Sound /\ isAddingFace /\ info.face = INVALID
  /\ mesh' = Fault(mesh, "throw")
  /\ UNCHANGED <<historyVars, input, info, flagVars, boundaryVars>>

\* add_edge_internal
Continue(joined, new) ==
  [mesh |-> joined,
   info |-> IF joined.fault # "none" THEN info
            ELSE [info EXCEPT !.first = IF @ = INVALID THEN new.added ELSE @,
                              !.firstExisted = IF info.first = INVALID THEN new.existed ELSE @,
                              !.expectedNext = joined.next[new.added],
                              !.previous = new.added]]

Join(new, target) ==
  Continue(JoinPrevious(JoinTarget(new.mesh, new.added, new.existed, target), new.added, new.existed, info), new)

AddEdge(source, target) == Join(CreateHalfedge(mesh, info.face, source, target), target)

\* add_face_vertex; the vertices of a face are distinct.
PutCorner(v, added) ==
  /\ mesh' = added.mesh
  /\ info' = [added.info EXCEPT !.corners = Append(@, v)]

AddFaceVertex(v) ==
  /\ Sound /\ info.face # INVALID
  /\ \E p \in input : IsPrefix(Append(info.corners, v), p)
  /\ HalfedgeCount(mesh) + 2 <= MaxHalfedges
  /\ PutCorner(v, IF info.corners = <<>> THEN [mesh |-> mesh, info |-> info] ELSE AddEdge(Last(info.corners), v))
  /\ UNCHANGED <<historyVars, input, flagVars, boundaryVars>>

\* end_face: the face is closed, the half-edge after its first corner is fixed last.
CloseFace(added) ==
  Link(InsertionFixup(added.mesh, added.info.first, added.info.expectedNext, added.info.firstExisted),
       added.info.previous, added.info.first)

PutFace(closed, open) ==
  /\ mesh' = closed
  /\ info' = IF closed.fault = "none" THEN FaceInfo(INVALID) ELSE open
  /\ isAddingFace' = (closed.fault # "none")

FinishFace(added) == PutFace(CloseFace(added), added.info)

EndFace ==
  /\ Sound /\ info.face # INVALID
  /\ info.corners \in input
  /\ HalfedgeCount(mesh) + 2 <= MaxHalfedges
  /\ FinishFace(AddEdge(Last(info.corners), info.corners[1]))
  /\ isTriangleMesh' = (isTriangleMesh /\ Len(info.corners) = 3)
  /\ pinched' = (pinched \/ \E v \in Vertices : Pinches(FacesOf(mesh', info'.face), v))
  /\ UNCHANGED <<edited, input, boundaryVars>>
-----------------------------------------------------------------------------
(* Changes to a mesh. *)

Edited(h) == Valid(mesh, h) /\ {Source(mesh, h), mesh.vertex[h]} \in EditedEdges

\* try_collapse_edge, or collapse_edge for an edge that passes the check.
Collapse(h) ==
  /\ Ready
  /\ Edited(h) /\ CheckManifoldCollapse(mesh, h)
  /\ mesh' = CollapseEdge(mesh, h)
  /\ edited' = TRUE
  /\ UNCHANGED <<pinched, input, info, flagVars, boundaryVars>>

\* flip_edge does not ask whether the two triangles have the same third vertex; its
\* clients do.
Flip(h) ==
  /\ Ready
  /\ Edited(h) /\ CheckFlip(mesh, h)
  /\ mesh.vertex[mesh.next[h]] # mesh.vertex[mesh.next[Twin(h)]]
  /\ mesh' = FlipEdge(mesh, h)
  /\ edited' = TRUE
  /\ UNCHANGED <<pinched, input, info, flagVars, boundaryVars>>

BoundaryFaceId(b) == INVALID - b - 1

\* cache_boundary_info( force ): one boundary after the other, in the order of their
\* first half-edges; a half-edge met again ends in an exception.
NumberBoundaries(m) ==
  LET unnumbered == [h \in DOMAIN m.face |-> IF IsBoundaryFace(m, m.face[h]) THEN INVALID ELSE m.face[h]]
      Number[h \in 0..HalfedgeCount(m)] ==
        IF h = 0 THEN [face |-> unnumbered, first |-> <<>>, fault |-> "none"]
        ELSE LET done == Number[h - 1]
                 walk == FaceCycle(m, h - 1)
                 met == {i \in DOMAIN walk : done.face[walk[i]] # INVALID \/ \E j \in 1..(i - 1) : walk[j] = walk[i]}
                 fresh == {walk[i] : i \in {j \in DOMAIN walk : \A k \in met : j < k}}
             IN  IF done.fault # "none" \/ done.face[h - 1] # INVALID THEN done
                 ELSE [face |-> [e \in DOMAIN m.face |-> IF e \in fresh THEN BoundaryFaceId(Len(done.first)) ELSE done.face[e]],
                       first |-> Append(done.first, h - 1),
                       fault |-> IF met = {} /\ Closes(FaceStep(m), h - 1) THEN "none" ELSE "throw"]
  IN  Number[HalfedgeCount(m)]

CacheBoundaryInfo(force) ==
  LET numbered == NumberBoundaries(mesh)
  IN  /\ Ready
      /\ ~isBoundaryInfoCached \/ force
      /\ mesh' = [mesh EXCEPT !.face = numbered.face]
      /\ boundaryHalfedges' = numbered.first
      /\ isBoundaryInfoCached' = (isBoundaryInfoCached \/ numbered.fault = "none")
      /\ UNCHANGED <<historyVars, input, info, flagVars>>

\* initialize: the next mesh is built in the same structure.
Initialize ==
  /\ ~(Sound /\ info.face # INVALID)
  /\ input' \in Meshes
  /\ \E n \in FaceCounts : mesh' = EmptyMesh(n)
  /\ info' = FaceInfo(INVALID)
  /\ boundaryHalfedges' = <<>>
  /\ isBoundaryInfoCached' = FALSE
  /\ edited' = FALSE
  /\ pinched' = FALSE
  /\ UNCHANGED flagVars

\* clear
Clear ==
  /\ UNCHANGED input
  /\ mesh' = [EmptyMesh(0) EXCEPT !.vertexHalfedge = [v \in {} |-> INVALID]]
  /\ info' = FaceInfo(INVALID)
  /\ isAddingFace' = FALSE
  /\ isTriangleMesh' = TRUE
  /\ boundaryHalfedges' = <<>>
  /\ isBoundaryInfoCached' = FALSE
  /\ edited' = FALSE
  /\ pinched' = FALSE

Step ==
  \/ \E f \in DOMAIN mesh.faceHalfedge : BeginFace(f)
  \/ BeginNewFace
  \/ BeginFaceRefused
  \/ \E v \in Vertices : AddFaceVertex(v)
  \/ EndFace
  \/ \E h \in DOMAIN mesh.next : Collapse(h) \/ Flip(h)
  \/ \E force \in BOOLEAN : CacheBoundaryInfo(force)
  \/ Initialize
  \/ Clear

Next == Step /\ faces' = IF pinched' THEN Lost ELSE FacesOf(mesh', info'.face)

Spec == Init /\ [][Next]_dcelVars
-----------------------------------------------------------------------------
(* Properties. *)

TypeOK ==
  LET Ref(set) == set \cup {INVALID}
      H == DOMAIN mesh.next
  IN  /\ H = 0..(Cardinality(H) - 1) /\ Cardinality(H) <= MaxHalfedges
      /\ mesh.next \in [H -> H]
      /\ mesh.vertex \in [H -> Ref(Vertices)]
      /\ DOMAIN mesh.face = H
      /\ \A h \in H : mesh.face[h] \in Ref(DOMAIN mesh.faceHalfedge) \/ OnBoundary(mesh, h)
      /\ mesh.vertexHalfedge \in [Vertices -> Ref(H)] \cup [{} -> {}]
      /\ \E n \in 0..MaxFaces : mesh.faceHalfedge \in [0..(n - 1) -> Ref(H)]
      /\ mesh.fault \in {"none", "throw", "crash"}
      /\ info.face \in Ref(DOMAIN mesh.faceHalfedge)
      /\ {info.first, info.previous, info.expectedNext} \subseteq Ref(H)
      /\ {isAddingFace, isTriangleMesh, isBoundaryInfoCached, info.firstExisted} \subseteq BOOLEAN
      /\ boundaryHalfedges \in Seq(H)

\* Whatever faces were added in whatever order, and after every collapse and flip: the
\* half-edges in use come in pairs, next permutes them, each starts where the one before it
\* ends, and the half-edges of a cycle belong to the same face.  It is what every loop over
\* dcel_face_cycle_range and dcel_vertex_cycle_range relies on to end where it began.
CyclesAgree ==
  Regular => \A h \in ValidHalfedges(mesh) :
     /\ Valid(mesh, Twin(h))
     /\ Valid(mesh, mesh.next[h])
     /\ Source(mesh, mesh.next[h]) = mesh.vertex[h]
     /\ \/ mesh.face[mesh.next[h]] = mesh.face[h]
        \/ OnBoundary(mesh, h) /\ OnBoundary(mesh, mesh.next[h])
     /\ \A g \in ValidHalfedges(mesh) : mesh.next[g] = mesh.next[h] => g = h

\* m_vertexHalfedges and m_faceHalfedges never keep a half-edge that a collapse removed,
\* and forget a vertex or a face only when nothing of it is left: what remove_loop,
\* remove_edge and the two adjust functions have to restore between them.
References ==
  Regular =>
     /\ \A v \in Vertices : LET h == mesh.vertexHalfedge[v] IN
           IF h = INVALID THEN \A e \in ValidHalfedges(mesh) : mesh.vertex[e] # v
           ELSE Valid(mesh, h) /\ mesh.vertex[h] = v
     /\ \A f \in DOMAIN mesh.faceHalfedge : LET h == mesh.faceHalfedge[f] IN
           IF h = INVALID THEN faces[f] = {}
           ELSE Valid(mesh, h) /\ mesh.face[h] = f

\* Turning around a vertex from its half-edge (get_vertex_halfedge) visits every half-edge
\* that points to it: the fans that perform_insertion_fixup links behind one another are one
\* cycle, so that find_vertex_halfedge finds the opposite of an edge wherever it is.
OneFanPerVertex ==
  Regular => \A v \in Vertices : mesh.vertexHalfedge[v] # INVALID =>
     Visited(VertexCycle(mesh, mesh.vertexHalfedge[v])) = {h \in ValidHalfedges(mesh) : mesh.vertex[h] = v}

\* The half-edges marked with a face are the one cycle that dcel_face_cycle_range walks from
\* get_face_halfedge, also when collapses have merged or removed its neighbours.
OneCyclePerFace ==
  Regular => \A f \in DOMAIN mesh.faceHalfedge : mesh.faceHalfedge[f] # INVALID =>
     Visited(FaceCycle(mesh, mesh.faceHalfedge[f])) = {h \in ValidHalfedges(mesh) : mesh.face[h] = f}

\* check_manifold_collapse lets no collapse make two edges between the same vertices, and
\* create_halfedge_internal never makes a second pair for an edge that exists.
EdgesOnce ==
  Regular => \A g, h \in ValidHalfedges(mesh) :
     Source(mesh, g) = Source(mesh, h) /\ mesh.vertex[g] = mesh.vertex[h] => g = h

\* remove_loop leaves no edge behind that has no face on either side.
NoWireEdges ==
  Regular => \A h \in ValidHalfedges(mesh) : ~(OnBoundary(mesh, h) /\ OnBoundary(mesh, Twin(h)))

\* remove_coincident_geometry and dcel_to_trimesh3 write the half-edges of a face into the
\* three corners of a triangle: is_triangle_mesh is true only if every face has three, after
\* every collapse.
TrianglesStay ==
  Regular /\ isTriangleMesh => \A f \in DOMAIN mesh.faceHalfedge :
     mesh.faceHalfedge[f] # INVALID => Len(FaceCycle(mesh, mesh.faceHalfedge[f])) = 3

\* What the loops over a mesh, the two reference arrays and the readers of triangles rely on,
\* after every face, collapse and flip.
Consistent == TypeOK /\ References /\ OneCyclePerFace /\ TrianglesStay

\* The mesh is an oriented manifold: one cycle for each fan, each edge once, between faces.
Manifold == CyclesAgree /\ OneFanPerVertex /\ EdgesOnce /\ NoWireEdges

\* What dcel.hpp says of cache_boundary_info, that it finds all boundary loops in the surface:
\* it can for every surface that the other operations leave.  It does not hold: the
\* collapse of an edge at a hole leaves one that it throws on.
HolesCanBeNumbered == Regular => NumberBoundaries(mesh).fault = "none"

Numbered == \E h \in ValidHalfedges(mesh) : OnBoundary(mesh, h) /\ mesh.face[h] # INVALID

Usable == Sound /\ ~pinched /\ (isAddingFace => info.face # INVALID)

Promise == INSTANCE Surface WITH FaceIds <- 0..(MaxFaces - 1), Polygons <- UNION Meshes, usable <- Usable

\* The half-edges implement a surface: seen through its faces, the building of a face is one
\* step that takes effect at end_face or not at all, a collapse moves one vertex into another
\* in every face at once, a flip exchanges one diagonal, and nothing else changes a face.  Of
\* a pinched mesh nothing is promised.
KeepsPromise == Promise!Spec

\* begin_face, add_face_vertex and end_face refuse a face as not manifold only if it repeats
\* a directed edge or needs a vertex whose fan is closed, in whatever order the faces come:
\* a free hole is always found, and perform_insertion_fixup never links through
\* INVALID_HALFEDGE_HANDLE, whose owner is null.  Numbered holes are refused as faces, and
\* left out here.
RefusesOnlyMisfits ==
  info.face # INVALID /\ Sound /\ ~pinched /\ mesh'.fault # "none" /\ ~Numbered
    => \E p \in input : IsPrefix(info'.corners, p) /\ ~Promise!Fits(Promise!Loop(p))

\* An edge that check_manifold_collapse passes is collapsed to the end: collapse_edge_internal
\* and remove_loop do not find their surface broken half way and throw.
EditsNeverFail == Regular /\ ~isAddingFace' => mesh'.fault = "none"

\* The only step that fails is one that adds an edge of a face that does not fit.
FailsOnlyForMisfits == [][RefusesOnlyMisfits /\ EditsNeverFail]_dcelVars
=============================================================================
