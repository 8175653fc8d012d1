------------------------------ MODULE Halfedges ------------------------------
(***************************************************************************)
(* The half-edge arrays of frantic::geometry::dcel (src/geometry/dcel.cpp, *)
(* frantic/geometry/dcel.hpp) as one record, the walks around a vertex or   *)
(* a face, and the edits its operations are composed of.  An edge is the    *)
(* pair of half-edges 2e and 2e+1; next links the half-edges of a face, or  *)
(* of a hole, in a cycle; twin(next) turns around the vertex pointed to.    *)
(*                                                                          *)
(* An edit takes a mesh and returns the mesh it leaves; fault says how it   *)
(* ended early: "throw" for an exception, "crash" for a null handle that    *)
(* is dereferenced.  The edits after a fault do not happen.                 *)
(***************************************************************************)
EXTENDS Integers, Sequences, FiniteSets, SequencesExt

CONSTANTS
  Vertices,  \* the vertex ids
  INVALID    \* INVALID_VERTEX_INDEX = INVALID_HALFEDGE_INDEX = INVALID_FACE_INDEX

Twin(h) == IF h % 2 = 0 THEN h + 1 ELSE h - 1

HalfedgeCount(m) == Cardinality(DOMAIN m.next)
FaceCount(m) == Cardinality(DOMAIN m.faceHalfedge)

Valid(m, h) == h \in DOMAIN m.next /\ m.vertex[h] # INVALID
ValidHalfedges(m) == {h \in DOMAIN m.next : m.vertex[h] # INVALID}
Source(m, h) == m.vertex[Twin(h)]
IsBoundaryFace(m, f) == f > FaceCount(m)
OnBoundary(m, h) == IsBoundaryFace(m, m.face[h])
IsBoundaryEdge(m, h) == OnBoundary(m, h) \/ OnBoundary(m, Twin(h))

\* initialize( vertexCount, faceCount )
EmptyMesh(faceCount) ==
  [next |-> [h \in {} |-> INVALID], vertex |-> [h \in {} |-> INVALID], face |-> [h \in {} |-> INVALID],
   vertexHalfedge |-> [v \in Vertices |-> INVALID],
   faceHalfedge |-> [f \in 0..(faceCount - 1) |-> INVALID],
   fault |-> "none"]

Fault(m, kind) == [m EXCEPT !.fault = kind]
-----------------------------------------------------------------------------
(* Walks. *)

FaceStep(m) == m.next
VertexStep(m) == [h \in DOMAIN m.next |-> Twin(m.next[h])]

\* What a loop over dcel_vertex_cycle_range or dcel_face_cycle_range visits, in order: up to
\* the half-edge whose step is back at h.  A loop that never comes back goes on for ever; as
\* many steps as there are half-edges show all that it can reach.
Longer(walk, step) ==
  IF step[Last(walk)] = walk[1] THEN walk ELSE Append(walk, step[Last(walk)])

Cycle(step, h) ==
  LET walk[k \in DOMAIN step] == IF k = 0 THEN <<h>> ELSE Longer(walk[k - 1], step)
  IN  walk[Cardinality(DOMAIN step) - 1]

Closes(step, h) == step[Last(Cycle(step, h))] = h

VertexCycle(m, h) == Cycle(VertexStep(m), h)
FaceCycle(m, h) == Cycle(FaceStep(m), h)

FirstOf(walk, hits) == IF hits = {} THEN INVALID ELSE walk[CHOOSE i \in hits : \A j \in hits : i <= j]
FirstThat(walk, Test(_)) == FirstOf(walk, {i \in DOMAIN walk : Test(walk[i])})

Visited(walk) == {walk[i] : i \in DOMAIN walk}

\* Mutant: the walk around the vertex starts on the wrong side.
FacePrevOfTwin(m, h) ==
  Last(IF OnBoundary(m, h) THEN VertexCycle(m, h) ELSE FaceCycle(m, h))

FacePrev(m, h) ==
  Last(IF OnBoundary(m, h) THEN VertexCycle(m, Twin(h)) ELSE FaceCycle(m, h))

\* find_vertex_halfedge
FindVertexHalfedge(m, source, target) ==
  IF m.vertexHalfedge[target] = INVALID THEN INVALID
  ELSE FirstThat(VertexCycle(m, m.vertexHalfedge[target]), LAMBDA h : Source(m, h) = source)

\* Mutant: only the half-edge itself is looked at.
NextBoundaryEdgeHere(m, h) == IF OnBoundary(m, h) THEN h ELSE INVALID

NextBoundaryEdge(m, h) == FirstThat(VertexCycle(m, h), LAMBDA b : OnBoundary(m, b))

FindExistingPrevious(m, h, next) == FirstThat(VertexCycle(m, h), LAMBDA p : m.next[p] = next)

IsBoundaryVertex(m, v) ==
  \/ m.vertexHalfedge[v] = INVALID
  \/ \E h \in Visited(VertexCycle(m, m.vertexHalfedge[v])) : IsBoundaryEdge(m, h)
-----------------------------------------------------------------------------
(* Edits. *)

\* link_edges: an invalid handle has no owner.
Link(m, prev, next) ==
  IF m.fault # "none" THEN m
  ELSE IF prev = INVALID /\ next = INVALID THEN Fault(m, "crash")
  ELSE IF prev = INVALID \/ next = INVALID THEN Fault(m, "throw")
  ELSE [m EXCEPT !.next[prev] = next]

\* at.insert_after( h )
InsertAfter(m, at, h) == Link(Link(m, h, m.next[at]), at, Twin(h))

Invalidate(m, h) == [m EXCEPT !.vertex[h] = INVALID]
SetVertexHalfedge(m, v, h) == [m EXCEPT !.vertexHalfedge[v] = h]
SetFaceHalfedge(m, f, h) == [m EXCEPT !.faceHalfedge[f] = h]
SetFaces(m, walk, f) == [m EXCEPT !.face = [h \in DOMAIN m.face |-> IF h \in Visited(walk) THEN f ELSE m.face[h]]]

\* Mutant: the references are not adjusted.
AdjustNothing(m, v) == m

\* adjust_vertex_halfedge and adjust_face_halfedge: the first half-edge of the cycle still in use.
AdjustVertexHalfedge(m, v) ==
  IF m.vertexHalfedge[v] = INVALID THEN m
  ELSE SetVertexHalfedge(m, v, FirstThat(VertexCycle(m, m.vertexHalfedge[v]), LAMBDA h : Valid(m, h)))

AdjustFaceHalfedge(m, f) ==
  IF m.faceHalfedge[f] = INVALID THEN m
  ELSE SetFaceHalfedge(m, f, FirstThat(FaceCycle(m, m.faceHalfedge[f]), LAMBDA h : Valid(m, h)))

\* Mutant: the half-edges that were linked to an existing half-edge are forgotten.
InsertionFixupOnce(m, added, expectedNext, existed) ==
  LET bound == NextBoundaryEdge(m, Twin(added))
  IN  IF m.fault # "none" \/ expectedNext = INVALID \/ added = expectedNext THEN m
      ELSE IF bound = INVALID THEN Fault(m, IF existed THEN "crash" ELSE "throw")
      ELSE Link(m, bound, expectedNext)

\* perform_insertion_fixup: what followed the face's previous half-edge is linked behind
\* the boundary half-edge that now ends at the source of added.
LinkBehind(m, bound, added, expectedNext, existed) ==
  IF bound = INVALID THEN Fault(m, IF existed THEN "crash" ELSE "throw")
  ELSE Link(IF existed THEN Link(m, FindExistingPrevious(m, Twin(added), added), m.next[bound]) ELSE m,
            bound, expectedNext)

InsertionFixup(m, added, expectedNext, existed) ==
  IF m.fault # "none" \/ expectedNext = INVALID \/ added = expectedNext THEN m
  ELSE LinkBehind(m, NextBoundaryEdge(m, Twin(added)), added, expectedNext, existed)

\* create_halfedge_internal: the half-edge that joins source to target on face f, a new
\* pair of half-edges unless the opposite direction exists.
NewPair(m, n, f, source, target) ==
  LET Extend(array, x, y) == [h \in 0..(n + 1) |-> IF h = n THEN x ELSE IF h = n + 1 THEN y ELSE array[h]]
  IN  [existed |-> FALSE, added |-> n,
       mesh |-> [m EXCEPT !.next = Extend(@, n + 1, n), !.vertex = Extend(@, target, source),
                          !.face = Extend(@, f, INVALID)]]

OtherSide(m, f, added) ==
  [existed |-> TRUE, added |-> added,
   mesh |-> IF m.face[added] # INVALID THEN Fault(m, "throw") ELSE [m EXCEPT !.face[added] = f]]

FindOrCreate(m, f, source, target, opposite) ==
  IF Valid(m, opposite) THEN OtherSide(m, f, Twin(opposite)) ELSE NewPair(m, HalfedgeCount(m), f, source, target)

CreateHalfedge(m, f, source, target) ==
  FindOrCreate(m, f, source, target, FindVertexHalfedge(m, target, source))

\* add_edge_internal, first half: the new half-edge, joined to its target vertex.
JoinAt(m, bound, added) ==
  IF ~Valid(m, bound) THEN Fault(m, "throw") ELSE InsertAfter(m, bound, added)

JoinTarget(m, added, existed, target) ==
  IF m.fault # "none" THEN m
  ELSE IF m.vertexHalfedge[target] = INVALID THEN SetVertexHalfedge(m, target, added)
  ELSE IF existed THEN m
  ELSE JoinAt(m, NextBoundaryEdge(m, m.vertexHalfedge[target]), added)

\* add_edge_internal, second half: joined to the half-edge the face had last.
LinkPrevious(m, previous, added) == IF previous = INVALID THEN m ELSE Link(m, previous, added)

FirstOfFace(m, f, added) ==
  IF m.fault = "none" /\ m.faceHalfedge[f] = INVALID THEN SetFaceHalfedge(m, f, added) ELSE m

JoinPrevious(m, added, existed, info) ==
  FirstOfFace(LinkPrevious(InsertionFixup(m, added, info.expectedNext, existed), info.previous, added),
              info.face, added)
-----------------------------------------------------------------------------
(* Removal. *)

\* remove_spike
RemoveSpike(m, h) == Link(m, FacePrev(m, h), m.next[Twin(h)])

\* Mutant: nothing is removed.
RemoveNothing(m, h) == m

\* remove_edge; an end that floats has no other edge.
Floating(m, h) == m.next[h] = Twin(h)

Unhook(m, h) == IF Floating(m, Twin(h)) THEN m ELSE RemoveSpike(m, h)
Drop(m, h) == Invalidate(Invalidate(m, h), Twin(h))
Release(m, v, floating) == IF floating THEN SetVertexHalfedge(m, v, INVALID) ELSE AdjustVertexHalfedge(m, v)

\* The two faces at h, or the face and the hole, become one; was is the mesh before.
MergeFaces(m, was, h) ==
  IF ~IsBoundaryEdge(was, h)
  THEN AdjustFaceHalfedge(IF was.face[h] = was.face[Twin(h)] THEN m
                          ELSE SetFaceHalfedge(SetFaces(m, FaceCycle(m, h), was.face[h]), was.face[Twin(h)], INVALID),
                          was.face[h])
  ELSE IF Floating(was, h) \/ Floating(was, Twin(h)) THEN m
  ELSE SetFaces(m, FaceCycle(m, m.next[h]), was.face[h])

RemoveEdge(m, h) ==
  MergeFaces(Release(Release(Drop(Unhook(Unhook(m, h), Twin(h)), h),
                             m.vertex[h], Floating(m, h)),
                     m.vertex[Twin(h)], Floating(m, Twin(h))),
             m, h)

\* remove_loop: the face of two half-edges h and next(h) collapses into h.  The two other
\* half-edges are given INVALID_HALFEDGE_HANDLE as their face, which converts to 0.
Bypass(m, h, nextTwin) == Link(Link(m, h, m.next[nextTwin]), FacePrev(m, nextTwin), h)
LoseFace(m, h) == IF OnBoundary(m, h) THEN m ELSE SetFaceHalfedge(m, m.face[h], INVALID)
TakeFace(m, h, next, f) == [m EXCEPT !.face = [@ EXCEPT ![h] = f, ![next] = 0, ![Twin(next)] = 0]]
KeepFace(m, h) == IF OnBoundary(m, h) THEN m ELSE AdjustFaceHalfedge(m, m.face[h])

Settle(m, h) ==
  IF \/ OnBoundary(m, Twin(h)) /\ OnBoundary(m, h)
     \/ Floating(m, Twin(h))
     \/ Floating(m, h)
  THEN RemoveEdge(m, h)
  ELSE AdjustVertexHalfedge(AdjustVertexHalfedge(m, m.vertex[h]), m.vertex[Twin(h)])

RemoveLoop(m, h) ==
  LET next == m.next[h]
  IN  IF m.next[next] # h THEN Fault(m, "throw")
      ELSE Settle(KeepFace(Drop(TakeFace(LoseFace(Bypass(m, h, Twin(next)), h), h, next, m.face[Twin(next)]),
                                next), h), h)

\* check_manifold_collapse: the ends of the edge have no neighbour in common but the
\* third vertices of the triangles at the edge.
Apex(m, h) == IF m.next[m.next[m.next[h]]] = h THEN {m.vertex[m.next[h]]} ELSE {}
Neighbours(m, h) == {Source(m, e) : e \in Visited(VertexCycle(m, h))}
DisjointRings(m, h, ring, ringOfTwin) ==
  /\ ~(ring = {Source(m, h)} /\ ringOfTwin = {m.vertex[h]})
  /\ ring \cap ringOfTwin = {}

CheckManifoldCollapse(m, h) ==
  LET apexes == Apex(m, h) \cup Apex(m, Twin(h))
  IN  /\ ~ /\ IsBoundaryVertex(m, m.vertex[h])
           /\ IsBoundaryVertex(m, Source(m, h))
           /\ ~IsBoundaryEdge(m, h)
      /\ DisjointRings(m, h, Neighbours(m, h) \ apexes, Neighbours(m, Twin(h)) \ apexes)

\* One side of collapse_edge_internal: the half-edge h is cut out of its cycle.
Splice(m, prev, h) ==
  IF ~Valid(m, prev) \/ ~Valid(m, m.next[h]) THEN Fault(m, "throw")
  ELSE KeepFace(Invalidate(Link(m, prev, m.next[h]), h), h)

CutOut(m, h) == IF m.fault # "none" THEN m ELSE Splice(m, FacePrev(m, h), h)

\* collapse_edge_internal, after its check: the source of h moves into its target.
Rename(m, moved, target) ==
  [m EXCEPT !.vertex = [e \in DOMAIN m.next |-> IF e \in moved THEN target ELSE m.vertex[e]]]
Merge(m, target, source) ==
  IF m.fault # "none" THEN m ELSE SetVertexHalfedge(AdjustVertexHalfedge(m, target), source, INVALID)
Unloop(m, h) == IF m.fault = "none" /\ m.next[m.next[h]] = h THEN RemoveLoop(m, h) ELSE m

CollapseEdge(m, h) ==
  LET renamed == Rename(m, Visited(VertexCycle(m, Twin(h))), m.vertex[h])
      merged == Merge(CutOut(CutOut(renamed, h), Twin(h)), m.vertex[h], Source(m, h))
  IN  Unloop(Unloop(merged, m.next[h]), m.next[Twin(h)])

\* Mutant: the other diagonal may exist.
CheckFlipTriangles(m, h) ==
  /\ ~IsBoundaryEdge(m, h)
  /\ m.next[m.next[m.next[h]]] = h
  /\ m.next[m.next[m.next[Twin(h)]]] = Twin(h)

\* flip_edge: what it requires of the edge, and the exchange of the diagonal.
CheckFlip(m, h) ==
  LET twin == Twin(h)
  IN  /\ ~IsBoundaryEdge(m, h)
      /\ m.next[m.next[m.next[h]]] = h
      /\ m.next[m.next[m.next[twin]]] = twin
      /\ FindVertexHalfedge(m, m.vertex[m.next[h]], m.vertex[m.next[twin]]) = INVALID

FlipEdge(m, h) ==
  LET twin == Twin(h)
      f0 == m.face[h]
      f1 == m.face[twin]
      next0 == m.next[h]
      prev0 == m.next[next0]
      next1 == m.next[twin]
      prev1 == m.next[next1]
      Renamed(holder, x, old, new) == IF holder[x] = old THEN [holder EXCEPT ![x] = new] ELSE holder
  IN  [m EXCEPT
         !.vertexHalfedge = Renamed(Renamed(@, m.vertex[h], h, Twin(next0)), m.vertex[twin], twin, Twin(next1)),
         !.vertex = [@ EXCEPT ![h] = m.vertex[next0], ![twin] = m.vertex[next1]],
         !.faceHalfedge = Renamed(Renamed(@, f0, next0, h), f1, next1, twin),
         !.face = [@ EXCEPT ![next0] = f1, ![next1] = f0],
         !.next = [@ EXCEPT ![h] = prev0, ![prev0] = next1, ![next1] = h,
                            ![twin] = prev1, ![prev1] = next0, ![next0] = twin]]
=============================================================================
