------------------------------- MODULE Surface -------------------------------
(***************************************************************************)
(* What a dcel promises its users: a set of faces, each a closed loop of    *)
(* directed edges, no directed edge in two faces, under collapses and       *)
(* flips that move whole faces.  A user sees the faces through              *)
(* get_face_halfedge and dcel_face_cycle_range.                             *)
(***************************************************************************)
EXTENDS Integers, Sequences, FiniteSets

CONSTANTS
  Vertices,
  FaceIds,
  Polygons  \* the faces offered, as sequences of distinct vertices

VARIABLES
  faces,  \* face id -> its directed edges <<source, target>>, {} if there is no such face
  usable  \* the surface has refused no face

surface == <<faces, usable>>

NoFaces == [f \in FaceIds |-> {}]

\* The directed edges of a polygon without repeated vertices.
Loop(corners) == {<<corners[i], corners[(i % Len(corners)) + 1]>> : i \in DOMAIN corners}

Used == UNION {faces[f] : f \in FaceIds}

Init == faces = NoFaces /\ usable = TRUE

\* Every edge at v has a face on both sides.
Enclosed(v) ==
  /\ \E e \in Used : e[1] = v
  /\ \A e \in Used : v \in {e[1], e[2]} => <<e[2], e[1]>> \in Used

Fits(edges) ==
  /\ edges \cap Used = {}
  /\ \A e \in edges : ~Enclosed(e[1])

AddFace(f, corners) ==
  /\ usable
  /\ faces[f] = {}
  /\ faces' = [faces EXCEPT ![f] = Loop(corners)]
  /\ Fits(Loop(corners))
  /\ UNCHANGED usable

\* A face that is refused: the surface is lost, until it is cleared.
Refuse == usable /\ faces' = NoFaces /\ usable' = FALSE

\* The vertex source becomes target.
Moved(edges, source, target) ==
  LET To(v) == IF v = source THEN target ELSE v
  IN  {<<To(e[1]), To(e[2])>> : e \in edges} \ {<<target, target>>}

\* A face left with two edges disappears.
Shrunk(edges) == IF Cardinality(edges) < 3 THEN {} ELSE edges

\* So does an edge that has the same face on both sides and ends at a vertex without other edges.
OnlyEdge(used, v) == \A d, e \in used : v \in {d[1], d[2]} /\ v \in {e[1], e[2]} => {d[1], d[2]} = {e[1], e[2]}
Hanging(edges, used) ==
  {e \in edges : <<e[2], e[1]>> \in edges /\ (OnlyEdge(used, e[1]) \/ OnlyEdge(used, e[2]))}

CollapseEdge(source, target) ==
  LET left == [f \in FaceIds |-> Shrunk(Moved(faces[f], source, target))]
  IN  /\ usable
      /\ faces' = [f \in FaceIds |-> left[f] \ Hanging(left[f], UNION {left[g] : g \in FaceIds})]
      /\ UNCHANGED usable

\* The triangles a-b-c and b-a-d become d-c-a and c-d-b.
FlipEdge(f, g, a, b, c, d) ==
  /\ usable
  /\ faces[f] = Loop(<<a, b, c>>)
  /\ faces[g] = Loop(<<b, a, d>>)
  /\ {<<c, d>>, <<d, c>>} \cap Used = {}
  /\ faces' = [faces EXCEPT ![f] = Loop(<<d, c, a>>), ![g] = Loop(<<c, d, b>>)]
  /\ UNCHANGED usable

Restart == usable /\ faces' = NoFaces /\ UNCHANGED usable

Clear == faces' = NoFaces /\ usable' = TRUE

Sides(f, g) == {e \in faces[f] : <<e[2], e[1]>> \in faces[g]}

Change ==
  \/ Restart
  \/ Clear
  \/ Refuse
  \/ \E f \in FaceIds, corners \in Polygons : AddFace(f, corners)
  \/ \E e \in Used : CollapseEdge(e[1], e[2]) \/ CollapseEdge(e[2], e[1])
  \/ \E f, g \in FaceIds : \E e \in Sides(f, g), c, d \in Vertices : FlipEdge(f, g, e[1], e[2], c, d)

\* A step that leaves the surface as it is needs no action.
Next == surface' # surface /\ Change

Spec == Init /\ [][Next]_surface
=============================================================================
