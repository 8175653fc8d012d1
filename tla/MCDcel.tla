------------------------------- MODULE MCDcel -------------------------------
EXTENDS Dcel, TLC
CONSTANTS v1, v2, v3, v4, v5, v6, v7
FourVertices == {v1, v2, v3, v4}
SevenVertices == {v1, v2, v3, v4, v5, v6, v7}
Triangles == {s \in [1..3 -> Vertices] : \A i, j \in 1..3 : s[i] = s[j] => i = j}
AnyTriangles == {Triangles}
\* Up to three faces that meet in v7 only, and faces between them, a quadrilateral included.
Fans == {<<v7, v1, v2>>, <<v4, v7, v3>>, <<v5, v6, v7>>, <<v7, v2, v3>>, <<v7, v6, v1>>, <<v5, v7, v4, v2>>}
\* A cone around v4 with one more face at its rim.
Cone == {<<v4, v1, v2>>, <<v4, v2, v3>>, <<v4, v3, v1>>, <<v5, v1, v3>>}
\* A cone around v4 and a face that meets it in v4 only.
Hourglass == {<<v4, v1, v2>>, <<v4, v2, v3>>, <<v4, v3, v1>>, <<v4, v5, v6>>}
\* A pentagon with two triangles at an edge between two of its vertices: when the edge
\* collapses, v3 hangs inside the pentagon.
Pentagon == {<<v1, v3, v2, v4, v5>>, <<v1, v2, v3>>, <<v2, v1, v5>>, <<v4, v2, v5>>}
FewFaces == {Fans, Cone, Hourglass, Pentagon}
AllPairs == {{u, v} : u, v \in Vertices}
SomePairs == {{v7, v2}, {v7, v4}, {v1, v2}}
NoneOrAll == {0, MaxFaces}
All == {MaxFaces}
Sym == Permutations(Vertices)
=============================================================================
