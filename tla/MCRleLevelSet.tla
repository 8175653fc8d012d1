---------------------------- MODULE MCRleLevelSet ----------------------------
EXTENDS RleClients
CONSTANTS a, b, c
DeepInside == -800
\* Distances that tell the voxels apart, of both signs.
Signed(v) == (IF (v[1] + v[2] + v[3]) % 2 = 0 THEN 1 ELSE -1) * (1 + (v[1] + 4) + 9 * (v[2] + 3) + 63 * (v[3] + 3))
Distances(voxels) == [v \in voxels |-> Signed(v)]
\* Runs of one and of two voxels with gaps, beside the boxes of the files; scanlines with an empty one between them and
\* with a neighbour, away from those boxes.
Comb == {<<-8, 0, 0>>, <<-6, 0, 0>>, <<-4, 0, 0>>, <<-2, 0, 0>>, <<-1, 0, 0>>}
Corners == {<<0, 0, 2>>, <<2, 0, 2>>, <<1, 2, 2>>, <<2, 2, 3>>}
TheMaps == {Distances(Comb), Distances(Corners)}

File(org, size, ext, lines) ==
  LET ix == Index(org, size, ext, Numbered(lines, Len(lines)))
  IN [ix |-> ix, dist |-> [i \in 1..ix.n |-> 10 + i * (IF i % 2 = 0 THEN 1 ELSE -1)]]
\* A run with regions of three kinds around it; an inside exterior, and regions between the runs.
Corridor == File(<<0, 0, 0>>, <<7, 1, 1>>, -1, <<<<<<0, -2>>, <<1, 0>>, <<5, -1>>, <<6, -3>>, <<7, -1>>>>>>)
InsideOut ==
  File(<<0, 0, 0>>, <<3, 2, 1>>, -2, <<<<<<0, -1>>, <<1, 0>>, <<3, -1>>>>, <<<<0, 0>>, <<1, -1>>, <<2, 0>>, <<3, -1>>>>>>)
\* Two inside regions side by side and one between two runs.
Regions == File(<<0, 0, 0>>, <<6, 1, 1>>, -1, <<<<<<0, 0>>, <<1, -2>>, <<2, -3>>, <<4, 0>>, <<5, -2>>, <<6, -1>>>>>>)
TheFiles == [s \in LevelSets |-> IF s = b THEN {Corridor, InsideOut} ELSE {Corridor, InsideOut, Regions}]
ThePermutations == {<<0, 2, 1>>, <<1, 2, 0>>, <<2, 1, 0>>}
TheDilations == {[lo |-> <<-1, 0, 0>>, hi |-> <<2, 0, 0>>], [lo |-> <<0, 0, -1>>, hi |-> <<0, 1, 0>>],
                 [lo |-> <<0, -1, 0>>, hi |-> <<1, 0, 0>>]}
\* One level set is worked on, the other is aligned with it.
TheCalls == [s \in LevelSets |-> IF s = a THEN 3 ELSE 0]
\* One level set is written on, and one is reused for a result.
ReuseCalls == [s \in LevelSets |-> IF s = b THEN 0 ELSE 1]
\* A state is the same whichever call led to it.
View == <<ls, failed, calls>>
TheBounds == {[lo |-> <<1, 0, 0>>, hi |-> <<3, 1, 1>>]}
=============================================================================
