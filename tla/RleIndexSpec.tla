---------------------------- MODULE RleIndexSpec ----------------------------
(***************************************************************************)
(* frantic::volumetrics::levelset::rle_index_spec: the voxels of a box as   *)
(* runs along X, one scanline for every pair of a Y and a Z.  A run <<x, d>> *)
(* ends where the next one starts; d is the data index of its first voxel   *)
(* or, for voxels without data, the region code (-1 outside, less inside).  *)
(* The last entry of a scanline only ends the run before it.                *)
(* m_bcToRunIndex and m_runData are the sequence of the scanlines; what the *)
(* unused second half of a terminator holds is not modelled.                *)
(***************************************************************************)
EXTENDS Integers, Sequences, FiniteSets, FiniteSetsExt

Sum3(u, v) == <<u[1] + v[1], u[2] + v[2], u[3] + v[3]>>
Difference3(u, v) == <<u[1] - v[1], u[2] - v[2], u[3] - v[3]>>
Lower(a, b) == IF a < b THEN a ELSE b
Upper(a, b) == IF a < b THEN b ELSE a
Lower3(u, v) == <<Lower(u[1], v[1]), Lower(u[2], v[2]), Lower(u[3], v[3])>>
Upper3(u, v) == <<Upper(u[1], v[1]), Upper(u[2], v[2]), Upper(u[3], v[3])>>
Interval(a, b) == [i \in 1..(b - a + 1) |-> a + i - 1]
\* The elements of a finite set of integers in ascending order.
AscendingFrom(S, a, b) ==
  LET upTo[i \in (a - 1)..b] == IF i < a THEN <<>> ELSE IF i \in S THEN Append(upTo[i - 1], i) ELSE upTo[i - 1]
  IN upTo[b]
Ascending(S) == IF S = {} THEN <<>> ELSE AscendingFrom(S, Min(S), Max(S))
Final(s) == s[Len(s)]
Listed(f, n) == SubSeq(f, 1, n)

EmptyLine == <<<<0, -1>>, <<0, -1>>>>
IsEmptyLine(line) == line[1][1] = line[2][1]
Runs(line) == 1..(Len(line) - 1)
IsDefined(run) == run[2] >= 0
IsLine(line) == line \in Seq(Int \X Int) /\ Len(line) >= 2

Volume(ix) == ix.size[1] * ix.size[2] * ix.size[3]
End(ix) == Sum3(ix.org, ix.size)
Cleared(ext) == [org |-> <<0, 0, 0>>, size |-> <<0, 0, 0>>, ext |-> ext, lines |-> <<>>, n |-> 0]
EmptyIndex == Cleared(-1)

HasLine(ix, y, z) == y - ix.org[2] \in 0..(ix.size[2] - 1) /\ z - ix.org[3] \in 0..(ix.size[3] - 1)
LineAt(ix, y, z) ==
  IF HasLine(ix, y, z) THEN ix.lines[1 + (y - ix.org[2]) + ix.size[2] * (z - ix.org[3])] ELSE EmptyLine

\* The Y and the Z of the scanline k of a box.
LineY(org, size, k) == org[2] + ((k - 1) % size[2])
LineZ(org, size, k) == org[3] + ((k - 1) \div size[2])
Lines(size) == 1..(size[2] * size[3])

(* Looking up a voxel. *)

Middle(r) == (r[1] + r[2] + 1) \div 2
\* Mutant: the search stops before a run that begins at x.
BisectBelow(line, x) ==
  LET find[r \in Runs(line) \X Runs(line)] ==
        IF r[1] >= r[2] THEN r[1]
        ELSE IF line[Middle(r)][1] < x THEN find[<<Middle(r), r[2]>>]
        ELSE find[<<r[1], Middle(r) - 1>>]
  IN find[<<1, Len(line) - 1>>]
Bisect(line, x) ==
  LET find[r \in Runs(line) \X Runs(line)] ==
        IF r[1] >= r[2] THEN r[1]
        ELSE IF line[Middle(r)][1] <= x THEN find[<<Middle(r), r[2]>>]
        ELSE find[<<r[1], Middle(r) - 1>>]
  IN find[<<1, Len(line) - 1>>]

Scan(line, x) ==
  CHOOSE k \in Runs(line) :
    /\ \A j \in 2..k : line[j][1] <= x
    /\ k = Len(line) - 1 \/ x < line[k + 1][1]

RunIndex(line, x) == IF Len(line) - 2 < 4 THEN Scan(line, x) ELSE Bisect(line, x)

InRun(line, k, x, ext) ==
  IF line[k][1] <= x /\ x < line[k + 1][1]
  THEN IF IsDefined(line[k]) THEN line[k][2] + (x - line[k][1]) ELSE line[k][2]
  ELSE ext

InLine(line, x, ext) == InRun(line, RunIndex(line, x), x, ext)
DataIndex(ix, v) == InLine(LineAt(ix, v[2], v[3]), v[1], ix.ext)

\* The voxels of the box and those with data, in the order of the data.
VoxelAt(ix, k) ==
  Sum3(ix.org, <<(k - 1) % ix.size[1], ((k - 1) \div ix.size[1]) % ix.size[2], (k - 1) \div (ix.size[1] * ix.size[2])>>)
VoxelsAt(ix, places) == [i \in 1..Len(places) |-> VoxelAt(ix, places[i])]
Coords(ix) == VoxelsAt(ix, Ascending({k \in 1..Volume(ix) : DataIndex(ix, VoxelAt(ix, k)) >= 0}))

Directions == <<<<-1, 0, 0>>, <<1, 0, 0>>, <<0, -1, 0>>, <<0, 1, 0>>, <<0, 0, -1>>, <<0, 0, 1>>>>
Neighbours(ix, v) == Listed([j \in 1..6 |-> DataIndex(ix, Sum3(v, Directions[j]))], 6)
AdjacencyOf(ix, coords) == Listed([i \in 1..Len(coords) |-> Neighbours(ix, coords[i])], Len(coords))
Adjacency(ix) == AdjacencyOf(ix, Coords(ix))

(* Numbering the voxels with data from one scanline to the next. *)

DefinedBefore(line) ==
  LET before[k \in 1..Len(line)] ==
        IF k = 1 THEN 0 ELSE before[k - 1] + IF IsDefined(line[k - 1]) THEN line[k][1] - line[k - 1][1] ELSE 0
  IN before

NumberedLine(line, before, n) ==
  [k \in Runs(line) |-> IF IsDefined(line[k]) THEN <<line[k][1], n + before[k]>> ELSE line[k]] \o <<Final(line)>>

\* A builder: the scanlines so far and the number of their voxels.
Nothing == [lines |-> <<>>, n |-> 0]
PutCounted(b, line, before) ==
  [lines |-> Append(b.lines, NumberedLine(line, before, b.n)), n |-> b.n + before[Len(line)]]
Put(b, line) == PutCounted(b, line, DefinedBefore(line))

Numbered(lines, count) ==
  LET upTo[k \in 0..count] == IF k = 0 THEN Nothing ELSE Put(upTo[k - 1], lines[k])
  IN upTo[count]

Index(org, size, ext, built) == [org |-> org, size |-> size, ext |-> ext, lines |-> built.lines, n |-> built.n]

(* check_consistency. *)

RunsFit(ix, line) ==
  /\ \A k \in Runs(line) : line[k][1] < line[k + 1][1]
  /\ line[1][1] >= ix.org[1] /\ Final(line)[1] <= End(ix)[1]
  /\ \A k \in 1..(Len(line) - 2) : ~(IsDefined(line[k]) /\ IsDefined(line[k + 1]))

LineFits(ix, line) ==
  /\ Len(line) >= 2
  /\ IF Len(line) = 2 /\ IsEmptyLine(line) THEN ~IsDefined(line[1]) ELSE RunsFit(ix, line)

ScanlinesFit(ix) ==
  /\ ix.ext < 0
  /\ Len(ix.lines) = ix.size[2] * ix.size[3]
  /\ \A k \in DOMAIN ix.lines : LineFits(ix, ix.lines[k])
  /\ Numbered(ix.lines, Len(ix.lines)) = [lines |-> ix.lines, n |-> ix.n]
CheckConsistency(ix) == (Volume(ix) = 0 /\ ix.lines = <<>>) \/ ScanlinesFit(ix)

\* An index spec with the exterior regions that the set operations make.
Indexes ==
  [org : Int \X Int \X Int, size : Nat \X Nat \X Nat, ext : {-1, -2}, lines : Seq(Seq(Int \X Int)), n : Nat]
IsIndex(ix) == ix \in Indexes /\ ScanlinesFit(ix)

(* build_from_voxel_array. *)

Hull(voxels) ==
  LET least(i) == Min({v[i] : v \in voxels})
      greatest(i) == Max({v[i] : v \in voxels})
  IN [lo |-> <<least(1), least(2), least(3)>>, hi |-> <<greatest(1), greatest(2), greatest(3)>>]
SizeOf(lo, hi) == Sum3(Difference3(hi, lo), <<1, 1, 1>>)

EndsIn(xs, lo, hi) == Ascending({x \in lo..(hi + 1) : (x \in xs) # (x - 1 \in xs)})
Alternating(ends) == [k \in 1..Len(ends) |-> <<ends[k], IF k % 2 = 1 THEN 0 ELSE -1>>]
VoxelLine(xs, lo, hi) == IF xs = {} THEN EmptyLine ELSE Listed(Alternating(EndsIn(xs, lo, hi)), Len(EndsIn(xs, lo, hi)))

FromVoxelsIn(voxels, lo, hi, size) ==
  Index(lo, size, -1,
    Numbered([k \in Lines(size) |->
                VoxelLine({v[1] : v \in {w \in voxels : w[2] = LineY(lo, size, k) /\ w[3] = LineZ(lo, size, k)}}, lo[1], hi[1])],
             size[2] * size[3]))
FromHull(voxels, h) == FromVoxelsIn(voxels, h.lo, h.hi, SizeOf(h.lo, h.hi))
BuildFromVoxelArray(voxels) == FromHull(voxels, Hull(voxels))

(* Joining equal neighbours into runs: starts[i] is where the code or data index codes[i] begins.  A run of the     *)
(* exterior that would come first is left out, and one that would come last only ends the run before it.          *)

Class(d) == IF d >= 0 THEN 0 ELSE d
Changes(codes, ext) ==
  Ascending({i \in 1..Len(codes) : Class(codes[i]) # IF i = 1 THEN ext ELSE Class(codes[i - 1])})
Joined(starts, codes, end, ext, changes) ==
  IF changes = <<>> THEN EmptyLine
  ELSE [j \in 1..Len(changes) |-> <<starts[changes[j]], Class(codes[changes[j]])>>]
       \o IF codes[Final(changes)] # ext THEN <<<<end, -1>>>> ELSE <<>>
Coalesced(starts, codes, end, ext) == Joined(starts, codes, end, ext, Changes(codes, ext))

(* build_from_axis_permutation: axis i of the result is axis p[i] of ix. *)

Along(v, p) == <<v[p[1] + 1], v[p[2] + 1], v[p[3] + 1]>>
Place(p, i) == CHOOSE j \in 1..3 : p[j] = i
Back(v, p) == <<v[Place(p, 0)], v[Place(p, 1)], v[Place(p, 2)]>>

\* The data indices and codes of ix along a scanline of the result.
Column(ix, p, org, size, k) ==
  Listed([t \in 1..size[1] |-> DataIndex(ix, Back(<<org[1] + t - 1, LineY(org, size, k), LineZ(org, size, k)>>, p))], size[1])

\* The run starts counted for a scanline before it is built; the build throws if there are not as many.
CountedStarts(codes, ext, changes) ==
  LET counted == {i \in 1..Len(changes) : i < Len(changes) \/ codes[changes[i]] # ext}
  IN IF counted = {} THEN 2 ELSE 1 + Cardinality(counted)

SwappedLines(ix, org, size) == [k \in Lines(size) |-> LineAt(ix, LineZ(org, size, k), LineY(org, size, k))]
RecompressedLine(codes, org, size, ext) == Coalesced(Interval(org[1], org[1] + size[1] - 1), codes, org[1] + size[1], ext)
Recompressed(ix, p, org, size) == [k \in Lines(size) |-> RecompressedLine(Column(ix, p, org, size, k), org, size, ix.ext)]

PermutedTo(ix, p, org, size) ==
  Index(org, size, ix.ext,
    Numbered(IF p[1] = 0 THEN SwappedLines(ix, org, size) ELSE Recompressed(ix, p, org, size), size[2] * size[3]))

Identity == <<0, 1, 2>>
BuildFromAxisPermutation(ix, p) ==
  IF Volume(ix) = 0 THEN Cleared(ix.ext)
  ELSE IF p = Identity THEN ix
  ELSE PermutedTo(ix, p, Along(ix.org, p), Along(ix.size, p))

CountsMatch(ix, p, result) ==
  p[1] = 0 \/ Volume(ix) = 0 \/
  \A k \in Lines(result.size) :
    LET codes == Column(ix, p, result.org, result.size, k)
    IN CountedStarts(codes, ix.ext, Changes(codes, ix.ext)) = Len(result.lines[k])

\* Where the data of every voxel of the result were.
Remap(ix, p, coords) == Listed([i \in 1..Len(coords) |-> 1 + DataIndex(ix, Back(coords[i], p))], Len(coords))

(* build_from_x_dilation by q voxels to the left and p to the right. *)

\* Between two runs with data, the last voxel that is reached forwards and the first that is reached backwards.
ForwardTo(fX, bX, p) == Lower(fX + p, bX - 1)
\* Mutant: the voxels reached backwards may have been reached forwards.
BackwardOver(fX, bX, q, fD) == Upper(bX - q, fX + 1)
BackwardTo(fX, bX, q, fD) == Upper(Upper(bX - q, fX + 1), fD + 1)

\* The undefined runs between the runs prev and cur that are left between fD and bD; the first run of the scanline
\* goes on to the new bounds lo if it began at the old ones.
CopiedStart(line, k, fD, old, lo) == IF k = 1 /\ line[1][1] = old THEN lo ELSE Upper(fD + 1, line[k][1])
Copied(line, prev, cur, fD, bD, old, lo) ==
  LET left == Ascending({k \in (prev + 1)..(cur - 1) : line[k + 1][1] > fD + 1 /\ CopiedStart(line, k, fD, old, lo) < bD})
  IN [j \in 1..Len(left) |-> <<CopiedStart(line, left[j], fD, old, lo), line[left[j]][2]>>]

\* One gap: d are the runs made, the number of the voxels with data, where the scanline ends, and whether an
\* undefined run is being made.
Passed(d, copied, fX, fD, bD, bX, length) ==
  LET open == d.open \/ copied # <<>>
      starts == open /\ length > 0
  IN [runs |-> d.runs \o copied \o IF starts THEN <<<<bD, d.n + (fD - fX)>>>> ELSE <<>>,
      n |-> d.n + (fD - fX) + (bX - bD) + length,
      end |-> Upper(d.end, fD + 1),
      open |-> open /\ ~starts]

PassBetween(d, line, prev, cur, old, lo, fX, fD, bD, bX, length) ==
  Passed(d, IF fD + 1 < bD THEN Copied(line, prev, cur, fD, bD, old, lo) ELSE <<>>, fX, fD, bD, bX, length)
PassBackward(d, line, prev, cur, old, lo, q, fX, fD, bX, length) ==
  PassBetween(d, line, prev, cur, old, lo, fX, fD, BackwardTo(fX, bX, q, fD), bX, length)
PassForward(d, line, prev, cur, old, lo, q, p, fX, bX, length) ==
  PassBackward(d, line, prev, cur, old, lo, q, fX, ForwardTo(fX, bX, p), bX, length)

PassGap(d, line, prev, cur, old, lo, hi, q, p) ==
  PassForward(d, line, prev, cur, old, lo,
    IF cur < Len(line) THEN q ELSE 0, IF prev > 0 THEN p ELSE 0,
    IF prev > 0 THEN line[prev + 1][1] - 1 ELSE lo - 1,
    IF cur < Len(line) THEN line[cur][1] ELSE hi,
    IF cur < Len(line) THEN line[cur + 1][1] - line[cur][1] ELSE 0)

\* The last undefined run goes on to the new bounds if it ended at the old ones.
ReachesEnd(line, oldEnd) == ~IsDefined(line[Len(line) - 1]) /\ Final(line)[1] = oldEnd
Continued(runs, end, code, hi) ==
  (IF Final(runs)[2] # code THEN Append(runs, <<end, code>>) ELSE runs) \o <<<<hi, -1>>>>
Finished(d, line, oldEnd, hi) ==
  IF ReachesEnd(line, oldEnd) /\ d.end < hi
  THEN Continued(d.runs, d.end, line[Len(line) - 1][2], hi)
  ELSE Append(d.runs, <<d.end, -1>>)

PassGaps(ix, line, bounds, n, lo, hi, q, p) ==
  LET passed[g \in 0..(Len(bounds) - 1)] ==
        IF g = 0 THEN [runs |-> <<>>, n |-> n, end |-> Final(line)[1], open |-> TRUE]
        ELSE PassGap(passed[g - 1], line, bounds[g], bounds[g + 1], ix.org[1], lo, hi, q, p)
  IN passed[Len(bounds) - 1]

DilatedWith(b, d, line, oldEnd, hi) == [lines |-> Append(b.lines, Finished(d, line, oldEnd, hi)), n |-> d.n]
PutDilated(b, ix, line, lo, hi, q, p) ==
  IF IsEmptyLine(line) THEN [b EXCEPT !.lines = Append(@, EmptyLine)]
  ELSE DilatedWith(b, PassGaps(ix, line, <<0>> \o Ascending({k \in Runs(line) : IsDefined(line[k])}) \o <<Len(line)>>,
                               b.n, lo, hi, q, p), line, End(ix)[1], hi)

BuildFromXDilation(ix, q, p) ==
  LET upTo[k \in 0..Len(ix.lines)] ==
        IF k = 0 THEN Nothing ELSE PutDilated(upTo[k - 1], ix, ix.lines[k], ix.org[1] - q, End(ix)[1] + p, q, p)
  IN Index(Sum3(ix.org, <<-q, 0, 0>>), Sum3(ix.size, <<q + p, 0, 0>>), ix.ext, upTo[Len(ix.lines)])

(* build_from_dilation by a box: dilations along X, the axes exchanged in between; an axis that the box does not    *)
(* extend is skipped.  The dilation by a number of voxels goes round all the axes, as that by a cube does.         *)

Cube(r) == [lo |-> <<-r, -r, -r>>, hi |-> <<r, r, r>>]

NextAxis == <<1, 2, 0>>
PreviousAxis == <<2, 0, 1>>
XDilated(ix, d, axis) == IF d.lo[axis] = d.hi[axis] THEN ix ELSE BuildFromXDilation(ix, -d.lo[axis], d.hi[axis])
AlongY(ix, d) == XDilated(BuildFromAxisPermutation(ix, NextAxis), d, 2)

BeforeZ(ix, d) ==
  IF d.lo[2] = d.hi[2] THEN BuildFromAxisPermutation(ix, PreviousAxis)
  ELSE BuildFromAxisPermutation(AlongY(ix, d), NextAxis)
BeforeX(ix, d) ==
  IF d.lo[3] # d.hi[3] THEN BuildFromAxisPermutation(XDilated(BeforeZ(ix, d), d, 3), NextAxis)
  ELSE IF d.lo[2] # d.hi[2] THEN BuildFromAxisPermutation(AlongY(ix, d), PreviousAxis)
  ELSE ix
BuildFromDilation(ix, d) == XDilated(BeforeX(ix, d), d, 1)

\* Every dilation along X throws unless its input is consistent.
InputsFit(ix, d) ==
  /\ d.lo[2] # d.hi[2] => CheckConsistency(BuildFromAxisPermutation(ix, NextAxis))
  /\ d.lo[3] # d.hi[3] => CheckConsistency(BeforeZ(ix, d))
  /\ d.lo[1] # d.hi[1] => CheckConsistency(BeforeX(ix, d))

(* build_with_trim_bounds. *)

ClippedStart(line, k, lo) == Upper(line[k][1], lo)
ClippedEnd(line, k, hi) == Lower(line[k + 1][1], hi)
Kept(line, lo, hi) == Ascending({k \in Runs(line) : ClippedStart(line, k, lo) < ClippedEnd(line, k, hi)})
KeptRuns(line, lo, hi, kept) ==
  IF kept = <<>> THEN EmptyLine
  ELSE [j \in 1..Len(kept) |-> <<ClippedStart(line, kept[j], lo), line[kept[j]][2]>>] \o <<<<Lower(Final(line)[1], hi), -1>>>>
TrimmedLine(line, lo, hi) == IF IsEmptyLine(line) THEN EmptyLine ELSE KeptRuns(line, lo, hi, Kept(line, lo, hi))

Encloses(lo, hi, ix) == Lower3(lo, ix.org) = lo /\ Upper3(hi, Difference3(End(ix), <<1, 1, 1>>)) = hi
TrimmedTo(ix, lo, hi, size) ==
  IF \E i \in 1..3 : size[i] <= 0 THEN Cleared(ix.ext)
  ELSE Index(lo, size, ix.ext,
         Numbered([k \in Lines(size) |-> TrimmedLine(LineAt(ix, LineY(lo, size, k), LineZ(lo, size, k)), lo[1], hi[1] + 1)],
                  size[2] * size[3]))
TrimmedWithin(ix, lo, hi) == TrimmedTo(ix, lo, hi, SizeOf(lo, hi))
BuildWithTrimBounds(ix, lo, hi) ==
  IF Encloses(lo, hi, ix) THEN ix
  ELSE TrimmedWithin(ix, Upper3(lo, ix.org), Lower3(hi, Difference3(End(ix), <<1, 1, 1>>)))

(* build_by_filling: regions other than the exterior get data. *)

Filled(run, ext) == run[2] # ext
FilledRuns(line, ext, kept) ==
  [j \in 1..Len(kept) |-> <<line[kept[j]][1], IF Filled(line[kept[j]], ext) THEN 0 ELSE ext>>] \o <<Final(line)>>
FilledLine(line, ext) ==
  IF Len(line) = 2
  THEN IF IsEmptyLine(line) \/ ~Filled(line[1], ext) THEN EmptyLine ELSE <<<<line[1][1], 0>>, line[2]>>
  ELSE FilledRuns(line, ext,
         Ascending({k \in Runs(line) : ~(Filled(line[k], ext) /\ k > 1 /\ Filled(line[k - 1], ext))}))
BuildByFilling(ix) ==
  Index(ix.org, ix.size, ix.ext, Numbered([k \in 1..Len(ix.lines) |-> FilledLine(ix.lines[k], ix.ext)], Len(ix.lines)))

(* combine_for_blend: where two scanlines with any runs change, see rle_pairwise_run_iterator. *)

Breaks(line) == IF IsEmptyLine(line) THEN {} ELSE {line[k][1] : k \in 1..Len(line)}
Blended(d, e) == IF d >= 0 \/ e >= 0 \/ d # e THEN 0 ELSE d
BlendedAt(l, m, xs, ext) ==
  IF xs = <<>> THEN EmptyLine
  ELSE Coalesced(xs, [i \in 1..(Len(xs) - 1) |-> Blended(InLine(l, xs[i], ext), InLine(m, xs[i], ext))], Final(xs), ext)
BlendedLine(l, m, ext) == BlendedAt(l, m, Ascending(Breaks(l) \cup Breaks(m)), ext)
BlendedTo(ix, jx, org, size) ==
  Index(org, size, ix.ext,
    Numbered([k \in Lines(size) |->
                BlendedLine(LineAt(ix, LineY(org, size, k), LineZ(org, size, k)), LineAt(jx, LineY(org, size, k), LineZ(org, size, k)), ix.ext)],
             size[2] * size[3]))
CombineForBlend(ix, jx) ==
  BlendedTo(ix, jx, Lower3(ix.org, jx.org), Difference3(Upper3(End(ix), End(jx)), Lower3(ix.org, jx.org)))

(* build_from_populated.  The codes of the voxels: 1 populated, 0 not yet in a region, or the region. *)

InBounds(ix, v) == \A i \in 1..3 : v[i] \in ix.org[i]..(End(ix)[i] - 1)
\* Mutant: what lies outside the box is taken for a region next to the voxel.
RegionsAround(ix, v, near) == {j \in 1..6 : near[j] < 0}
\* The code of the last of the six neighbours that says one; regions before populated neighbours.
RegionSources(ix, v, near) == {j \in 1..6 : near[j] < 0 /\ InBounds(ix, Sum3(v, Directions[j]))}
PopulatedSources(near, pop) == {j \in 1..6 : near[j] >= 0 /\ pop[near[j] + 1] # 0}
FirstFrom(near, dist, regions, populated) ==
  IF regions # {} THEN near[Max(regions)]
  ELSE IF populated # {} THEN IF dist[near[Max(populated)] + 1] >= 0 THEN -1 ELSE -2
  ELSE 0
FirstCode(ix, v, near, dist, pop) == FirstFrom(near, dist, RegionSources(ix, v, near), PopulatedSources(near, pop))
FirstPass(ix, coords, adj, dist, pop) ==
  Listed([i \in 1..ix.n |-> IF pop[i] # 0 THEN 1 ELSE FirstCode(ix, coords[i], adj[i], dist, pop)], ix.n)

\* One voxel of the queue gives its region to its neighbours that have none.
Visit(f, adj, i) ==
  LET reached == {j \in 1..6 : adj[i][j] >= 0 /\ f.codes[adj[i][j] + 1] = 0}
  IN [codes |-> Listed([d \in 1..Len(f.codes) |-> IF \E j \in reached : adj[i][j] + 1 = d THEN f.codes[i] ELSE f.codes[d]], Len(f.codes)),
      queue |-> f.queue \o [m \in 1..Cardinality(reached) |-> adj[i][Ascending(reached)[m]] + 1]]
VisitNext(f, adj, k) == IF k > Len(f.queue) THEN f ELSE Visit(f, adj, f.queue[k])
Flooded(codes, adj, n) ==
  LET after[k \in 0..n] ==
        IF k = 0 THEN [codes |-> codes, queue |-> Ascending({i \in 1..n : codes[i] < 0})]
        ELSE VisitNext(after[k - 1], adj, k)
  IN after[n].codes
FloodFill(ix, coords, adj, dist, pop) == Flooded(FirstPass(ix, coords, adj, dist, pop), adj, ix.n)

RegionOf(code, ext) == IF code = 0 THEN ext ELSE IF code = 1 THEN 0 ELSE code
Trimmed(d, codes, ext) == IF d < 0 THEN d ELSE RegionOf(codes[d + 1], ext)
TrimmedRuns(line, codes, ext, xs) ==
  Coalesced(xs, Listed([i \in 1..Len(xs) |-> Trimmed(InLine(line, xs[i], ext), codes, ext)], Len(xs)), Final(line)[1], ext)
PopulatedLine(line, codes, ext) ==
  IF IsEmptyLine(line) THEN EmptyLine ELSE TrimmedRuns(line, codes, ext, Interval(line[1][1], Final(line)[1] - 1))
RebuiltWith(ix, codes) ==
  Index(ix.org, ix.size, ix.ext, Numbered([k \in 1..Len(ix.lines) |-> PopulatedLine(ix.lines[k], codes, ix.ext)], Len(ix.lines)))
BuildFromPopulated(ix, coords, adj, dist, pop) == RebuiltWith(ix, FloodFill(ix, coords, adj, dist, pop))
=============================================================================
