------------------------------- MODULE RleCsg -------------------------------
(***************************************************************************)
(* The set operations of rle_level_set: the runs, the distances and the     *)
(* channel of csg_operation for the three policies, and csg_complement.     *)
(***************************************************************************)
EXTENDS RleIndexSpec

CsgOperations == {"union", "intersect", "subtract"}

(* The policies.  A region dominates when it decides the result whatever the other operand is. *)

FirstDominates(op, c) == IF op = "union" THEN c < -1 ELSE c = -1
SecondDominates(op, c) == IF op = "intersect" THEN c = -1 ELSE c < -1
Complemented(c) == IF c = -1 THEN -2 ELSE -1
SecondTaken(op, c) == IF op = "subtract" THEN Complemented(c) ELSE c

CombinedRegions(op, c, d) ==
  CASE op = "union" -> IF c = -1 /\ d = -1 THEN -1 ELSE -2
    [] op = "intersect" -> IF c < -1 /\ d < -1 THEN -2 ELSE -1
    [] op = "subtract" -> IF c < -1 /\ d = -1 THEN -2 ELSE -1

CombinedDistances(op, d, e) ==
  CASE op = "union" -> Lower(d, e)
    [] op = "intersect" -> Upper(d, e)
    [] op = "subtract" -> Upper(d, -e)

(* The box of the result. *)

CsgOrigin(op, ix, jx) ==
  IF FirstDominates(op, ix.ext) /\ SecondDominates(op, jx.ext) THEN Upper3(ix.org, jx.org)
  ELSE IF FirstDominates(op, ix.ext) THEN ix.org
  ELSE IF SecondDominates(op, jx.ext) THEN jx.org
  ELSE Lower3(ix.org, jx.org)
CsgEnd(op, ix, jx) ==
  IF FirstDominates(op, ix.ext) /\ SecondDominates(op, jx.ext) THEN Lower3(End(ix), End(jx))
  ELSE IF FirstDominates(op, ix.ext) THEN End(ix)
  ELSE IF SecondDominates(op, jx.ext) THEN End(jx)
  ELSE Upper3(End(ix), End(jx))
\* size3::from_bounds of boxes that do not meet.
SizeFrom(size) == IF \E i \in 1..3 : size[i] < 0 THEN <<0, 0, 0>> ELSE size

(* The runs.  A voxel of the result has data (0) or a region. *)

CsgCode(op, d, e) ==
  IF d >= 0 /\ e >= 0 THEN 0
  ELSE IF d >= 0 THEN IF SecondDominates(op, e) THEN SecondTaken(op, e) ELSE 0
  ELSE IF e >= 0 THEN IF FirstDominates(op, d) THEN d ELSE 0
  ELSE CombinedRegions(op, d, e)

\* A pair of scanlines, with what is around them.
Pair(ix, jx, org, size, k) ==
  [fst |-> LineAt(ix, LineY(org, size, k), LineZ(org, size, k)), snd |-> LineAt(jx, LineY(org, size, k), LineZ(org, size, k)),
   fext |-> ix.ext, sext |-> jx.ext]
PairAt(l, x) == <<InLine(l.fst, x, l.fext), InLine(l.snd, x, l.sext)>>
CodeAt(op, l, x) == CsgCode(op, PairAt(l, x)[1], PairAt(l, x)[2])

CsgLineAt(op, l, xs, ext) ==
  IF xs = <<>> THEN EmptyLine
  ELSE Coalesced(xs, [i \in 1..(Len(xs) - 1) |-> CodeAt(op, l, xs[i])], Final(xs), ext)
CsgLine(op, l, ext) == CsgLineAt(op, l, Ascending(Breaks(l.fst) \cup Breaks(l.snd)), ext)

CsgTo(op, ix, jx, org, size, ext) ==
  Index(org, size, ext, Numbered([k \in Lines(size) |-> CsgLine(op, Pair(ix, jx, org, size, k), ext)], size[2] * size[3]))
CsgIndex(op, ix, jx) ==
  CsgTo(op, ix, jx, CsgOrigin(op, ix, jx), SizeFrom(Difference3(CsgEnd(op, ix, jx), CsgOrigin(op, ix, jx))),
        CombinedRegions(op, ix.ext, jx.ext))

(* The data, in the order in which the sub-intervals of the scanlines are visited: where those of every voxel of the *)
(* result are in the operands, as pairs of data indices and codes.                                                   *)

PairsAt(l, xs) == [i \in 1..Len(xs) |-> PairAt(l, xs[i])]
PairsIn(op, l, xs) ==
  IF xs = <<>> THEN <<>> ELSE PairsAt(l, Ascending({x \in xs[1]..(Final(xs) - 1) : CodeAt(op, l, x) = 0}))
PairsOf(op, l) == PairsIn(op, l, Ascending(Breaks(l.fst) \cup Breaks(l.snd)))
CsgPairsTo(op, ix, jx, org, size) ==
  LET upTo[k \in 0..(size[2] * size[3])] ==
        IF k = 0 THEN <<>> ELSE upTo[k - 1] \o PairsOf(op, Pair(ix, jx, org, size, k))
  IN upTo[size[2] * size[3]]
CsgPairs(op, ix, jx, result) == CsgPairsTo(op, ix, jx, result.org, result.size)

TakenDistance(op, e) == IF op = "subtract" THEN -e ELSE e
DistanceOf(op, l, m, p) ==
  IF p[1] >= 0 /\ p[2] >= 0 THEN CombinedDistances(op, l.dist[p[1] + 1], m.dist[p[2] + 1])
  ELSE IF p[1] >= 0 THEN l.dist[p[1] + 1]
  ELSE TakenDistance(op, m.dist[p[2] + 1])

\* Where both have data, an integer is taken from the operand with the larger weight, and a difference takes it from
\* the first.
FirstWeighsMore(op, d, e) ==
  CASE op = "union" -> d <= e
    [] op = "intersect" -> d >= e
    [] op = "subtract" -> TRUE
FromFirst(op, l, m, p) == p[1] >= 0 /\ (p[2] >= 0 => FirstWeighsMore(op, l.dist[p[1] + 1], m.dist[p[2] + 1]))
MarkIn(l, d) == IF d >= 0 /\ l.pop # <<>> THEN l.pop[1][d + 1] ELSE 0
MarkOf(op, l, m, p) ==
  IF FromFirst(op, l, m, p) THEN MarkIn(l, p[1]) ELSE IF op = "subtract" THEN 0 ELSE MarkIn(m, p[2])

\* The channels that the result gets are made as long as the index spec it still has.
CsgChannel(op, old, l, m, pairs) ==
  IF l.pop = <<>> /\ (op = "subtract" \/ m.pop = <<>>) THEN <<>>
  ELSE <<[i \in 1..old.ix.n |-> 0] \o [i \in 1..Len(pairs) |-> MarkOf(op, l, m, pairs[i])]>>

\* The result is written into old, which keeps its cached adjacency.
CsgWritten(op, old, l, m, ix, pairs) ==
  [ix |-> ix, dist |-> Listed([i \in 1..Len(pairs) |-> DistanceOf(op, l, m, pairs[i])], Len(pairs)),
   pop |-> CsgChannel(op, old, l, m, pairs), adj |-> old.adj,
   out |-> Lower(l.out, m.out), ins |-> Upper(l.ins, m.ins)]
CsgInto(op, old, l, m, ix) == CsgWritten(op, old, l, m, ix, CsgPairs(op, l.ix, m.ix, ix))

(* csg_complement: every run but the last entry of a scanline; the cached adjacency is kept. *)

ComplementedLine(line) ==
  [k \in Runs(line) |-> IF IsDefined(line[k]) THEN line[k] ELSE <<line[k][1], Complemented(line[k][2])>>] \o <<Final(line)>>
CsgComplement(l) ==
  [l EXCEPT !.ix.lines = Listed([k \in DOMAIN @ |-> ComplementedLine(@[k])], Len(@)), !.ix.ext = Complemented(@),
            !.dist = Listed([i \in DOMAIN @ |-> -@[i]], Len(@)), !.out = -l.ins, !.ins = -l.out]

\* csg_operation; an operand without voxels decides the result, or the result is a copy of the other.
CopyOf(l) == [l EXCEPT !.adj = <<>>]
CsgOperation(op, old, l, m) ==
  IF Volume(l.ix) = 0
  THEN IF FirstDominates(op, l.ix.ext) THEN CopyOf(l)
       ELSE IF op = "subtract" THEN CsgComplement(CopyOf(m)) ELSE CopyOf(m)
  ELSE IF Volume(m.ix) = 0
  THEN IF ~SecondDominates(op, m.ix.ext) THEN CopyOf(l)
       ELSE IF op = "subtract" THEN CsgComplement(CopyOf(m)) ELSE CopyOf(m)
  ELSE CsgInto(op, old, l, m, CsgIndex(op, l.ix, m.ix))
=============================================================================
