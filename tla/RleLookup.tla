------------------------------ MODULE RleLookup ------------------------------
(***************************************************************************)
(* The lookups of rle_index_spec that answer for many voxels at once: the   *)
(* data indices and region codes of a box, in the order of X, Y and Z, the  *)
(* one region of a box, and the data indices that another index spec has.   *)
(* A closed interval of voxels is given by its first and its last.          *)
(***************************************************************************)
EXTENDS RleIndexSpec

Repeated(n, code) == [i \in 1..n |-> code]
Concatenated(parts, a, b) ==
  LET upTo[k \in (a - 1)..b] == IF k < a THEN <<>> ELSE upTo[k - 1] \o parts[k]
  IN upTo[b]

\* The scanline B, C of the box of ix.
ScanlineOf(ix, b, c) == ix.lines[1 + b + c * ix.size[2]]

(* fill_data_index_box: scanlines and planes beyond the box are filled by counting. *)

\* The runs from the one found for the first voxel on.
FoundFrom(line, k, x, ext) ==
  LET hits == {j \in k..(Len(line) - 1) : line[j][1] <= x /\ x < line[j + 1][1]}
  IN IF hits = {} THEN ext ELSE InRun(line, CHOOSE j \in hits : TRUE, x, ext)
FilledLineFrom(line, k, lo, hi, ext) == [i \in 1..(hi - lo + 1) |-> FoundFrom(line, k, lo + i - 1, ext)]
LineOfBox(line, lo, hi, ext) == FilledLineFrom(line, RunIndex(line, lo), lo, hi, ext)

Plane(ix, c, bMin, bMax, lo, hi) ==
  Repeated(Upper(-bMin, 0) * (hi[1] - lo[1] + 1), ix.ext)
    \o Concatenated([b \in Upper(bMin, 0)..Lower(bMax, ix.size[2] - 1) |-> LineOfBox(ScanlineOf(ix, b, c), lo[1], hi[1], ix.ext)],
                    Upper(bMin, 0), Lower(bMax, ix.size[2] - 1))
    \o Repeated(Upper(bMax - ix.size[2] + 1, 0) * (hi[1] - lo[1] + 1), ix.ext)
\* Mutant: the planes before the first one of the index spec are not filled.
PlanesFromFirst(ix, cMin, cMax, bMin, bMax, lo, hi) ==
  Concatenated([c \in Upper(cMin, 0)..Lower(cMax, ix.size[3] - 1) |-> Plane(ix, c, bMin, bMax, lo, hi)],
               Upper(cMin, 0), Lower(cMax, ix.size[3] - 1))
Planes(ix, cMin, cMax, bMin, bMax, lo, hi) ==
  Repeated(Upper(-cMin, 0) * (hi[1] - lo[1] + 1) * (hi[2] - lo[2] + 1), ix.ext)
    \o Concatenated([c \in Upper(cMin, 0)..Lower(cMax, ix.size[3] - 1) |-> Plane(ix, c, bMin, bMax, lo, hi)],
                    Upper(cMin, 0), Lower(cMax, ix.size[3] - 1))
PaddedTo(n, filled, ext) == filled \o Repeated(n - Len(filled), ext)

VolumeOf(lo, hi) == (hi[1] - lo[1] + 1) * (hi[2] - lo[2] + 1) * (hi[3] - lo[3] + 1)
FillWithin(ix, lo, hi, bMin, bMax, cMin, cMax) ==
  IF bMax < 0 \/ bMin >= ix.size[2] \/ cMax < 0 \/ cMin >= ix.size[3] THEN Repeated(VolumeOf(lo, hi), ix.ext)
  ELSE PaddedTo(VolumeOf(lo, hi), Planes(ix, cMin, cMax, bMin, bMax, lo, hi), ix.ext)
FillDataIndexBox(ix, lo, hi) ==
  FillWithin(ix, lo, hi, lo[2] - ix.org[2], hi[2] - ix.org[2], lo[3] - ix.org[3], hi[3] - ix.org[3])

(* fill_data_index_box_boundary_duplicated: beyond the box the nearest voxel of the box is looked up. *)

Clamped(a, low, high) == Upper(low, Lower(a, high))
LastOf(line) ==
  LET run == line[Len(line) - 1]
  IN IF IsDefined(run) THEN run[2] + (Final(line)[1] - run[1] - 1) ELSE run[2]
DuplicatedAt(ix, line, k, x) ==
  IF x < line[k][1] THEN IF line[k][1] = ix.org[1] THEN line[k][2] ELSE ix.ext
  ELSE IF x < Final(line)[1] THEN FoundFrom(line, k, x, ix.ext)
  ELSE IF Final(line)[1] = End(ix)[1] THEN LastOf(line) ELSE ix.ext
DuplicatedFrom(ix, line, k, lo, hi) ==
  [i \in 1..(hi - lo + 1) |-> IF line[k][1] = line[k + 1][1] THEN ix.ext ELSE DuplicatedAt(ix, line, k, lo + i - 1)]
DuplicatedLine(ix, line, lo, hi) == DuplicatedFrom(ix, line, RunIndex(line, lo), lo, hi)
DuplicatedPlane(ix, z, lo, hi) ==
  Concatenated([y \in lo[2]..hi[2] |->
                  DuplicatedLine(ix, ScanlineOf(ix, Clamped(y - ix.org[2], 0, ix.size[2] - 1), Clamped(z - ix.org[3], 0, ix.size[3] - 1)),
                                 lo[1], hi[1])], lo[2], hi[2])
FillDataIndexBoxBoundaryDuplicated(ix, lo, hi) ==
  Concatenated([z \in lo[3]..hi[3] |-> DuplicatedPlane(ix, z, lo, hi)], lo[3], hi[3])

(* fill_2x2x2_data_index_box: two voxels of a scanline from the run of the first. *)

InOf(line, k, x) == IF IsDefined(line[k]) THEN line[k][2] + (x - line[k][1]) ELSE line[k][2]
PairFrom(line, k, x, ext) ==
  CASE line[k][1] <= x /\ x + 1 < line[k + 1][1] -> <<InOf(line, k, x), InOf(line, k, x + 1)>>
    [] line[k][1] > x + 1 \/ x >= line[k + 1][1] -> <<ext, ext>>
    [] line[k][1] <= x + 1 /\ x < line[k + 1][1] /\ x + 1 >= line[k + 1][1] ->
         <<InOf(line, k, x), IF k <= Len(line) - 2 THEN InOf(line, k + 1, x + 1) ELSE ext>>
    [] OTHER -> <<ext, InOf(line, k, x + 1)>>
PairOfVoxels(line, x, ext) == PairFrom(line, RunIndex(line, x), x, ext)
EightFrom(ix, v, b, c) ==
  IF b >= 0 /\ b + 1 < ix.size[2] /\ c >= 0 /\ c + 1 < ix.size[3]
  THEN PairOfVoxels(ScanlineOf(ix, b, c), v[1], ix.ext) \o PairOfVoxels(ScanlineOf(ix, b + 1, c), v[1], ix.ext)
         \o PairOfVoxels(ScanlineOf(ix, b, c + 1), v[1], ix.ext) \o PairOfVoxels(ScanlineOf(ix, b + 1, c + 1), v[1], ix.ext)
  ELSE IF b < -1 \/ c < -1 \/ b >= ix.size[2] \/ c >= ix.size[3] THEN Repeated(8, ix.ext)
  ELSE [i \in 1..8 |-> DataIndex(ix, Sum3(v, <<(i - 1) % 2, ((i - 1) \div 2) % 2, (i - 1) \div 4>>))]
Fill2x2x2DataIndexBox(ix, v) == EightFrom(ix, v, v[2] - ix.org[2], v[3] - ix.org[3])

(* get_unique_region_code: the data indices and codes of the runs from the one found for the first voxel to the last  *)
(* that begins in the box; 0 if one has data or they differ.                                                          *)

MetFrom(line, k, lo, hi, ext) ==
  (IF lo < line[k][1] \/ lo >= line[k + 1][1] THEN {ext} ELSE {})
    \cup (IF line[k][1] = line[k + 1][1] THEN {} ELSE {line[j][2] : j \in {i \in k..(Len(line) - 1) : line[i][1] <= hi}})
Met(line, lo, hi, ext) == MetFrom(line, RunIndex(line, lo), lo, hi, ext)
UniqueOf(codes) == IF Cardinality(codes) = 1 /\ codes \cap Nat = {} THEN CHOOSE c \in codes : TRUE ELSE 0
UniqueWithin(ix, lo, hi) ==
  IF \E i \in 1..3 : lo[i] > hi[i] THEN ix.ext
  ELSE UniqueOf(UNION {Met(LineAt(ix, y, z), lo[1], hi[1], ix.ext) : y \in lo[2]..hi[2], z \in lo[3]..hi[3]})
GetUniqueRegionCode(ix, lo, hi) ==
  UniqueWithin(ix, Upper3(lo, ix.org), Lower3(hi, Difference3(End(ix), <<1, 1, 1>>)))

(* fill_data_index_map: what is written for the voxels with data, as pairs <<data index, data index or code in the    *)
(* target>>.  For two scanlines walked in lockstep, every run with data is cut by the first and the last entry of the  *)
(* target and by the runs of the target that it meets.                                                                *)

IsEmptyScanline(line) == Len(line) = 2 /\ IsEmptyLine(line)
\* What is written for the voxels low, low + 1 ... high - 1 of a run.
Beyond(run, low, high, ext) == {<<run[2] + (x - run[1]), ext>> : x \in low..(high - 1)}
Mapped(run, low, high, target, p) == {<<run[2] + (x - run[1]), InOf(target, p, x)>> : x \in low..(high - 1)}

Meeting(line, k, target) == {p \in Runs(target) : target[p + 1][1] > line[k][1] /\ target[p][1] < line[k + 1][1]}
RunMap(line, k, target, ext) ==
  Beyond(line[k], line[k][1], Lower(line[k + 1][1], target[1][1]), ext)
    \cup UNION {Mapped(line[k], Upper(line[k][1], target[p][1]), Lower(line[k + 1][1], target[p + 1][1]), target, p) :
                p \in Meeting(line, k, target)}
    \cup Beyond(line[k], Upper(line[k][1], Final(target)[1]), line[k + 1][1], ext)
LineMap(line, target, ext) ==
  UNION {IF IsEmptyScanline(target) THEN Beyond(line[k], line[k][1], line[k + 1][1], ext) ELSE RunMap(line, k, target, ext) :
         k \in {j \in Runs(line) : IsDefined(line[j])}}
FillDataIndexMap(ix, target) ==
  UNION {LineMap(ix.lines[k], LineAt(target, LineY(ix.org, ix.size, k), LineZ(ix.org, ix.size, k)), target.ext) : k \in DOMAIN ix.lines}
=============================================================================
