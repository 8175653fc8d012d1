------------------------------ MODULE RleClients ------------------------------
(***************************************************************************)
(* What the clients of rle_level_set rely on besides its consistency: the   *)
(* queries of rle_index_spec for many voxels, and what the documentation of *)
(* each call says about the field of voxels (SparseField).                  *)
(***************************************************************************)
EXTENDS RleLevelSet, RleLookup

\* The queries for many voxels, for boxes that reach beyond the index spec and for short ones from every X on: they find
\* what a walk over the scanline of every voxel finds, or of the nearest one where the boundary is duplicated, and for
\* the voxels with data what the target of a data index map has there.  A box that is said to be of one region holds no
\* data ("can be used to tell whether a specified box region can be skipped", rle_index_spec.hpp:592).  A query for
\* eight voxels may be wrong only about the voxel at -1 of a scanline without runs, which it says to be in some region.
\* (A query is a call like the others: it is made on level sets that more calls may be made on.)
Boxes(ix) ==
  {<<Difference3(ix.org, <<1, 1, 0>>), Difference3(End(ix), <<0, 0, 1>>)>>,
   <<Difference3(ix.org, <<0, 0, 1>>), <<ix.org[1], End(ix)[2] - 1, End(ix)[3]>>>>}
    \cup {<<<<x, ix.org[2], ix.org[3]>>, <<x + 1, ix.org[2], ix.org[3]>>>> : x \in (ix.org[1] - 1)..End(ix)[1]}
InBox(lo, size, i) == Sum3(lo, <<(i - 1) % size[1], ((i - 1) \div size[1]) % size[2], (i - 1) \div (size[1] * size[2])>>)
NearestIn(ix, v) == Upper3(ix.org, Lower3(v, Difference3(End(ix), <<1, 1, 1>>)))
Fills(ix, lo, hi, found, duplicated, code) ==
  /\ Len(found) = VolumeOf(lo, hi) /\ Len(duplicated) = Len(found)
  /\ \A i \in 1..Len(found) :
       LET v == InBox(lo, SizeOf(lo, hi), i)
       IN /\ found[i] = WalkedTo(ix, v)
          /\ duplicated[i] = WalkedTo(ix, NearestIn(ix, v))
          /\ found[i] >= 0 => code = 0
FillsEight(ix, v, found) ==
  \A i \in 1..8 :
    LET w == InBox(v, <<2, 2, 2>>, i)
    IN found[i] = WalkedTo(ix, w) \/ (w[1] = -1 /\ IsEmptyLine(LineAt(ix, w[2], w[3])) /\ found[i] < 0)
BoxesAgree(ix) ==
  /\ \A box \in Boxes(ix) :
       Fills(ix, box[1], box[2], FillDataIndexBox(ix, box[1], box[2]), FillDataIndexBoxBoundaryDuplicated(ix, box[1], box[2]),
             GetUniqueRegionCode(ix, box[1], box[2]))
  /\ \A x \in (ix.org[1] - 2)..End(ix)[1], y \in (ix.org[2] - 1)..(End(ix)[2] - 1), z \in ix.org[3]..(End(ix)[3] - 2) :
       FillsEight(ix, <<x, y, z>>, Fill2x2x2DataIndexBox(ix, <<x, y, z>>))
MapAgrees(ix, coords, target) ==
  FillDataIndexMap(ix, target) = {<<i - 1, DataIndex(target, coords[i])>> : i \in 1..Len(coords)}
QueriesAgree ==
  \A s \in LevelSets :
    calls[s] < MaxCalls[s] =>
      /\ Volume(ls[s].ix) # 0 => BoxesAgree(ls[s].ix)
      /\ \A t \in LevelSets \ {s} : MapAgrees(ls[s].ix, Coords(ls[s].ix), ls[t].ix)

Promise ==
  INSTANCE SparseField WITH Sets <- LevelSets

\* Every call does to the field of voxels what its documentation says: dilation is the sum of the voxels and the box
\* with the regions continued, trimming keeps the values, an axis permutation only renames the voxels, combined index
\* specs keep every value and make the same voxels known, and a voxel that loses its value joins the nearest region.
KeepsPromise == Promise!Spec
=============================================================================
