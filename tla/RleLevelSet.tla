----------------------------- MODULE RleLevelSet -----------------------------
(***************************************************************************)
(* frantic::volumetrics::levelset::rle_level_set as its clients use it: a   *)
(* distance and a "Populated" channel for every voxel with data, moved to a *)
(* new rle_index_spec by each call, or combined with those of another level *)
(* set.  A call is one step: an object is used by one thread.               *)
(***************************************************************************)
EXTENDS RleCsg, TLC

CONSTANTS
  LevelSets,    \* the level sets of a client
  Outside,      \* m_outsideDistance of a new level set
  Inside,       \* m_insideDistance of a new level set
  Maps,         \* the maps from voxels to distances that level sets are made from
  Files,        \* level set -> the index specs and distances that it may be read from a file with
  AxisPermutations, \* the permutations that clients apply
  Dilations,    \* the boxes that clients dilate by
  Radii,        \* the numbers of voxels that clients dilate by within bounds
  Bounds,       \* the boxes that clients trim to
  Reuse,        \* whether clients write into level sets that hold voxels or a cached adjacency
  MaxPopulated, \* bound: clients mark voxels of level sets with at most so many
  MaxVolume,    \* bound: voxels of the box of a level set
  MaxCalls      \* bound: calls on each level set

\* build_from_dilation throws for a box without the origin or of one voxel.
ASSUME RleLevelSetAssumption ==
  /\ Outside \in Int /\ Inside \in Int /\ Reuse \in BOOLEAN
  /\ MaxPopulated \in Nat /\ MaxVolume \in Nat /\ MaxCalls \in [LevelSets -> Nat]
  /\ \A m \in Maps : IsFiniteSet(DOMAIN m) /\ DOMAIN m # {} /\ DOMAIN m \subseteq Int \X Int \X Int
  /\ \A p \in AxisPermutations : p \in [1..3 -> 0..2] /\ \A i \in 0..2 : \E j \in 1..3 : p[j] = i
  /\ Radii \subseteq Nat \ {0}
  /\ \A d \in Dilations :
       d.lo # d.hi /\ \A i \in 1..3 : d.lo[i] \in Int /\ d.hi[i] \in Int /\ d.lo[i] <= 0 /\ d.hi[i] >= 0
  /\ \A b \in Bounds : b.lo \in Int \X Int \X Int /\ b.hi \in Int \X Int \X Int
  /\ \A s \in LevelSets : \A f \in Files[s] : IsIndex(f.ix) /\ f.dist \in [1..f.ix.n -> Int]

VARIABLES
  ls,      \* level set -> m_rleIndex, m_distanceData, the Populated channel, m_cachedRisAdjacency and the distances
           \* of undefined voxels, m_outsideDistance and m_insideDistance
  failed,  \* a consistency check in a call has thrown
  call,    \* history: the last call
  calls,   \* level set -> the number of calls on it
  field    \* history: level set -> what a client sees of it

vars == <<ls, failed, call, calls, field>>

NoChannel == <<>>
NoAdjacency == <<>>
Channel(data) == <<data>>
LevelSet(ix, dist, pop) ==
  [ix |-> ix, dist |-> dist, pop |-> pop, adj |-> NoAdjacency, out |-> Outside, ins |-> Inside]
NewLevelSet == LevelSet(EmptyIndex, <<>>, NoChannel)

\* A call <<name, level set, ...>>.
Called(c) == calls[c[2]] < MaxCalls[c[2]] /\ calls' = [calls EXCEPT ![c[2]] = @ + 1] /\ call' = c

\* What a client sees of a level set: the value or the region of every voxel of its box.
ValueAt(l, d) == IF d >= 0 THEN [known |-> TRUE, value |-> l.dist[d + 1]] ELSE [known |-> FALSE, value |-> d]
MarkedIn(l, coords) == [i \in DOMAIN l.pop |-> {coords[j] : j \in {k \in 1..l.ix.n : l.pop[i][k] # 0}}]
BoxOf(ix) ==
  {<<x, y, z>> : x \in ix.org[1]..(End(ix)[1] - 1), y \in ix.org[2]..(End(ix)[2] - 1), z \in ix.org[3]..(End(ix)[3] - 1)}
FieldOf(l) ==
  IF Volume(l.ix) = 0
  THEN [lo |-> <<0, 0, 0>>, hi |-> <<-1, -1, -1>>, ext |-> l.ix.ext, val |-> <<>>,
        out |-> l.out, ins |-> l.ins, pop |-> [i \in DOMAIN l.pop |-> {}]]
  ELSE [lo |-> l.ix.org, hi |-> Difference3(End(l.ix), <<1, 1, 1>>), ext |-> l.ix.ext, out |-> l.out, ins |-> l.ins,
        val |-> [v \in BoxOf(l.ix) |-> ValueAt(l, DataIndex(l.ix, v))] @@ <<>>,
        pop |-> MarkedIn(l, Coords(l.ix))]

Seen == field' = [s \in LevelSets |-> IF ls'[s] = ls[s] THEN field[s] ELSE FieldOf(ls'[s])]
Succeeds == UNCHANGED failed /\ Seen
\* The call ends with l, or a check in it throws.
Ends(s, ok, l) ==
  /\ Volume(l.ix) <= MaxVolume
  /\ failed' = (failed \/ ~ok)
  /\ ls' = IF ok THEN [ls EXCEPT ![s] = l] ELSE ls
  /\ Seen

(* switch_rle_index_spec: sources are the data indices and codes that the voxels with data had. *)

NewDistance(l, code) == IF code = -1 THEN l.out ELSE l.ins
CopiedDistances(l, sources) ==
  Listed([i \in 1..Len(sources) |-> IF sources[i] >= 0 THEN l.dist[sources[i] + 1] ELSE NewDistance(l, sources[i])], Len(sources))
CopiedMarks(data, sources) ==
  Listed([i \in 1..Len(sources) |-> IF sources[i] >= 0 THEN data[sources[i] + 1] ELSE 0], Len(sources))
CopiedChannel(l, sources, named) ==
  IF named THEN Channel(CopiedMarks([i \in 1..l.ix.n |-> 1], sources))
  ELSE IF l.pop = NoChannel THEN NoChannel ELSE Channel(CopiedMarks(l.pop[1], sources))
SwitchedFrom(l, ix, named, sources) ==
  [l EXCEPT !.ix = ix, !.dist = CopiedDistances(l, sources), !.pop = CopiedChannel(l, sources, named), !.adj = NoAdjacency]
Sources(ix, coords) == Listed([i \in 1..Len(coords) |-> DataIndex(ix, coords[i])], Len(coords))
SwitchRleIndexSpec(l, ix, named) == SwitchedFrom(l, ix, named, Sources(l.ix, Coords(ix)))

Switch(s, ok, ix, named) == Ends(s, ok, SwitchRleIndexSpec(ls[s], ix, named))

\* set( mapLevelSet ) and the set operations keep the cached adjacency of the level set they write.
Writes(l) == Reuse \/ l.adj = NoAdjacency

Set(s, m) ==
  /\ Called(<<"set", s, m>>)
  /\ Writes(ls[s])
  /\ \E ix \in {BuildFromVoxelArray(DOMAIN m)} :
       LET coords == Coords(ix)
       IN Ends(s, TRUE, [LevelSet(ix, Listed([i \in 1..ix.n |-> m[coords[i]]], ix.n), NoChannel) EXCEPT !.adj = ls[s].adj])

\* The checks in build_from_x_dilation are of its input.
DilateDefinedVoxels(s, d, named) ==
  /\ Called(<<"dilate", s, d, named>>)
  /\ \E ix \in {BuildFromDilation(ls[s].ix, d)} : Switch(s, InputsFit(ls[s].ix, d), ix, named)

BoundedDilateDefinedVoxels(s, r, b, named) ==
  /\ Called(<<"boundedDilate", s, r, b, named>>)
  /\ \E ix \in {BuildWithTrimBounds(BuildFromDilation(ls[s].ix, Cube(r)), b.lo, b.hi)} :
       Switch(s, InputsFit(ls[s].ix, Cube(r)), ix, named)

TrimToBounds(s, b) ==
  /\ Called(<<"trim", s, b>>)
  /\ IF Volume(ls[s].ix) = 0 \/ Encloses(b.lo, b.hi, ls[s].ix) THEN UNCHANGED ls /\ Succeeds
     ELSE \E ix \in {BuildWithTrimBounds(ls[s].ix, b.lo, b.hi)} : Switch(s, TRUE, ix, FALSE)

\* build_by_filling, and the level set is switched to the result.
Fill(s) ==
  /\ Called(<<"fill", s>>)
  /\ \E ix \in {BuildByFilling(ls[s].ix)} : Switch(s, TRUE, ix, FALSE)

Remapped(data, from) == Listed([i \in 1..Len(from) |-> data[from[i]]], Len(from))
PermutedWith(l, ix, from) ==
  [l EXCEPT !.ix = ix, !.dist = Remapped(@, from), !.adj = NoAdjacency,
            !.pop = IF @ = NoChannel THEN NoChannel ELSE Channel(Remapped(@[1], from))]

ApplyAxisPermutation(s, p) ==
  /\ Called(<<"permute", s, p>>)
  /\ p # Identity
  /\ \E ix \in {BuildFromAxisPermutation(ls[s].ix, p)} :
       Ends(s, CountsMatch(ls[s].ix, p, ix) /\ CheckConsistency(ix), PermutedWith(ls[s], ix, Remap(ls[s].ix, p, Coords(ix))))

\* linear_interpolate switches copies of both level sets to one index spec, with a channel that tells the old voxels.
Align(s, t) ==
  /\ Called(<<"align", s, t>>)
  /\ s # t
  /\ ls[s].ix.ext = ls[t].ix.ext
  /\ Volume(ls[s].ix) # 0 /\ Volume(ls[t].ix) # 0
  /\ \E ix \in {CombineForBlend(ls[s].ix, ls[t].ix)} :
       /\ Volume(ix) <= MaxVolume
       /\ ls' = [ls EXCEPT ![s] = SwitchRleIndexSpec(ls[s], ix, TRUE), ![t] = SwitchRleIndexSpec(ls[t], ix, TRUE)]
  /\ Succeeds

Complement(s) ==
  /\ Called(<<"complement", s>>)
  /\ Writes(ls[s])
  /\ Ends(s, TRUE, CsgComplement(ls[s]))

\* A set operation is written into a new level set, which then replaces s, or into s itself, which is no operand.
CombinedInto(s, t, u) == {NewLevelSet} \cup (IF Reuse /\ s \notin {t, u} THEN {ls[s]} ELSE {})
Combine(s, t, u, op) ==
  /\ Called(<<"combine", s, t, u, op>>)
  /\ t # u
  /\ \E old \in CombinedInto(s, t, u) : Ends(s, TRUE, CsgOperation(op, old, ls[t], ls[u]))

\* A client fills in the channel.
Populate(s) ==
  /\ Called(<<"populate", s>>)
  /\ ls[s].ix.n <= MaxPopulated
  /\ \E marks \in [1..ls[s].ix.n -> {0, 1}] : ls' = [ls EXCEPT ![s].pop = Channel(marks)]
  /\ Succeeds

GetCachedAdjacency(s) ==
  /\ Called(<<"adjacency", s>>)
  /\ ls[s].adj = NoAdjacency
  /\ ls' = [ls EXCEPT ![s].adj = Adjacency(ls[s].ix)]
  /\ Succeeds

\* The channel is erased, and when there are voxels to trim the switch makes it again.
AdjacencyUsed(l) == IF l.adj = NoAdjacency THEN Adjacency(l.ix) ELSE l.adj
TrimToPopulated(s) ==
  /\ Called(<<"trimToPopulated", s>>)
  /\ ls[s].ix.n # 0
  /\ ls[s].pop # NoChannel
  /\ IF \A i \in 1..ls[s].ix.n : ls[s].pop[1][i] # 0
     THEN Ends(s, TRUE, [ls[s] EXCEPT !.pop = NoChannel])
     ELSE \E ix \in {BuildFromPopulated(ls[s].ix, Coords(ls[s].ix), AdjacencyUsed(ls[s]), ls[s].dist, ls[s].pop[1])} :
            Switch(s, TRUE, ix, TRUE)

\* Level sets are made of what a file holds.
FromFile(f) == LevelSet(f.ix, f.dist, NoChannel)
Init ==
  /\ ls \in [LevelSets -> {FromFile(f) : f \in UNION {Files[s] : s \in LevelSets}}]
  /\ \A s \in LevelSets : \E f \in Files[s] : ls[s] = FromFile(f)
  /\ failed = FALSE /\ call = <<>> /\ calls = [s \in LevelSets |-> 0]
  /\ field = [s \in LevelSets |-> FieldOf(ls[s])]

Next ==
  \E s \in LevelSets :
    \/ \E m \in Maps : Set(s, m)
    \/ \E d \in Dilations, named \in BOOLEAN : DilateDefinedVoxels(s, d, named)
    \/ \E r \in Radii, b \in Bounds, named \in BOOLEAN : BoundedDilateDefinedVoxels(s, r, b, named)
    \/ \E b \in Bounds : TrimToBounds(s, b)
    \/ \E p \in AxisPermutations : ApplyAxisPermutation(s, p)
    \/ \E t \in LevelSets : Align(s, t)
    \/ \E t, u \in LevelSets, op \in CsgOperations : Combine(s, t, u, op)
    \/ Complement(s) \/ Fill(s) \/ Populate(s) \/ GetCachedAdjacency(s) \/ TrimToPopulated(s)

Spec == Init /\ [][Next]_vars

(* Properties. *)

\* "This function overwrites the current rle level set" (csg_union, rle_level_set.hpp:1132): after every call each channel
\* has as many values as the index spec has voxels with data.  Holds only of results written into new level sets.
ChannelsFit == \A s \in LevelSets : \A i \in DOMAIN ls[s].pop : Len(ls[s].pop[i]) = ls[s].ix.n

\* A cached adjacency is the one of the index spec that the level set has now.  Holds only while no function that keeps
\* it is called on a level set that has one.
AdjacencyIsCurrent == \A s \in LevelSets : ls[s].adj = NoAdjacency \/ ls[s].adj = Adjacency(ls[s].ix)

\* No check in a call throws, the index spec passes check_consistency, and distances, channels and cached adjacency
\* belong to the index spec that the level set has now.
Consistent ==
  /\ ~failed
  /\ \A s \in LevelSets : CheckConsistency(ls[s].ix) /\ Len(ls[s].dist) = ls[s].ix.n
  /\ ChannelsFit
  /\ AdjacencyIsCurrent

\* check_voxels_slow and the order of the data: a lookup finds the run that a walk over the scanline finds, the
\* exterior before, after and beside the runs, and the voxels with data have the indices 0, 1, 2 ... along X, Y and Z.
Walked(line, x, ext) ==
  LET hits == {k \in Runs(line) : line[k][1] <= x /\ x < line[k + 1][1]}
  IN IF hits = {} THEN ext ELSE InRun(line, CHOOSE k \in hits : TRUE, x, ext)
WalkedTo(ix, v) == Walked(LineAt(ix, v[2], v[3]), v[1], ix.ext)
LookupFinds ==
  \A s \in LevelSets :
    LET ix == ls[s].ix
        coords == Coords(ix)
    IN /\ \A x \in (ix.org[1] - 1)..End(ix)[1], y \in (ix.org[2] - 1)..End(ix)[2], z \in (ix.org[3] - 1)..End(ix)[3] :
            DataIndex(ix, <<x, y, z>>) = WalkedTo(ix, <<x, y, z>>)
       /\ Len(coords) = ix.n
       /\ \A i \in 1..Len(coords) : DataIndex(ix, coords[i]) = i - 1
=============================================================================
