----------------------------- MODULE SparseField -----------------------------
(***************************************************************************)
(* What a run length encoded level set promises its users: a field over     *)
(* the voxels of a box.  A voxel is known, with a signed distance, or it is *)
(* in a region: -1 is outside, every other code is inside.  Outside the box *)
(* there is only the exterior region.  Runs, scanlines, data indices and    *)
(* the order of the data cannot be seen.                                    *)
(***************************************************************************)
EXTENDS Integers, FiniteSets

CONSTANTS
  Sets,     \* the level sets of a client
  Maps,     \* the maps from voxels to distances that fields are made from
  Outside,  \* the distance that a new field gives to new voxels that were outside
  Inside,   \* ... and to those that were inside
  Dilations,     \* the boxes [lo, hi] that clients dilate by
  Radii,         \* the numbers of voxels that clients dilate by within bounds
  Bounds,        \* the boxes [lo, hi] that clients trim to
  AxisPermutations   \* the axis permutations that clients apply

VARIABLES
  field,  \* level set -> its corners, exterior region, voxels, the voxels its populated channel marks, and the
          \* distances of new voxels
  call    \* the last call

Called(c) == call' = c

Region(c) == [known |-> FALSE, value |-> c]
Distance(d) == [known |-> TRUE, value |-> d]

Box(lo, hi) == {<<x, y, z>> : x \in lo[1]..hi[1], y \in lo[2]..hi[2], z \in lo[3]..hi[3]}
Sum3(u, v) == <<u[1] + v[1], u[2] + v[2], u[3] + v[3]>>
Least3(u, v) == [i \in 1..3 |-> IF u[i] < v[i] THEN u[i] ELSE v[i]]
Greatest3(u, v) == [i \in 1..3 |-> IF u[i] < v[i] THEN v[i] ELSE u[i]]
Permuted(v, p) == <<v[p[1] + 1], v[p[2] + 1], v[p[3] + 1]>>
Near(v) == {Sum3(v, e) : e \in {<<-1, 0, 0>>, <<1, 0, 0>>, <<0, -1, 0>>, <<0, 1, 0>>, <<0, 0, -1>>, <<0, 0, 1>>}}

Voxels(f) == DOMAIN f.val
Known(f) == {v \in Voxels(f) : f.val[v].known}
At(f, v) == IF v \in Voxels(f) THEN f.val[v] ELSE Region(f.ext)

\* No channel, or the one that marks these voxels: <<>> or <<set>>.
NoChannel == <<>>
Marking(voxels) == <<voxels>>
Marked(f) == UNION {f.pop[i] : i \in DOMAIN f.pop}

\* A field over no voxels.
Nowhere(f, pop) == [lo |-> <<0, 0, 0>>, hi |-> <<-1, -1, -1>>, ext |-> f.ext, val |-> <<>>, pop |-> pop, out |-> f.out, ins |-> f.ins]

\* The value of v once it is known: an old one is kept, a new one only tells the side it was on.
Revealed(f, v) ==
  IF At(f, v).known THEN At(f, v) ELSE Distance(IF At(f, v).value = -1 THEN f.out ELSE f.ins)

\* The channel after the known voxels become these; a named channel marks those that were known before.
Remarked(f, known, named) ==
  IF named THEN Marking(Known(f) \cap known)
  ELSE IF f.pop = NoChannel THEN NoChannel ELSE Marking(Marked(f) \cap known)

\* f over another box and with other known voxels; the voxels not known have these region codes.
Reshaped(f, lo, hi, known, codes, named) ==
  [lo |-> lo, hi |-> hi, ext |-> f.ext, pop |-> Remarked(f, known, named), out |-> f.out, ins |-> f.ins,
   val |-> [v \in Box(lo, hi) |-> IF v \in known THEN Revealed(f, v) ELSE Region(codes[v])]]

Codes(f, lo, hi) == [v \in Box(lo, hi) |-> At(f, Least3(Greatest3(v, f.lo), f.hi)).value]
Grown(f, d) == {Sum3(v, e) : v \in Known(f), e \in Box(d.lo, d.hi)}

\* Dilated by a box and cut at lo and hi: known where the box around the voxel's mirror image meets a known voxel;
\* a region that reaches the old box goes on to the new one.  Of a field without voxels all is exterior.
IsExterior(f, pop, g) ==
  /\ <<g.ext, g.pop, g.out, g.ins>> = <<f.ext, pop, f.out, f.ins>>
  /\ \A v \in Voxels(g) : g.val[v] = Region(f.ext)
IsDilatedTo(f, d, lo, hi, named, g) ==
  IF Voxels(f) = {} \/ Box(lo, hi) = {} THEN IsExterior(f, Remarked(f, {}, named), g)
  ELSE g = Reshaped(f, lo, hi, Grown(f, d) \cap Box(lo, hi), Codes(f, lo, hi), named)

IsDilated(f, d, named, g) == IsDilatedTo(f, d, Sum3(f.lo, d.lo), Sum3(f.hi, d.hi), named, g)
IsBoundedDilated(f, d, b, named, g) ==
  IsDilatedTo(f, d, Greatest3(b.lo, Sum3(f.lo, d.lo)), Least3(b.hi, Sum3(f.hi, d.hi)), named, g)

TrimTo(f, lo, hi) ==
  IF Box(lo, hi) = {} THEN Nowhere(f, Remarked(f, {}, FALSE))
  ELSE Reshaped(f, lo, hi, Known(f) \cap Box(lo, hi), [v \in Box(lo, hi) |-> At(f, v).value], FALSE)

TrimmedBy(f, b) == IF Voxels(f) = {} THEN f ELSE TrimTo(f, Greatest3(b.lo, f.lo), Least3(b.hi, f.hi))

\* Regions other than the exterior become known.
Filled(f) ==
  Reshaped(f, f.lo, f.hi, {v \in Voxels(f) : f.val[v].known \/ f.val[v].value # f.ext},
           [v \in Voxels(f) |-> f.val[v].value], FALSE)

\* The voxels are renamed.
IsRenamed(f, g, p) ==
  /\ <<g.lo, g.hi, g.ext, g.out, g.ins>> = <<Permuted(f.lo, p), Permuted(f.hi, p), f.ext, f.out, f.ins>>
  /\ Voxels(g) = {Permuted(v, p) : v \in Voxels(f)}
  /\ \A v \in Voxels(f) : g.val[Permuted(v, p)] = f.val[v]
  /\ g.pop = [i \in DOMAIN f.pop |-> {Permuted(v, p) : v \in f.pop[i]}]

\* Two fields get a common box and common known voxels: those known in either, and those they do not agree on.
CommonTo(f, g, lo, hi) ==
  {v \in Box(lo, hi) : At(f, v).known \/ At(g, v).known \/ At(f, v).value # At(g, v).value}

Aligned(f, g) ==
  LET lo == Least3(f.lo, g.lo)
      hi == Greatest3(f.hi, g.hi)
  IN Reshaped(f, lo, hi, CommonTo(f, g, lo, hi), [v \in Box(lo, hi) |-> At(f, v).value], TRUE)


(* Voxels that are not populated join a region. *)

Unpopulated(f) == Known(f) \ Marked(f)

\* The regions next to v inside the box; if there is none, the sides of its populated neighbours.
Sides(f, v) ==
  LET regions == {f.val[w].value : w \in (Near(v) \cap Voxels(f)) \ Known(f)}
  IN IF regions # {} THEN regions
     ELSE {IF f.val[w].value >= 0 THEN -1 ELSE -2 : w \in Near(v) \cap Marked(f)}

Shores(f) == {v \in Unpopulated(f) : Sides(f, v) # {}}

\* How many steps the unpopulated voxels are away from a shore, as pairs; the others have no way to one.
\* (A union over one set has TLC evaluate the set once.)
Reached(away) == {p[1] : p \in away}
Spread(f, away, k) == away \cup {<<v, k>> : v \in {w \in Unpopulated(f) \ Reached(away) : Near(w) \cap Reached(away) # {}}}
Away(f) ==
  LET within[k \in 0..Cardinality(Unpopulated(f))] ==
        IF k = 0 THEN {<<v, 0>> : v \in Shores(f)} ELSE UNION {Spread(f, away, k) : away \in {within[k - 1]}}
  IN within[Cardinality(Unpopulated(f))]

\* The voxels one step nearer to a shore than v.
Seaward(away, v) == {p[1] : p \in {q \in away : q[1] \in Near(v) /\ <<v, q[2] + 1>> \in away}}

\* Every voxel that loses its value joins a region next to it, by a shortest way; without a way, the exterior.
JoinedRegions(f, g, away, v) ==
  IF <<v, 0>> \in away THEN Sides(f, v)
  ELSE IF v \in Reached(away) THEN {g.val[w].value : w \in Seaward(away, v)}
  ELSE {f.ext}
Floods(f, g) ==
  \A away \in {Away(f)} : \A v \in Unpopulated(f) :
    ~g.val[v].known /\ g.val[v].value \in JoinedRegions(f, g, away, v)

IsTrimmedToPopulated(f, g) ==
  /\ f.pop # NoChannel
  /\ Known(f) # {}
  /\ <<g.lo, g.hi, g.ext, g.out, g.ins, Voxels(g)>> = <<f.lo, f.hi, f.ext, f.out, f.ins, Voxels(f)>>
  /\ \A v \in Voxels(f) \ Unpopulated(f) : g.val[v] = f.val[v]
  /\ Floods(f, g)
  /\ g.pop = IF Unpopulated(f) = {} THEN NoChannel ELSE Marking(Marked(f))

\* Made from a map: the smallest box around the voxels of the map, and outside elsewhere.
Edges(m, v) == \A i \in 1..3 : \E w, x \in DOMAIN m : w[i] = v.lo[i] /\ x[i] = v.hi[i]
IsMade(m, f) ==
  /\ <<f.ext, f.pop, f.out, f.ins>> = <<-1, NoChannel, Outside, Inside>>
  /\ DOMAIN m \subseteq Voxels(f) /\ Edges(m, f)
  /\ Voxels(f) = Box(f.lo, f.hi)
  /\ \A v \in Voxels(f) : f.val[v] = IF v \in DOMAIN m THEN Distance(m[v]) ELSE Region(-1)

(* Set operations.  A field is an order of its voxels: inside regions lie below every distance, outside regions    *)
(* above; a union takes the lower of two voxels, an intersection the higher, and a difference is an intersection  *)
(* with the complement.                                                                                           *)

Inner(p) == ~p.known /\ p.value < -1
Outer(p) == ~p.known /\ p.value = -1
IsBelow(p, q) == Inner(p) \/ Outer(q) \/ (p.known /\ q.known /\ p.value <= q.value)
Opposite(p) == IF p.known THEN Distance(-p.value) ELSE Region(IF p.value = -1 THEN -2 ELSE -1)

TakesFirst(op, p, q) == IF op = "union" THEN IsBelow(p, q) ELSE IsBelow(q, p)
Operand(op, q) == IF op = "subtract" THEN Opposite(q) ELSE q
Chosen(op, p, q) == IF TakesFirst(op, p, q) THEN p ELSE q
CombinedAt(op, f, g, v) == Chosen(op, At(f, v), Operand(op, At(g, v)))

\* The same value, or regions on the same side.
IsLike(p, q) == p = q \/ (Inner(p) /\ Inner(q))

\* Which known voxels are marked: those taken from a marked one, in a difference those of the first field.
MarkedFrom(op, f, g, h) ==
  {v \in Known(h) :
     IF op = "subtract" \/ TakesFirst(op, At(f, v), At(g, v)) THEN v \in Marked(f) ELSE v \in Marked(g)}
IsMarkedFrom(op, f, g, h) ==
  h.pop = IF f.pop = NoChannel /\ (op = "subtract" \/ g.pop = NoChannel) THEN NoChannel
          ELSE Marking(MarkedFrom(op, f, g, h))

IsCombined(op, f, g, h) ==
  /\ Voxels(h) = Box(h.lo, h.hi)
  /\ IsLike(Region(h.ext), Chosen(op, Region(f.ext), Operand(op, Region(g.ext))))
  /\ \A v \in Voxels(f) \cup Voxels(g) \cup Voxels(h) : IsLike(At(h, v), CombinedAt(op, f, g, v))
  /\ Voxels(f) # {} /\ Voxels(g) # {} => IsMarkedFrom(op, f, g, h)

IsComplement(f, g) ==
  /\ <<g.lo, g.hi, g.pop, g.out, g.ins>> = <<f.lo, f.hi, f.pop, -f.ins, -f.out>>
  /\ Voxels(g) = Voxels(f)
  /\ Region(g.ext) = Opposite(Region(f.ext))
  /\ \A v \in Voxels(f) : g.val[v] = Opposite(f.val[v])

(* Calls: one on a field f makes it g. *)

Set(s, m, g) == Called(<<"set", s, m>>) /\ IsMade(m, g)
Dilate(s, d, named, f, g) == Called(<<"dilate", s, d, named>>) /\ IsDilated(f, d, named, g)
BoundedDilate(s, r, b, named, f, g) ==
  Called(<<"boundedDilate", s, r, b, named>>) /\ IsBoundedDilated(f, [lo |-> <<-r, -r, -r>>, hi |-> <<r, r, r>>], b, named, g)
Trim(s, b, f, g) == Called(<<"trim", s, b>>) /\ g = TrimmedBy(f, b)
Fill(s, f, g) == Called(<<"fill", s>>) /\ g = Filled(f)
Permute(s, p, f, g) == Called(<<"permute", s, p>>) /\ IsRenamed(f, g, p)
TrimToPopulated(s, f, g) == Called(<<"trimToPopulated", s>>) /\ IsTrimmedToPopulated(f, g)
\* A client writes the populated channel.
Populate(s, f, g) ==
  Called(<<"populate", s>>) /\ Marked(g) \subseteq Known(f) /\ g = [f EXCEPT !.pop = Marking(Marked(g))]
\* The neighbours of the voxels are looked up.
LookUp(s, f, g) == Called(<<"adjacency", s>>) /\ g = f
Complement(s, f, g) == Called(<<"complement", s>>) /\ IsComplement(f, g)

Changes(s, f, g) ==
  \/ \E m \in Maps : Set(s, m, g)
  \/ \E d \in Dilations, named \in BOOLEAN : Dilate(s, d, named, f, g)
  \/ \E r \in Radii, b \in Bounds, named \in BOOLEAN : BoundedDilate(s, r, b, named, f, g)
  \/ \E b \in Bounds : Trim(s, b, f, g)
  \/ \E p \in AxisPermutations : Permute(s, p, f, g)
  \/ Populate(s, f, g) \/ TrimToPopulated(s, f, g) \/ Fill(s, f, g) \/ LookUp(s, f, g)
  \/ Complement(s, f, g)

AlignBoth(before, after, s, t) ==
  /\ before[s].ext = before[t].ext
  /\ after[s] = Aligned(before[s], before[t]) /\ after[t] = Aligned(before[t], before[s])
Align(before, after, s, t) == Called(<<"align", s, t>>) /\ AlignBoth(before, after, s, t)

Combine(before, after, s) ==
  \E t, u \in Sets, op \in {"union", "intersect", "subtract"} :
    Called(<<"combine", s, t, u, op>>) /\ IsCombined(op, before[t], before[u], after[s])

\* A file may hold any field.
Init == call = <<>> /\ \A s \in Sets : field[s].pop = NoChannel

\* A call changes the sets that it is given.
Step(before, after) ==
  \/ \E s \in Sets : (Changes(s, before[s], after[s]) \/ Combine(before, after, s)) /\ \A t \in Sets \ {s} : after[t] = before[t]
  \/ \E s \in Sets : \E t \in Sets \ {s} : Align(before, after, s, t) /\ \A u \in Sets \ {s, t} : after[u] = before[u]
Next == Step(field, field')

Spec == Init /\ [][Next]_<<field, call>>
=============================================================================
