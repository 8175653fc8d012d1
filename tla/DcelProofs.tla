---------------------------- MODULE DcelProofs ----------------------------
(***************************************************************************)
(* While faces are only added, begin_face, add_face_vertex and end_face     *)
(* make an oriented manifold of them, whatever the faces and their order,   *)
(* unless a face closes a fan next to another one.                          *)
(*                                                                          *)
(* The argument is about the half-edges that point to one vertex.  Turning  *)
(* around it, h |-> twin(next(h)), permutes them; they are one cycle when   *)
(* no face is open there (Whole).  A new half-edge is put into that cycle   *)
(* behind one of a hole.  The open face then comes to the vertex with x and *)
(* leaves it with a, which are not linked (Corner); when they are, the      *)
(* half-edges between a and the next hole move behind x (CornerIsSewn), and *)
(* the cycle is one again or has been cut (Passed).  A cut is a fan that is *)
(* closed without being all of the vertex, which is what pinched says of    *)
(* the faces (CutPinches).                                                  *)
(*                                                                          *)
(* The last part is about every step, collapses, flips and faults included: *)
(* each edit leaves arrays of the same types (Like, Wider).                 *)
(***************************************************************************)
EXTENDS Dcel, FoldLemmas

(* Walks.                                                                  *)

\* walk is the recursive function that Cycle( step, h ) is taken from.
Walks(walk, step, h) ==
  walk = [k \in DOMAIN step |-> IF k = 0 THEN <<h>> ELSE Longer(walk[k - 1], step)]

\* A walk along step from h that has not come back to h before its end.
IsWalk(s, step, h) ==
  /\ s \in Seq(DOMAIN step) /\ Len(s) > 0
  /\ s[1] = h
  /\ \A i \in 1..(Len(s) - 1) : s[i + 1] = step[s[i]] /\ s[i + 1] # h

\* The recursive function exists, whatever step is: a number of half-edges is enough to build it.
LEMMA WalksExist ==
  ASSUME NEW n \in Nat, NEW step, DOMAIN step = 0..(n - 1), NEW h
  PROVE  \E walk : Walks(walk, step, h)
<1> DEFINE Body(w, j) == IF j = 0 THEN <<h>> ELSE Longer(w[j - 1], step)
           Eq(w, k) == w = [j \in 0..(k - 1) |-> Body(w, j)]
           Good == {k \in Nat : \E w : Eq(w, k)}
<1>1. 0 \in Good
  <2>1. Eq([j \in 0..(0 - 1) |-> 0], 0) OBVIOUS
  <2> QED BY <2>1
<1>2. ASSUME NEW k \in Nat, k \in Good PROVE k + 1 \in Good
  <2>1. PICK w : Eq(w, k) BY <1>2
  <2> DEFINE next == [j \in 0..k |-> Body(w, j)]
  <2>2. ASSUME NEW j \in 0..(k - 1) PROVE next[j] = w[j]
    <3> HIDE DEF Body
    <3> QED BY <2>1
  <2>3. ASSUME NEW j \in 0..k PROVE Body(w, j) = Body(next, j)
    <3>1. CASE j = 0 BY <3>1
    <3>2. CASE j # 0
      <4>1. j - 1 \in 0..(k - 1) BY <3>2
      <4> HIDE DEF next
      <4> QED BY <4>1, <2>2
    <3> QED BY <3>1, <3>2
  <2> HIDE DEF Body
  <2>4. next = [j \in 0..k |-> Body(next, j)] BY <2>3
  <2>5. (k + 1) - 1 = k OBVIOUS
  <2>6. Eq(next, k + 1) BY <2>4, <2>5
  <2> HIDE DEF Eq, next
  <2> QED BY <2>6
<1>3. n \in Good
  <2> HIDE DEF Good
  <2> QED BY <1>1, <1>2, InductionOnSet
<1>4. PICK w : Eq(w, n) BY <1>3
<1> QED BY <1>4 DEF Walks

\* What Cycle returns, for any function: a walk that has come back, or as long as there are half-edges.
LEMMA CycleIsWalk ==
  ASSUME NEW n \in Nat, NEW step, DOMAIN step = 0..(n - 1), \A x \in DOMAIN step : step[x] \in DOMAIN step,
         NEW h \in DOMAIN step
  PROVE  /\ IsWalk(Cycle(step, h), step, h)
         /\ step[Cycle(step, h)[Len(Cycle(step, h))]] = h \/ Len(Cycle(step, h)) = n
<1> DEFINE walk == CHOOSE walk : Walks(walk, step, h)
           Fine(k) == /\ IsWalk(walk[k], step, h)
                      /\ step[walk[k][Len(walk[k])]] = h \/ Len(walk[k]) = k + 1
           Good == {k \in Nat : k < n => Fine(k)}
<1>1. Walks(walk, step, h) BY WalksExist
<1>2. Cycle(step, h) = walk[n - 1]
  <2>1. Cardinality(DOMAIN step) = n BY FS_Interval
  <2> QED BY <2>1 DEF Cycle, Walks
<1> HIDE DEF walk
<1>3. ASSUME NEW k \in Nat, k < n PROVE walk[k] = IF k = 0 THEN <<h>> ELSE Longer(walk[k - 1], step)
  <2> DEFINE Body(j) == IF j = 0 THEN <<h>> ELSE Longer(walk[j - 1], step)
  <2>1. walk = [j \in DOMAIN step |-> Body(j)] BY <1>1 DEF Walks
  <2>2. k \in DOMAIN step BY <1>3
  <2> HIDE DEF Body
  <2>3. walk[k] = Body(k) BY <2>1, <2>2
  <2> QED BY <2>3 DEF Body
<1>4. 0 \in Good
  <2> SUFFICES ASSUME 0 < n PROVE Fine(0) OBVIOUS
  <2>1. walk[0] = <<h>> BY <1>3
  <2>2. <<h>> \in Seq(DOMAIN step) /\ Len(<<h>>) = 1 /\ <<h>>[1] = h OBVIOUS
  <2> QED BY <2>1, <2>2 DEF IsWalk
<1>5. ASSUME NEW k \in Nat, k \in Good PROVE k + 1 \in Good
  <2> SUFFICES ASSUME k + 1 < n PROVE Fine(k + 1) OBVIOUS
  <2> DEFINE s == walk[k]
             l == s[Len(s)]
             t == Append(s, step[l])
  <2>1. Fine(k) BY <1>5
  <2>2. s \in Seq(DOMAIN step) /\ Len(s) \in Nat /\ Len(s) > 0 /\ l \in DOMAIN step /\ s[1] = h
    BY <2>1 DEF IsWalk
  <2>3. walk[k + 1] = IF step[l] = h THEN s ELSE t
    BY <1>3, <2>2 DEF Longer, Last
  <2>4. CASE step[l] = h BY <2>1, <2>3, <2>4
  <2>5. CASE step[l] # h
    <3>1. Len(s) = k + 1 BY <2>1, <2>5
    <3>2. t \in Seq(DOMAIN step) /\ Len(t) = k + 2 /\ t[k + 2] = step[l] BY <2>2, <3>1
    <3>3. \A i \in 1..(k + 1) : t[i] = s[i] BY <2>2, <3>1
    <3>4. ASSUME NEW i \in 1..(Len(t) - 1) PROVE t[i + 1] = step[t[i]] /\ t[i + 1] # h
      <4>1. CASE i = k + 1 BY <4>1, <3>1, <3>2, <3>3, <2>5
      <4>2. CASE i # k + 1
        <5>1. i \in 1..(Len(s) - 1) /\ i \in 1..(k + 1) /\ i + 1 \in 1..(k + 1) BY <4>2, <3>1, <3>2
        <5>2. s[i + 1] = step[s[i]] /\ s[i + 1] # h BY <5>1, <2>1 DEF IsWalk
        <5> HIDE DEF s, t
        <5> QED BY <5>1, <5>2, <3>3
      <4> QED BY <4>1, <4>2
    <3>5. IsWalk(t, step, h)
      <4>1. t[1] = h BY <3>3, <2>2
      <4> HIDE DEF t
      <4> QED BY <3>2, <3>4, <4>1 DEF IsWalk
    <3> QED BY <3>5, <3>2, <2>3, <2>5
  <2> QED BY <2>4, <2>5
<1>6. Nat \subseteq Good BY <1>4, <1>5, InductionOnSet
<1>7. n > 0 BY DEF Cycle
<1>8. Fine(n - 1) BY <1>6, <1>7
<1> QED BY <1>2, <1>8

-----------------------------------------------------------------------------
(* Cycles of a permutation.                                                *)

\* step permutes F.
Permutes(step, F) ==
  /\ \A x \in F : step[x] \in F
  /\ \A x, y \in F : step[x] = step[y] => x = y

\* F is one cycle of step, or empty.
OneCycle(F, step) == \A X \in SUBSET F : X # {} /\ (\A x \in X : step[x] \in X) => X = F

\* A walk that comes back to h after some of F, none of them twice.
IsRound(s, step, F, h) ==
  /\ s \in Seq(F) /\ Len(s) > 0 /\ s[1] = h
  /\ \A i \in 1..(Len(s) - 1) : s[i + 1] = step[s[i]]
  /\ \A i, j \in DOMAIN s : s[i] = s[j] => i = j
  /\ step[s[Len(s)]] = h

\* A walk through half-edges that step permutes meets none twice, and comes back.
LEMMA CycleCloses ==
  ASSUME NEW n \in Nat, NEW step, DOMAIN step = 0..(n - 1), \A x \in DOMAIN step : step[x] \in DOMAIN step,
         NEW F, F \subseteq DOMAIN step, Permutes(step, F), NEW h \in F
  PROVE  IsRound(Cycle(step, h), step, F, h)
<1> DEFINE s == Cycle(step, h)
           In == {i \in Nat : i + 1 <= Len(s) => s[i + 1] \in F}
           Once == {i \in Nat : i + 1 <= Len(s) => \A j \in (i + 2)..Len(s) : s[i + 1] # s[j]}
<1>1. /\ s \in Seq(DOMAIN step) /\ Len(s) \in Nat /\ Len(s) > 0 /\ s[1] = h
      /\ \A i \in 1..(Len(s) - 1) : s[i + 1] = step[s[i]] /\ s[i + 1] # h
      /\ step[s[Len(s)]] = h \/ Len(s) = n
  <2>1. h \in DOMAIN step OBVIOUS
  <2>2. IsWalk(s, step, h) /\ (step[s[Len(s)]] = h \/ Len(s) = n) BY <2>1, CycleIsWalk
  <2> HIDE DEF s
  <2> QED BY <2>2 DEF IsWalk
<1> HIDE DEF s
<1>2. ASSUME NEW i \in 1..Len(s) PROVE s[i] \in F
  <2>1. 0 \in In BY <1>1
  <2>2. ASSUME NEW k \in Nat, k \in In PROVE k + 1 \in In
    <3> SUFFICES ASSUME k + 2 <= Len(s) PROVE s[k + 2] \in F OBVIOUS
    <3>1. s[k + 1] \in F BY <2>2, <1>1
    <3>2. k + 1 \in 1..(Len(s) - 1) /\ (k + 1) + 1 = k + 2 BY <1>1
    <3>3. s[k + 2] = step[s[k + 1]] BY <3>2, <1>1
    <3> QED BY <3>1, <3>3 DEF Permutes
  <2> HIDE DEF In
  <2>3. i - 1 \in In BY <2>1, <2>2, InductionOnSet
  <2> QED BY <2>3, <1>1 DEF In
<1>3. ASSUME NEW i \in 1..Len(s), NEW j \in 1..Len(s), i < j PROVE s[i] # s[j]
  <2>1. 0 \in Once
    <3> SUFFICES ASSUME NEW l \in 2..Len(s) PROVE s[1] # s[l] BY <1>1
    <3>1. l - 1 \in 1..(Len(s) - 1) /\ (l - 1) + 1 = l BY <1>1
    <3> QED BY <1>1, <3>1
  <2>2. ASSUME NEW k \in Nat, k \in Once PROVE k + 1 \in Once
    <3> SUFFICES ASSUME k + 2 <= Len(s), NEW l \in (k + 3)..Len(s), s[k + 2] = s[l] PROVE FALSE OBVIOUS
    <3>1. k + 1 \in 1..(Len(s) - 1) /\ l - 1 \in 1..(Len(s) - 1) /\ (k + 1) + 1 = k + 2 /\ (l - 1) + 1 = l
          /\ l - 1 \in (k + 2)..Len(s) /\ k + 1 \in 1..Len(s) /\ l - 1 \in 1..Len(s)
      BY <1>1
    <3>2. step[s[k + 1]] = step[s[l - 1]] BY <3>1, <1>1
    <3>3. s[k + 1] = s[l - 1] BY <3>1, <3>2, <1>2 DEF Permutes
    <3> QED BY <3>1, <3>3, <2>2
  <2> HIDE DEF Once
  <2>3. i - 1 \in Once BY <2>1, <2>2, InductionOnSet
  <2>4. (i - 1) + 1 = i /\ j \in ((i - 1) + 2)..Len(s) BY <1>3, <1>1
  <2> QED BY <2>3, <2>4 DEF Once
<1>4. s \in Seq(F)
  <2>1. s = [i \in 1..Len(s) |-> s[i]] BY <1>1
  <2> QED BY <2>1, <1>2, <1>1
<1>5. step[s[Len(s)]] = h
  <2>1. SUFFICES ASSUME Len(s) = n, step[s[n]] # h PROVE FALSE BY <1>1
  <2> DEFINE f == [i \in 1..(n + 1) |-> IF i <= n THEN s[i] ELSE step[s[n]]]
  <2>2. f \in [1..(n + 1) -> F] BY <1>2, <2>1, <1>1 DEF Permutes
  <2>3. IsFiniteSet(F) /\ Cardinality(F) \in Nat /\ Cardinality(F) <= n
    <3>1. IsFiniteSet(0..(n - 1)) /\ Cardinality(0..(n - 1)) = n BY FS_Interval
    <3> QED BY <3>1, FS_Subset, FS_CardinalityType
  <2>4. IsFiniteSet(1..(n + 1)) /\ Cardinality(1..(n + 1)) = n + 1 BY FS_Interval
  <2>5. Cardinality(F) < Cardinality(1..(n + 1)) BY <2>3, <2>4
  <2> HIDE DEF f
  <2>6. PICK i, j \in 1..(n + 1) : i # j /\ f[i] = f[j] BY <2>2, <2>3, <2>4, <2>5, FS_PigeonHole
  <2>7. ASSUME NEW k \in 1..n PROVE s[k] # step[s[n]]
    <3>1. CASE k = 1 BY <3>1, <2>1, <1>1
    <3>2. CASE k # 1
      <4>1. k - 1 \in 1..(n - 1) /\ (k - 1) + 1 = k /\ k - 1 \in 1..n /\ n \in 1..n /\ k - 1 < n BY <3>2
      <4>2. s[k] = step[s[k - 1]] BY <4>1, <2>1, <1>1
      <4>3. s[k - 1] # s[n] BY <4>1, <2>1, <1>3
      <4> QED BY <4>1, <4>2, <4>3, <1>2, <2>1 DEF Permutes
    <3> QED BY <3>1, <3>2
  <2>8. \A k \in 1..n, l \in 1..n : k # l => s[k] # s[l]
    <3> SUFFICES ASSUME NEW k \in 1..n, NEW l \in 1..n, k # l PROVE s[k] # s[l] OBVIOUS
    <3>1. k < l \/ l < k OBVIOUS
    <3> QED BY <3>1, <1>3, <2>1
  <2> QED BY <2>6, <2>7, <2>8 DEF f
<1>6. ASSUME NEW i \in DOMAIN s, NEW j \in DOMAIN s, s[i] = s[j] PROVE i = j
  <2>1. i \in 1..Len(s) /\ j \in 1..Len(s) BY <1>1
  <2>2. i < j \/ j < i \/ i = j BY <2>1
  <2> QED BY <2>1, <2>2, <1>3, <1>6
<1>7. IsRound(s, step, F, h) BY <1>1, <1>4, <1>5, <1>6 DEF IsRound
<1> QED BY <1>7 DEF s

\* It visits all half-edges of a cycle.
LEMMA CycleVisits ==
  ASSUME NEW n \in Nat, NEW step, DOMAIN step = 0..(n - 1), \A x \in DOMAIN step : step[x] \in DOMAIN step,
         NEW F, F \subseteq DOMAIN step, Permutes(step, F), OneCycle(F, step), NEW h \in F
  PROVE  Visited(Cycle(step, h)) = F
<1> DEFINE s == Cycle(step, h)
<1>1. /\ s \in Seq(F) /\ Len(s) > 0 /\ s[1] = h
      /\ \A i \in 1..(Len(s) - 1) : s[i + 1] = step[s[i]]
      /\ step[s[Len(s)]] = h
  <2>1. IsRound(s, step, F, h) BY CycleCloses
  <2> HIDE DEF s
  <2> QED BY <2>1 DEF IsRound
<1> HIDE DEF s
<1>2. Len(s) \in Nat /\ DOMAIN s = 1..Len(s) BY <1>1
<1>3. Visited(s) \subseteq F BY <1>1, <1>2 DEF Visited
<1>4. h \in Visited(s) BY <1>1, <1>2 DEF Visited
<1>5. ASSUME NEW x \in Visited(s) PROVE step[x] \in Visited(s)
  <2>1. PICK i \in 1..Len(s) : x = s[i] BY <1>2 DEF Visited
  <2>2. CASE i = Len(s) BY <2>1, <2>2, <1>1, <1>4
  <2>3. CASE i # Len(s)
    <3>0. Len(s) \in Nat BY <1>2
    <3>1. i \in 1..(Len(s) - 1) /\ i + 1 \in 1..Len(s) BY <2>3, <3>0
    <3> QED BY <2>1, <3>1, <1>1, <1>2 DEF Visited
  <2> QED BY <2>2, <2>3
<1>6. Visited(s) = F BY <1>3, <1>4, <1>5 DEF OneCycle
<1> QED BY <1>6 DEF s

\* What a permutation does not leave, it does not enter.
LEMMA ClosedBackwards ==
  ASSUME NEW F, IsFiniteSet(F), NEW step, Permutes(step, F), NEW X, X \subseteq F, \A x \in X : step[x] \in X,
         NEW y \in F, step[y] \in X
  PROVE  y \in X
<1> DEFINE f == [x \in X |-> step[x]]
<1>1. IsFiniteSet(X) BY FS_Subset
<1>2. f \in Injection(X, X) BY DEF Injection, IsInjective, Permutes
<1>3. f \in Surjection(X, X) BY <1>1, <1>2, FS_Injection
<1>4. PICK x \in X : f[x] = step[y] BY <1>3 DEF Surjection
<1>5. step[x] = step[y] BY <1>4
<1> QED BY <1>5 DEF Permutes

\* The first hit of a walk, or INVALID if there is none.
LEMMA FirstOfFinds ==
  ASSUME NEW s, NEW hits, hits \subseteq Nat
  PROVE  IF hits = {} THEN FirstOf(s, hits) = INVALID
         ELSE \E j \in hits : FirstOf(s, hits) = s[j] /\ \A i \in hits : j <= i
<1>1. CASE hits = {} BY <1>1 DEF FirstOf
<1>2. CASE hits # {}
  <2> DEFINE j == CHOOSE i \in hits : \A k \in hits : i <= k
  <2>1. j \in hits /\ \A i \in hits : j <= i BY <1>2, LeastNat
  <2>2. FirstOf(s, hits) = s[j] BY <1>2 DEF FirstOf
  <2> QED BY <1>2, <2>1, <2>2
<1> QED BY <1>1, <1>2

-----------------------------------------------------------------------------
(* How the edits change a cycle.                                            *)

\* One more half-edge.
LEMMA CycleGrows ==
  ASSUME NEW F, NEW old, Permutes(old, F), OneCycle(F, old), NEW b \in F, NEW a, a \notin F, NEW new,
         new[b] = a, new[a] = old[b], \A x \in F : x # b => new[x] = old[x]
  PROVE  OneCycle(F \cup {a}, new)
<1> SUFFICES ASSUME NEW X \in SUBSET (F \cup {a}), X # {}, \A x \in X : new[x] \in X PROVE X = F \cup {a}
  BY DEF OneCycle
<1> DEFINE Y == X \ {a}
<1>1. ASSUME NEW x \in Y PROVE old[x] \in Y
  <2>1. old[x] \in F BY DEF Permutes
  <2>2. CASE x = b BY <2>1, <2>2
  <2>3. CASE x # b BY <2>1, <2>3
  <2> QED BY <2>2, <2>3
<1>2. Y # {}
  <2>1. SUFFICES ASSUME X = {a} PROVE FALSE OBVIOUS
  <2> QED BY <2>1 DEF Permutes
<1>3. Y = F BY <1>1, <1>2 DEF OneCycle
<1> QED BY <1>3

\* The half-edges S between a and b are cut out of the cycle, with p before and old[b] after
\* them, and put in again behind x, which is not one of them.
LEMMA CycleMoves ==
  ASSUME NEW F, IsFiniteSet(F), NEW old, Permutes(old, F), OneCycle(F, old),
         NEW new, Permutes(new, F),
         NEW S \in SUBSET F, NEW a \in S, NEW b \in S, NEW p \in F \ S, NEW x \in F \ S, p # x,
         \A y \in F : old[y] \in S <=> y \in (S \ {b}) \cup {p},
         old[p] = a,
         new[p] = old[b], new[b] = old[x], new[x] = a,
         \A y \in F \ {p, b, x} : new[y] = old[y]
  PROVE  OneCycle(F, new)
<1> SUFFICES ASSUME NEW X \in SUBSET F, X # {}, \A y \in X : new[y] \in X PROVE X = F
  BY DEF OneCycle
<1>1. ASSUME NEW y \in F, new[y] \in X PROVE y \in X
  BY <1>1, ClosedBackwards
<1>2. CASE b \in X
  <2>1. S \subseteq X
    <3> DEFINE T == S \ X
    <3>1. ASSUME NEW y \in T PROVE old[y] \in T
      <4>1. y # b /\ y # p /\ y # x BY <1>2
      <4>2. old[y] \in S /\ new[y] = old[y] BY <4>1
      <4> QED BY <4>2, <1>1
    <3>2. T # F BY <1>2
    <3> QED BY <3>1, <3>2 DEF OneCycle
  <2>2. x \in X BY <2>1, <1>1
  <2>3. old[x] \in X BY <1>2
  <2>4. p \in X
    <3>1. SUFFICES ASSUME p \notin X PROVE FALSE OBVIOUS
    <3> DEFINE Z == X \ S
    <3>2. ASSUME NEW y \in Z PROVE old[y] \in Z
      <4>1. y # b /\ y # p BY <3>1
      <4>2. old[y] \notin S BY <4>1
      <4>3. old[y] \in X BY <4>1, <2>3
      <4> QED BY <4>2, <4>3
    <3>3. Z # {} BY <2>2
    <3>4. Z = F BY <3>2, <3>3 DEF OneCycle
    <3> QED BY <3>4
  <2>5. ASSUME NEW y \in X PROVE old[y] \in X
    <3>1. CASE y = p BY <3>1, <2>1
    <3>2. CASE y = x BY <3>2, <2>3
    <3>3. CASE y = b BY <3>3, <2>4
    <3>4. CASE y \notin {p, x, b} BY <3>4
    <3> QED BY <3>1, <3>2, <3>3, <3>4
  <2> QED BY <2>5 DEF OneCycle
<1>3. CASE b \notin X
  <2>1. S \cap X = {}
    <3> DEFINE T == S \cap X
    <3>1. ASSUME NEW y \in T PROVE old[y] \in T
      <4>1. y # b /\ y # p /\ y # x BY <1>3
      <4>2. old[y] \in S /\ new[y] = old[y] BY <4>1
      <4> QED BY <4>2
    <3>2. T # F BY <1>3
    <3> QED BY <3>1, <3>2 DEF OneCycle
  <2>2. x \notin X BY <2>1
  <2>3. CASE p \notin X
    <3>1. ASSUME NEW y \in X PROVE old[y] \in X
      <4>1. y \notin {p, b, x} BY <2>3, <1>3, <2>2
      <4> QED BY <4>1
    <3> QED BY <3>1 DEF OneCycle
  <2>4. CASE p \in X
    <3> DEFINE Y == X \cup S
    <3>1. ASSUME NEW y \in Y PROVE old[y] \in Y
      <4>1. CASE y = p BY <4>1
      <4>2. CASE y = b BY <4>2, <2>4
      <4>3. CASE y \in S \ {b} BY <4>3
      <4>4. CASE y \in X \ {p}
        <5>1. y \notin {p, b, x} BY <4>4, <1>3, <2>2
        <5> QED BY <5>1
      <4> QED BY <4>1, <4>2, <4>3, <4>4
    <3>2. Y # {} /\ Y \subseteq F OBVIOUS
    <3>3. Y = F BY <3>1, <3>2 DEF OneCycle
    <3> QED BY <3>3, <2>2
  <2> QED BY <2>3, <2>4
<1> QED BY <1>2, <1>3

-----------------------------------------------------------------------------
(* Meshes in which no half-edge was removed.                               *)

\* The half-edges, those that point to v, those of the face f, and whether h is one of a hole.
D(m) == DOMAIN m.next
Fan(m, v) == {h \in D(m) : m.vertex[h] = v}
FaceSet(m, f) == {h \in D(m) : m.face[h] = f}
Hole(m, h) == m.face[h] > MaxFaces

\* The arrays of a mesh in which no half-edge has been removed.
IsMesh(m) ==
  /\ DOMAIN m = {"next", "vertex", "face", "vertexHalfedge", "faceHalfedge", "fault"}
  /\ \E n \in Nat : 2 * n <= MaxHalfedges /\ D(m) = 0..(2 * n - 1)
  /\ m.next \in [D(m) -> D(m)]
  /\ m.vertex \in [D(m) -> Vertices]
  /\ m.face \in [D(m) -> Nat]
  /\ \E n \in 0..MaxFaces :
       /\ m.faceHalfedge \in [0..(n - 1) -> Nat]
       /\ \A h \in D(m) : m.face[h] \in 0..(n - 1) \/ Hole(m, h)
  /\ m.vertexHalfedge \in [Vertices -> Nat]

\* What every proof needs of a mesh: twins come in pairs, holes are what OnBoundary says, no half-edge is INVALID.
LEMMA MeshFacts ==
  ASSUME NEW m, IsMesh(m)
  PROVE  /\ INVALID \notin D(m) /\ INVALID \in Nat /\ MaxFaces \in Nat /\ INVALID > MaxFaces
         /\ \A h \in D(m) : Twin(h) \in D(m) /\ Twin(Twin(h)) = h /\ Twin(h) # h
         /\ \A h \in D(m) : Valid(m, h)
         /\ \A h \in D(m) : OnBoundary(m, h) <=> Hole(m, h)
         /\ \A h \in D(m) : Source(m, h) \in Vertices /\ Source(m, Twin(h)) = m.vertex[h] /\ m.vertex[h] \in Vertices
         /\ IsFiniteSet(D(m)) /\ D(m) \subseteq Nat
         /\ ValidHalfedges(m) = D(m)
<1>1. INVALID \in Nat /\ MaxFaces \in Nat /\ INVALID > MaxFaces /\ MaxHalfedges \in Nat /\ INVALID > MaxHalfedges
      /\ INVALID \notin Vertices
  BY DcelAssumption
<1>2. PICK n \in Nat : 2 * n <= MaxHalfedges /\ D(m) = 0..(2 * n - 1) BY DEF IsMesh
<1>3. INVALID \notin D(m) BY <1>1, <1>2
<1>4. ASSUME NEW h \in D(m) PROVE Twin(h) \in D(m) /\ Twin(Twin(h)) = h /\ Twin(h) # h
  <2>1. h \in 0..(2 * n - 1) BY <1>2
  <2>2. CASE h % 2 = 0
    <3>1. h + 1 \in 0..(2 * n - 1) /\ (h + 1) % 2 # 0 BY <2>1, <2>2
    <3> QED BY <3>1, <2>1, <2>2, <1>2 DEF Twin
  <2>3. CASE h % 2 # 0
    <3>1. h - 1 \in 0..(2 * n - 1) /\ (h - 1) % 2 = 0 BY <2>1, <2>3
    <3> QED BY <3>1, <2>1, <2>3, <1>2 DEF Twin
  <2> QED BY <2>2, <2>3
<1>5. ASSUME NEW h \in D(m) PROVE m.vertex[h] \in Vertices BY DEF IsMesh
<1>6. ASSUME NEW h \in D(m) PROVE OnBoundary(m, h) <=> Hole(m, h)
  <2>1. PICK k \in 0..MaxFaces : m.faceHalfedge \in [0..(k - 1) -> Nat] /\ \A e \in D(m) : m.face[e] \in 0..(k - 1) \/ Hole(m, e)
    BY DEF IsMesh
  <2>2. DOMAIN m.faceHalfedge = 0..(k - 1) /\ k \in Nat /\ k <= MaxFaces BY <2>1, <1>1
  <2>3. FaceCount(m) = k BY <2>2, FS_Interval DEF FaceCount
  <2>4. m.face[h] \in Nat BY DEF IsMesh
  <2> QED BY <2>1, <2>2, <2>3, <2>4, <1>1 DEF OnBoundary, IsBoundaryFace, Hole
<1>7. IsFiniteSet(D(m)) /\ D(m) \subseteq Nat BY <1>2, FS_Interval
<1>8. ASSUME NEW h \in D(m) PROVE Valid(m, h) BY <1>5, <1>1 DEF Valid, D
<1>9. ValidHalfedges(m) = D(m) BY <1>5, <1>1 DEF ValidHalfedges, D
<1> QED BY <1>1, <1>3, <1>4, <1>5, <1>6, <1>7, <1>8, <1>9 DEF Source

\* Every half-edge starts where the one before it ends, and has one before it.
Links(m) ==
  /\ \A h \in D(m) : Source(m, m.next[h]) = m.vertex[h]
  /\ \A g, h \in D(m) : m.next[g] = m.next[h] => g = h

\* Turning around a vertex permutes the half-edges of a linked mesh, and those of each vertex.
LEMMA StepFacts ==
  ASSUME NEW m, IsMesh(m), Links(m)
  PROVE  /\ DOMAIN VertexStep(m) = D(m)
         /\ \A h \in D(m) : VertexStep(m)[h] = Twin(m.next[h]) /\ m.next[h] \in D(m) /\ VertexStep(m)[h] \in D(m)
                            /\ m.next[h] = Twin(VertexStep(m)[h])
         /\ \A h \in D(m) : m.vertex[VertexStep(m)[h]] = m.vertex[h]
         /\ Permutes(VertexStep(m), D(m))
         /\ \A v : Permutes(VertexStep(m), Fan(m, v)) /\ IsFiniteSet(Fan(m, v))
<1>1. /\ DOMAIN VertexStep(m) = D(m)
      /\ \A h \in D(m) : VertexStep(m)[h] = Twin(m.next[h]) /\ m.next[h] \in D(m)
  BY DEF VertexStep, D, IsMesh
<1>2. \A h \in D(m) : Twin(h) \in D(m) /\ Twin(Twin(h)) = h /\ m.vertex[h] = Source(m, Twin(h)) BY MeshFacts
<1>3. \A h \in D(m) : m.vertex[VertexStep(m)[h]] = m.vertex[h] BY <1>1 DEF Links, Source
<1>4. Permutes(VertexStep(m), D(m))
  <2>1. ASSUME NEW g \in D(m), NEW h \in D(m), VertexStep(m)[g] = VertexStep(m)[h] PROVE g = h
    <3>1. m.next[g] = m.next[h] BY <1>1, <1>2, <2>1
    <3> QED BY <3>1 DEF Links
  <2> QED BY <2>1, <1>1, <1>2 DEF Permutes
<1>5. \A v : Permutes(VertexStep(m), Fan(m, v)) BY <1>3, <1>4 DEF Permutes, Fan
<1>6. \A v : IsFiniteSet(Fan(m, v))
  <2> SUFFICES ASSUME NEW v PROVE IsFiniteSet(Fan(m, v)) OBVIOUS
  <2> QED BY MeshFacts, FS_Subset DEF Fan
<1> QED BY <1>1, <1>2, <1>3, <1>4, <1>5, <1>6

\* The walk around a vertex.
LEMMA AroundVertex ==
  ASSUME NEW m, IsMesh(m), Links(m), NEW F, F \subseteq D(m), Permutes(VertexStep(m), F), NEW h \in F
  PROVE  /\ IsRound(VertexCycle(m, h), VertexStep(m), F, h)
         /\ OneCycle(F, VertexStep(m)) => Visited(VertexCycle(m, h)) = F
<1>1. PICK n \in Nat : D(m) = 0..(n - 1)
  <2>1. PICK k \in Nat : D(m) = 0..(2 * k - 1) BY DEF IsMesh
  <2> QED BY <2>1
<1>2. DOMAIN VertexStep(m) = D(m) /\ \A x \in D(m) : VertexStep(m)[x] \in D(m) BY StepFacts
<1>3. F \subseteq DOMAIN VertexStep(m) BY <1>2
<1> QED BY <1>1, <1>2, <1>3, CycleCloses, CycleVisits DEF VertexCycle

\* What the searches along a walk around a vertex find.
LEMMA FirstOnWalk ==
  ASSUME NEW s, NEW step, NEW F, NEW h, IsRound(s, step, F, h), NEW T
  PROVE  LET r == FirstOf(s, {i \in DOMAIN s : s[i] \in T})
         IN  IF Visited(s) \cap T = {} THEN r = INVALID
             ELSE \E j \in DOMAIN s : r = s[j] /\ s[j] \in T /\ \A i \in 1..(j - 1) : s[i] \notin T
<1> DEFINE hits == {i \in DOMAIN s : s[i] \in T}
<1>1. DOMAIN s = 1..Len(s) /\ Len(s) \in Nat BY DEF IsRound
<1>2. hits \subseteq Nat BY <1>1
<1>3. hits = {} <=> Visited(s) \cap T = {} BY DEF Visited
<1>4. IF hits = {} THEN FirstOf(s, hits) = INVALID
      ELSE \E j \in hits : FirstOf(s, hits) = s[j] /\ \A i \in hits : j <= i
  <2> HIDE DEF hits
  <2> QED BY <1>2, FirstOfFinds
<1>5. CASE hits = {} BY <1>3, <1>4, <1>5
<1>6. CASE hits # {}
  <2>1. PICK j \in hits : FirstOf(s, hits) = s[j] /\ \A i \in hits : j <= i BY <1>4, <1>6
  <2>2. ASSUME NEW i \in 1..(j - 1) PROVE s[i] \notin T
    <3>1. j \in 1..Len(s) BY <1>1
    <3>2. i \in DOMAIN s /\ ~(j <= i) BY <3>1, <1>1
    <3> QED BY <3>2, <2>1
  <2> QED BY <1>3, <1>6, <2>1, <2>2
<1> QED BY <1>5, <1>6

\* get_next_boundary_edge: the first hole on the walk, or INVALID if the fan is closed.
LEMMA NextBoundaryEdgeFinds ==
  ASSUME NEW m, IsMesh(m), Links(m), NEW F, F \subseteq D(m), Permutes(VertexStep(m), F),
         NEW h \in F
  PROVE  LET s == VertexCycle(m, h)
             b == NextBoundaryEdge(m, h)
         IN  IF \A e \in Visited(s) : ~Hole(m, e) THEN b = INVALID
             ELSE \E j \in DOMAIN s : b = s[j] /\ Hole(m, b) /\ \A i \in 1..(j - 1) : ~Hole(m, s[i])
<1> DEFINE s == VertexCycle(m, h)
           T == {e \in D(m) : Hole(m, e)}
<1>1. IsRound(s, VertexStep(m), F, h) BY AroundVertex
<1>2. NextBoundaryEdge(m, h) = FirstOf(s, {i \in DOMAIN s : OnBoundary(m, s[i])})
  BY DEF NextBoundaryEdge, FirstThat
<1> HIDE DEF s
<1>3. \A i \in DOMAIN s : s[i] \in D(m) BY <1>1 DEF IsRound
<1>4. {i \in DOMAIN s : OnBoundary(m, s[i])} = {i \in DOMAIN s : s[i] \in T} BY <1>3, MeshFacts
<1>5. IF Visited(s) \cap T = {} THEN NextBoundaryEdge(m, h) = INVALID
      ELSE \E j \in DOMAIN s : NextBoundaryEdge(m, h) = s[j] /\ s[j] \in T /\ \A i \in 1..(j - 1) : s[i] \notin T
  <2> HIDE DEF T
  <2> QED BY <1>1, <1>2, <1>4, FirstOnWalk
<1>6. Visited(s) \subseteq D(m) BY <1>3 DEF Visited
<1>7. \A j \in DOMAIN s : \A i \in 1..(j - 1) : i \in DOMAIN s BY <1>1 DEF IsRound
<1>8. CASE \A e \in Visited(s) : ~Hole(m, e) BY <1>5, <1>8 DEF s
<1>9. CASE ~(\A e \in Visited(s) : ~Hole(m, e))
  <2>1. Visited(s) \cap T # {} BY <1>6, <1>9
  <2>2. PICK j \in DOMAIN s : NextBoundaryEdge(m, h) = s[j] /\ s[j] \in T /\ \A i \in 1..(j - 1) : s[i] \notin T
    BY <1>5, <2>1
  <2>3. \A i \in 1..(j - 1) : ~Hole(m, s[i]) BY <1>3, <1>7, <2>2
  <2> QED BY <1>9, <2>2, <2>3 DEF s
<1> QED BY <1>8, <1>9 DEF s

\* find_vertex_halfedge finds the half-edge of an edge that exists, if the half-edges of its target are one cycle.
LEMMA FindVertexHalfedgeFinds ==
  ASSUME NEW m, IsMesh(m), Links(m), NEW v, NEW F, F \subseteq D(m), Permutes(VertexStep(m), F),
         OneCycle(F, VertexStep(m)), m.vertexHalfedge[v] \in F, NEW u
  PROVE  LET r == FindVertexHalfedge(m, u, v)
         IN  IF \A h \in F : Source(m, h) # u THEN r = INVALID ELSE r \in F /\ Source(m, r) = u
<1> DEFINE h == m.vertexHalfedge[v]
           s == VertexCycle(m, h)
           T == {e \in D(m) : Source(m, e) = u}
<1>1. IsRound(s, VertexStep(m), F, h) /\ Visited(s) = F BY AroundVertex
<1>2. FindVertexHalfedge(m, u, v) = FirstOf(s, {i \in DOMAIN s : Source(m, s[i]) = u})
  <2>1. m.vertexHalfedge[v] # INVALID BY MeshFacts
  <2> QED BY <2>1 DEF FindVertexHalfedge, FirstThat
<1> HIDE DEF s
<1>3. \A i \in DOMAIN s : s[i] \in F BY <1>1 DEF Visited
<1>4. {i \in DOMAIN s : Source(m, s[i]) = u} = {i \in DOMAIN s : s[i] \in T} BY <1>3
<1>5. IF Visited(s) \cap T = {} THEN FindVertexHalfedge(m, u, v) = INVALID
      ELSE \E j \in DOMAIN s : FindVertexHalfedge(m, u, v) = s[j] /\ s[j] \in T /\ \A i \in 1..(j - 1) : s[i] \notin T
  <2> HIDE DEF T
  <2>1. FindVertexHalfedge(m, u, v) = FirstOf(s, {i \in DOMAIN s : s[i] \in T}) BY <1>2, <1>4
  <2>2. IsRound(s, VertexStep(m), F, h) BY <1>1
  <2> HIDE DEF h
  <2> QED BY <2>1, <2>2, FirstOnWalk
<1>6. CASE \A e \in F : Source(m, e) # u BY <1>1, <1>5, <1>6
<1>7. CASE ~(\A e \in F : Source(m, e) # u)
  <2>1. Visited(s) \cap T # {} BY <1>1, <1>7
  <2>2. PICK j \in DOMAIN s : FindVertexHalfedge(m, u, v) = s[j] /\ s[j] \in T BY <1>5, <2>1
  <2> QED BY <1>3, <1>7, <2>2
<1> QED BY <1>6, <1>7

\* The half-edge before another one, found by a walk that starts with its twin.
LEMMA FindExistingPreviousFinds ==
  ASSUME NEW m, IsMesh(m), Links(m), NEW F, F \subseteq D(m), Permutes(VertexStep(m), F), NEW h \in F
  PROVE  FindExistingPrevious(m, h, Twin(h)) = VertexCycle(m, h)[Len(VertexCycle(m, h))]
<1> DEFINE s == VertexCycle(m, h)
           T == {e \in D(m) : m.next[e] = Twin(h)}
<1>1. IsRound(s, VertexStep(m), F, h) BY AroundVertex
<1>2. FindExistingPrevious(m, h, Twin(h)) = FirstOf(s, {i \in DOMAIN s : m.next[s[i]] = Twin(h)})
  BY DEF FindExistingPrevious, FirstThat
<1> HIDE DEF s
<1>3. \A i \in DOMAIN s : s[i] \in F BY <1>1 DEF IsRound
<1>4. {i \in DOMAIN s : m.next[s[i]] = Twin(h)} = {i \in DOMAIN s : s[i] \in T} BY <1>3
<1>5. IF Visited(s) \cap T = {} THEN FindExistingPrevious(m, h, Twin(h)) = INVALID
      ELSE \E j \in DOMAIN s : FindExistingPrevious(m, h, Twin(h)) = s[j] /\ s[j] \in T /\ \A i \in 1..(j - 1) : s[i] \notin T
  <2> HIDE DEF T
  <2> QED BY <1>1, <1>2, <1>4, FirstOnWalk
<1>6. s[Len(s)] \in T /\ s[Len(s)] \in Visited(s)
  <2>1. Len(s) \in DOMAIN s /\ VertexStep(m)[s[Len(s)]] = h BY <1>1 DEF IsRound
  <2>2. s[Len(s)] \in D(m) BY <1>3, <2>1
  <2>3. m.next[s[Len(s)]] = Twin(h) BY <2>1, <2>2, StepFacts
  <2> QED BY <2>1, <2>2, <2>3 DEF Visited
<1>7. PICK j \in DOMAIN s : FindExistingPrevious(m, h, Twin(h)) = s[j] /\ s[j] \in T BY <1>5, <1>6
<1>8. s[j] = s[Len(s)] BY <1>6, <1>7 DEF Links
<1> QED BY <1>7, <1>8 DEF s

\* r differs from m in next only.
Relinked(r, m) ==
  /\ DOMAIN r = DOMAIN m
  /\ r.vertex = m.vertex /\ r.face = m.face /\ r.fault = m.fault
  /\ r.vertexHalfedge = m.vertexHalfedge /\ r.faceHalfedge = m.faceHalfedge

\* link_edges of two half-edges in use changes next at one place.
LEMMA LinkDoes ==
  ASSUME NEW m, IsMesh(m), m.fault = "none", NEW p \in D(m), NEW q \in D(m)
  PROVE  /\ Relinked(Link(m, p, q), m)
         /\ Link(m, p, q).next = [m.next EXCEPT ![p] = q]
         /\ Link(m, p, q).next \in [D(m) -> D(m)]
<1>1. p # INVALID /\ q # INVALID BY MeshFacts
<1>2. Link(m, p, q) = [m EXCEPT !.next[p] = q] BY <1>1 DEF Link
<1>3. DOMAIN m = {"next", "vertex", "face", "vertexHalfedge", "faceHalfedge", "fault"} BY DEF IsMesh
<1>4. Relinked([m EXCEPT !.next[p] = q], m) BY <1>3 DEF Relinked
<1>5. [m EXCEPT !.next[p] = q].next = [m.next EXCEPT ![p] = q] BY <1>3
<1>6. [m.next EXCEPT ![p] = q] \in [D(m) -> D(m)] BY DEF IsMesh
<1> QED BY <1>2, <1>4, <1>5, <1>6

\* Any links between half-edges of one mesh make another one.
LEMMA RelinkedMesh ==
  ASSUME NEW m, IsMesh(m), NEW r, Relinked(r, m), r.next \in [D(m) -> D(m)]
  PROVE  /\ IsMesh(r) /\ D(r) = D(m)
         /\ \A h : Source(r, h) = Source(m, h)
         /\ \A h : Hole(r, h) <=> Hole(m, h)
         /\ \A v : Fan(r, v) = Fan(m, v)
         /\ \A f : FaceSet(r, f) = FaceSet(m, f)
<1>1. D(r) = D(m) BY DEF D
<1>2. IsMesh(r)
  <2>1. \A h : Hole(r, h) <=> Hole(m, h) BY DEF Hole, Relinked
  <2> QED BY <1>1, <2>1 DEF IsMesh, Relinked
<1> QED BY <1>1, <1>2 DEF Hole, Source, Fan, FaceSet, Relinked

\* Links around one vertex that permute the half-edges to it.
LEMMA RelinkedAt ==
  ASSUME NEW m, IsMesh(m), Links(m), NEW v, NEW r, Relinked(r, m), r.next \in [D(m) -> D(m)],
         \A h \in D(m) \ Fan(m, v) : r.next[h] = m.next[h],
         \A h \in Fan(m, v) : \E g \in Fan(m, v) : r.next[h] = m.next[g],
         \A g, h \in Fan(m, v) : r.next[g] = r.next[h] => g = h
  PROVE  Links(r)
<1>1. \A h \in D(m) : Source(r, h) = Source(m, h) /\ D(r) = D(m) BY RelinkedMesh
<1>2. \A h \in Fan(m, v) : h \in D(m) /\ Source(m, r.next[h]) = v /\ m.vertex[h] = v BY DEF Links, Fan
<1>3. ASSUME NEW h \in D(m) PROVE Source(r, r.next[h]) = r.vertex[h]
  <2>1. r.next[h] \in D(m) /\ r.vertex[h] = m.vertex[h] BY DEF Relinked
  <2>2. CASE h \in Fan(m, v) BY <2>1, <2>2, <1>1, <1>2
  <2>3. CASE h \notin Fan(m, v) BY <2>1, <2>3, <1>1 DEF Links
  <2> QED BY <2>2, <2>3
<1>4. ASSUME NEW g \in D(m), NEW h \in D(m), r.next[g] = r.next[h] PROVE g = h
  <2>1. m.vertex[g] = m.vertex[h] BY <1>3, <1>4 DEF Relinked
  <2>2. g \in Fan(m, v) <=> h \in Fan(m, v) BY <2>1 DEF Fan
  <2>3. CASE g \in Fan(m, v) BY <2>2, <2>3, <1>4
  <2>4. CASE g \notin Fan(m, v)
    <3>1. m.next[g] = m.next[h] BY <2>2, <2>4, <1>4
    <3> QED BY <3>1 DEF Links
  <2> QED BY <2>3, <2>4
<1>5. D(r) = D(m) BY RelinkedMesh
<1> QED BY <1>3, <1>4, <1>5 DEF Links

-----------------------------------------------------------------------------
(* The half-edges that point to one vertex, while a face is built.          *)

\* A half-edge and the next one belong to one face, or to holes.
Agrees(m, h) == m.face[m.next[h]] = m.face[h] \/ (Hole(m, h) /\ Hole(m, m.next[h]))

\* The half-edges G to v are one cycle, and the vertex knows one of them; the open face may
\* come in with x and go out with a, which are not linked to one another yet.
Corner(m, v, G, x, a) ==
  /\ G \subseteq Fan(m, v)
  /\ OneCycle(G, VertexStep(m))
  /\ IF G = {} THEN m.vertexHalfedge[v] = INVALID ELSE m.vertexHalfedge[v] \in G
  /\ \A h \in Fan(m, v) \ {x} : IF m.next[h] = a THEN Hole(m, h) ELSE Agrees(m, h)
  /\ x \in Fan(m, v) => m.next[x] = a \/ Hole(m, m.next[x])

\* A part of the half-edges to v is a closed fan next to the others.
CutAt(m, v) ==
  \E X \in SUBSET Fan(m, v) :
    /\ X # {} /\ X # Fan(m, v)
    /\ \A h \in X : VertexStep(m)[h] \in X /\ ~Hole(m, h)

\* What is left when x and a are linked.
Sewn(r, m, v, x, a) ==
  /\ Relinked(r, m) /\ r.next \in [D(m) -> D(m)] /\ Links(r)
  /\ \A h \in D(m) : r.next[h] = m.next[h] \/ h = x \/ (h \in Fan(m, v) /\ Hole(m, h))
  /\ r.next[x] = a
  /\ OneCycle(Fan(m, v), VertexStep(r)) \/ CutAt(r, v)
  /\ \A h \in Fan(m, v) : Agrees(r, h)

\* When x is linked to a and the hole half-edges at v are rearranged, v is whole again or cut.
LEMMA SewnIf ==
  ASSUME NEW m, IsMesh(m), Links(m), NEW v, NEW x \in Fan(m, v), NEW a, NEW r, Relinked(r, m),
         r.next \in [D(m) -> D(m)],
         \A h \in D(m) : r.next[h] = m.next[h] \/ h = x \/ (h \in Fan(m, v) /\ Hole(m, h)),
         r.next[x] = a,
         \A h \in Fan(m, v) : \E g \in Fan(m, v) : r.next[h] = m.next[g],
         \A g, h \in Fan(m, v) : r.next[g] = r.next[h] => g = h,
         OneCycle(Fan(m, v), VertexStep(r)) \/ CutAt(r, v),
         \A h \in Fan(m, v) : Agrees(r, h)
  PROVE  Sewn(r, m, v, x, a)
<1>1. \A h \in D(m) \ Fan(m, v) : r.next[h] = m.next[h] OBVIOUS
<1>2. Links(r) BY <1>1, RelinkedAt
<1> QED BY <1>2 DEF Sewn

\* The new edge was not there: its other side is put behind x.
LEMMA SewNew ==
  ASSUME NEW m, IsMesh(m), m.fault = "none", Links(m), NEW v, NEW x, NEW a \in D(m), NEW t,
         Corner(m, v, Fan(m, v) \ {t}, x, a), x \in Fan(m, v) \ {t}, t = Twin(a),
         t \in Fan(m, v), m.next[t] = a, Hole(m, t), m.face[x] = m.face[a], m.next[x] # a,
         NEW r, Relinked(r, m), r.next = [[m.next EXCEPT ![t] = m.next[x]] EXCEPT ![x] = a]
  PROVE  Sewn(r, m, v, x, a)
<1> DEFINE F == Fan(m, v)
           e == m.next[x]
<1>1. F \subseteq D(m) /\ x # t /\ m.next \in [D(m) -> D(m)] BY DEF Fan, IsMesh
<1>2. r.next \in [D(m) -> D(m)] /\ r.next[t] = e /\ r.next[x] = a /\ \A h \in D(m) \ {t, x} : r.next[h] = m.next[h]
  BY <1>1
<1>3. \A h \in F : \E g \in F : r.next[h] = m.next[g] BY <1>1, <1>2
<1>4. ASSUME NEW g \in F, NEW h \in F, r.next[g] = r.next[h] PROVE g = h
  BY <1>1, <1>2, <1>4 DEF Links
<1>5. OneCycle(F, VertexStep(r))
  <2>1. /\ \A h \in D(m) : VertexStep(m)[h] = Twin(m.next[h]) /\ Twin(Twin(h)) = h
        /\ Permutes(VertexStep(m), F)
    BY StepFacts, MeshFacts
  <2>2. \A h \in D(m) : VertexStep(r)[h] = Twin(r.next[h]) BY <1>2 DEF VertexStep
  <2>3. VertexStep(m)[t] = t BY <2>1, <1>1
  <2>4. Permutes(VertexStep(m), F \ {t}) BY <2>1, <2>3 DEF Permutes
  <2>5. VertexStep(r)[x] = t /\ VertexStep(r)[t] = VertexStep(m)[x]
        /\ \A h \in F \ {t} : h # x => VertexStep(r)[h] = VertexStep(m)[h]
    BY <1>1, <1>2, <2>1, <2>2
  <2>6. OneCycle(F \ {t}, VertexStep(m)) BY DEF Corner
  <2>7. OneCycle((F \ {t}) \cup {t}, VertexStep(r))
    <3>1. x \in F \ {t} /\ t \notin F \ {t} OBVIOUS
    <3> HIDE DEF F
    <3> QED BY <3>1, <2>4, <2>5, <2>6, CycleGrows
  <2>8. (F \ {t}) \cup {t} = F OBVIOUS
  <2> QED BY <2>7, <2>8
<1>6. ASSUME NEW h \in F PROVE Agrees(r, h)
  <2>1. r.face = m.face BY DEF Relinked
  <2>2. CASE h = x BY <2>1, <2>2, <1>2 DEF Agrees
  <2>3. CASE h = t
    <3>1. Hole(m, e) BY DEF Corner
    <3> QED BY <3>1, <2>1, <2>3, <1>2 DEF Agrees, Hole
  <2>4. CASE h \notin {x, t}
    <3>1. m.next[h] # a BY <2>4, <1>1 DEF Links
    <3>2. Agrees(m, h) BY <3>1, <2>4 DEF Corner
    <3> QED BY <3>2, <2>1, <2>4, <1>1, <1>2 DEF Agrees, Hole
  <2> QED BY <2>2, <2>3, <2>4
<1>7. \A h \in D(m) : r.next[h] = m.next[h] \/ h = x \/ (h \in F /\ Hole(m, h)) BY <1>1, <1>2
<1> QED BY <1>1, <1>2, <1>3, <1>4, <1>5, <1>6, <1>7, SewnIf

\* Nothing is left to do when a follows x already.
LEMMA SewNothing ==
  ASSUME NEW m, IsMesh(m), m.fault = "none", Links(m), NEW v, NEW x, NEW a \in D(m),
         Corner(m, v, Fan(m, v), x, a), x \in Fan(m, v), m.face[x] = m.face[a], m.next[x] = a,
         NEW r, Relinked(r, m), r.next = [m.next EXCEPT ![x] = a]
  PROVE  Sewn(r, m, v, x, a)
<1> DEFINE F == Fan(m, v)
<1>1. F \subseteq D(m) /\ m.next \in [D(m) -> D(m)] BY DEF Fan, IsMesh
<1>2. r.next = m.next BY <1>1
<1>3. \A h \in F : Agrees(m, h)
  <2>1. ASSUME NEW h \in F, h # x PROVE Agrees(m, h)
    <3>1. m.next[h] # a BY <2>1, <1>1 DEF Links
    <3> QED BY <3>1, <2>1 DEF Corner
  <2>2. Agrees(m, x) BY DEF Agrees
  <2> QED BY <2>1, <2>2
<1>4. \A h \in F : Agrees(r, h) BY <1>2, <1>3 DEF Agrees, Hole, Relinked
<1>5. VertexStep(r) = VertexStep(m) BY <1>2 DEF VertexStep
<1>6. OneCycle(F, VertexStep(r)) BY <1>5 DEF Corner
<1>7. \A g, h \in F : m.next[g] = m.next[h] => g = h BY <1>1 DEF Links
<1> QED BY <1>1, <1>2, <1>4, <1>6, <1>7, SewnIf
\* The edge was there, with another half-edge behind x: the fan that begins with a is moved
\* behind x, or, if it ends with x, closed.
LEMMA SewExisting ==
  ASSUME NEW m, IsMesh(m), m.fault = "none", Links(m), NEW v, NEW x, NEW a \in D(m), NEW t,
         Corner(m, v, Fan(m, v), x, a), x \in Fan(m, v), t = Twin(a), t \in Fan(m, v),
         ~Hole(m, a), ~Hole(m, t), m.face[x] = m.face[a], m.next[x] # a,
         NEW b, b = NextBoundaryEdge(m, t), NEW p, p = FindExistingPrevious(m, t, a),
         NEW r, Relinked(r, m),
         r.next = [[[m.next EXCEPT ![p] = m.next[b]] EXCEPT ![b] = m.next[x]] EXCEPT ![x] = a]
  PROVE  b \in D(m) /\ p \in D(m) /\ Sewn(r, m, v, x, a)
<1> DEFINE F == Fan(m, v)
           old == VertexStep(m)
           new == VertexStep(r)
           s == VertexCycle(m, t)
           n == Len(s)
<1>1. F \subseteq D(m) /\ m.next \in [D(m) -> D(m)] BY DEF Fan, IsMesh
<1>2. /\ \A h \in D(m) : old[h] = Twin(m.next[h]) /\ Twin(Twin(h)) = h /\ m.next[h] = Twin(old[h]) /\ Twin(h) \in D(m)
      /\ Permutes(old, F) /\ IsFiniteSet(F)
  BY StepFacts, MeshFacts
<1>3. OneCycle(F, old) BY DEF Corner
<1>4. IsRound(s, old, F, t) /\ Visited(s) = F BY <1>1, <1>2, <1>3, AroundVertex
<1>5. p = s[n]
  <2>1. a = Twin(t) /\ t \in F BY <1>2
  <2>2. F \subseteq D(m) /\ Permutes(VertexStep(m), F) BY <1>1, <1>2
  <2>3. FindExistingPrevious(m, t, Twin(t)) = VertexCycle(m, t)[Len(VertexCycle(m, t))]
    <3> HIDE DEF F
    <3> QED BY <2>1, <2>2, FindExistingPreviousFinds
  <2> QED BY <2>1, <2>3
<1>6. IF \A e \in Visited(s) : ~Hole(m, e) THEN b = INVALID
      ELSE \E j \in DOMAIN s : b = s[j] /\ Hole(m, b) /\ \A i \in 1..(j - 1) : ~Hole(m, s[i])
  BY <1>1, <1>2, NextBoundaryEdgeFinds
<1> HIDE DEF s
<1>0. n \in Nat /\ n > 0 BY <1>4 DEF IsRound
<1>7. DOMAIN s = 1..n BY <1>4 DEF IsRound
<1>8. /\ s[1] = t /\ old[s[n]] = t
      /\ \A i \in 1..(n - 1) : s[i + 1] = old[s[i]]
      /\ \A i, j \in 1..n : s[i] = s[j] => i = j
      /\ \A i \in 1..n : s[i] \in F
      /\ \A h \in F : \E i \in 1..n : h = s[i]
  <2>1. \A i \in 1..n : s[i] \in F BY <1>4, <1>7 DEF Visited
  <2>2. \A h \in F : \E i \in 1..n : h = s[i] BY <1>4, <1>7 DEF Visited
  <2> QED BY <1>4, <1>0, <1>7, <2>1, <2>2 DEF IsRound
<1> HIDE DEF n
<1>9. p \in F /\ old[p] = t /\ m.next[p] = a /\ p # x /\ Hole(m, p)
  <2>1. p \in F /\ old[p] = t BY <1>5, <1>0, <1>7, <1>8
  <2>2. m.next[p] = a BY <2>1, <1>1, <1>2
  <2> QED BY <2>1, <2>2 DEF Corner
<1>10. PICK j \in 1..n : b = s[j] /\ Hole(m, b) /\ \A i \in 1..(j - 1) : ~Hole(m, s[i])
  BY <1>4, <1>6, <1>0, <1>7, <1>9
<1>11. PICK i \in 1..n : x = s[i] BY <1>0, <1>8
<1>12. b \in F /\ b # x /\ b # t /\ i # j BY <1>8, <1>10, <1>11 DEF Hole
<1>13. r.next \in [D(m) -> D(m)] /\ r.next[x] = a /\ r.next[b] = m.next[x] /\ (b # p => r.next[p] = m.next[b])
       /\ \A h \in D(m) \ {p, b, x} : r.next[h] = m.next[h]
  BY <1>1, <1>9, <1>12
<1>14. \A h \in F : \E g \in F : r.next[h] = m.next[g] BY <1>1, <1>9, <1>12, <1>13
<1>15. ASSUME NEW g \in F, NEW h \in F, r.next[g] = r.next[h] PROVE g = h
  <2>1. \A y, z \in F : m.next[y] = m.next[z] => y = z BY <1>1 DEF Links
  <2>2. CASE b = p BY <2>1, <2>2, <1>1, <1>9, <1>12, <1>13, <1>15
  <2>3. CASE b # p BY <2>1, <2>3, <1>1, <1>9, <1>12, <1>13, <1>15
  <2> QED BY <2>2, <2>3
<1>16. ASSUME NEW h \in F PROVE Agrees(r, h)
  <2>1. r.face = m.face BY DEF Relinked
  <2>2. CASE h = x BY <2>1, <2>2, <1>13 DEF Agrees
  <2>3. CASE h = b
    <3>1. Hole(m, m.next[x]) BY DEF Corner
    <3> QED BY <3>1, <2>1, <2>3, <1>10, <1>13 DEF Agrees, Hole
  <2>4. CASE h = p /\ b # p
    <3>1. m.next[b] # a BY <2>4, <1>1, <1>9, <1>12 DEF Links
    <3>2. Agrees(m, b) BY <3>1, <1>12 DEF Corner
    <3>3. m.face[m.next[b]] = m.face[b] \/ Hole(m, m.next[b]) BY <3>2 DEF Agrees
    <3>4. Hole(m, m.next[b]) BY <3>3, <1>10 DEF Hole
    <3> QED BY <3>4, <2>1, <2>4, <1>9, <1>13 DEF Agrees, Hole
  <2>5. CASE h \notin {x, b, p}
    <3>1. m.next[h] # a BY <2>5, <1>1, <1>9 DEF Links
    <3>2. Agrees(m, h) BY <3>1, <2>5 DEF Corner
    <3> QED BY <3>2, <2>1, <2>5, <1>1, <1>13 DEF Agrees, Hole
  <2> QED BY <2>2, <2>3, <2>4, <2>5
<1>17. \A h \in D(m) : new[h] = Twin(r.next[h])
  BY <1>13 DEF VertexStep
<1>18. /\ new[x] = t /\ new[b] = old[x] /\ (b # p => new[p] = old[b])
       /\ \A h \in F \ {p, b, x} : new[h] = old[h]
  BY <1>1, <1>2, <1>9, <1>12, <1>13, <1>17
<1>19. ASSUME i < j PROVE CutAt(r, v)
  <2> DEFINE X == {s[k] : k \in 1..i}
  <2>1. X \subseteq F /\ X # {} BY <1>0, <1>8
  <2>2. b \notin X BY <1>0, <1>8, <1>10, <1>19
  <2>3. ASSUME NEW h \in X PROVE new[h] \in X /\ ~Hole(r, h)
    <3>1. PICK k \in 1..i : h = s[k] OBVIOUS
    <3>2. k \in 1..(j - 1) /\ k \in 1..n BY <1>0, <3>1, <1>19
    <3>3. ~Hole(m, h) BY <3>1, <3>2, <1>10
    <3>4. CASE k = i
      <4>1. new[h] = s[1] /\ 1 \in 1..i BY <3>1, <3>4, <1>8, <1>11, <1>18
      <4> QED BY <4>1, <3>3 DEF Hole, Relinked
    <3>5. CASE k # i
      <4>1. h # x /\ h # b /\ h # p BY <3>1, <3>2, <3>3, <3>5, <1>0, <1>8, <1>9, <1>10, <1>11
      <4>2. k \in 1..(n - 1) /\ k + 1 \in 1..i BY <1>0, <3>5, <3>2
      <4>3. new[h] = s[k + 1] BY <4>1, <4>2, <3>1, <3>2, <1>8, <1>18
      <4> QED BY <4>2, <4>3, <3>3 DEF Hole, Relinked
    <3> QED BY <3>4, <3>5
  <2>4. CutAt(r, v)
    <3>1. Fan(r, v) = F BY <1>13, RelinkedMesh
    <3>2. X # F BY <2>2, <1>12
    <3> HIDE DEF X, F
    <3> QED BY <3>1, <3>2, <2>1, <2>3 DEF CutAt
  <2> QED BY <2>4
<1>20. ASSUME j < i PROVE OneCycle(F, new)
  <2> DEFINE S == {s[k] : k \in 1..j}
  <2>1. S \subseteq F /\ t \in S /\ b \in S BY <1>0, <1>8, <1>10
  <2>2. x \notin S /\ p \notin S /\ b # p
    <3>1. x \notin S BY <1>0, <1>8, <1>11, <1>20
    <3>2. p \notin S BY <1>5, <1>0, <1>7, <1>8, <1>20
    <3> QED BY <3>1, <3>2, <2>1
  <2>3. ASSUME NEW y \in F PROVE old[y] \in S <=> y \in (S \ {b}) \cup {p}
    <3>1. PICK k \in 1..n : y = s[k] BY <1>0, <1>8
    <3>2. CASE k = n BY <3>1, <3>2, <1>5, <1>9, <2>1
    <3>3. CASE k # n
      <4>1. k \in 1..(n - 1) /\ k + 1 \in 1..n /\ old[y] = s[k + 1] BY <1>0, <3>1, <3>3, <1>8
      <4>2. old[y] \in S <=> k + 1 <= j BY <4>1, <1>0, <1>8
      <4>3. y \in S \ {b} <=> k + 1 <= j BY <4>1, <3>1, <1>0, <1>8, <1>10
      <4>4. y # p BY <3>1, <3>3, <1>5, <1>0, <1>7, <1>8
      <4> QED BY <4>2, <4>3, <4>4
    <3> QED BY <3>2, <3>3
  <2>4. Permutes(new, F)
    <3>1. \A h \in F : new[h] \in F BY <1>2, <1>9, <1>12, <1>18, <2>1, <2>2 DEF Permutes
    <3>2. ASSUME NEW g \in F, NEW h \in F, new[g] = new[h] PROVE g = h
      <4>1. r.next[g] \in D(m) /\ r.next[h] \in D(m) BY <1>1, <1>13
      <4>2. Twin(r.next[g]) = Twin(r.next[h]) BY <3>2, <1>1, <1>17
      <4>3. \A y \in D(m) : Twin(Twin(y)) = y BY <1>2
      <4>4. r.next[g] = r.next[h] BY <4>1, <4>2, <4>3
      <4> QED BY <4>4, <1>15
    <3> QED BY <3>1, <3>2 DEF Permutes
  <2>5. OneCycle(F, new)
    <3>1. p \in F \ S /\ x \in F \ S /\ S \in SUBSET F /\ p # x BY <2>1, <2>2, <1>9
    <3> HIDE DEF S, F, old, new
    <3> QED BY <3>1, <2>1, <2>2, <2>3, <2>4, <1>2, <1>3, <1>9, <1>18, CycleMoves
  <2> QED BY <2>5
<1>21. OneCycle(F, new) \/ CutAt(r, v) BY <1>12, <1>19, <1>20
<1>22. \A h \in D(m) : r.next[h] = m.next[h] \/ h = x \/ (h \in F /\ Hole(m, h)) BY <1>9, <1>10, <1>12, <1>13
<1>23. Sewn(r, m, v, x, a)
  <2> HIDE DEF old, n
  <2> QED BY <1>13, <1>14, <1>15, <1>16, <1>21, <1>22, SewnIf
<1> QED BY <1>1, <1>9, <1>12, <1>23

\* perform_insertion_fixup and link_edges, where a face comes to v with x and leaves with a.
LEMMA CornerIsSewn ==
  ASSUME NEW m, IsMesh(m), m.fault = "none", Links(m), NEW v, NEW x, NEW a \in D(m), NEW existed \in BOOLEAN,
         Corner(m, v, IF existed THEN Fan(m, v) ELSE Fan(m, v) \ {Twin(a)}, x, a),
         x \in Fan(m, v), Source(m, a) = v, ~Hole(m, a), m.face[x] = m.face[a],
         IF existed THEN ~Hole(m, Twin(a)) ELSE x # Twin(a) /\ m.next[Twin(a)] = a /\ Hole(m, Twin(a))
  PROVE  Sewn(Link(InsertionFixup(m, a, m.next[x], existed), x, a), m, v, x, a)
<1> DEFINE t == Twin(a)
           e == m.next[x]
           r == Link(InsertionFixup(m, a, e, existed), x, a)
<1>1. t \in Fan(m, v) /\ x \in D(m) /\ t \in D(m) /\ e \in D(m) /\ m.next \in [D(m) -> D(m)] /\ e # INVALID
  <2>1. t \in D(m) /\ x \in D(m) /\ INVALID \notin D(m) BY MeshFacts DEF Fan
  <2> QED BY <2>1 DEF Fan, Source, IsMesh
<1>2. CASE e = a
  <2>1. existed
    <3>1. SUFFICES ASSUME ~existed PROVE FALSE OBVIOUS
    <3>2. m.next[t] = m.next[x] /\ x # t BY <3>1, <1>2
    <3> QED BY <3>2, <1>1 DEF Links
  <2>2. r = Link(m, x, a) BY <1>2 DEF InsertionFixup
  <2>3. Relinked(r, m) /\ r.next = [m.next EXCEPT ![x] = a] BY <2>2, <1>1, LinkDoes
  <2>4. Corner(m, v, Fan(m, v), x, a) BY <2>1
  <2> HIDE DEF r
  <2>5. Sewn(r, m, v, x, a) BY <2>3, <2>4, <1>2, SewNothing
  <2> QED BY <2>5 DEF r
<1>3. CASE e # a /\ ~existed
  <2>1. NextBoundaryEdge(m, t) = t
    <3>0. Permutes(VertexStep(m), Fan(m, v)) BY StepFacts
    <3>1. Fan(m, v) \subseteq D(m) /\ Permutes(VertexStep(m), Fan(m, v)) BY <3>0 DEF Fan
    <3> DEFINE s == VertexCycle(m, t)
               b == NextBoundaryEdge(m, t)
    <3>2. IF \A y \in Visited(s) : ~Hole(m, y) THEN b = INVALID
          ELSE \E j \in DOMAIN s : b = s[j] /\ Hole(m, b) /\ \A i \in 1..(j - 1) : ~Hole(m, s[i])
      BY <1>1, <3>1, NextBoundaryEdgeFinds
    <3>3. IsRound(s, VertexStep(m), Fan(m, v), t) BY <1>1, <3>1, AroundVertex
    <3> HIDE DEF s, b
    <3>4. s[1] = t /\ Len(s) \in Nat /\ Len(s) > 0 /\ DOMAIN s = 1..Len(s) BY <3>3 DEF IsRound
    <3>5. t \in Visited(s) BY <3>4 DEF Visited
    <3>6. PICK j \in DOMAIN s : b = s[j] /\ \A i \in 1..(j - 1) : ~Hole(m, s[i]) BY <3>2, <3>5, <1>3
    <3>7. j = 1
      <4>1. SUFFICES ASSUME j # 1 PROVE FALSE OBVIOUS
      <4>2. 1 \in 1..(j - 1) BY <4>1, <3>4
      <4> QED BY <4>2, <3>4, <3>6, <1>3
    <3> QED BY <3>4, <3>6, <3>7 DEF b
  <2> DEFINE q == Link(m, t, e)
  <2>2. r = Link(q, x, a)
    <3>1. t # INVALID BY <1>1, MeshFacts
    <3> QED BY <1>1, <1>3, <2>1, <3>1 DEF InsertionFixup, LinkBehind
  <2>3. Relinked(q, m) /\ q.next = [m.next EXCEPT ![t] = e] /\ q.next \in [D(m) -> D(m)] BY <1>1, LinkDoes
  <2> HIDE DEF q
  <2>4. IsMesh(q) /\ D(q) = D(m) /\ q.fault = "none" BY <2>3, RelinkedMesh DEF Relinked
  <2>5. Relinked(Link(q, x, a), q) /\ Link(q, x, a).next = [q.next EXCEPT ![x] = a] BY <2>4, <1>1, LinkDoes
  <2>6. Relinked(r, m) /\ r.next = [[m.next EXCEPT ![t] = e] EXCEPT ![x] = a] BY <2>2, <2>3, <2>5 DEF Relinked
  <2>7. Corner(m, v, Fan(m, v) \ {t}, x, a) /\ x \in Fan(m, v) \ {t} BY <1>3
  <2> HIDE DEF r, t
  <2>8. t = Twin(a) BY DEF t
  <2>9. m.next[t] = a /\ Hole(m, t) BY <1>3 DEF t
  <2>10. Sewn(r, m, v, x, a) BY <2>6, <2>7, <2>8, <2>9, <1>1, <1>3, SewNew
  <2> QED BY <2>10 DEF r
<1>4. CASE e # a /\ existed
  <2> DEFINE b == NextBoundaryEdge(m, t)
             p == FindExistingPrevious(m, t, a)
             next == [[[m.next EXCEPT ![p] = m.next[b]] EXCEPT ![b] = e] EXCEPT ![x] = a]
             r0 == [m EXCEPT !.next = next]
  <2>1. Relinked(r0, m) /\ r0.next = next
    <3>1. DOMAIN m = {"next", "vertex", "face", "vertexHalfedge", "faceHalfedge", "fault"} BY DEF IsMesh
    <3> HIDE DEF next
    <3> QED BY <3>1 DEF Relinked
  <2>2. Corner(m, v, Fan(m, v), x, a) /\ t = Twin(a) /\ ~Hole(m, t) BY <1>4
  <2>3. b \in D(m) /\ p \in D(m)
    <3> HIDE DEF r0, b, p, t
    <3>1. b = NextBoundaryEdge(m, t) /\ p = FindExistingPrevious(m, t, a) BY DEF b, p
    <3> QED BY <2>1, <2>2, <3>1, <1>1, <1>4, SewExisting
  <2> DEFINE q == Link(m, p, m.next[b])
             q2 == Link(q, b, e)
  <2>4. r = Link(q2, x, a)
    <3>1. b # INVALID BY <2>3, MeshFacts
    <3> QED BY <1>1, <1>4, <3>1 DEF InsertionFixup, LinkBehind
  <2>5. Relinked(q, m) /\ q.next = [m.next EXCEPT ![p] = m.next[b]] /\ q.next \in [D(m) -> D(m)]
    <3>1. m.next[b] \in D(m) BY <2>3, <1>1
    <3> QED BY <3>1, <2>3, LinkDoes
  <2> HIDE DEF q
  <2>6. IsMesh(q) /\ D(q) = D(m) /\ q.fault = "none" BY <2>5, RelinkedMesh DEF Relinked
  <2>7. Relinked(q2, q) /\ q2.next = [q.next EXCEPT ![b] = e] /\ q2.next \in [D(m) -> D(m)]
    BY <2>6, <2>3, <1>1, LinkDoes
  <2> HIDE DEF q2
  <2>8. IsMesh(q2) /\ D(q2) = D(m) /\ q2.fault = "none" BY <2>7, <2>6, RelinkedMesh DEF Relinked
  <2>9. Relinked(Link(q2, x, a), q2) /\ Link(q2, x, a).next = [q2.next EXCEPT ![x] = a] BY <2>8, <1>1, LinkDoes
  <2>10. Relinked(r, m) /\ r.next = next BY <2>4, <2>5, <2>7, <2>9 DEF Relinked
  <2>11. Sewn(r, m, v, x, a)
    <3> HIDE DEF r0, b, p, t, r
    <3>1. b = NextBoundaryEdge(m, t) /\ p = FindExistingPrevious(m, t, a) BY DEF b, p
    <3> QED BY <2>10, <2>2, <3>1, <1>1, <1>4, SewExisting
  <2> QED BY <2>11
<1> QED BY <1>2, <1>3, <1>4

\* An edge has two ends, is there once, and has a face on one of its sides.
Edges(m) ==
  /\ \A h \in D(m) : Source(m, h) # m.vertex[h] /\ ~(Hole(m, h) /\ Hole(m, Twin(h)))
  /\ \A g, h \in D(m) : Source(m, g) = Source(m, h) /\ m.vertex[g] = m.vertex[h] => g = h

\* Nothing has changed at v.
SameAt(r, m, v) ==
  /\ Fan(r, v) = Fan(m, v) /\ r.vertexHalfedge[v] = m.vertexHalfedge[v]
  /\ \A h \in Fan(m, v) :
       r.next[h] = m.next[h] /\ r.face[h] = m.face[h] /\ r.face[m.next[h]] = m.face[m.next[h]]

\* What was true at v is true where nothing has changed at v.
LEMMA SameCorner ==
  ASSUME NEW m, NEW r, NEW v, SameAt(r, m, v), NEW G, NEW x, NEW a
  PROVE  /\ \A h \in Fan(m, v) : VertexStep(r)[h] = VertexStep(m)[h] /\ (Hole(r, h) <=> Hole(m, h))
                                 /\ (Agrees(r, h) <=> Agrees(m, h))
         /\ Corner(m, v, G, x, a) => Corner(r, v, G, x, a)
         /\ OneCycle(Fan(m, v), VertexStep(m)) => OneCycle(Fan(r, v), VertexStep(r))
         /\ CutAt(m, v) => CutAt(r, v)
<1>1. ASSUME NEW h \in Fan(m, v)
      PROVE  VertexStep(r)[h] = VertexStep(m)[h] /\ (Hole(r, h) <=> Hole(m, h)) /\ (Agrees(r, h) <=> Agrees(m, h))
  <2>1. h \in D(r) /\ h \in D(m) /\ r.next[h] = m.next[h] BY DEF SameAt, Fan
  <2>2. VertexStep(r)[h] = VertexStep(m)[h] BY <2>1 DEF VertexStep, D
  <2>3. r.face[h] = m.face[h] /\ r.face[m.next[h]] = m.face[m.next[h]] BY DEF SameAt
  <2> QED BY <2>1, <2>2, <2>3 DEF Agrees, Hole
<1>2. ASSUME NEW X \in SUBSET Fan(m, v), OneCycle(X, VertexStep(m)) PROVE OneCycle(X, VertexStep(r))
  BY <1>1, <1>2 DEF OneCycle
<1>3. ASSUME Corner(m, v, G, x, a) PROVE Corner(r, v, G, x, a)
  <2>1. OneCycle(G, VertexStep(r)) BY <1>2, <1>3 DEF Corner
  <2>2. ASSUME NEW h \in Fan(m, v) \ {x} PROVE IF r.next[h] = a THEN Hole(r, h) ELSE Agrees(r, h)
    BY <1>1, <1>3 DEF Corner, SameAt
  <2>3. x \in Fan(m, v) => r.next[x] = a \/ Hole(r, r.next[x])
    <3>1. SUFFICES ASSUME x \in Fan(m, v) PROVE r.next[x] = a \/ Hole(r, r.next[x]) OBVIOUS
    <3>2. r.next[x] = m.next[x] /\ r.face[m.next[x]] = m.face[m.next[x]] BY <3>1 DEF SameAt
    <3> QED BY <3>1, <3>2, <1>3 DEF Corner, Hole
  <2>4. Fan(r, v) = Fan(m, v) /\ r.vertexHalfedge[v] = m.vertexHalfedge[v] BY DEF SameAt
  <2> QED BY <2>1, <2>2, <2>3, <2>4, <1>3 DEF Corner
<1>4. Fan(r, v) = Fan(m, v) BY DEF SameAt
<1>5. ASSUME CutAt(m, v) PROVE CutAt(r, v)
  <2>1. PICK X \in SUBSET Fan(m, v) : X # {} /\ X # Fan(m, v) /\ \A h \in X : VertexStep(m)[h] \in X /\ ~Hole(m, h)
    BY <1>5 DEF CutAt
  <2> QED BY <2>1, <1>1, <1>4 DEF CutAt
<1> QED BY <1>1, <1>2, <1>3, <1>4, <1>5

\* The other side of an edge becomes part of the open face.
Marked(r, m, a, f) ==
  /\ DOMAIN r = DOMAIN m
  /\ r.next = m.next /\ r.vertex = m.vertex /\ r.face = [m.face EXCEPT ![a] = f]
  /\ r.vertexHalfedge = m.vertexHalfedge /\ r.faceHalfedge = m.faceHalfedge /\ r.fault = m.fault

\* A new edge, with a for the open face and t for a hole.
Extended(r, m, a, t, f, source, target) ==
  /\ DOMAIN r = DOMAIN m
  /\ a \notin D(m) /\ t \notin D(m) /\ a # t /\ t = Twin(a) /\ a = Twin(t) /\ a \in Nat /\ t \in Nat
  /\ D(r) = D(m) \cup {a, t}
  /\ r.next = [h \in D(r) |-> r.next[h]] /\ r.vertex = [h \in D(r) |-> r.vertex[h]] /\ r.face = [h \in D(r) |-> r.face[h]]
  /\ r.next[a] = t /\ r.next[t] = a /\ r.vertex[a] = target /\ r.vertex[t] = source
  /\ r.face[a] = f /\ r.face[t] = INVALID
  /\ \A h \in D(m) : r.next[h] = m.next[h] /\ r.vertex[h] = m.vertex[h] /\ r.face[h] = m.face[h]
  /\ r.vertexHalfedge = m.vertexHalfedge /\ r.faceHalfedge = m.faceHalfedge /\ r.fault = m.fault

\* create_halfedge_internal refuses the edge, or finds it without a face on this side, or adds it.
Created(new, m, f, source, target) ==
  \/ new.mesh.fault # "none"
  \/ /\ new.existed = TRUE /\ new.added \in D(m)
     /\ Source(m, new.added) = source /\ m.vertex[new.added] = target /\ m.face[new.added] = INVALID
     /\ Marked(new.mesh, m, new.added, f)
  \/ /\ new.existed = FALSE
     /\ \A h \in D(m) : {Source(m, h), m.vertex[h]} # {source, target}
     /\ Extended(new.mesh, m, new.added, Twin(new.added), f, source, target)
     /\ \E n \in Nat : 2 * n <= MaxHalfedges /\ D(new.mesh) = 0..(2 * n - 1)

\* create_halfedge_internal marks the opposite of an edge that exists, adds a new pair, or refuses.
LEMMA CreateDoes ==
  ASSUME NEW m, IsMesh(m), m.fault = "none", Links(m), Edges(m), NEW f, NEW source \in Vertices, NEW target \in Vertices,
         source # target, NEW x, Corner(m, source, Fan(m, source), x, INVALID),
         HalfedgeCount(m) + 2 <= MaxHalfedges
  PROVE  Created(CreateHalfedge(m, f, source, target), m, f, source, target)
<1> DEFINE opp == FindVertexHalfedge(m, target, source)
           new == CreateHalfedge(m, f, source, target)
           F == Fan(m, source)
<1>0. \A h \in D(m) : Source(m, Twin(h)) = m.vertex[h] /\ m.vertex[Twin(h)] = Source(m, h) /\ Twin(h) \in D(m)
                      /\ Valid(m, h) /\ Twin(Twin(h)) = h
  BY MeshFacts DEF Source
<1>1. IF \A h \in F : Source(m, h) # target THEN opp = INVALID ELSE opp \in F /\ Source(m, opp) = target
  <2>1. CASE F = {}
    <3>1. m.vertexHalfedge[source] = INVALID BY <2>1 DEF Corner
    <3> QED BY <3>1, <2>1 DEF FindVertexHalfedge
  <2>2. CASE F # {}
    <3>1. m.vertexHalfedge[source] \in F /\ OneCycle(F, VertexStep(m)) BY <2>2 DEF Corner
    <3>2. Permutes(VertexStep(m), F) BY StepFacts
    <3>3. F \subseteq D(m) BY DEF Fan
    <3> HIDE DEF F
    <3> QED BY <3>1, <3>2, <3>3, FindVertexHalfedgeFinds
  <2> QED BY <2>1, <2>2
<1>2. new = FindOrCreate(m, f, source, target, opp) BY DEF CreateHalfedge
<1>3. CASE \E h \in F : Source(m, h) = target
  <2>1. opp \in F /\ Source(m, opp) = target BY <1>1, <1>3
  <2> HIDE DEF opp
  <2>2. opp \in D(m) /\ m.vertex[opp] = source BY <2>1 DEF Fan
  <2> DEFINE a == Twin(opp)
  <2>3. a \in D(m) /\ Source(m, a) = source /\ m.vertex[a] = target BY <2>1, <2>2, <1>0
  <2>4. new = [existed |-> TRUE, added |-> a,
               mesh |-> IF m.face[a] # INVALID THEN Fault(m, "throw") ELSE [m EXCEPT !.face[a] = f]]
    BY <1>0, <1>2, <2>2 DEF FindOrCreate, OtherSide
  <2>5. DOMAIN m = {"next", "vertex", "face", "vertexHalfedge", "faceHalfedge", "fault"} BY DEF IsMesh
  <2> HIDE DEF new, a
  <2>6. CASE m.face[a] # INVALID
    <3>1. new.mesh = Fault(m, "throw") BY <2>4, <2>6
    <3>2. Fault(m, "throw").fault = "throw" BY <2>5 DEF Fault
    <3> QED BY <3>1, <3>2 DEF new, Created
  <2>7. CASE m.face[a] = INVALID
    <3>1. new.mesh = [m EXCEPT !.face[a] = f] /\ new.existed = TRUE /\ new.added = a BY <2>4, <2>7
    <3>2. Marked(new.mesh, m, a, f) BY <3>1, <2>5 DEF Marked
    <3> QED BY <3>1, <3>2, <2>3, <2>7 DEF new, Created
  <2> QED BY <2>6, <2>7
<1>4. CASE \A h \in F : Source(m, h) # target
  <2>1. opp = INVALID BY <1>1, <1>4
  <2>2. PICK k \in Nat : D(m) = 0..(2 * k - 1) BY DEF IsMesh
  <2> DEFINE n == 2 * k
             g(array, p, q) == [h \in 0..(n + 1) |-> IF h = n THEN p ELSE IF h = n + 1 THEN q ELSE array[h]]
  <2>3. HalfedgeCount(m) = n
    <3>1. D(m) = 0..(n - 1) BY <2>2
    <3> HIDE DEF n
    <3>2. n \in Nat BY <2>2 DEF n
    <3>3. Cardinality(0..(n - 1)) = n BY <3>2, FS_Interval
    <3> QED BY <3>1, <3>3 DEF HalfedgeCount, D
  <2>4. ~Valid(m, opp) BY <2>1, MeshFacts DEF Valid, D
  <2>5. new = [existed |-> FALSE, added |-> n,
               mesh |-> [m EXCEPT !.next = g(m.next, n + 1, n), !.vertex = g(m.vertex, target, source),
                                  !.face = g(m.face, f, INVALID)]]
    <3>1. new = NewPair(m, n, f, source, target) BY <1>2, <2>3, <2>4 DEF FindOrCreate
    <3> HIDE DEF new, n
    <3> QED BY <3>1 DEF NewPair
  <2> HIDE DEF new
  <2>6. DOMAIN m = {"next", "vertex", "face", "vertexHalfedge", "faceHalfedge", "fault"} BY DEF IsMesh
  <2> DEFINE r == new.mesh
  <2>7. /\ DOMAIN r = DOMAIN m /\ r.next = g(m.next, n + 1, n) /\ r.vertex = g(m.vertex, target, source)
        /\ r.face = g(m.face, f, INVALID)
        /\ r.vertexHalfedge = m.vertexHalfedge /\ r.faceHalfedge = m.faceHalfedge /\ r.fault = m.fault
    <3> HIDE DEF g, n
    <3> QED BY <2>5, <2>6
  <2> HIDE DEF r
  <2>8. n \in Nat /\ n % 2 = 0 /\ Twin(n) = n + 1 /\ Twin(n + 1) = n /\ n + 1 <= MaxHalfedges
    <3>1. n % 2 = 0 /\ (n + 1) % 2 # 0 BY <2>2
    <3>2. MaxHalfedges \in Nat BY DcelAssumption
    <3> QED BY <3>1, <3>2, <2>2, <2>3 DEF Twin
  <2>9. D(r) = D(m) \cup {n, n + 1} /\ D(r) = 0..(n + 1) /\ n \notin D(m) /\ n + 1 \notin D(m)
        /\ \A h \in D(m) : h \in 0..(n + 1) /\ h # n /\ h # n + 1
    <3>1. D(m) = 0..(n - 1) BY <2>2
    <3> HIDE DEF n
    <3> QED BY <3>1, <2>7, <2>8 DEF D
  <2>10. Extended(r, m, n, n + 1, f, source, target)
    <3>1. /\ r.next[n] = n + 1 /\ r.next[n + 1] = n /\ r.vertex[n] = target /\ r.vertex[n + 1] = source
          /\ r.face[n] = f /\ r.face[n + 1] = INVALID
      <4> HIDE DEF n
      <4> QED BY <2>7, <2>8, <2>9
    <3>2. \A h \in D(m) : r.next[h] = m.next[h] /\ r.vertex[h] = m.vertex[h] /\ r.face[h] = m.face[h]
      <4> HIDE DEF n
      <4> QED BY <2>7, <2>9
    <3>3. /\ r.next = [h \in D(r) |-> r.next[h]] /\ r.vertex = [h \in D(r) |-> r.vertex[h]]
          /\ r.face = [h \in D(r) |-> r.face[h]]
      <4> HIDE DEF n
      <4> QED BY <2>7, <2>9
    <3> HIDE DEF n, g
    <3> QED BY <3>1, <3>2, <3>3, <2>7, <2>8, <2>9 DEF Extended
  <2>11. \A h \in D(m) : {Source(m, h), m.vertex[h]} # {source, target}
    <3> SUFFICES ASSUME NEW h \in D(m), {Source(m, h), m.vertex[h]} = {source, target} PROVE FALSE OBVIOUS
    <3>1. \/ Source(m, h) = source /\ m.vertex[h] = target
          \/ Source(m, h) = target /\ m.vertex[h] = source
      OBVIOUS
    <3>2. CASE Source(m, h) = target /\ m.vertex[h] = source
      <4>1. h \in F BY <3>2 DEF Fan
      <4> QED BY <4>1, <3>2, <1>4
    <3>3. CASE Source(m, h) = source /\ m.vertex[h] = target
      <4>1. Twin(h) \in F /\ Source(m, Twin(h)) = target BY <3>3, <1>0 DEF Fan
      <4> QED BY <4>1, <1>4
    <3> QED BY <3>1, <3>2, <3>3
  <2>12. new.existed = FALSE /\ new.added = n BY <2>5
  <2>13. \E j \in Nat : 2 * j <= MaxHalfedges /\ D(r) = 0..(2 * j - 1)
    <3>1. k + 1 \in Nat /\ 2 * (k + 1) = n + 2 BY <2>2
    <3>2. 2 * (k + 1) <= MaxHalfedges /\ 2 * (k + 1) - 1 = n + 1 BY <3>1, <2>3, <2>2
    <3> QED BY <3>1, <3>2, <2>9
  <2>14. Extended(new.mesh, m, new.added, Twin(new.added), f, source, target) BY <2>8, <2>10, <2>12 DEF r
  <2> QED BY <2>11, <2>12, <2>13, <2>14 DEF r, new, Created
<1> QED BY <1>1, <1>3, <1>4

\* What a mesh is after an edge of the open face f was added and joined to its target, next to G.
Joined(r, m, f, source, target, a, G) ==
  /\ IsMesh(r) /\ Links(r) /\ Edges(r) /\ r.fault = "none"
  /\ r.faceHalfedge = m.faceHalfedge
  /\ a \in D(r) /\ Source(r, a) = source /\ r.vertex[a] = target /\ r.face[a] = f
  /\ a \in D(m) => Hole(m, a)
  /\ \A h \in D(m) : /\ h \in D(r) /\ r.vertex[h] = m.vertex[h] /\ Source(r, h) = Source(m, h)
                     /\ (h # a => r.face[h] = m.face[h])
                     /\ (r.next[h] = m.next[h] \/ (h \in G /\ Hole(m, h)))
  /\ \A h \in D(r) \ D(m) : h = a \/ (h = Twin(a) /\ Hole(r, h))
  /\ \A v \in Vertices \ {source, target} : SameAt(r, m, v)

\* At its source, where the face comes with x, and at its target, where the first edge of the
\* face may leave with a0.
JoinedCorners(r, source, target, a, existed, G, x, a0) ==
  /\ existed \in BOOLEAN
  /\ Corner(r, source, IF existed THEN Fan(r, source) ELSE Fan(r, source) \ {Twin(a)}, x, a)
  /\ IF existed THEN ~Hole(r, Twin(a)) ELSE x # Twin(a) /\ r.next[Twin(a)] = a /\ Hole(r, Twin(a))
  /\ Corner(r, target, G, a, a0) /\ a \in G

\* The edge was there.
LEMMA JoinMarked ==
  ASSUME NEW m, IsMesh(m), m.fault = "none", Links(m), Edges(m),
         NEW f, f \in DOMAIN m.faceHalfedge,
         NEW source \in Vertices, NEW target \in Vertices, source # target,
         NEW x, x \in D(m) => ~Hole(m, x), Corner(m, source, Fan(m, source), x, INVALID),
         NEW G, NEW a0, Corner(m, target, G, INVALID, a0), NEW a \in D(m), a \in G,
         Source(m, a) = source, m.face[a] = INVALID,
         NEW r, Marked(r, m, a, f)
  PROVE  Joined(r, m, f, source, target, a, G) /\ JoinedCorners(r, source, target, a, TRUE, G, x, a0)
<1>0. PICK k \in 0..MaxFaces : m.faceHalfedge \in [0..(k - 1) -> Nat] /\ \A h \in D(m) : m.face[h] \in 0..(k - 1) \/ Hole(m, h)
  BY DEF IsMesh
<1>1. f \in 0..(k - 1) /\ MaxFaces \in Nat /\ INVALID \in Nat /\ INVALID > MaxFaces /\ ~(f > MaxFaces) /\ f \in Nat
      /\ INVALID \notin D(m)
  <2>1. MaxFaces \in Nat /\ INVALID \in Nat /\ INVALID > MaxFaces /\ INVALID \notin D(m) BY MeshFacts
  <2>2. f \in 0..(k - 1) BY <1>0
  <2> QED BY <2>1, <2>2, <1>0
<1>2. D(r) = D(m) /\ r.next = m.next /\ r.vertex = m.vertex /\ r.face = [m.face EXCEPT ![a] = f]
      /\ r.vertexHalfedge = m.vertexHalfedge /\ r.faceHalfedge = m.faceHalfedge /\ r.fault = m.fault
  BY DEF Marked, D
<1>3. m.face \in [D(m) -> Nat] /\ m.next \in [D(m) -> D(m)] BY DEF IsMesh
<1>4. r.face[a] = f /\ \A h \in D(m) : h # a => r.face[h] = m.face[h] BY <1>2, <1>3
<1>5. Hole(m, a) /\ ~Hole(r, a) /\ \A h \in D(m) : h # a => (Hole(r, h) <=> Hole(m, h)) BY <1>1, <1>4 DEF Hole
<1>6. \A h : Source(r, h) = Source(m, h) BY <1>2 DEF Source
<1>7. \A v : Fan(r, v) = Fan(m, v) BY <1>2 DEF Fan
<1>8. IsMesh(r)
  <2>1. \A h \in D(r) : r.face[h] \in 0..(k - 1) \/ Hole(r, h) BY <1>0, <1>1, <1>2, <1>4 DEF Hole
  <2>2. r.face \in [D(r) -> Nat] BY <1>1, <1>2, <1>3
  <2>3. DOMAIN r = DOMAIN m BY DEF Marked
  <2> QED BY <2>1, <2>2, <2>3, <1>0, <1>2 DEF IsMesh
<1>9. Links(r) BY <1>2, <1>6 DEF Links
<1>10. Edges(r)
  <2>1. \A h \in D(m) : Twin(h) \in D(m) BY MeshFacts
  <2> QED BY <2>1, <1>2, <1>5, <1>6 DEF Edges
<1>11. m.vertex[a] = target BY DEF Corner, Fan
<1>12. VertexStep(r) = VertexStep(m) BY <1>2 DEF VertexStep
<1>13. ASSUME NEW h \in D(m), h # a, m.next[h] # a PROVE Agrees(r, h) <=> Agrees(m, h)
  BY <1>13, <1>2, <1>3, <1>4, <1>5 DEF Agrees
<1>14. \A h \in D(m) : m.next[h] = a => m.vertex[h] = source BY DEF Links
<1>15. ASSUME NEW v \in Vertices \ {source, target} PROVE SameAt(r, m, v)
  <2>1. ASSUME NEW h \in Fan(m, v) PROVE r.next[h] = m.next[h] /\ r.face[h] = m.face[h] /\ r.face[m.next[h]] = m.face[m.next[h]]
    <3>1. h \in D(m) /\ m.vertex[h] = v BY DEF Fan
    <3>2. h # a /\ m.next[h] # a /\ m.next[h] \in D(m) BY <3>1, <1>3, <1>11, <1>14
    <3> QED BY <3>1, <3>2, <1>2, <1>4
  <2> QED BY <2>1, <1>2, <1>7 DEF SameAt
<1>16. Joined(r, m, f, source, target, a, G)
  BY <1>2, <1>4, <1>5, <1>6, <1>8, <1>9, <1>10, <1>11, <1>15 DEF Joined
<1>17. Corner(r, source, Fan(r, source), x, a)
  <2>1. ASSUME NEW h \in Fan(m, source) \ {x} PROVE IF m.next[h] = a THEN Hole(r, h) ELSE Agrees(r, h)
    <3>1. h \in D(m) /\ h # a /\ m.next[h] # INVALID BY <1>1, <1>3, <1>11 DEF Fan
    <3>2. Agrees(m, h) BY <3>1 DEF Corner
    <3>3. CASE m.next[h] = a
      <4>1. m.face[a] = m.face[h] \/ Hole(m, h) BY <3>2, <3>3 DEF Agrees
      <4>2. Hole(m, h) BY <4>1, <1>5 DEF Hole
      <4> QED BY <4>2, <3>1, <3>3, <1>5
    <3>4. CASE m.next[h] # a BY <3>1, <3>2, <3>4, <1>13
    <3> QED BY <3>3, <3>4
  <2>2. x \in Fan(m, source) => m.next[x] = a \/ Hole(r, m.next[x])
    <3> SUFFICES ASSUME x \in Fan(m, source), m.next[x] # a PROVE Hole(r, m.next[x]) OBVIOUS
    <3>1. m.next[x] \in D(m) /\ m.next[x] # INVALID BY <1>1, <1>3 DEF Fan
    <3>2. Hole(m, m.next[x]) BY <3>1 DEF Corner
    <3> QED BY <3>1, <3>2, <1>5
  <2>3. OneCycle(Fan(m, source), VertexStep(m))
        /\ IF Fan(m, source) = {} THEN m.vertexHalfedge[source] = INVALID ELSE m.vertexHalfedge[source] \in Fan(m, source)
    BY DEF Corner
  <2> QED BY <2>1, <2>2, <2>3, <1>2, <1>7, <1>12 DEF Corner
<1>18. Corner(r, target, G, a, a0)
  <2>1. ASSUME NEW h \in Fan(m, target) \ {a} PROVE IF m.next[h] = a0 THEN Hole(r, h) ELSE Agrees(r, h)
    <3>1. h \in D(m) /\ h # a /\ h # INVALID /\ m.next[h] # a BY <1>1, <1>14, <2>1 DEF Fan
    <3>2. IF m.next[h] = a0 THEN Hole(m, h) ELSE Agrees(m, h) BY <3>1 DEF Corner
    <3> QED BY <3>1, <3>2, <1>5, <1>13
  <2>2. m.next[a] = a0 \/ Hole(r, m.next[a])
    <3>1. a \in Fan(m, target) /\ a # INVALID /\ m.next[a] \in D(m) BY <1>1, <1>3, <1>11 DEF Fan
    <3>2. m.next[a] = a0 \/ Agrees(m, a) BY <3>1 DEF Corner
    <3>3. m.next[a] # a
      <4>1. Source(m, m.next[a]) = target BY <1>11 DEF Links
      <4> QED BY <4>1
    <3>4. Agrees(m, a) => Hole(m, m.next[a]) BY <1>5 DEF Agrees, Hole
    <3> QED BY <3>1, <3>2, <3>3, <3>4, <1>5
  <2> QED BY <2>1, <2>2, <1>2, <1>7, <1>12 DEF Corner
<1>19. ~Hole(r, Twin(a)) BY <1>5, <1>3, MeshFacts DEF Edges
<1> QED BY <1>16, <1>17, <1>18, <1>19 DEF JoinedCorners

-----------------------------------------------------------------------------
\* What a new edge from source to target brings.
Extension(r, m, a, t, source, target) ==
  /\ IsMesh(r) /\ Links(r) /\ Edges(r)
  /\ ~Hole(r, a) /\ Hole(r, t) /\ \A h \in D(m) : Hole(r, h) <=> Hole(m, h)
  /\ \A h \in D(m) : Source(r, h) = Source(m, h)
  /\ Source(r, a) = source /\ Source(r, t) = target
  /\ Fan(r, source) = Fan(m, source) \cup {t} /\ Fan(r, target) = Fan(m, target) \cup {a}
  /\ \A v \in Vertices \ {source, target} : Fan(r, v) = Fan(m, v)
  /\ \A h \in D(m) : VertexStep(r)[h] = VertexStep(m)[h]
  /\ VertexStep(r)[a] = a /\ VertexStep(r)[t] = t
  /\ \A h \in D(m) : Agrees(r, h) <=> Agrees(m, h)

\* A new edge by itself.
LEMMA ExtendedMesh ==
  ASSUME NEW m, IsMesh(m), m.fault = "none", Links(m), Edges(m),
         NEW f, f \in DOMAIN m.faceHalfedge,
         NEW source \in Vertices, NEW target \in Vertices, source # target,
         \A h \in D(m) : {Source(m, h), m.vertex[h]} # {source, target},
         NEW a, NEW t, NEW r, Extended(r, m, a, t, f, source, target),
         \E n \in Nat : 2 * n <= MaxHalfedges /\ D(r) = 0..(2 * n - 1)
  PROVE  Extension(r, m, a, t, source, target)
<1>0. PICK k \in 0..MaxFaces : m.faceHalfedge \in [0..(k - 1) -> Nat] /\ \A h \in D(m) : m.face[h] \in 0..(k - 1) \/ Hole(m, h)
  BY DEF IsMesh
<1>1. f \in 0..(k - 1) /\ MaxFaces \in Nat /\ INVALID \in Nat /\ INVALID > MaxFaces /\ ~(f > MaxFaces) /\ f \in Nat
      /\ INVALID \notin D(m)
  <2>1. MaxFaces \in Nat /\ INVALID \in Nat /\ INVALID > MaxFaces /\ INVALID \notin D(m) BY MeshFacts
  <2>2. f \in 0..(k - 1) BY <1>0
  <2> QED BY <2>1, <2>2, <1>0
<1>2. m.face \in [D(m) -> Nat] /\ m.next \in [D(m) -> D(m)] /\ m.vertex \in [D(m) -> Vertices] BY DEF IsMesh
<1>3. \A h \in D(m) : Twin(h) \in D(m) /\ Twin(Twin(h)) = h BY MeshFacts
<1>e. /\ a \notin D(m) /\ t \notin D(m) /\ a # t /\ t = Twin(a) /\ a = Twin(t)
      /\ D(r) = D(m) \cup {a, t}
      /\ r.next[a] = t /\ r.next[t] = a /\ r.vertex[a] = target /\ r.vertex[t] = source
      /\ r.face[a] = f /\ r.face[t] = INVALID
      /\ \A h \in D(m) : r.next[h] = m.next[h] /\ r.vertex[h] = m.vertex[h] /\ r.face[h] = m.face[h]
  BY DEF Extended
<1>4. ~Hole(r, a) /\ Hole(r, t) /\ \A h \in D(m) : Hole(r, h) <=> Hole(m, h) BY <1>e, <1>1 DEF Hole
<1>5. (\A h \in D(m) : Source(r, h) = Source(m, h)) /\ Source(r, a) = source /\ Source(r, t) = target
  BY <1>e, <1>3 DEF Source
<1>6. IsMesh(r)
  <2>1. r.next \in [D(r) -> D(r)]
    <3>1. \A h \in D(r) : r.next[h] \in D(r) BY <1>e, <1>2
    <3> QED BY <3>1 DEF Extended
  <2>2. r.vertex \in [D(r) -> Vertices]
    <3>1. \A h \in D(r) : r.vertex[h] \in Vertices BY <1>e, <1>2
    <3> QED BY <3>1 DEF Extended
  <2>3. r.face \in [D(r) -> Nat]
    <3>1. \A h \in D(r) : r.face[h] \in Nat BY <1>e, <1>1, <1>2
    <3> QED BY <3>1 DEF Extended
  <2>4. \A h \in D(r) : r.face[h] \in 0..(k - 1) \/ Hole(r, h) BY <1>e, <1>0, <1>1, <1>4
  <2> QED BY <2>1, <2>2, <2>3, <2>4, <1>0 DEF IsMesh, Extended
<1>7. \A h \in D(m) : m.next[h] \in D(m) BY <1>e, <1>2
<1>8. Links(r)
  <2>1. \A h \in D(r) : Source(r, r.next[h]) = r.vertex[h] BY <1>e, <1>5, <1>7 DEF Links
  <2>2. \A g, h \in D(r) : r.next[g] = r.next[h] => g = h BY <1>e, <1>7 DEF Links
  <2> QED BY <2>1, <2>2 DEF Links
<1>9. Edges(r)
  <2>1. ASSUME NEW h \in D(r) PROVE Source(r, h) # r.vertex[h] /\ ~(Hole(r, h) /\ Hole(r, Twin(h)))
    <3>1. CASE h \in D(m) BY <3>1, <1>e, <1>3, <1>4, <1>5 DEF Edges
    <3>2. CASE h \in {a, t} BY <3>2, <1>e, <1>4, <1>5
    <3> QED BY <3>1, <3>2, <1>e
  <2>2. ASSUME NEW g \in D(r), NEW h \in D(r), Source(r, g) = Source(r, h), r.vertex[g] = r.vertex[h] PROVE g = h
    <3>1. CASE g \in D(m) /\ h \in D(m) BY <3>1, <2>2, <1>e, <1>5 DEF Edges
    <3>2. CASE g \in {a, t} /\ h \in {a, t} BY <3>2, <2>2, <1>e, <1>5
    <3>3. ASSUME NEW y \in D(m), NEW z \in {a, t} PROVE ~(Source(r, y) = Source(r, z) /\ r.vertex[y] = r.vertex[z])
      <4>1. {Source(m, y), m.vertex[y]} # {source, target} OBVIOUS
      <4>2. ~(Source(m, y) = source /\ m.vertex[y] = target) /\ ~(Source(m, y) = target /\ m.vertex[y] = source)
        BY <4>1
      <4> QED BY <4>2, <1>e, <1>5
    <3> QED BY <3>1, <3>2, <3>3, <2>2, <1>e
  <2> QED BY <2>1, <2>2 DEF Edges
<1>10. /\ Fan(r, source) = Fan(m, source) \cup {t} /\ Fan(r, target) = Fan(m, target) \cup {a}
       /\ \A v \in Vertices \ {source, target} : Fan(r, v) = Fan(m, v)
  BY <1>e DEF Fan
<1>11. /\ \A h \in D(m) : VertexStep(r)[h] = VertexStep(m)[h]
       /\ VertexStep(r)[a] = a /\ VertexStep(r)[t] = t
  <2>1. \A h \in D(r) : VertexStep(r)[h] = Twin(r.next[h])
    <3> QED BY <1>6, <1>8, StepFacts
  <2>2. \A h \in D(m) : VertexStep(m)[h] = Twin(m.next[h]) BY StepFacts
  <2> QED BY <2>1, <2>2, <1>e
<1>12. \A h \in D(m) : Agrees(r, h) <=> Agrees(m, h) BY <1>e, <1>4, <1>7 DEF Agrees
<1> QED BY <1>e, <1>4, <1>5, <1>6, <1>8, <1>9, <1>10, <1>11, <1>12 DEF Extension

\* r is n, with half-edges of holes at the target linked otherwise.
Placed(r, n, m, a, t, target, G) ==
  /\ IsMesh(r) /\ Links(r) /\ D(r) = D(n) /\ r.vertex = n.vertex /\ r.face = n.face
  /\ r.faceHalfedge = n.faceHalfedge /\ r.fault = "none"
  /\ \A h \in D(m) : r.next[h] = m.next[h] \/ (h \in G /\ Hole(m, h))
  /\ r.next[t] = a /\ \A v \in Vertices \ {target} : r.vertexHalfedge[v] = m.vertexHalfedge[v]

\* What is left to show when the new edge has been joined to its target.
LEMMA JoinNewDone ==
  ASSUME NEW m, IsMesh(m), m.fault = "none", Links(m),
         NEW f, NEW source \in Vertices, NEW target \in Vertices, source # target,
         NEW a, NEW t, NEW n, Extended(n, m, a, t, f, source, target),
         Extension(n, m, a, t, source, target),
         NEW x, Corner(m, source, Fan(m, source), x, INVALID), x # t,
         NEW G, NEW a0, a \in G,
         NEW r, Placed(r, n, m, a, t, target, G),
         Corner(r, target, G, a, a0)
  PROVE  Joined(r, m, f, source, target, a, G) /\ JoinedCorners(r, source, target, a, FALSE, G, x, a0)
<1>e. /\ a \notin D(m) /\ t \notin D(m) /\ a # t /\ t = Twin(a) /\ a = Twin(t)
      /\ D(n) = D(m) \cup {a, t}
      /\ n.vertex[a] = target /\ n.vertex[t] = source /\ n.face[a] = f /\ n.face[t] = INVALID
      /\ \A h \in D(m) : n.vertex[h] = m.vertex[h] /\ n.face[h] = m.face[h]
      /\ n.faceHalfedge = m.faceHalfedge
  BY DEF Extended
<1>p. /\ IsMesh(r) /\ Links(r) /\ D(r) = D(n) /\ r.vertex = n.vertex /\ r.face = n.face
      /\ r.faceHalfedge = n.faceHalfedge /\ r.fault = "none"
      /\ \A h \in D(m) : r.next[h] = m.next[h] \/ (h \in G /\ Hole(m, h))
      /\ r.next[t] = a /\ \A v \in Vertices \ {target} : r.vertexHalfedge[v] = m.vertexHalfedge[v]
  BY DEF Placed
<1>1. /\ IsMesh(n) /\ Links(n) /\ Edges(n)
      /\ ~Hole(n, a) /\ Hole(n, t) /\ \A h \in D(m) : Hole(n, h) <=> Hole(m, h)
      /\ \A h \in D(m) : Source(n, h) = Source(m, h)
      /\ Source(n, a) = source /\ Source(n, t) = target
      /\ Fan(n, source) = Fan(m, source) \cup {t}
      /\ \A v \in Vertices \ {source, target} : Fan(n, v) = Fan(m, v)
  BY DEF Extension
<1>2. /\ \A h : Hole(r, h) <=> Hole(n, h)
      /\ \A h : Source(r, h) = Source(n, h)
      /\ \A v : Fan(r, v) = Fan(n, v)
  BY <1>p DEF Hole, Source, Fan
<1>g. \A h \in D(m) : h \in G => h \in Fan(m, target)
  <2>1. G \subseteq Fan(r, target) BY DEF Corner
  <2> QED BY <2>1, <1>p, <1>e DEF Fan
<1>3. Edges(r) BY <1>p, <1>1, <1>2 DEF Edges
<1>4. m.next \in [D(m) -> D(m)] /\ INVALID \notin D(m) BY MeshFacts DEF IsMesh
<1>5. ASSUME NEW v \in Vertices \ {source, target} PROVE SameAt(r, m, v)
  <2>1. ASSUME NEW h \in Fan(m, v) PROVE r.next[h] = m.next[h] /\ r.face[h] = m.face[h] /\ r.face[m.next[h]] = m.face[m.next[h]]
    <3>1. h \in D(m) /\ h \notin Fan(m, target) /\ m.next[h] \in D(m) BY <1>p, <1>4 DEF Fan
    <3> QED BY <1>p, <1>g, <3>1, <1>e
  <2> QED BY <1>p, <2>1, <1>1, <1>2 DEF SameAt
<1>6. Joined(r, m, f, source, target, a, G)
  <2>1. \A h \in D(m) : /\ h \in D(r) /\ r.vertex[h] = m.vertex[h] /\ Source(r, h) = Source(m, h)
                        /\ (h # a => r.face[h] = m.face[h])
                        /\ (r.next[h] = m.next[h] \/ (h \in G /\ Hole(m, h)))
    BY <1>p, <1>e, <1>1, <1>2
  <2>2. \A h \in D(r) \ D(m) : h = a \/ (h = Twin(a) /\ Hole(r, h)) BY <1>p, <1>e, <1>1, <1>2
  <2>3. a \in D(r) /\ Source(r, a) = source /\ r.vertex[a] = target /\ r.face[a] = f BY <1>p, <1>e, <1>1, <1>2
  <2> QED BY <1>p, <2>1, <2>2, <2>3, <1>e, <1>3, <1>5 DEF Joined
<1>7. Corner(r, source, Fan(r, source) \ {t}, x, a)
  <2>1. Fan(r, source) \ {t} = Fan(m, source) BY <1>p, <1>e, <1>1, <1>2 DEF Fan
  <2>2. ASSUME NEW h \in Fan(m, source)
        PROVE  h \in D(m) /\ r.next[h] = m.next[h] /\ m.next[h] \in D(m) /\ VertexStep(r)[h] = VertexStep(m)[h]
    <3>1. h \in D(m) /\ h \notin Fan(m, target) /\ m.next[h] \in D(m) BY <1>p, <1>4 DEF Fan
    <3>2. VertexStep(r)[h] = Twin(r.next[h]) BY <1>p, <3>1, <1>e, StepFacts
    <3>3. VertexStep(m)[h] = Twin(m.next[h]) BY <3>1, StepFacts
    <3> QED BY <1>p, <1>g, <3>1, <3>2, <3>3
  <2>3. OneCycle(Fan(m, source), VertexStep(r))
    <3>1. OneCycle(Fan(m, source), VertexStep(m)) BY DEF Corner
    <3> QED BY <3>1, <2>2 DEF OneCycle
  <2>4. ASSUME NEW h \in Fan(r, source) \ {x} PROVE IF r.next[h] = a THEN Hole(r, h) ELSE Agrees(r, h)
    <3>1. CASE h = t BY <1>p, <3>1, <1>1, <1>2
    <3>2. CASE h # t
      <4>1. h \in Fan(m, source) \ {x} BY <3>2, <2>1
      <4>2. m.next[h] # INVALID /\ r.next[h] # a BY <1>p, <4>1, <2>2, <1>4, <1>e
      <4>3. Agrees(m, h) BY <4>1, <4>2 DEF Corner
      <4>4. Agrees(r, h) BY <1>p, <4>1, <4>3, <2>2, <1>e, <1>1, <1>2 DEF Agrees
      <4> QED BY <4>2, <4>4
    <3> QED BY <3>1, <3>2
  <2>5. x \in Fan(r, source) => r.next[x] = a \/ Hole(r, r.next[x])
    <3>1. SUFFICES ASSUME x \in Fan(r, source) PROVE Hole(r, r.next[x]) OBVIOUS
    <3>2. x \in Fan(m, source) BY <3>1, <2>1
    <3>3. m.next[x] # INVALID BY <1>p, <3>2, <2>2, <1>4
    <3>4. Hole(m, m.next[x]) BY <3>2, <3>3 DEF Corner
    <3> QED BY <1>p, <3>2, <3>4, <2>2, <1>1, <1>2
  <2>6. IF Fan(m, source) = {} THEN r.vertexHalfedge[source] = INVALID ELSE r.vertexHalfedge[source] \in Fan(m, source)
    BY <1>p DEF Corner
  <2> QED BY <2>1, <2>3, <2>4, <2>5, <2>6 DEF Corner
<1>8. Hole(r, t) BY <1>p, <1>1, <1>2
<1> QED BY <1>p, <1>e, <1>6, <1>7, <1>8 DEF JoinedCorners

\* The first half-edge to a vertex.
LEMMA JoinNewFirst ==
  ASSUME NEW m, IsMesh(m), m.fault = "none", Links(m),
         NEW f, NEW source \in Vertices, NEW target \in Vertices, source # target,
         NEW a, NEW t, NEW n, Extended(n, m, a, t, f, source, target),
         Extension(n, m, a, t, source, target),
         NEW x, Corner(m, source, Fan(m, source), x, INVALID), x # t,
         NEW G, NEW a0, a0 # t, Corner(m, target, G, INVALID, a0), m.vertexHalfedge[target] = INVALID
  PROVE  LET r == JoinTarget(n, a, FALSE, target)
         IN  Joined(r, m, f, source, target, a, G \cup {a}) /\ JoinedCorners(r, source, target, a, FALSE, G \cup {a}, x, a0)
<1> DEFINE r == JoinTarget(n, a, FALSE, target)
<1>e. /\ a \notin D(m) /\ t \notin D(m) /\ a # t /\ t = Twin(a) /\ a = Twin(t) /\ a \in Nat
      /\ D(n) = D(m) \cup {a, t} /\ n.next[a] = t /\ n.next[t] = a /\ DOMAIN n = DOMAIN m
      /\ n.vertex[a] = target /\ n.vertex[t] = source /\ n.face[a] = f /\ n.face[t] = INVALID
      /\ \A h \in D(m) : n.vertex[h] = m.vertex[h] /\ n.face[h] = m.face[h] /\ n.next[h] = m.next[h]
      /\ n.faceHalfedge = m.faceHalfedge /\ n.vertexHalfedge = m.vertexHalfedge /\ n.fault = m.fault
  BY DEF Extended
<1>1. /\ IsMesh(n) /\ Links(n)
      /\ ~Hole(n, a) /\ Hole(n, t) /\ \A h \in D(m) : Hole(n, h) <=> Hole(m, h)
      /\ Fan(n, target) = Fan(m, target) \cup {a}
      /\ VertexStep(n)[a] = a
      /\ \A h \in D(m) : Agrees(n, h) <=> Agrees(m, h)
  BY DEF Extension
<1>2. r = [n EXCEPT !.vertexHalfedge[target] = a] BY <1>e DEF JoinTarget, SetVertexHalfedge
<1>3. DOMAIN m = {"next", "vertex", "face", "vertexHalfedge", "faceHalfedge", "fault"} /\ m.vertexHalfedge \in [Vertices -> Nat]
      /\ m.next \in [D(m) -> D(m)] /\ INVALID \notin D(m)
  BY MeshFacts DEF IsMesh
<1> HIDE DEF r
<1>4. /\ DOMAIN r = DOMAIN m /\ r.next = n.next /\ r.vertex = n.vertex /\ r.face = n.face
      /\ r.faceHalfedge = n.faceHalfedge /\ r.fault = n.fault
      /\ r.vertexHalfedge = [n.vertexHalfedge EXCEPT ![target] = a]
  BY <1>2, <1>3, <1>e
<1>5. D(r) = D(n) /\ VertexStep(r) = VertexStep(n) BY <1>4 DEF D, VertexStep
<1>6. /\ \A h : Hole(r, h) <=> Hole(n, h)
      /\ \A h : Source(r, h) = Source(n, h)
      /\ \A v : Fan(r, v) = Fan(n, v)
      /\ \A h : Agrees(r, h) <=> Agrees(n, h)
  BY <1>4, <1>5 DEF Hole, Source, Fan, Agrees
<1>7. IsMesh(r)
  <2>1. r.vertexHalfedge \in [Vertices -> Nat] BY <1>3, <1>4, <1>e
  <2> QED BY <2>1, <1>1, <1>3, <1>4, <1>5, <1>6 DEF IsMesh
<1>8. Links(r) BY <1>1, <1>4, <1>5, <1>6 DEF Links
<1>9. G = {}
  <2>1. G \subseteq D(m) BY DEF Corner, Fan
  <2> QED BY <2>1, <1>3 DEF Corner
<1>10. r.vertexHalfedge[target] = a /\ \A v \in Vertices \ {target} : r.vertexHalfedge[v] = m.vertexHalfedge[v]
  BY <1>3, <1>4, <1>e
<1>11. Corner(r, target, {a}, a, a0)
  <2>1. OneCycle({a}, VertexStep(r)) BY DEF OneCycle
  <2>2. ASSUME NEW h \in Fan(r, target) \ {a} PROVE IF r.next[h] = a0 THEN Hole(r, h) ELSE Agrees(r, h)
    <3>1. h \in Fan(m, target) /\ h \in D(m) /\ h # INVALID BY <1>1, <1>3, <1>6 DEF Fan
    <3>2. IF m.next[h] = a0 THEN Hole(m, h) ELSE Agrees(m, h) BY <3>1 DEF Corner
    <3> QED BY <3>1, <3>2, <1>1, <1>4, <1>6, <1>e
  <2>3. Hole(r, r.next[a]) BY <1>1, <1>4, <1>6, <1>e
  <2> QED BY <2>1, <2>2, <2>3, <1>1, <1>6, <1>10 DEF Corner
<1>12. r.next[t] = a /\ \A h \in D(m) : r.next[h] = m.next[h] BY <1>4, <1>e
<1>13. r.fault = "none" /\ a \in {a} /\ G \cup {a} = {a} BY <1>4, <1>9, <1>e
<1>p. Placed(r, n, m, a, t, target, G \cup {a}) BY <1>4, <1>5, <1>7, <1>8, <1>10, <1>12, <1>13 DEF Placed
<1>14. Corner(r, target, G \cup {a}, a, a0) /\ a \in G \cup {a} BY <1>11, <1>13
<1>15. Joined(r, m, f, source, target, a, G \cup {a}) /\ JoinedCorners(r, source, target, a, FALSE, G \cup {a}, x, a0)
  BY <1>p, <1>14, JoinNewDone
<1> QED BY <1>15 DEF r

\* Behind a half-edge of a hole at the vertex; without one the edge is refused.
LEMMA JoinNewBehind ==
  ASSUME NEW m, IsMesh(m), m.fault = "none", Links(m),
         NEW f, NEW source \in Vertices, NEW target \in Vertices, source # target,
         NEW a, NEW t, NEW n, Extended(n, m, a, t, f, source, target),
         Extension(n, m, a, t, source, target),
         NEW x, Corner(m, source, Fan(m, source), x, INVALID), x # t,
         NEW G, NEW a0, a0 # t, Corner(m, target, G, INVALID, a0), Permutes(VertexStep(m), G),
         m.vertexHalfedge[target] # INVALID
  PROVE  LET r == JoinTarget(n, a, FALSE, target)
         IN  \/ r.fault # "none"
             \/ Joined(r, m, f, source, target, a, G \cup {a}) /\ JoinedCorners(r, source, target, a, FALSE, G \cup {a}, x, a0)
<1> DEFINE r == JoinTarget(n, a, FALSE, target)
           b == NextBoundaryEdge(n, n.vertexHalfedge[target])
<1>e. /\ a \notin D(m) /\ t \notin D(m) /\ a # t /\ t = Twin(a) /\ a = Twin(t) /\ a \in Nat
      /\ D(n) = D(m) \cup {a, t} /\ n.next[a] = t /\ n.next[t] = a /\ DOMAIN n = DOMAIN m
      /\ n.vertex[a] = target /\ n.vertex[t] = source /\ n.face[a] = f /\ n.face[t] = INVALID
      /\ \A h \in D(m) : n.vertex[h] = m.vertex[h] /\ n.face[h] = m.face[h] /\ n.next[h] = m.next[h]
      /\ n.faceHalfedge = m.faceHalfedge /\ n.vertexHalfedge = m.vertexHalfedge /\ n.fault = m.fault
  BY DEF Extended
<1>1. /\ IsMesh(n) /\ Links(n)
      /\ ~Hole(n, a) /\ Hole(n, t) /\ \A h \in D(m) : Hole(n, h) <=> Hole(m, h)
      /\ Fan(n, target) = Fan(m, target) \cup {a}
      /\ VertexStep(n)[a] = a
      /\ \A h \in D(m) : VertexStep(n)[h] = VertexStep(m)[h]
      /\ \A h \in D(m) : Agrees(n, h) <=> Agrees(m, h)
  BY DEF Extension
<1>2. r = JoinAt(n, b, a) BY <1>e DEF JoinTarget
<1>3. m.next \in [D(m) -> D(m)] /\ INVALID \notin D(m) /\ INVALID \notin D(n)
      /\ DOMAIN m = {"next", "vertex", "face", "vertexHalfedge", "faceHalfedge", "fault"}
  BY <1>1, MeshFacts DEF IsMesh
<1>4. G \subseteq D(m) /\ G \subseteq Fan(m, target) /\ m.vertexHalfedge[target] \in G BY DEF Corner, Fan
<1>5. Permutes(VertexStep(n), G) BY <1>1, <1>4 DEF Permutes
<1>6. CASE b = INVALID
  <2>1. ~Valid(n, b) BY <1>3, <1>6 DEF Valid, D
  <2>2. r = Fault(n, "throw") BY <1>2, <2>1 DEF JoinAt
  <2> HIDE DEF r
  <2>3. r.fault = "throw" BY <2>2, <1>3, <1>e DEF Fault
  <2> QED BY <2>3 DEF r
<1>7. CASE b # INVALID
  <2> DEFINE h0 == n.vertexHalfedge[target]
             s == VertexCycle(n, h0)
  <2>0. h0 \in G /\ G \subseteq D(n) BY <1>4, <1>e
  <2>1. IF \A e \in Visited(s) : ~Hole(n, e) THEN b = INVALID
        ELSE \E j \in DOMAIN s : b = s[j] /\ Hole(n, b) /\ \A i \in 1..(j - 1) : ~Hole(n, s[i])
    <3> HIDE DEF h0
    <3> QED BY <2>0, <1>1, <1>5, NextBoundaryEdgeFinds DEF h0
  <2>2. IsRound(s, VertexStep(n), G, h0)
    <3> HIDE DEF h0
    <3> QED BY <2>0, <1>1, <1>5, AroundVertex
  <2> HIDE DEF s, b, r
  <2>3. b \in G /\ Hole(n, b) BY <1>7, <2>1, <2>2 DEF IsRound
  <2>4. b \in D(m) /\ b \in D(n) /\ Hole(m, b) /\ b \in Fan(m, target) /\ b # a /\ b # t BY <2>3, <1>1, <1>4, <1>e
  <2> DEFINE q == Link(n, a, n.next[b])
  <2>5. r = Link(q, b, t)
    <3>1. Valid(n, b) BY <2>4, <1>1, MeshFacts
    <3> QED BY <3>1, <1>2, <1>e DEF JoinAt, InsertAfter
  <2>6. n.next[b] \in D(n) /\ n.next[b] = m.next[b] /\ m.next[b] \in D(m) BY <2>4, <1>3, <1>e
  <2>7. Relinked(q, n) /\ q.next = [n.next EXCEPT ![a] = n.next[b]] /\ q.next \in [D(n) -> D(n)]
    <3>1. a \in D(n) /\ n.fault = "none" BY <1>e
    <3> QED BY <3>1, <2>6, <1>1, LinkDoes
  <2> HIDE DEF q
  <2>8. IsMesh(q) /\ D(q) = D(n) /\ q.fault = "none"
    <3>1. Relinked(q, n) /\ q.next \in [D(n) -> D(n)] /\ IsMesh(n) BY <2>7, <1>1
    <3>2. IsMesh(q) /\ D(q) = D(n) BY <3>1, RelinkedMesh
    <3> QED BY <3>1, <3>2, <1>e DEF Relinked
  <2>9. Relinked(r, q) /\ r.next = [q.next EXCEPT ![b] = t] /\ r.next \in [D(n) -> D(n)]
    <3>1. t \in D(n) BY <1>e
    <3> QED BY <3>1, <2>4, <2>5, <2>8, LinkDoes
  <2>10. Relinked(r, n) BY <2>7, <2>9 DEF Relinked
  <2>11. r.next[a] = m.next[b] /\ r.next[b] = t /\ r.next[t] = a /\ \A h \in D(m) \ {b} : r.next[h] = m.next[h]
    <3>1. n.next \in [D(n) -> D(n)] BY <1>1 DEF IsMesh
    <3> QED BY <3>1, <2>4, <2>6, <2>7, <2>9, <1>e
  <2>12. /\ IsMesh(r) /\ D(r) = D(n)
         /\ \A h : Source(r, h) = Source(n, h)
         /\ \A h : Hole(r, h) <=> Hole(n, h)
         /\ \A v : Fan(r, v) = Fan(n, v)
    BY <2>9, <2>10, <1>1, RelinkedMesh
  <2>13. Links(r)
    <3> DEFINE F == Fan(n, target)
    <3>1. a \in F /\ b \in F /\ F \subseteq D(n) /\ t \notin F BY <2>4, <1>1, <1>e DEF Fan
    <3>2. \A h \in D(n) \ F : r.next[h] = n.next[h] BY <3>1, <2>11, <1>e
    <3>3. r.next[a] = n.next[b] /\ r.next[b] = n.next[a] /\ \A h \in F \ {a, b} : r.next[h] = n.next[h]
      BY <3>1, <2>6, <2>11, <1>e
    <3>4. \A h \in F : \E g \in F : r.next[h] = n.next[g] BY <3>1, <3>3
    <3>5. \A g, h \in F : n.next[g] = n.next[h] => g = h BY <3>1, <1>1 DEF Links
    <3>6. \A g, h \in F : r.next[g] = r.next[h] => g = h BY <3>1, <3>3, <3>5
    <3> QED BY <3>2, <3>4, <3>6, <2>9, <2>10, <1>1, RelinkedAt
  <2>14. /\ VertexStep(r)[b] = a /\ VertexStep(r)[a] = VertexStep(m)[b]
         /\ \A h \in G : h # b => VertexStep(r)[h] = VertexStep(m)[h]
    <3>1. \A h \in D(r) : VertexStep(r)[h] = Twin(r.next[h]) BY <2>12, <2>13, StepFacts
    <3>2. \A h \in D(m) : VertexStep(m)[h] = Twin(m.next[h]) BY StepFacts
    <3> QED BY <3>1, <3>2, <2>4, <2>11, <2>12, <1>4, <1>e
  <2>15. OneCycle(G \cup {a}, VertexStep(r))
    <3>1. OneCycle(G, VertexStep(m)) /\ a \notin G BY <1>4, <1>e DEF Corner
    <3> QED BY <3>1, <2>3, <2>14, CycleGrows
  <2>16. r.vertexHalfedge = m.vertexHalfedge /\ r.vertex = n.vertex /\ r.face = n.face /\ r.faceHalfedge = n.faceHalfedge
         /\ r.fault = "none"
    BY <2>10, <1>e DEF Relinked
  <2>17. ASSUME NEW h \in Fan(r, target) \ {a} PROVE IF r.next[h] = a0 THEN Hole(r, h) ELSE Agrees(r, h)
    <3>1. h \in Fan(m, target) /\ h \in D(m) /\ h # INVALID /\ m.next[h] \in D(m) BY <2>12, <1>1, <1>3 DEF Fan
    <3>2. CASE h = b
      <4>1. Hole(r, b) /\ Hole(r, t) BY <2>3, <2>12, <1>1
      <4> QED BY <4>1, <3>2, <2>11 DEF Agrees
    <3>3. CASE h # b
      <4>1. IF m.next[h] = a0 THEN Hole(m, h) ELSE Agrees(m, h) BY <3>1 DEF Corner
      <4>2. r.next[h] = m.next[h] BY <3>1, <3>3, <2>11
      <4>3. Agrees(m, h) => Agrees(r, h) BY <4>2, <3>1, <2>12, <2>16, <1>1, <1>e DEF Agrees
      <4> QED BY <4>1, <4>2, <4>3, <3>1, <2>12, <1>1
    <3> QED BY <3>2, <3>3
  <2>18. r.next[a] = a0 \/ Hole(r, r.next[a])
    <3>1. SUFFICES ASSUME m.next[b] # a0 PROVE Hole(m, m.next[b]) BY <2>6, <2>11, <2>12, <1>1
    <3>2. b # INVALID BY <2>4, <1>3
    <3>3. Agrees(m, b) BY <3>1, <3>2, <2>4 DEF Corner
    <3> QED BY <3>3, <2>4 DEF Agrees, Hole
  <2>19. Corner(r, target, G \cup {a}, a, a0)
    <3>1. G \cup {a} \subseteq Fan(r, target) BY <1>1, <1>4, <2>12
    <3> QED BY <3>1, <2>15, <2>16, <2>17, <2>18, <1>4 DEF Corner
  <2>20. \A h \in D(m) : r.next[h] = m.next[h] \/ (h \in G /\ Hole(m, h)) BY <2>3, <2>4, <2>11
  <2>21. Joined(r, m, f, source, target, a, G \cup {a}) /\ JoinedCorners(r, source, target, a, FALSE, G \cup {a}, x, a0)
    <3>1. Placed(r, n, m, a, t, target, G \cup {a}) BY <2>11, <2>12, <2>13, <2>16, <2>20 DEF Placed
    <3>2. a \in G \cup {a} OBVIOUS
    <3> QED BY <3>1, <3>2, <2>19, JoinNewDone
  <2> QED BY <2>21 DEF r
<1> QED BY <1>6, <1>7

\* A face that comes to source with x gets an edge to target, between the half-edges G.
Begun(m, f, source, target, x, G, a0) ==
  /\ IsMesh(m) /\ m.fault = "none" /\ Links(m) /\ Edges(m)
  /\ f \in DOMAIN m.faceHalfedge /\ source \in Vertices /\ target \in Vertices /\ source # target
  /\ x \in D(m) \cup {INVALID} /\ a0 \in D(m) \cup {INVALID}
  /\ x \in D(m) => x \in Fan(m, source) /\ m.face[x] = f
  /\ Corner(m, source, Fan(m, source), x, INVALID)
  /\ Corner(m, target, G, INVALID, a0) /\ Permutes(VertexStep(m), G)
  /\ \A h \in Fan(m, target) : Source(m, h) = source => h \in G

\* A face id is no hole and not INVALID.
LEMMA OpenFace ==
  ASSUME NEW m, IsMesh(m), NEW f \in DOMAIN m.faceHalfedge
  PROVE  f \in Nat /\ ~(f > MaxFaces) /\ f # INVALID
<1>1. PICK k \in 0..MaxFaces : m.faceHalfedge \in [0..(k - 1) -> Nat] BY DEF IsMesh
<1>2. f \in 0..(k - 1) BY <1>1
<1>3. MaxFaces \in Nat /\ INVALID \in Nat /\ INVALID > MaxFaces BY MeshFacts
<1> QED BY <1>1, <1>2, <1>3

\* The first half of add_edge_internal, in each of its cases.
LEMMA EdgeJoined ==
  ASSUME NEW m, NEW f, NEW source, NEW target, NEW x, NEW G, NEW a0, Begun(m, f, source, target, x, G, a0),
         HalfedgeCount(m) + 2 <= MaxHalfedges
  PROVE  LET new == CreateHalfedge(m, f, source, target)
             r == JoinTarget(new.mesh, new.added, new.existed, target)
         IN  \/ r.fault # "none"
             \/ /\ Joined(r, m, f, source, target, new.added, G \cup {new.added})
                /\ JoinedCorners(r, source, target, new.added, new.existed, G \cup {new.added}, x, a0)
<1> DEFINE new == CreateHalfedge(m, f, source, target)
           n == new.mesh
           a == new.added
           r == JoinTarget(n, a, new.existed, target)
<1>b. /\ IsMesh(m) /\ m.fault = "none" /\ Links(m) /\ Edges(m)
      /\ f \in DOMAIN m.faceHalfedge /\ source \in Vertices /\ target \in Vertices /\ source # target
      /\ x \in D(m) \cup {INVALID} /\ a0 \in D(m) \cup {INVALID} /\ (x \in D(m) => m.face[x] = f)
      /\ Corner(m, source, Fan(m, source), x, INVALID)
      /\ Corner(m, target, G, INVALID, a0) /\ Permutes(VertexStep(m), G)
      /\ \A h \in Fan(m, target) : Source(m, h) = source => h \in G
  BY DEF Begun
<1>1. \/ n.fault # "none"
      \/ /\ new.existed = TRUE /\ a \in D(m)
         /\ Source(m, a) = source /\ m.vertex[a] = target /\ m.face[a] = INVALID
         /\ Marked(n, m, a, f)
      \/ /\ new.existed = FALSE
         /\ \A h \in D(m) : {Source(m, h), m.vertex[h]} # {source, target}
         /\ Extended(n, m, a, Twin(a), f, source, target)
         /\ \E j \in Nat : 2 * j <= MaxHalfedges /\ D(n) = 0..(2 * j - 1)
  <2>1. Created(new, m, f, source, target)
    <3>1. IsMesh(m) /\ Links(m) /\ Edges(m) /\ m.fault = "none" BY <1>b
    <3>2. Corner(m, source, Fan(m, source), x, INVALID) BY <1>b
    <3>3. source \in Vertices /\ target \in Vertices /\ source # target BY <1>b
    <3> HIDE <1>b
    <3> QED BY <3>1, <3>2, <3>3, CreateDoes
  <2> HIDE DEF new
  <2> QED BY <2>1 DEF Created
<1> HIDE DEF new, n, a
<1>2. CASE n.fault # "none"
  <2>1. r = n BY <1>2 DEF JoinTarget
  <2> QED BY <2>1, <1>2 DEF n, a, new
<1>3. CASE /\ new.existed = TRUE /\ a \in D(m)
           /\ Source(m, a) = source /\ m.vertex[a] = target /\ m.face[a] = INVALID
           /\ Marked(n, m, a, f)
  <2>1. a \in Fan(m, target) BY <1>3 DEF Fan
  <2>2. a \in G /\ G \cup {a} = G BY <2>1, <1>3, <1>b
  <2>3. m.vertexHalfedge[target] # INVALID
    <3>1. m.vertexHalfedge[target] \in D(m) BY <2>2, <1>b DEF Corner, Fan
    <3> QED BY <3>1, <1>b, MeshFacts
  <2>4. r = n BY <2>3, <1>3 DEF JoinTarget, Marked
  <2>5. x \in D(m) => ~Hole(m, x)
    <3>1. ~(f > MaxFaces) BY <1>b, OpenFace
    <3> QED BY <3>1, <1>b DEF Hole
  <2>6. Joined(n, m, f, source, target, a, G) /\ JoinedCorners(n, source, target, a, TRUE, G, x, a0)
    <3> USE <1>b
    <3> QED BY <2>2, <2>5, <1>3, JoinMarked
  <2>7. /\ Joined(r, m, f, source, target, a, G \cup {a})
        /\ JoinedCorners(r, source, target, a, new.existed, G \cup {a}, x, a0)
    BY <2>2, <2>4, <2>6, <1>3
  <2> HIDE DEF r
  <2>8. r.fault # "none" \/ (/\ Joined(r, m, f, source, target, a, G \cup {a})
                             /\ JoinedCorners(r, source, target, a, new.existed, G \cup {a}, x, a0))
    BY <2>7
  <2> QED BY <2>8 DEF n, a, new, r
<1>4. CASE /\ new.existed = FALSE
           /\ \A h \in D(m) : {Source(m, h), m.vertex[h]} # {source, target}
           /\ Extended(n, m, a, Twin(a), f, source, target)
           /\ \E j \in Nat : 2 * j <= MaxHalfedges /\ D(n) = 0..(2 * j - 1)
  <2> DEFINE t == Twin(a)
  <2>1. Extended(n, m, a, t, f, source, target) BY <1>4
  <2>2. Extension(n, m, a, t, source, target) BY <2>1, <1>4, <1>b, ExtendedMesh
  <2>3. x # t /\ a0 # t
    <3>1. t \notin D(m) /\ t \in D(n) BY <2>1 DEF Extended
    <3>2. IsMesh(n) BY <2>2 DEF Extension
    <3>3. INVALID \notin D(n) BY <3>2, MeshFacts
    <3> QED BY <3>1, <3>3, <1>b
  <2> HIDE DEF t
  <2>4. \/ r.fault # "none"
        \/ Joined(r, m, f, source, target, a, G \cup {a}) /\ JoinedCorners(r, source, target, a, FALSE, G \cup {a}, x, a0)
    <3>0. r = JoinTarget(n, a, FALSE, target) BY <1>4
    <3>1. CASE m.vertexHalfedge[target] = INVALID
      <4> DEFINE q == JoinTarget(n, a, FALSE, target)
      <4>1. Joined(q, m, f, source, target, a, G \cup {a}) /\ JoinedCorners(q, source, target, a, FALSE, G \cup {a}, x, a0)
        <5> HIDE DEF r
        <5> QED BY <1>b, <3>1, <2>1, <2>2, <2>3, JoinNewFirst, ZenonT(60)
      <4> QED BY <4>1, <3>0
    <3>2. CASE m.vertexHalfedge[target] # INVALID BY <3>0, <3>2, <2>1, <2>2, <2>3, <1>b, JoinNewBehind
    <3> QED BY <3>1, <3>2
  <2> QED BY <2>4, <1>4 DEF n, a, new
<1> QED BY <1>1, <1>2, <1>3, <1>4

-----------------------------------------------------------------------------
\* Nothing is left to do at v, but a part of its half-edges may be cut off.
Passed(m, v) ==
  /\ OneCycle(Fan(m, v), VertexStep(m)) \/ CutAt(m, v)
  /\ m.vertexHalfedge[v] \in Fan(m, v)
  /\ \A h \in Fan(m, v) : Agrees(m, h)

\* The mesh r after add_edge_internal has added a.
Grown(r, m, f, source, target, a, existed, x, G, a0) ==
  /\ IsMesh(r) /\ Links(r) /\ Edges(r) /\ r.fault = "none" /\ existed \in BOOLEAN
  /\ a \in D(r) /\ Source(r, a) = source /\ r.vertex[a] = target /\ r.face[a] = f /\ (a \in D(m) => Hole(m, a))
  /\ \A h \in D(m) : /\ h \in D(r) /\ r.vertex[h] = m.vertex[h] /\ Source(r, h) = Source(m, h)
                     /\ (h # a => r.face[h] = m.face[h])
                     /\ (r.next[h] = m.next[h] \/ h = x \/ (Hole(m, h) /\ h \in G \cup Fan(m, source)))
  /\ \A h \in D(r) \ D(m) : h = a \/ (h = Twin(a) /\ Hole(r, h))
  /\ \A v \in Vertices \ {source, target} : SameAt(r, m, v)
  /\ r.faceHalfedge = IF m.faceHalfedge[f] = INVALID THEN [m.faceHalfedge EXCEPT ![f] = a] ELSE m.faceHalfedge
  /\ Corner(r, target, G \cup {a}, a, a0)
  /\ IF x = INVALID
     THEN /\ Corner(r, source, IF existed THEN Fan(r, source) ELSE Fan(r, source) \ {Twin(a)}, INVALID, a)
          /\ IF existed THEN ~Hole(r, Twin(a)) ELSE Hole(r, Twin(a)) /\ r.next[Twin(a)] = a
     ELSE Passed(r, source)

\* What the face had last is linked to the new half-edge.
LEMMA SewnBehind ==
  ASSUME NEW m, NEW f, NEW source, NEW target, NEW x \in D(m), NEW G, NEW a0, Begun(m, f, source, target, x, G, a0),
         NEW a, NEW existed, NEW G2, NEW r, Joined(r, m, f, source, target, a, G2),
         JoinedCorners(r, source, target, a, existed, G2, x, a0)
  PROVE  Sewn(Link(InsertionFixup(r, a, m.next[x], existed), x, a), r, source, x, a)
<1>1. /\ x \in Fan(m, source) /\ m.face[x] = f /\ IsMesh(m) /\ f \in DOMAIN m.faceHalfedge BY MeshFacts DEF Begun
<1>2. ~(f > MaxFaces) BY <1>1, OpenFace
<1>3. ~Hole(m, x) BY <1>1, <1>2 DEF Hole
<1>4. /\ IsMesh(r) /\ r.fault = "none" /\ Links(r) /\ a \in D(r) /\ Source(r, a) = source /\ r.face[a] = f
      /\ (a \in D(m) => Hole(m, a)) /\ r.vertex[x] = m.vertex[x] /\ x \in D(r) /\ (x # a => r.face[x] = m.face[x])
      /\ r.next[x] = m.next[x]
  BY <1>3 DEF Joined
<1>5. x \in Fan(r, source) /\ r.face[x] = r.face[a] /\ ~Hole(r, a) /\ x # a BY <1>1, <1>2, <1>3, <1>4 DEF Fan, Hole
<1>6. /\ existed \in BOOLEAN
      /\ Corner(r, source, IF existed THEN Fan(r, source) ELSE Fan(r, source) \ {Twin(a)}, x, a)
      /\ IF existed THEN ~Hole(r, Twin(a)) ELSE x # Twin(a) /\ r.next[Twin(a)] = a /\ Hole(r, Twin(a))
  BY DEF JoinedCorners
<1>7. Sewn(Link(InsertionFixup(r, a, r.next[x], existed), x, a), r, source, x, a)
  BY <1>4, <1>5, <1>6, CornerIsSewn
<1> QED BY <1>4, <1>7

\* The face gets to know its first half-edge.
Known(s, q, f, a) ==
  /\ DOMAIN s = DOMAIN q /\ s.next = q.next /\ s.vertex = q.vertex /\ s.face = q.face
  /\ s.vertexHalfedge = q.vertexHalfedge /\ s.fault = q.fault
  /\ s.faceHalfedge = IF q.faceHalfedge[f] = INVALID THEN [q.faceHalfedge EXCEPT ![f] = a] ELSE q.faceHalfedge

\* The end of add_edge_internal: the face is given its first half-edge.
LEMMA FirstOfFaceDoes ==
  ASSUME NEW q, IsMesh(q), q.fault = "none", NEW f \in DOMAIN q.faceHalfedge, NEW a \in D(q)
  PROVE  /\ Known(FirstOfFace(q, f, a), q, f, a)
         /\ IsMesh(FirstOfFace(q, f, a))
<1> DEFINE s == FirstOfFace(q, f, a)
<1>1. DOMAIN q = {"next", "vertex", "face", "vertexHalfedge", "faceHalfedge", "fault"} BY DEF IsMesh
<1>2. s = IF q.faceHalfedge[f] = INVALID THEN [q EXCEPT !.faceHalfedge[f] = a] ELSE q
  BY DEF FirstOfFace, SetFaceHalfedge
<1> HIDE DEF s
<1>3. Known(s, q, f, a) BY <1>1, <1>2 DEF Known
<1>4. D(s) = D(q) /\ \A h : Hole(s, h) <=> Hole(q, h) BY <1>3 DEF Known, D, Hole
<1>5. a \in Nat BY MeshFacts
<1>6. PICK k \in 0..MaxFaces :
        /\ q.faceHalfedge \in [0..(k - 1) -> Nat]
        /\ \A h \in D(q) : q.face[h] \in 0..(k - 1) \/ Hole(q, h)
  BY DEF IsMesh
<1>7. s.faceHalfedge \in [0..(k - 1) -> Nat] BY <1>3, <1>5, <1>6 DEF Known
<1>8. \A h \in D(s) : s.face[h] \in 0..(k - 1) \/ Hole(s, h) BY <1>3, <1>4, <1>6 DEF Known
<1>9. IsMesh(s) BY <1>3, <1>4, <1>7, <1>8 DEF Known, IsMesh
<1> QED BY <1>3, <1>9 DEF s

\* Nothing but m_faceHalfedges has changed then.
LEMMA KnownFacts ==
  ASSUME NEW s, NEW q, NEW f, NEW a, Known(s, q, f, a)
  PROVE  /\ D(s) = D(q) /\ VertexStep(s) = VertexStep(q)
         /\ \A h : Hole(s, h) <=> Hole(q, h)
         /\ \A h : Source(s, h) = Source(q, h)
         /\ \A v : Fan(s, v) = Fan(q, v)
         /\ \A h : Agrees(s, h) <=> Agrees(q, h)
         /\ \A v, g, x, b : Corner(q, v, g, x, b) => Corner(s, v, g, x, b)
         /\ \A v : Passed(q, v) => Passed(s, v)
         /\ Links(q) => Links(s)
         /\ Edges(q) => Edges(s)
<1>1. D(s) = D(q) /\ VertexStep(s) = VertexStep(q) BY DEF D, VertexStep, Known
<1>2. /\ \A h : Hole(s, h) <=> Hole(q, h)
      /\ \A h : Source(s, h) = Source(q, h)
      /\ \A v : Fan(s, v) = Fan(q, v)
      /\ \A h : Agrees(s, h) <=> Agrees(q, h)
  BY <1>1 DEF Hole, Source, Fan, Agrees, Known
<1>3. s.next = q.next /\ s.vertexHalfedge = q.vertexHalfedge /\ s.vertex = q.vertex BY DEF Known
<1>4. ASSUME NEW v, NEW g, NEW x, NEW b, Corner(q, v, g, x, b) PROVE Corner(s, v, g, x, b)
  BY <1>1, <1>2, <1>3, <1>4 DEF Corner
<1>5. ASSUME NEW v, Passed(q, v) PROVE Passed(s, v) BY <1>1, <1>2, <1>3, <1>5 DEF Passed, CutAt
<1>6. Links(q) => Links(s) BY <1>1, <1>2, <1>3 DEF Links
<1>7. Edges(q) => Edges(s) BY <1>1, <1>2, <1>3 DEF Edges
<1> QED BY <1>1, <1>2, <1>4, <1>5, <1>6, <1>7

\* What the two halves of add_edge_internal leave.
LEMMA GrownIf ==
  ASSUME NEW m, NEW f, NEW source, NEW target, NEW x, NEW G, NEW a0, Begun(m, f, source, target, x, G, a0),
         NEW a, NEW existed, NEW r, Joined(r, m, f, source, target, a, G \cup {a}),
         JoinedCorners(r, source, target, a, existed, G \cup {a}, x, a0),
         NEW q, IF x = INVALID THEN q = r ELSE Sewn(q, r, source, x, a),
         NEW s, Known(s, q, f, a), IsMesh(s)
  PROVE  Grown(s, m, f, source, target, a, existed, x, G, a0)
<1>b. IsMesh(m) /\ x \in D(m) \cup {INVALID} /\ source # target /\ (x \in D(m) => x \in Fan(m, source))
      /\ source \in Vertices /\ target \in Vertices /\ INVALID \notin D(m)
  BY MeshFacts DEF Begun
<1>j. /\ IsMesh(r) /\ Links(r) /\ Edges(r) /\ r.fault = "none"
      /\ r.faceHalfedge = m.faceHalfedge
      /\ a \in D(r) /\ Source(r, a) = source /\ r.vertex[a] = target /\ r.face[a] = f
      /\ (a \in D(m) => Hole(m, a))
      /\ \A h \in D(m) : /\ h \in D(r) /\ r.vertex[h] = m.vertex[h] /\ Source(r, h) = Source(m, h)
                         /\ (h # a => r.face[h] = m.face[h])
                         /\ (r.next[h] = m.next[h] \/ (h \in G \cup {a} /\ Hole(m, h)))
      /\ \A h \in D(r) \ D(m) : h = a \/ (h = Twin(a) /\ Hole(r, h))
      /\ \A v \in Vertices \ {source, target} : SameAt(r, m, v)
  BY DEF Joined
<1>c. /\ existed \in BOOLEAN
      /\ Corner(r, source, IF existed THEN Fan(r, source) ELSE Fan(r, source) \ {Twin(a)}, x, a)
      /\ IF existed THEN ~Hole(r, Twin(a)) ELSE x # Twin(a) /\ r.next[Twin(a)] = a /\ Hole(r, Twin(a))
      /\ Corner(r, target, G \cup {a}, a, a0)
  BY DEF JoinedCorners
<1>1. /\ Relinked(q, r) /\ Links(q) /\ q.next \in [D(r) -> D(r)]
      /\ \A h \in D(r) : q.next[h] = r.next[h] \/ h = x \/ (h \in Fan(r, source) /\ Hole(r, h))
  <2>1. CASE x = INVALID BY <2>1, <1>j DEF Relinked, IsMesh
  <2>2. CASE x # INVALID BY <2>2 DEF Sewn
  <2> QED BY <2>1, <2>2
<1>2. /\ D(q) = D(r) /\ \A h : Source(q, h) = Source(r, h)
      /\ \A h : Hole(q, h) <=> Hole(r, h)
      /\ \A v : Fan(q, v) = Fan(r, v)
      /\ IsMesh(q)
  <2> USE <1>1, <1>j
  <2> QED BY RelinkedMesh
<1>3. q.vertex = r.vertex /\ q.face = r.face /\ q.vertexHalfedge = r.vertexHalfedge /\ q.fault = r.fault
      /\ q.faceHalfedge = r.faceHalfedge
  BY <1>1 DEF Relinked
<1>4. INVALID \notin D(r) BY <1>j, MeshFacts
<1>5. ASSUME NEW v \in Vertices \ {source} PROVE SameAt(q, r, v)
  <2>1. ASSUME NEW h \in Fan(r, v) PROVE q.next[h] = r.next[h]
    <3>1. h \in D(r) /\ h \notin Fan(r, source) /\ h # INVALID BY <1>4 DEF Fan
    <3>2. x \in D(m) => x \in Fan(r, source) BY <1>b, <1>j DEF Fan
    <3> QED BY <3>1, <3>2, <1>1, <1>b
  <2> QED BY <2>1, <1>2, <1>3 DEF SameAt
<1>6. Corner(q, target, G \cup {a}, a, a0)
  <2>1. SameAt(q, r, target) BY <1>5, <1>b
  <2> QED BY <2>1, <1>c, SameCorner
<1>7. ASSUME NEW v \in Vertices \ {source, target} PROVE SameAt(q, m, v)
  <2>1. SameAt(q, r, v) /\ SameAt(r, m, v) BY <1>5, <1>j
  <2> QED BY <2>1 DEF SameAt
<1>8. IF x = INVALID
      THEN /\ Corner(q, source, IF existed THEN Fan(q, source) ELSE Fan(q, source) \ {Twin(a)}, INVALID, a)
           /\ IF existed THEN ~Hole(q, Twin(a)) ELSE Hole(q, Twin(a)) /\ q.next[Twin(a)] = a
      ELSE Passed(q, source)
  <2>1. CASE x = INVALID
    <3>1. q = r BY <2>1
    <3>2. Corner(r, source, IF existed THEN Fan(r, source) ELSE Fan(r, source) \ {Twin(a)}, INVALID, a) BY <2>1, <1>c
    <3>3. IF existed THEN ~Hole(r, Twin(a)) ELSE Hole(r, Twin(a)) /\ r.next[Twin(a)] = a BY <1>c
    <3> QED BY <3>1, <3>2, <3>3, <2>1
  <2>2. CASE x # INVALID
    <3>1. Sewn(q, r, source, x, a) /\ x \in D(m) BY <2>2, <1>b
    <3>2. OneCycle(Fan(q, source), VertexStep(q)) \/ CutAt(q, source) BY <3>1, <1>2 DEF Sewn
    <3>3. \A h \in Fan(q, source) : Agrees(q, h) BY <3>1, <1>2 DEF Sewn
    <3>4. x \in Fan(r, source) BY <3>1, <1>b, <1>j DEF Fan
    <3>5. r.vertexHalfedge[source] \in Fan(r, source)
      <4>1. CASE existed BY <4>1, <3>4, <1>c DEF Corner
      <4>2. CASE ~existed
        <5>1. Corner(r, source, Fan(r, source) \ {Twin(a)}, x, a) /\ x # Twin(a) BY <4>2, <1>c
        <5> QED BY <5>1, <3>4 DEF Corner
      <4> QED BY <4>1, <4>2
    <3> QED BY <2>2, <3>2, <3>3, <3>5, <1>2, <1>3 DEF Passed
  <2> QED BY <2>1, <2>2
<1>9. \A h \in D(m) : /\ h \in D(q) /\ q.vertex[h] = m.vertex[h] /\ Source(q, h) = Source(m, h)
                      /\ (h # a => q.face[h] = m.face[h])
                      /\ (q.next[h] = m.next[h] \/ h = x \/ (Hole(m, h) /\ h \in G \cup Fan(m, source)))
  <2> SUFFICES ASSUME NEW h \in D(m)
               PROVE  /\ h \in D(q) /\ q.vertex[h] = m.vertex[h] /\ Source(q, h) = Source(m, h)
                      /\ (h # a => q.face[h] = m.face[h])
                      /\ (q.next[h] = m.next[h] \/ h = x \/ (Hole(m, h) /\ h \in G \cup Fan(m, source)))
    OBVIOUS
  <2>1. /\ h \in D(q) /\ q.vertex[h] = m.vertex[h] /\ Source(q, h) = Source(m, h)
        /\ (h # a => q.face[h] = m.face[h])
    BY <1>2, <1>3, <1>j
  <2>2. a \in D(m) => Source(m, a) = source /\ m.vertex[a] = target BY <1>j
  <2>3. CASE h = a
    <3>1. h \notin Fan(r, source) BY <2>3, <1>j, <1>b DEF Fan
    <3>2. q.next[h] = r.next[h] \/ h = x BY <3>1, <1>1, <1>j
    <3>3. Corner(m, target, G, INVALID, a0) /\ \A e \in Fan(m, target) : Source(m, e) = source => e \in G BY DEF Begun
    <3>4. a \in G BY <2>2, <2>3, <3>3 DEF Fan
    <3> QED BY <2>1, <2>3, <3>2, <3>4, <1>j
  <2>4. CASE h # a
    <3>1. r.next[h] = m.next[h] \/ (h \in G /\ Hole(m, h)) BY <2>4, <1>j
    <3>2. q.next[h] = r.next[h] \/ h = x \/ (h \in Fan(m, source) /\ Hole(m, h))
      <4>1. (h \in Fan(r, source) => h \in Fan(m, source)) /\ (Hole(r, h) <=> Hole(m, h)) BY <2>4, <1>j DEF Fan, Hole
      <4> QED BY <4>1, <1>1, <1>j
    <3> QED BY <2>1, <3>1, <3>2
  <2> QED BY <2>3, <2>4
<1>10. \A h \in D(q) \ D(m) : h = a \/ (h = Twin(a) /\ Hole(q, h)) BY <1>2, <1>j
<1>11. Links(q) /\ Edges(q) /\ q.fault = "none" BY <1>1, <1>2, <1>3, <1>j DEF Edges
<1>12. /\ D(s) = D(q)
       /\ \A h : Hole(s, h) <=> Hole(q, h)
       /\ \A h : Source(s, h) = Source(q, h)
       /\ \A v : Fan(s, v) = Fan(q, v)
       /\ Links(s) /\ Edges(s)
       /\ Corner(s, target, G \cup {a}, a, a0)
       /\ Passed(q, source) => Passed(s, source)
       /\ x = INVALID => Corner(s, source, IF existed THEN Fan(s, source) ELSE Fan(s, source) \ {Twin(a)}, INVALID, a)
  <2>1. /\ D(s) = D(q)
        /\ \A h : Hole(s, h) <=> Hole(q, h)
        /\ \A h : Source(s, h) = Source(q, h)
        /\ \A v : Fan(s, v) = Fan(q, v)
        /\ \A v, g, y, b : Corner(q, v, g, y, b) => Corner(s, v, g, y, b)
        /\ Passed(q, source) => Passed(s, source)
        /\ Links(s) /\ Edges(s)
    BY <1>11, KnownFacts
  <2> QED BY <2>1, <1>6, <1>8
<1>13. /\ s.next = q.next /\ s.vertex = q.vertex /\ s.face = q.face
       /\ s.vertexHalfedge = q.vertexHalfedge /\ s.fault = q.fault
       /\ s.faceHalfedge = IF m.faceHalfedge[f] = INVALID THEN [m.faceHalfedge EXCEPT ![f] = a] ELSE m.faceHalfedge
  BY <1>3, <1>j DEF Known
<1>14. \A v \in Vertices \ {source, target} : SameAt(s, m, v) BY <1>7, <1>12, <1>13 DEF SameAt
<1>15. IF x = INVALID
       THEN /\ Corner(s, source, IF existed THEN Fan(s, source) ELSE Fan(s, source) \ {Twin(a)}, INVALID, a)
            /\ IF existed THEN ~Hole(s, Twin(a)) ELSE Hole(s, Twin(a)) /\ s.next[Twin(a)] = a
       ELSE Passed(s, source)
  BY <1>8, <1>12, <1>13
<1>16. /\ a \in D(s) /\ Source(s, a) = source /\ s.vertex[a] = target /\ s.face[a] = f /\ (a \in D(m) => Hole(m, a))
       /\ s.fault = "none"
  BY <1>2, <1>3, <1>j, <1>12, <1>13
<1>17. \A h \in D(m) : /\ h \in D(s) /\ s.vertex[h] = m.vertex[h] /\ Source(s, h) = Source(m, h)
                       /\ (h # a => s.face[h] = m.face[h])
                       /\ (s.next[h] = m.next[h] \/ h = x \/ (Hole(m, h) /\ h \in G \cup Fan(m, source)))
  BY <1>9, <1>12, <1>13
<1>18. \A h \in D(s) \ D(m) : h = a \/ (h = Twin(a) /\ Hole(s, h)) BY <1>10, <1>12
<1>19. Corner(s, target, G \cup {a}, a, a0) BY <1>12
<1> QED BY <1>c, <1>12, <1>13, <1>14, <1>15, <1>16, <1>17, <1>18, <1>19 DEF Grown

\* add_edge_internal, for a face that had x last.
LEMMA EdgeAdded ==
  ASSUME NEW m, NEW f, NEW source, NEW target, NEW x, NEW G, NEW a0, Begun(m, f, source, target, x, G, a0),
         HalfedgeCount(m) + 2 <= MaxHalfedges,
         NEW i, i.face = f, i.previous = x, i.expectedNext = IF x = INVALID THEN INVALID ELSE m.next[x]
  PROVE  LET new == CreateHalfedge(m, f, source, target)
             s == JoinPrevious(JoinTarget(new.mesh, new.added, new.existed, target), new.added, new.existed, i)
         IN  s.fault # "none" \/ Grown(s, m, f, source, target, new.added, new.existed, x, G, a0)
<1> DEFINE new == CreateHalfedge(m, f, source, target)
           a == new.added
           existed == new.existed
           r == JoinTarget(new.mesh, a, existed, target)
           q == LinkPrevious(InsertionFixup(r, a, i.expectedNext, existed), x, a)
           s == JoinPrevious(r, a, existed, i)
<1>1. \/ r.fault # "none"
      \/ Joined(r, m, f, source, target, a, G \cup {a}) /\ JoinedCorners(r, source, target, a, existed, G \cup {a}, x, a0)
  BY EdgeJoined
<1>2. s = FirstOfFace(q, f, a) BY DEF JoinPrevious
<1> HIDE DEF s, r, a, existed, new
<1>3. CASE r.fault # "none"
  <2>1. InsertionFixup(r, a, i.expectedNext, existed) = r BY <1>3 DEF InsertionFixup
  <2>2. q = r BY <2>1, <1>3 DEF LinkPrevious, Link
  <2>3. s = r BY <2>2, <1>2, <1>3 DEF FirstOfFace
  <2> QED BY <2>3, <1>3 DEF s, r, a, existed, new
<1>4. CASE Joined(r, m, f, source, target, a, G \cup {a}) /\ JoinedCorners(r, source, target, a, existed, G \cup {a}, x, a0)
  <2>1. IsMesh(r) /\ r.fault = "none" /\ a \in D(r) /\ r.faceHalfedge = m.faceHalfedge /\ r.next \in [D(r) -> D(r)]
    BY <1>4 DEF Joined, IsMesh
  <2>2. f \in DOMAIN m.faceHalfedge /\ x \in D(m) \cup {INVALID} /\ INVALID \notin D(m) BY MeshFacts DEF Begun
  <2>3. IF x = INVALID THEN q = r ELSE Sewn(q, r, source, x, a)
    <3>1. CASE x = INVALID
      <4>1. InsertionFixup(r, a, i.expectedNext, existed) = r BY <3>1 DEF InsertionFixup
      <4> QED BY <4>1, <3>1 DEF LinkPrevious
    <3>2. CASE x # INVALID
      <4>1. q = Link(InsertionFixup(r, a, m.next[x], existed), x, a) BY <3>2 DEF LinkPrevious
      <4> HIDE DEF q
      <4>2. x \in D(m) BY <3>2, <2>2
      <4>3. Sewn(Link(InsertionFixup(r, a, m.next[x], existed), x, a), r, source, x, a) BY <4>2, <1>4, SewnBehind
      <4> QED BY <4>1, <4>3, <3>2
    <3> QED BY <3>1, <3>2
  <2> HIDE DEF q
  <2>4. IsMesh(q) /\ D(q) = D(r) /\ q.fault = "none" /\ q.faceHalfedge = m.faceHalfedge
    <3>1. CASE x = INVALID BY <3>1, <2>1, <2>3
    <3>2. CASE x # INVALID
      <4>1. Relinked(q, r) /\ q.next \in [D(r) -> D(r)] BY <3>2, <2>3 DEF Sewn
      <4>2. IsMesh(q) /\ D(q) = D(r) BY <4>1, <2>1, RelinkedMesh
      <4> QED BY <4>1, <4>2, <2>1 DEF Relinked
    <3> QED BY <3>1, <3>2
  <2>5. Known(s, q, f, a) /\ IsMesh(s) BY <1>2, <2>1, <2>2, <2>4, FirstOfFaceDoes
  <2>6. Grown(s, m, f, source, target, a, existed, x, G, a0) BY <1>4, <2>3, <2>5, GrownIf
  <2> QED BY <2>6 DEF s, r, a, existed, new
<1> QED BY <1>1, <1>3, <1>4

-----------------------------------------------------------------------------
(* The mesh between two calls.                                              *)

\* A face comes to a vertex once.
FaceSimple(m) == \A g, h \in D(m) : m.face[g] = m.face[h] /\ m.vertex[g] = m.vertex[h] => g = h \/ Hole(m, g)

\* A face knows one of its half-edges, if it has some.
FaceRefs(m) ==
  \A f \in DOMAIN m.faceHalfedge :
    IF m.faceHalfedge[f] = INVALID THEN FaceSet(m, f) = {} ELSE m.faceHalfedge[f] \in FaceSet(m, f)

\* The half-edges of a face that is not being added are one cycle.
FaceLoops(m, open) == \A f \in DOMAIN m.faceHalfedge \ {open} : OneCycle(FaceSet(m, f), m.next)

\* The mesh, with all faces but the open one complete.
Surfaced(m, open) ==
  /\ IsMesh(m) /\ Links(m) /\ Edges(m)
  /\ FaceSimple(m) /\ FaceRefs(m) /\ FaceLoops(m, open)

\* Nothing has begun at v.
Whole(m, v) == Corner(m, v, Fan(m, v), INVALID, INVALID)

\* No face is being added.
Settled(m) == Surfaced(m, INVALID) /\ \A v \in Vertices : Whole(m, v)

\* The half-edges that a face with corners c has so far, among h, and what is around its ends.
Path(m, f, c) ==
  \A h \in FaceSet(m, f) : \E j \in 1..(Len(c) - 1) : Source(m, h) = c[j] /\ m.vertex[h] = c[j + 1]

\* The first corner of the face, which its last edge has yet to reach.
FirstCorner(m, v, first, existed) ==
  /\ Corner(m, v, IF existed THEN Fan(m, v) ELSE Fan(m, v) \ {Twin(first)}, INVALID, first)
  /\ IF existed THEN ~Hole(m, Twin(first)) ELSE Hole(m, Twin(first)) /\ m.next[Twin(first)] = first

\* A face with one edge or more.
Drawn(m, i) ==
  LET c == i.corners
      k == Len(c)
  IN  /\ i.first \in FaceSet(m, i.face) /\ Source(m, i.first) = c[1] /\ m.vertex[i.first] = c[2]
      /\ i.previous \in FaceSet(m, i.face) /\ m.vertex[i.previous] = c[k]
      /\ i.expectedNext = m.next[i.previous]
      /\ i.firstExisted \in BOOLEAN
      /\ FirstCorner(m, c[1], i.first, i.firstExisted)
      /\ Corner(m, c[k], Fan(m, c[k]), i.previous, INVALID)
      /\ \A j \in 2..(k - 1) : Passed(m, c[j])

\* The face of i is being added.
Chain(m, i) ==
  /\ i.face \in DOMAIN m.faceHalfedge /\ Surfaced(m, i.face)
  /\ i.corners \in Seq(Vertices) /\ \A j, l \in DOMAIN i.corners : i.corners[j] = i.corners[l] => j = l
  /\ Path(m, i.face, i.corners)
  /\ \A v \in Vertices : (\A j \in DOMAIN i.corners : v # i.corners[j]) => Whole(m, v)
  /\ IF Len(i.corners) < 2
     THEN /\ i.first = INVALID /\ i.previous = INVALID /\ i.expectedNext = INVALID
          /\ \A v \in Vertices : Whole(m, v)
     ELSE Drawn(m, i)

\* The faces other than f are what they were.
Kept(r, m, f) ==
  /\ DOMAIN r.faceHalfedge = DOMAIN m.faceHalfedge
  /\ \A g \in DOMAIN m.faceHalfedge \ {f} :
       FaceSet(r, g) = FaceSet(m, g) /\ \A h \in FaceSet(m, g) : r.next[h] = m.next[h]

\* The half-edges of f are a triangle.
Triangular(m, f) ==
  \A h \in FaceSet(m, f) :
    LET g == m.next[h]
        k == m.next[g]
    IN  /\ g \in FaceSet(m, f) /\ k \in FaceSet(m, f)
        /\ g # h /\ k # h /\ m.next[k] = h

\* All complete faces are.
Triangles(m, open) == \A f \in DOMAIN m.faceHalfedge \ {open} : Triangular(m, f)

\* Triangles stay triangles where faces are kept.
LEMMA TrianglesKept ==
  ASSUME NEW m, NEW f, Triangles(m, f), NEW r, Kept(r, m, f)
  PROVE  Triangles(r, f)
<1> SUFFICES ASSUME NEW g \in DOMAIN m.faceHalfedge \ {f} PROVE Triangular(r, g) BY DEF Triangles, Kept
<1>1. Triangular(m, g) BY DEF Triangles
<1>2. FaceSet(r, g) = FaceSet(m, g) /\ \A h \in FaceSet(m, g) : r.next[h] = m.next[h] BY DEF Kept
<1> SUFFICES ASSUME NEW h \in FaceSet(m, g)
             PROVE  /\ r.next[h] \in FaceSet(r, g) /\ r.next[r.next[h]] \in FaceSet(r, g)
                    /\ r.next[h] # h /\ r.next[r.next[h]] # h /\ r.next[r.next[r.next[h]]] = h
  BY <1>2 DEF Triangular
<1>3. /\ m.next[h] \in FaceSet(m, g) /\ m.next[m.next[h]] \in FaceSet(m, g)
      /\ m.next[h] # h /\ m.next[m.next[h]] # h /\ m.next[m.next[m.next[h]]] = h
  BY <1>1 DEF Triangular
<1>4. r.next[h] = m.next[h] /\ r.next[m.next[h]] = m.next[m.next[h]] /\ r.next[m.next[m.next[h]]] = m.next[m.next[m.next[h]]]
  BY <1>2, <1>3
<1> QED BY <1>2, <1>3, <1>4

\* The faces of a mesh with one more edge of the face f.
LEMMA GrownSurface ==
  ASSUME NEW m, NEW f \in DOMAIN m.faceHalfedge, Surfaced(m, f), NEW source, NEW target, NEW a, NEW existed, NEW x, NEW G, NEW a0,
         NEW r, Grown(r, m, f, source, target, a, existed, x, G, a0), x \in FaceSet(m, f) \cup {INVALID},
         \A h \in FaceSet(m, f) : m.vertex[h] # target
  PROVE  /\ Surfaced(r, f) /\ FaceSet(r, f) = FaceSet(m, f) \cup {a} /\ DOMAIN r.faceHalfedge = DOMAIN m.faceHalfedge
         /\ \A h \in D(m) : m.face[h] = f => h # a /\ r.face[h] = f
         /\ Kept(r, m, f)
<1>m. IsMesh(m) /\ Links(m) /\ Edges(m) /\ FaceSimple(m) /\ FaceRefs(m) /\ FaceLoops(m, f) BY DEF Surfaced
<1>g. /\ IsMesh(r) /\ Links(r) /\ Edges(r)
      /\ a \in D(r) /\ r.vertex[a] = target /\ r.face[a] = f /\ (a \in D(m) => Hole(m, a))
      /\ \A h \in D(m) : /\ h \in D(r) /\ r.vertex[h] = m.vertex[h]
                         /\ (h # a => r.face[h] = m.face[h])
                         /\ (r.next[h] = m.next[h] \/ h = x \/ Hole(m, h))
      /\ \A h \in D(r) \ D(m) : h = a \/ (h = Twin(a) /\ Hole(r, h))
      /\ r.faceHalfedge = IF m.faceHalfedge[f] = INVALID THEN [m.faceHalfedge EXCEPT ![f] = a] ELSE m.faceHalfedge
  BY DEF Grown
<1>1. f \in Nat /\ ~(f > MaxFaces) /\ f # INVALID BY <1>m, OpenFace
<1>2. DOMAIN r.faceHalfedge = DOMAIN m.faceHalfedge BY <1>g
<1>3. \A g \in DOMAIN m.faceHalfedge : ~(g > MaxFaces) BY <1>m, OpenFace
<1>4. \A h \in D(m) : m.face[h] = f => h # a /\ r.face[h] = f BY <1>1, <1>g DEF Hole
<1>5. FaceSet(r, f) = FaceSet(m, f) \cup {a}
  <2>1. ASSUME NEW h \in FaceSet(r, f) PROVE h \in FaceSet(m, f) \cup {a}
    <3>1. h \in D(r) /\ r.face[h] = f BY DEF FaceSet
    <3>2. h \in D(m) \/ h = a BY <3>1, <1>1, <1>g DEF Hole
    <3> QED BY <3>1, <3>2, <1>g DEF FaceSet
  <2>2. ASSUME NEW h \in FaceSet(m, f) \cup {a} PROVE h \in FaceSet(r, f)
    BY <1>4, <1>g DEF FaceSet
  <2> QED BY <2>1, <2>2
<1>6. ASSUME NEW g \in DOMAIN m.faceHalfedge, g # f PROVE FaceSet(r, g) = FaceSet(m, g)
  <2>1. ASSUME NEW h \in FaceSet(r, g) PROVE h \in FaceSet(m, g)
    <3>1. h \in D(r) /\ r.face[h] = g BY DEF FaceSet
    <3>2. h \in D(m) /\ h # a BY <3>1, <1>3, <1>6, <1>g DEF Hole
    <3> QED BY <3>1, <3>2, <1>g DEF FaceSet
  <2>2. ASSUME NEW h \in FaceSet(m, g) PROVE h \in FaceSet(r, g)
    <3>1. h \in D(m) /\ m.face[h] = g /\ h # a BY <1>3, <1>g DEF FaceSet, Hole
    <3> QED BY <3>1, <1>g DEF FaceSet
  <2> QED BY <2>1, <2>2
<1>7. FaceSimple(r)
  <2>1. ASSUME NEW h \in D(r), ~Hole(r, h) PROVE h = a \/ (h \in D(m) /\ h # a /\ m.face[h] = r.face[h] /\ ~Hole(m, h))
    BY <2>1, <1>g DEF Hole
  <2>2. ASSUME NEW h \in D(r), h # a, r.face[h] = f PROVE r.vertex[h] # target
    <3>1. h \in FaceSet(m, f) BY <2>2, <1>5 DEF FaceSet
    <3>2. h \in D(m) BY <3>1 DEF FaceSet
    <3> QED BY <3>1, <3>2, <1>g
  <2>3. ASSUME NEW g \in D(r), NEW h \in D(r), r.face[g] = r.face[h], r.vertex[g] = r.vertex[h], ~Hole(r, g) PROVE g = h
    <3>1. ~Hole(r, h) BY <2>3 DEF Hole
    <3>2. CASE g = a \/ h = a BY <3>2, <2>2, <2>3, <1>g
    <3>3. CASE g # a /\ h # a
      <4>1. /\ g \in D(m) /\ m.face[g] = r.face[g] /\ ~Hole(m, g)
            /\ h \in D(m) /\ m.face[h] = r.face[h]
        BY <3>1, <3>3, <2>1, <2>3
      <4>2. m.face[g] = m.face[h] /\ m.vertex[g] = m.vertex[h] BY <4>1, <2>3, <1>g
      <4> QED BY <4>1, <4>2, <1>m DEF FaceSimple
    <3> QED BY <3>2, <3>3
  <2> QED BY <2>3 DEF FaceSimple
<1>8. FaceRefs(r)
  <2> SUFFICES ASSUME NEW g \in DOMAIN m.faceHalfedge
               PROVE  IF r.faceHalfedge[g] = INVALID THEN FaceSet(r, g) = {} ELSE r.faceHalfedge[g] \in FaceSet(r, g)
    BY <1>2 DEF FaceRefs
  <2>1. IF m.faceHalfedge[g] = INVALID THEN FaceSet(m, g) = {} ELSE m.faceHalfedge[g] \in FaceSet(m, g)
    BY <1>m DEF FaceRefs
  <2>2. a # INVALID BY <1>g, MeshFacts
  <2>3. CASE g # f BY <2>1, <2>3, <1>6, <1>g
  <2>4. CASE g = f
    <3>1. r.faceHalfedge[f] = a \/ (r.faceHalfedge[f] = m.faceHalfedge[f] /\ m.faceHalfedge[f] # INVALID) BY <1>g
    <3> QED BY <3>1, <2>1, <2>2, <2>4, <1>5
  <2> QED BY <2>3, <2>4
<1>9. FaceLoops(r, f) /\ Kept(r, m, f)
  <2> SUFFICES ASSUME NEW g \in DOMAIN m.faceHalfedge, g # f
               PROVE  OneCycle(FaceSet(r, g), r.next) /\ \A h \in FaceSet(m, g) : r.next[h] = m.next[h]
    BY <1>2, <1>6 DEF FaceLoops, Kept
  <2>1. OneCycle(FaceSet(m, g), m.next) BY <1>m DEF FaceLoops
  <2>2. \A h \in FaceSet(m, g) : r.next[h] = m.next[h]
    <3> SUFFICES ASSUME NEW h \in FaceSet(m, g) PROVE r.next[h] = m.next[h] OBVIOUS
    <3>1. h \in D(m) /\ m.face[h] = g /\ ~Hole(m, h) BY <1>3 DEF FaceSet, Hole
    <3>2. x \in D(m) => m.face[x] = f BY <1>m, MeshFacts DEF FaceSet
    <3>3. INVALID \notin D(m) BY <1>m, MeshFacts
    <3> QED BY <3>1, <3>2, <3>3, <1>g
  <2>3. OneCycle(FaceSet(m, g), r.next) BY <2>1, <2>2 DEF OneCycle
  <2> QED BY <2>2, <2>3, <1>6
<1> QED BY <1>2, <1>4, <1>5, <1>7, <1>8, <1>9, <1>g DEF Surfaced

\* And after a corner of it was sewn.
LEMMA SewnSurface ==
  ASSUME NEW m, NEW f \in DOMAIN m.faceHalfedge, Surfaced(m, f), NEW v, NEW x \in FaceSet(m, f), NEW a,
         NEW r, Sewn(r, m, v, x, a)
  PROVE  /\ Surfaced(r, f) /\ r.faceHalfedge = m.faceHalfedge
         /\ \A g : FaceSet(r, g) = FaceSet(m, g)
         /\ Kept(r, m, f)
<1>m. IsMesh(m) /\ Links(m) /\ Edges(m) /\ FaceSimple(m) /\ FaceRefs(m) /\ FaceLoops(m, f) BY DEF Surfaced
<1>s. /\ Relinked(r, m) /\ r.next \in [D(m) -> D(m)] /\ Links(r)
      /\ \A h \in D(m) : r.next[h] = m.next[h] \/ h = x \/ Hole(m, h)
  BY DEF Sewn
<1>r. r.vertex = m.vertex /\ r.face = m.face /\ r.faceHalfedge = m.faceHalfedge BY <1>s DEF Relinked
<1>1. /\ IsMesh(r) /\ D(r) = D(m)
      /\ \A h : Source(r, h) = Source(m, h)
      /\ \A h : Hole(r, h) <=> Hole(m, h)
      /\ \A g : FaceSet(r, g) = FaceSet(m, g)
  BY <1>m, <1>s, RelinkedMesh
<1>2. Edges(r) /\ FaceSimple(r) /\ FaceRefs(r) BY <1>m, <1>r, <1>1 DEF Edges, FaceSimple, FaceRefs
<1>3. FaceLoops(r, f) /\ Kept(r, m, f)
  <2> SUFFICES ASSUME NEW g \in DOMAIN m.faceHalfedge, g # f
               PROVE  OneCycle(FaceSet(r, g), r.next) /\ \A h \in FaceSet(m, g) : r.next[h] = m.next[h]
    BY <1>r, <1>1 DEF FaceLoops, Kept
  <2>1. OneCycle(FaceSet(m, g), m.next) BY <1>m DEF FaceLoops
  <2>2. ~(g > MaxFaces) BY <1>m, OpenFace
  <2>3. \A h \in FaceSet(m, g) : r.next[h] = m.next[h]
    <3> SUFFICES ASSUME NEW h \in FaceSet(m, g) PROVE r.next[h] = m.next[h] OBVIOUS
    <3>1. h \in D(m) /\ m.face[h] = g /\ ~Hole(m, h) BY <2>2 DEF FaceSet, Hole
    <3>2. h # x BY <3>1 DEF FaceSet
    <3> QED BY <3>1, <3>2, <1>s
  <2>4. OneCycle(FaceSet(m, g), r.next) BY <2>1, <2>3 DEF OneCycle
  <2> QED BY <2>3, <2>4, <1>1
<1> QED BY <1>r, <1>s, <1>1, <1>2, <1>3 DEF Surfaced

\* What Whole, Passed and FirstCorner say of a vertex at which nothing has changed.
LEMMA SameFacts ==
  ASSUME NEW m, NEW r, NEW v, SameAt(r, m, v)
  PROVE  /\ Whole(m, v) => Whole(r, v)
         /\ Passed(m, v) => Passed(r, v)
         /\ \A first, existed : IsMesh(m) /\ first \in D(m) /\ Source(m, first) = v /\ FirstCorner(m, v, first, existed)
                                  => FirstCorner(r, v, first, existed)
<1>1. Fan(r, v) = Fan(m, v) /\ r.vertexHalfedge[v] = m.vertexHalfedge[v] BY DEF SameAt
<1>2. /\ \A h \in Fan(m, v) : (Hole(r, h) <=> Hole(m, h)) /\ (Agrees(r, h) <=> Agrees(m, h))
      /\ \A G, x, a : Corner(m, v, G, x, a) => Corner(r, v, G, x, a)
      /\ OneCycle(Fan(m, v), VertexStep(m)) => OneCycle(Fan(r, v), VertexStep(r))
      /\ CutAt(m, v) => CutAt(r, v)
  <2>1. \A h \in Fan(m, v) : (Hole(r, h) <=> Hole(m, h)) /\ (Agrees(r, h) <=> Agrees(m, h)) BY SameCorner
  <2>2. ASSUME NEW G, NEW x, NEW a, Corner(m, v, G, x, a) PROVE Corner(r, v, G, x, a) BY <2>2, SameCorner
  <2>3. OneCycle(Fan(m, v), VertexStep(m)) => OneCycle(Fan(r, v), VertexStep(r)) BY SameCorner
  <2>4. CutAt(m, v) => CutAt(r, v) BY SameCorner
  <2> QED BY <2>1, <2>2, <2>3, <2>4
<1>3. Whole(m, v) => Whole(r, v) BY <1>1, <1>2 DEF Whole
<1>4. Passed(m, v) => Passed(r, v) BY <1>1, <1>2 DEF Passed
<1>5. ASSUME NEW first, NEW existed, IsMesh(m), first \in D(m), Source(m, first) = v, FirstCorner(m, v, first, existed)
      PROVE  FirstCorner(r, v, first, existed)
  <2>1. Twin(first) \in Fan(m, v) BY <1>5, MeshFacts DEF Fan, Source
  <2>2. (Hole(r, Twin(first)) <=> Hole(m, Twin(first))) /\ r.next[Twin(first)] = m.next[Twin(first)]
    BY <2>1, <1>2 DEF SameAt
  <2> QED BY <2>2, <1>1, <1>2, <1>5 DEF FirstCorner
<1> QED BY <1>3, <1>4, <1>5

\* The next corner of the open face, and the edge to it.
Extends(j, i, v, s, a, existed) ==
  /\ j.face = i.face /\ j.corners = Append(i.corners, v)
  /\ j.first = (IF i.first = INVALID THEN a ELSE i.first)
  /\ j.firstExisted = (IF i.first = INVALID THEN existed ELSE i.firstExisted)
  /\ j.expectedNext = s.next[a] /\ j.previous = a

\* The next edge of the face can begin, and info says where.
LEMMA ChainBegun ==
  ASSUME NEW m, NEW i, Chain(m, i), m.fault = "none", Len(i.corners) > 0,
         NEW v \in Vertices, v # i.corners[Len(i.corners)],
         NEW G, NEW a0 \in D(m) \cup {INVALID}, Corner(m, v, G, INVALID, a0), Permutes(VertexStep(m), G),
         \A h \in Fan(m, v) : Source(m, h) = i.corners[Len(i.corners)] => h \in G
  PROVE  /\ Begun(m, i.face, i.corners[Len(i.corners)], v, i.previous, G, a0)
         /\ i.previous \in FaceSet(m, i.face) \cup {INVALID}
         /\ i.expectedNext = IF i.previous = INVALID THEN INVALID ELSE m.next[i.previous]
<1> DEFINE c == i.corners
           k == Len(c)
           x == i.previous
<1>m. IsMesh(m) /\ Links(m) /\ Edges(m) /\ i.face \in DOMAIN m.faceHalfedge BY DEF Chain, Surfaced
<1>c. c \in Seq(Vertices) /\ k \in Nat /\ c[k] \in Vertices BY DEF Chain
<1>1. CASE k < 2
  <2>1. x = INVALID /\ i.expectedNext = INVALID /\ Whole(m, c[k]) BY <1>1, <1>c DEF Chain
  <2>2. INVALID \notin D(m) BY <1>m, MeshFacts
  <2> QED BY <2>1, <2>2, <1>m, <1>c DEF Begun, Whole
<1>2. CASE ~(k < 2)
  <2>1. Drawn(m, i) BY <1>2 DEF Chain
  <2>2. x \in FaceSet(m, i.face) /\ m.vertex[x] = c[k] /\ i.expectedNext = m.next[x] /\ Corner(m, c[k], Fan(m, c[k]), x, INVALID)
    BY <2>1 DEF Drawn
  <2>3. x \in D(m) /\ m.face[x] = i.face /\ x \in Fan(m, c[k]) /\ x # INVALID BY <2>2, <1>m, MeshFacts DEF FaceSet, Fan
  <2> QED BY <2>2, <2>3, <1>m, <1>c DEF Begun
<1> QED BY <1>1, <1>2

\* add_face_vertex leaves a longer chain.
LEMMA ChainGrows ==
  ASSUME NEW m, NEW i, Chain(m, i), m.fault = "none", Len(i.corners) > 0, HalfedgeCount(m) + 2 <= MaxHalfedges,
         NEW v \in Vertices, \A l \in DOMAIN i.corners : i.corners[l] # v,
         NEW a, NEW existed, NEW s, Grown(s, m, i.face, i.corners[Len(i.corners)], v, a, existed, i.previous, Fan(m, v), INVALID),
         NEW j, Extends(j, i, v, s, a, existed)
  PROVE  Chain(s, j) /\ Kept(s, m, i.face)
<1> DEFINE c == i.corners
           k == Len(c)
           f == i.face
           x == i.previous
           d == j.corners
<1>m. IsMesh(m) /\ f \in DOMAIN m.faceHalfedge /\ Surfaced(m, f) /\ Path(m, f, c) BY DEF Chain, Surfaced
<1>c. c \in Seq(Vertices) /\ k \in Nat /\ k > 0 /\ c[k] \in Vertices /\ c[k] # v /\ \A p, l \in DOMAIN c : c[p] = c[l] => p = l
  BY DEF Chain
<1>d. /\ d \in Seq(Vertices) /\ Len(d) = k + 1 /\ d[k + 1] = v
      /\ \A l \in 1..k : d[l] = c[l] /\ l \in DOMAIN c
  BY <1>c DEF Extends
<1>g. /\ IsMesh(s) /\ s.fault = "none" /\ existed \in BOOLEAN
      /\ a \in D(s) /\ Source(s, a) = c[k] /\ s.vertex[a] = v /\ s.face[a] = f /\ (a \in D(m) => Hole(m, a))
      /\ \A h \in D(m) : /\ h \in D(s) /\ s.vertex[h] = m.vertex[h] /\ Source(s, h) = Source(m, h)
                         /\ (h # a => s.face[h] = m.face[h])
      /\ \A h \in D(s) \ D(m) : h = a \/ (h = Twin(a) /\ Hole(s, h))
      /\ \A u \in Vertices \ {c[k], v} : SameAt(s, m, u)
      /\ Corner(s, v, Fan(m, v) \cup {a}, a, INVALID)
      /\ IF x = INVALID
         THEN /\ Corner(s, c[k], IF existed THEN Fan(s, c[k]) ELSE Fan(s, c[k]) \ {Twin(a)}, INVALID, a)
              /\ IF existed THEN ~Hole(s, Twin(a)) ELSE Hole(s, Twin(a)) /\ s.next[Twin(a)] = a
         ELSE Passed(s, c[k])
  BY DEF Grown
<1>p. \A h \in FaceSet(m, f) : m.vertex[h] # v /\ \E l \in 1..(k - 1) : Source(m, h) = c[l] /\ m.vertex[h] = c[l + 1]
  <2> SUFFICES ASSUME NEW h \in FaceSet(m, f)
               PROVE  m.vertex[h] # v /\ \E l \in 1..(k - 1) : Source(m, h) = c[l] /\ m.vertex[h] = c[l + 1]
    OBVIOUS
  <2>1. PICK l \in 1..(k - 1) : Source(m, h) = c[l] /\ m.vertex[h] = c[l + 1] BY <1>m DEF Path
  <2>2. l + 1 \in DOMAIN c BY <1>c
  <2> QED BY <2>1, <2>2
<1>1. x \in FaceSet(m, f) \cup {INVALID} /\ (x = INVALID <=> k < 2) /\ (i.first = INVALID <=> k < 2)
  <2>1. CASE k < 2 BY <2>1 DEF Chain
  <2>2. CASE ~(k < 2)
    <3>1. i.first \in FaceSet(m, f) /\ x \in FaceSet(m, f) BY <2>2 DEF Chain, Drawn
    <3> QED BY <3>1, <2>2, <1>m, MeshFacts DEF FaceSet
  <2> QED BY <2>1, <2>2
<1>2. /\ Surfaced(s, f) /\ FaceSet(s, f) = FaceSet(m, f) \cup {a} /\ f \in DOMAIN s.faceHalfedge
      /\ \A h \in D(m) : m.face[h] = f => h # a /\ s.face[h] = f
      /\ Kept(s, m, f)
  BY <1>1, <1>m, <1>p, GrownSurface
<1>3. Path(s, f, d)
  <2> SUFFICES ASSUME NEW h \in FaceSet(s, f)
               PROVE  \E l \in 1..(Len(d) - 1) : Source(s, h) = d[l] /\ s.vertex[h] = d[l + 1]
    BY DEF Path
  <2>1. CASE h = a
    <3>1. k \in 1..(Len(d) - 1) /\ d[k] = c[k] /\ d[k + 1] = v BY <1>c, <1>d
    <3> QED BY <3>1, <2>1, <1>g
  <2>2. CASE h # a
    <3>1. h \in FaceSet(m, f) /\ h \in D(m) BY <2>2, <1>2 DEF FaceSet
    <3>2. PICK l \in 1..(k - 1) : Source(m, h) = c[l] /\ m.vertex[h] = c[l + 1] BY <3>1, <1>p
    <3>3. l \in 1..(Len(d) - 1) /\ d[l] = c[l] /\ d[l + 1] = c[l + 1] BY <3>2, <1>c, <1>d
    <3> QED BY <3>1, <3>2, <3>3, <1>g
  <2> QED BY <2>1, <2>2
<1>4. ASSUME NEW u \in Vertices, \A l \in DOMAIN d : u # d[l] PROVE Whole(s, u)
  <2>1. \A l \in 1..k : u # c[l] BY <1>4, <1>d
  <2>2. u # v /\ u # c[k] /\ \A l \in DOMAIN c : u # c[l] BY <2>1, <1>4, <1>c, <1>d
  <2>3. Whole(m, u) BY <2>2 DEF Chain
  <2>4. SameAt(s, m, u) BY <2>2, <1>g
  <2> QED BY <2>3, <2>4, SameFacts
<1>5. Fan(s, v) = Fan(m, v) \cup {a}
  <2>1. ASSUME NEW h \in Fan(s, v) PROVE h \in Fan(m, v) \cup {a}
    <3>1. h \in D(s) /\ s.vertex[h] = v BY DEF Fan
    <3>2. h # Twin(a) BY <3>1, <1>c, <1>g DEF Source
    <3> QED BY <3>1, <3>2, <1>g DEF Fan
  <2>2. Fan(m, v) \cup {a} \subseteq Fan(s, v) BY <1>g DEF Fan
  <2> QED BY <2>1, <2>2
<1>6. a \in FaceSet(s, f) BY <1>2
<1>j. /\ j.face = f /\ j.expectedNext = s.next[a] /\ j.previous = a
      /\ j.first = (IF k < 2 THEN a ELSE i.first)
      /\ j.firstExisted = (IF k < 2 THEN existed ELSE i.firstExisted)
  BY <1>1 DEF Extends
<1>7. Corner(s, v, Fan(s, v), a, INVALID) BY <1>5, <1>g
<1>8. ASSUME k < 2 PROVE Drawn(s, j)
  <2>0. k = 1 /\ 1 \in 1..k
    <3>1. k \in Nat /\ k > 0 /\ k < 2 BY <1>8, <1>c
    <3> HIDE DEF k
    <3> QED BY <3>1
  <2>1. k = 1 /\ d[1] = c[1] /\ d[2] = v /\ Len(d) = 2 BY <2>0, <1>d
  <2>2. FirstCorner(s, c[1], a, existed) BY <2>1, <1>1, <1>8, <1>g DEF FirstCorner
  <2>3. \A l \in 2..(Len(d) - 1) : Passed(s, d[l]) BY <2>1
  <2> QED BY <2>1, <2>2, <2>3, <1>6, <1>7, <1>8, <1>d, <1>g, <1>j DEF Drawn
<1>9. ASSUME ~(k < 2) PROVE Drawn(s, j)
  <2>1. Drawn(m, i) /\ x # INVALID BY <1>1, <1>9 DEF Chain
  <2>2. d[1] = c[1] /\ d[2] = c[2] /\ Len(d) > 2 /\ c[1] # c[k] /\ c[1] # v /\ c[1] \in Vertices BY <1>9, <1>c, <1>d
  <2>3. /\ i.first \in FaceSet(m, f) /\ Source(m, i.first) = c[1] /\ m.vertex[i.first] = c[2]
        /\ i.firstExisted \in BOOLEAN /\ FirstCorner(m, c[1], i.first, i.firstExisted)
        /\ \A l \in 2..(k - 1) : Passed(m, c[l])
    BY <2>1 DEF Drawn
  <2>4. i.first \in FaceSet(s, f) /\ Source(s, i.first) = d[1] /\ s.vertex[i.first] = d[2]
    <3>1. i.first \in D(m) BY <2>3 DEF FaceSet
    <3> QED BY <3>1, <2>2, <2>3, <1>2, <1>g
  <2>5. FirstCorner(s, d[1], i.first, i.firstExisted)
    <3>1. SameAt(s, m, c[1]) BY <2>2, <1>g
    <3>2. i.first \in D(m) BY <2>3 DEF FaceSet
    <3> QED BY <3>1, <3>2, <2>2, <2>3, <1>m, SameFacts
  <2>6. ASSUME NEW l \in 2..(Len(d) - 1) PROVE Passed(s, d[l])
    <3>1. l \in 2..k /\ l \in DOMAIN c /\ k \in DOMAIN c /\ d[l] = c[l] BY <1>c, <1>d
    <3>2. CASE l = k BY <3>1, <3>2, <2>1, <1>g
    <3>3. CASE l # k
      <4>1. c[l] # c[k] /\ c[l] # v /\ c[l] \in Vertices BY <3>1, <3>3, <1>c
      <4>2. SameAt(s, m, c[l]) BY <4>1, <1>g
      <4>3. Passed(m, c[l]) BY <3>1, <3>3, <2>3
      <4> QED BY <4>2, <4>3, <3>1, SameFacts
    <3> QED BY <3>2, <3>3
  <2>7. s.vertex[a] = d[Len(d)] /\ Corner(s, d[Len(d)], Fan(s, d[Len(d)]), a, INVALID) BY <1>7, <1>d, <1>g
  <2>8. j.first = i.first /\ j.firstExisted = i.firstExisted BY <1>9, <1>j
  <2>9. j.face = f /\ j.expectedNext = s.next[a] /\ j.previous = a BY <1>j
  <2> QED BY <2>3, <2>4, <2>5, <2>6, <2>7, <2>8, <2>9, <1>6 DEF Drawn
<1>10. Drawn(s, j) /\ Len(d) > 1 BY <1>8, <1>9, <1>c, <1>d
<1>11. \A p, l \in DOMAIN d : d[p] = d[l] => p = l
  <2> SUFFICES ASSUME NEW p \in DOMAIN d, NEW l \in DOMAIN d, d[p] = d[l] PROVE p = l OBVIOUS
  <2>1. p \in 1..(k + 1) /\ l \in 1..(k + 1) BY <1>d
  <2>2. \A q \in 1..k : d[q] # v BY <1>c, <1>d
  <2>3. CASE p = k + 1 \/ l = k + 1 BY <2>1, <2>2, <2>3, <1>c, <1>d
  <2>4. CASE p # k + 1 /\ l # k + 1
    <3>1. p \in 1..k /\ l \in 1..k BY <2>1, <2>4, <1>c
    <3> QED BY <3>1, <1>c, <1>d
  <2> QED BY <2>3, <2>4
<1>12. d \in Seq(Vertices) /\ ~(Len(d) < 2) BY <1>c, <1>d
<1> QED BY <1>j, <1>2, <1>3, <1>4, <1>10, <1>11, <1>12 DEF Chain

\* A face whose half-edges go from corner to corner, each to the next one, is one cycle.
LEMMA FaceIsLoop ==
  ASSUME NEW m, Links(m), Edges(m), NEW f, NEW c \in Seq(Vertices), Len(c) > 0,
         \A h \in FaceSet(m, f) : \E j \in 1..Len(c) : Source(m, h) = c[j] /\ m.vertex[h] = c[IF j = Len(c) THEN 1 ELSE j + 1],
         \A p, l \in DOMAIN c : c[p] = c[l] => p = l
  PROVE  OneCycle(FaceSet(m, f), m.next)
<1> DEFINE k == Len(c)
           F == FaceSet(m, f)
<1>k. k \in Nat /\ k > 0 /\ DOMAIN c = 1..k OBVIOUS
<1>h. \A h \in F : \E j \in 1..k : Source(m, h) = c[j] /\ m.vertex[h] = c[IF j = k THEN 1 ELSE j + 1] OBVIOUS
<1> HIDE DEF k
<1> SUFFICES ASSUME NEW X \in SUBSET F, X # {}, \A h \in X : m.next[h] \in X PROVE X = F
  BY DEF OneCycle
<1> DEFINE At(j) == \E h \in X : Source(m, h) = c[j]
<1>1. \A h \in X : h \in D(m) /\ h \in F BY DEF FaceSet
<1>2. ASSUME NEW j \in 1..k, At(j) PROVE At(IF j = k THEN 1 ELSE j + 1)
  <2>1. PICK h \in X : Source(m, h) = c[j] BY <1>2
  <2>2. PICK l \in 1..k : Source(m, h) = c[l] /\ m.vertex[h] = c[IF l = k THEN 1 ELSE l + 1] BY <1>1, <1>h
  <2>3. l = j BY <2>1, <2>2, <1>k
  <2>4. m.next[h] \in X /\ Source(m, m.next[h]) = m.vertex[h] BY <1>1 DEF Links
  <2> QED BY <2>2, <2>3, <2>4
<1>3. ASSUME NEW j \in 1..k, At(j), NEW l \in j..k PROVE At(l)
  <2> DEFINE P == {i \in Nat : j + i <= k => At(j + i)}
  <2>1. 0 \in P BY <1>3
  <2>2. ASSUME NEW i \in Nat, i \in P PROVE i + 1 \in P
    <3> SUFFICES ASSUME j + (i + 1) <= k PROVE At(j + (i + 1)) OBVIOUS
    <3>1. j + i \in 1..k /\ j + i # k /\ j + i <= k /\ (j + i) + 1 = j + (i + 1) BY <1>k
    <3>2. At(j + i) BY <2>2, <3>1
    <3> HIDE DEF At
    <3>3. At((j + i) + 1) BY <3>1, <3>2, <1>2
    <3> QED BY <3>1, <3>3
  <2>3. l - j \in Nat /\ j + (l - j) = l /\ l <= k BY <1>k
  <2> HIDE DEF P
  <2>4. l - j \in P BY <2>1, <2>2, <2>3, InductionOnSet
  <2> QED BY <2>3, <2>4 DEF P
<1>4. PICK h0 \in X : TRUE OBVIOUS
<1>5. PICK j0 \in 1..k : At(j0) BY <1>1, <1>4, <1>h
<1> HIDE DEF At
<1>6. At(k)
  <2>1. k \in j0..k BY <1>k
  <2> QED BY <2>1, <1>3, <1>5
<1>7. At(1)
  <2>1. k \in 1..k BY <1>k
  <2> QED BY <2>1, <1>2, <1>6
<1>8. \A j \in 1..k : At(j)
  <2>1. 1 \in 1..k BY <1>k
  <2> QED BY <2>1, <1>3, <1>7
<1>9. ASSUME NEW g \in F PROVE g \in X
  <2>1. PICK j \in 1..k : Source(m, g) = c[j] /\ m.vertex[g] = c[IF j = k THEN 1 ELSE j + 1] BY <1>h
  <2>2. PICK h \in X : Source(m, h) = c[j] BY <1>8 DEF At
  <2>3. PICK l \in 1..k : Source(m, h) = c[l] /\ m.vertex[h] = c[IF l = k THEN 1 ELSE l + 1] BY <1>1, <1>h
  <2>4. l = j BY <2>2, <2>3, <1>k
  <2>5. m.vertex[h] = m.vertex[g] /\ Source(m, h) = Source(m, g) BY <2>1, <2>2, <2>3, <2>4
  <2>6. g \in D(m) /\ h \in D(m) BY <1>1 DEF FaceSet
  <2> QED BY <2>5, <2>6 DEF Edges
<1> QED BY <1>9

\* No face is being added, but the last one may have cut a vertex.
Left(m) == Surfaced(m, INVALID) /\ \A v \in Vertices : Whole(m, v) \/ Passed(m, v)

\* Sewing one corner changes nothing at another vertex.
LEMMA SewnAt ==
  ASSUME NEW m, IsMesh(m), NEW v, NEW x \in Fan(m, v), NEW a, NEW r, Sewn(r, m, v, x, a), NEW u, u # v
  PROVE  SameAt(r, m, u)
<1>1. Relinked(r, m) /\ r.next \in [D(m) -> D(m)]
      /\ \A h \in D(m) : r.next[h] = m.next[h] \/ h = x \/ (h \in Fan(m, v) /\ Hole(m, h))
  BY DEF Sewn
<1>2. Fan(r, u) = Fan(m, u) BY <1>1, RelinkedMesh
<1>3. \A h \in Fan(m, u) : h \in D(m) /\ h \notin Fan(m, v) BY DEF Fan
<1> QED BY <1>1, <1>2, <1>3 DEF SameAt, Relinked

\* The half-edges at the first corner of a face, before its last edge.
FirstFan(m, i) == IF i.firstExisted THEN Fan(m, i.corners[1]) ELSE Fan(m, i.corners[1]) \ {Twin(i.first)}

\* The last edge of the face can begin, too: to the first corner, whose incoming half-edge is not linked yet.
LEMMA LastBegun ==
  ASSUME NEW m, NEW i, Chain(m, i), m.fault = "none", Len(i.corners) > 2
  PROVE  /\ Begun(m, i.face, i.corners[Len(i.corners)], i.corners[1], i.previous, FirstFan(m, i), i.first)
         /\ i.previous \in FaceSet(m, i.face)
         /\ i.expectedNext = IF i.previous = INVALID THEN INVALID ELSE m.next[i.previous]
<1> DEFINE c == i.corners
           k == Len(c)
           t == Twin(i.first)
           G == FirstFan(m, i)
<1>c. c \in Seq(Vertices) /\ k \in Nat /\ k > 2 /\ (\A p, l \in DOMAIN c : c[p] = c[l] => p = l)
      /\ DOMAIN c = 1..k /\ 1 \in DOMAIN c /\ 2 \in DOMAIN c /\ k \in DOMAIN c
  BY DEF Chain
<1>d. Drawn(m, i) /\ IsMesh(m) /\ Links(m) BY <1>c DEF Chain, Surfaced
<1>1. /\ i.first \in FaceSet(m, i.face) /\ Source(m, i.first) = c[1] /\ m.vertex[i.first] = c[2]
      /\ i.previous \in FaceSet(m, i.face) /\ FirstCorner(m, c[1], i.first, i.firstExisted) /\ i.firstExisted \in BOOLEAN
  BY <1>d DEF Drawn
<1>2. i.first \in D(m) /\ t \in D(m) /\ Source(m, t) = c[2] /\ i.previous \in D(m) /\ INVALID \notin D(m)
      /\ m.next[t] \in D(m) /\ Twin(i.first) = t
  BY <1>1, <1>d, MeshFacts DEF FaceSet, IsMesh
<1>3. c[1] # c[k] /\ c[2] # c[k] /\ c[1] \in Vertices BY <1>c
<1>4. Permutes(VertexStep(m), G)
  <2>1. Permutes(VertexStep(m), Fan(m, c[1])) BY <1>d, StepFacts
  <2>2. CASE i.firstExisted BY <2>1, <2>2 DEF FirstFan
  <2>3. CASE ~i.firstExisted
    <3>1. m.next[t] = i.first BY <2>3, <1>1 DEF FirstCorner
    <3>2. VertexStep(m)[t] = t BY <3>1, <1>2, <1>d, StepFacts
    <3>3. t \in Fan(m, c[1]) BY <1>1, <1>2 DEF Fan, Source
    <3>4. Permutes(VertexStep(m), Fan(m, c[1]) \ {t}) BY <2>1, <3>2, <3>3 DEF Permutes
    <3> QED BY <3>4, <2>3 DEF FirstFan
  <2> QED BY <2>2, <2>3
<1>5. Corner(m, c[1], G, INVALID, i.first) BY <1>1 DEF FirstCorner, FirstFan
<1>6. \A h \in Fan(m, c[1]) : Source(m, h) = c[k] => h \in G BY <1>2, <1>3 DEF FirstFan
<1>7. Len(c) > 0 BY <1>c
<1> HIDE DEF G
<1>8. /\ Begun(m, i.face, c[k], c[1], i.previous, G, i.first)
      /\ i.expectedNext = IF i.previous = INVALID THEN INVALID ELSE m.next[i.previous]
  BY <1>2, <1>3, <1>4, <1>5, <1>6, <1>7, ChainBegun
<1> QED BY <1>1, <1>8 DEF G

\* end_face closes the chain: links the last half-edge to the first and fixes what followed them.
LEMMA ChainCloses ==
  ASSUME NEW m, NEW i, Chain(m, i), m.fault = "none", Len(i.corners) > 2,
         NEW a, NEW existed, NEW s,
         Grown(s, m, i.face, i.corners[Len(i.corners)], i.corners[1], a, existed, i.previous, FirstFan(m, i), i.first),
         NEW q, q = Link(InsertionFixup(s, i.first, s.next[a], i.firstExisted), a, i.first)
  PROVE  /\ q.fault = "none" /\ Left(q) /\ Kept(q, m, i.face)
         /\ Len(i.corners) = 3 => Triangular(q, i.face)
<1> DEFINE c == i.corners
           k == Len(c)
           f == i.face
           x == i.previous
           first == i.first
           t == Twin(first)
           G == FirstFan(m, i)
<1>c. c \in Seq(Vertices) /\ k \in Nat /\ k > 2 /\ (\A p, l \in DOMAIN c : c[p] = c[l] => p = l)
      /\ DOMAIN c = 1..k /\ 1 \in DOMAIN c /\ 2 \in DOMAIN c /\ k \in DOMAIN c
  BY DEF Chain
<1>v. c[1] # c[k] /\ c[2] # c[k] /\ c[1] # c[2] /\ c[1] \in Vertices /\ c[k] \in Vertices BY <1>c
<1>m. IsMesh(m) /\ f \in DOMAIN m.faceHalfedge /\ Surfaced(m, f) /\ Path(m, f, c) BY DEF Chain, Surfaced
<1>d. /\ first \in FaceSet(m, f) /\ Source(m, first) = c[1] /\ m.vertex[first] = c[2]
      /\ x \in FaceSet(m, f) /\ m.vertex[x] = c[k] /\ FirstCorner(m, c[1], first, i.firstExisted) /\ i.firstExisted \in BOOLEAN
      /\ \A j \in 2..(k - 1) : Passed(m, c[j])
  BY <1>c DEF Chain, Drawn
<1>g. /\ IsMesh(s) /\ Links(s) /\ s.fault = "none"
      /\ a \in D(s) /\ Source(s, a) = c[k] /\ s.vertex[a] = c[1] /\ s.face[a] = f /\ (a \in D(m) => Hole(m, a))
      /\ \A h \in D(m) : /\ h \in D(s) /\ s.vertex[h] = m.vertex[h] /\ Source(s, h) = Source(m, h)
                         /\ (h # a => s.face[h] = m.face[h])
                         /\ (s.next[h] = m.next[h] \/ h = x \/ (Hole(m, h) /\ h \in G \cup Fan(m, c[k])))
      /\ \A h \in D(s) \ D(m) : h = a \/ (h = Twin(a) /\ Hole(s, h))
      /\ \A u \in Vertices \ {c[k], c[1]} : SameAt(s, m, u)
      /\ Corner(s, c[1], G \cup {a}, a, first)
      /\ (x # INVALID => Passed(s, c[k]))
  BY DEF Grown
<1>1. /\ first \in D(m) /\ t \in D(m) /\ m.vertex[t] = c[1] /\ Source(m, t) = c[2] /\ x \in D(m) /\ x # INVALID
      /\ m.face[first] = f /\ first \in D(s)
  BY <1>d, <1>m, <1>g, MeshFacts DEF FaceSet, Source
<1>2. \A h \in FaceSet(m, f) : m.vertex[h] # c[1] /\ \E l \in 1..(k - 1) : Source(m, h) = c[l] /\ m.vertex[h] = c[l + 1]
  <2> SUFFICES ASSUME NEW h \in FaceSet(m, f)
               PROVE  m.vertex[h] # c[1] /\ \E l \in 1..(k - 1) : Source(m, h) = c[l] /\ m.vertex[h] = c[l + 1]
    OBVIOUS
  <2>1. PICK l \in 1..(k - 1) : Source(m, h) = c[l] /\ m.vertex[h] = c[l + 1] BY <1>m DEF Path
  <2>2. l + 1 \in DOMAIN c /\ l + 1 # 1 BY <1>c
  <2> QED BY <2>1, <2>2, <1>c
<1>3. /\ Surfaced(s, f) /\ FaceSet(s, f) = FaceSet(m, f) \cup {a} /\ DOMAIN s.faceHalfedge = DOMAIN m.faceHalfedge
      /\ \A h \in D(m) : m.face[h] = f => h # a /\ s.face[h] = f
      /\ Kept(s, m, f)
  BY <1>d, <1>m, <1>2, GrownSurface
<1>4. a # t
  <2>1. Source(s, t) = c[2] BY <1>1, <1>g
  <2> QED BY <2>1, <1>g, <1>v
<1>5. Fan(s, c[1]) = Fan(m, c[1]) \cup {a}
  <2>1. ASSUME NEW h \in Fan(s, c[1]) PROVE h \in Fan(m, c[1]) \cup {a}
    <3>1. h \in D(s) /\ s.vertex[h] = c[1] BY DEF Fan
    <3>2. h # Twin(a) BY <3>1, <1>v, <1>g DEF Source
    <3> QED BY <3>1, <3>2, <1>g DEF Fan
  <2>2. Fan(m, c[1]) \cup {a} \subseteq Fan(s, c[1]) BY <1>g DEF Fan
  <2> QED BY <2>1, <2>2
<1>6. Corner(s, c[1], IF i.firstExisted THEN Fan(s, c[1]) ELSE Fan(s, c[1]) \ {t}, a, first)
  <2>1. G \cup {a} = IF i.firstExisted THEN Fan(s, c[1]) ELSE Fan(s, c[1]) \ {t} BY <1>4, <1>5 DEF FirstFan
  <2> QED BY <2>1, <1>g
<1>7. IF i.firstExisted THEN ~Hole(s, t) ELSE a # t /\ s.next[t] = first /\ Hole(s, t)
  <2>1. IF i.firstExisted THEN ~Hole(m, t) ELSE Hole(m, t) /\ m.next[t] = first BY <1>d DEF FirstCorner
  <2>2. s.face[t] = m.face[t] BY <1>1, <1>4, <1>g
  <2>3. ~i.firstExisted => s.next[t] = m.next[t]
    <3>1. t # x BY <1>1, <1>d, <1>v
    <3>2. t \notin Fan(m, c[k]) BY <1>1, <1>v DEF Fan
    <3>3. ~i.firstExisted => t \notin G BY DEF FirstFan
    <3> QED BY <3>1, <3>2, <3>3, <1>1, <1>g
  <2> QED BY <2>1, <2>2, <2>3, <1>4 DEF Hole
<1>8. a \in Fan(s, c[1]) /\ Source(s, first) = c[1] /\ s.face[first] = f /\ ~Hole(s, first)
  <2>1. ~(f > MaxFaces) BY <1>m, OpenFace
  <2>2. s.face[first] = f BY <1>1, <1>3
  <2> QED BY <2>1, <2>2, <1>1, <1>d, <1>g, <1>5 DEF Hole
<1>9. Sewn(q, s, c[1], a, first)
  <2>1. Sewn(Link(InsertionFixup(s, first, s.next[a], i.firstExisted), a, first), s, c[1], a, first)
    BY <1>1, <1>6, <1>7, <1>8, <1>d, <1>g, CornerIsSewn
  <2> QED BY <2>1
<1>10. /\ Relinked(q, s) /\ q.next \in [D(s) -> D(s)] /\ Links(q)
       /\ OneCycle(Fan(s, c[1]), VertexStep(q)) \/ CutAt(q, c[1])
       /\ \A h \in Fan(s, c[1]) : Agrees(q, h)
  BY <1>9 DEF Sewn
<1>11. q.vertex = s.vertex /\ q.face = s.face /\ q.fault = s.fault /\ q.vertexHalfedge = s.vertexHalfedge
       /\ q.faceHalfedge = s.faceHalfedge
  BY <1>10 DEF Relinked
<1>12. /\ IsMesh(q) /\ D(q) = D(s)
       /\ \A h : Source(q, h) = Source(s, h)
       /\ \A u : Fan(q, u) = Fan(s, u)
       /\ \A h : Hole(q, h) <=> Hole(s, h)
  BY <1>10, <1>g, RelinkedMesh
<1>13. /\ Surfaced(q, f) /\ (\A g : FaceSet(q, g) = FaceSet(s, g)) /\ Kept(q, s, f)
  <2>1. a \in FaceSet(s, f) /\ f \in DOMAIN s.faceHalfedge BY <1>3, <1>m
  <2> HIDE DEF c, k, f, first
  <2>2. Surfaced(s, f) BY <1>3
  <2>3. /\ Surfaced(q, f) /\ q.faceHalfedge = s.faceHalfedge
        /\ \A g : FaceSet(q, g) = FaceSet(s, g)
        /\ Kept(q, s, f)
    BY <2>1, <2>2, <1>9, SewnSurface
  <2> QED BY <2>3
<1>14. ASSUME NEW u \in Vertices, u # c[1] PROVE SameAt(q, s, u) BY <1>14, <1>8, <1>9, <1>g, SewnAt
<1>15. Passed(q, c[1])
  <2>1. s.vertexHalfedge[c[1]] \in Fan(s, c[1])
    <3>1. G \cup {a} \subseteq Fan(s, c[1]) /\ s.vertexHalfedge[c[1]] \in G \cup {a} BY <1>g DEF Corner
    <3> QED BY <3>1
  <2> QED BY <2>1, <1>10, <1>11, <1>12 DEF Passed
<1>16. Passed(q, c[k]) BY <1>1, <1>14, <1>g, <1>v, SameFacts
<1>17. ASSUME NEW u \in Vertices \ {c[1], c[k]} PROVE (Whole(m, u) => Whole(q, u)) /\ (Passed(m, u) => Passed(q, u))
  <2>1. SameAt(s, m, u) /\ SameAt(q, s, u) BY <1>14, <1>g
  <2>2. (Whole(m, u) => Whole(s, u)) /\ (Passed(m, u) => Passed(s, u)) BY <2>1, SameFacts
  <2>3. (Whole(s, u) => Whole(q, u)) /\ (Passed(s, u) => Passed(q, u)) BY <2>1, SameFacts
  <2> QED BY <2>2, <2>3
<1>18. \A j \in 1..k : Passed(q, c[j])
  <2> SUFFICES ASSUME NEW j \in 1..k, j # 1, j # k PROVE Passed(q, c[j]) BY <1>15, <1>16
  <2>1. j \in 2..(k - 1) /\ j \in DOMAIN c BY <1>c
  <2>2. c[j] \in Vertices \ {c[1], c[k]} BY <2>1, <1>c
  <2> QED BY <2>1, <2>2, <1>17, <1>d
<1>19. ASSUME NEW u \in Vertices PROVE Whole(q, u) \/ Passed(q, u)
  <2>1. CASE \E j \in 1..k : u = c[j] BY <2>1, <1>18
  <2>2. CASE \A j \in 1..k : u # c[j]
    <3>1. Whole(m, u) BY <2>2, <1>c DEF Chain
    <3>2. u # c[1] /\ u # c[k] BY <2>2, <1>c
    <3> QED BY <3>1, <3>2, <1>17
  <2> QED BY <2>1, <2>2
<1> DEFINE F == FaceSet(q, f)
<1>20. \A h \in F : \E j \in 1..k : Source(q, h) = c[j] /\ q.vertex[h] = c[IF j = k THEN 1 ELSE j + 1]
  <2> SUFFICES ASSUME NEW h \in F PROVE \E j \in 1..k : Source(q, h) = c[j] /\ q.vertex[h] = c[IF j = k THEN 1 ELSE j + 1]
    OBVIOUS
  <2>1. h \in FaceSet(m, f) \/ h = a BY <1>3, <1>13
  <2>2. CASE h = a
    <3>1. Source(q, h) = c[k] /\ q.vertex[h] = c[1] /\ k \in 1..k BY <2>2, <1>11, <1>12, <1>c, <1>g
    <3> QED BY <3>1
  <2>3. CASE h \in FaceSet(m, f)
    <3>1. PICK l \in 1..(k - 1) : Source(m, h) = c[l] /\ m.vertex[h] = c[l + 1] BY <2>3, <1>2
    <3>2. h \in D(m) BY <2>3 DEF FaceSet
    <3>3. Source(q, h) = c[l] /\ q.vertex[h] = c[l + 1] BY <3>1, <3>2, <1>11, <1>12, <1>g
    <3>4. l \in 1..k /\ l # k BY <1>c
    <3> QED BY <3>3, <3>4
  <2> QED BY <2>1, <2>2, <2>3
<1>21. OneCycle(F, q.next)
  <2>1. Links(q) /\ Edges(q) /\ Len(c) > 0 BY <1>10, <1>13, <1>c DEF Surfaced
  <2>2. c \in Seq(Vertices) /\ \A p, l \in DOMAIN c : c[p] = c[l] => p = l BY <1>c
  <2>3. \A h \in FaceSet(q, f) : \E j \in 1..Len(c) :
          Source(q, h) = c[j] /\ q.vertex[h] = c[IF j = Len(c) THEN 1 ELSE j + 1]
    BY <1>20
  <2> HIDE DEF c
  <2> QED BY <2>1, <2>2, <2>3, FaceIsLoop
<1>22. FaceLoops(q, INVALID)
  <2>1. FaceLoops(q, f) BY <1>13 DEF Surfaced
  <2> QED BY <2>1, <1>21 DEF FaceLoops
<1>23. Surfaced(q, INVALID) BY <1>13, <1>22 DEF Surfaced
<1>24. Kept(q, m, f)
  <2>1. Kept(s, m, f) BY <1>3
  <2>2. Kept(q, s, f) BY <1>13
  <2> QED BY <2>1, <2>2 DEF Kept
<1>25. ASSUME k = 3 PROVE Triangular(q, f)
  <2>0. ~(f > MaxFaces) BY <1>m, OpenFace
  <2>1. \A h \in F : h \in D(q) /\ q.face[h] = f /\ ~Hole(q, h)
    <3> HIDE DEF f
    <3> QED BY <2>0, SMTT(30) DEF FaceSet, Hole
  <2>2. ASSUME NEW h \in F PROVE q.next[h] \in F /\ Source(q, q.next[h]) = q.vertex[h]
    <3>1. q.vertex[h] \in Vertices /\ h \in Fan(q, q.vertex[h]) /\ q.next[h] \in D(q)
      BY <2>1, <1>12, MeshFacts DEF Fan, IsMesh
    <3>2. Agrees(q, h)
      <4>1. q.next[h] # INVALID /\ h # INVALID BY <3>1, <2>1, <1>12, MeshFacts
      <4> QED BY <4>1, <3>1, <1>19 DEF Whole, Passed, Corner
    <3>3. q.face[q.next[h]] = f BY <3>2, <2>1 DEF Agrees
    <3> QED BY <3>1, <3>3, <2>1, <1>10 DEF Links, FaceSet
  <2>3. \A g, h \in F : q.vertex[g] = q.vertex[h] => g = h BY <2>1, <1>13 DEF Surfaced, FaceSimple
  <2>4. ASSUME NEW h \in F
        PROVE  \/ Source(q, h) = c[1] /\ q.vertex[h] = c[2]
               \/ Source(q, h) = c[2] /\ q.vertex[h] = c[3]
               \/ Source(q, h) = c[3] /\ q.vertex[h] = c[1]
    <3>1. PICK j \in 1..k : Source(q, h) = c[j] /\ q.vertex[h] = c[IF j = k THEN 1 ELSE j + 1] BY <1>20
    <3>2. j = 1 \/ j = 2 \/ j = 3 BY <1>25
    <3> QED BY <3>1, <3>2, <1>25
  <2>5. c[1] # c[2] /\ c[2] # c[3] /\ c[1] # c[3] BY <1>v, <1>25
  <2> SUFFICES ASSUME NEW h \in F
               PROVE  /\ q.next[h] \in F /\ q.next[q.next[h]] \in F
                      /\ q.next[h] # h /\ q.next[q.next[h]] # h /\ q.next[q.next[q.next[h]]] = h
    BY DEF Triangular
  <2> DEFINE g == q.next[h]
             l == q.next[g]
             e == q.next[l]
  <2>6. g \in F /\ l \in F /\ e \in F /\ Source(q, g) = q.vertex[h] /\ Source(q, l) = q.vertex[g] /\ Source(q, e) = q.vertex[l]
    BY <2>2
  <2> HIDE DEF c, g, l, e, F
  <2>7. g # h
    <3>1. Source(q, h) # q.vertex[h] BY <2>4, <2>5
    <3> QED BY <3>1, <2>6
  <2>8. l # h /\ q.vertex[e] = q.vertex[h]
    <3>1. CASE Source(q, h) = c[1] /\ q.vertex[h] = c[2]
      <4>1. q.vertex[g] = c[3] BY <3>1, <2>4, <2>5, <2>6
      <4>2. q.vertex[l] = c[1] BY <4>1, <2>4, <2>5, <2>6
      <4>3. q.vertex[e] = c[2] BY <4>2, <2>4, <2>5, <2>6
      <4> QED BY <3>1, <4>2, <4>3, <2>5
    <3>2. CASE Source(q, h) = c[2] /\ q.vertex[h] = c[3]
      <4>1. q.vertex[g] = c[1] BY <3>2, <2>4, <2>5, <2>6
      <4>2. q.vertex[l] = c[2] BY <4>1, <2>4, <2>5, <2>6
      <4>3. q.vertex[e] = c[3] BY <4>2, <2>4, <2>5, <2>6
      <4> QED BY <3>2, <4>2, <4>3, <2>5
    <3>3. CASE Source(q, h) = c[3] /\ q.vertex[h] = c[1]
      <4>1. q.vertex[g] = c[2] BY <3>3, <2>4, <2>5, <2>6
      <4>2. q.vertex[l] = c[3] BY <4>1, <2>4, <2>5, <2>6
      <4>3. q.vertex[e] = c[1] BY <4>2, <2>4, <2>5, <2>6
      <4> QED BY <3>3, <4>2, <4>3, <2>5
    <3> QED BY <2>4, <3>1, <3>2, <3>3
  <2>9. e = h BY <2>3, <2>6, <2>8
  <2> QED BY <2>6, <2>7, <2>8, <2>9 DEF g, l, e
<1>26. q.fault = "none" BY <1>11, <1>g
<1>27. Left(q) BY <1>19, <1>23 DEF Left
<1> QED BY <1>24, <1>25, <1>26, <1>27

\* The half-edge before another one around a vertex.
LEMMA Before ==
  ASSUME NEW m, IsMesh(m), Links(m), NEW v, NEW h \in Fan(m, v)
  PROVE  \E p \in Fan(m, v) : VertexStep(m)[p] = h /\ m.next[p] = Twin(h)
<1> DEFINE F == Fan(m, v)
           s == VertexCycle(m, h)
<1>1. Permutes(VertexStep(m), F) /\ F \subseteq D(m) BY StepFacts DEF Fan
<1>2. IsRound(s, VertexStep(m), F, h)
  <2> HIDE DEF F
  <2>1. h \in F BY DEF F
  <2> QED BY <2>1, <1>1, AroundVertex
<1> HIDE DEF s
<1>3. s[Len(s)] \in F /\ VertexStep(m)[s[Len(s)]] = h BY <1>2 DEF IsRound
<1>4. m.next[s[Len(s)]] = Twin(h) BY <1>1, <1>3, StepFacts
<1> QED BY <1>3, <1>4

\* What a client sees of the faces.
LEMMA SeenFaces ==
  ASSUME NEW m, IsMesh(m), m.fault = "none", NEW h \in D(m), ~Hole(m, h)
  PROVE  /\ m.face[h] \in 0..(MaxFaces - 1)
         /\ FacesOf(m, INVALID)[m.face[h]] = {<<Source(m, e), m.vertex[e]>> : e \in FaceSet(m, m.face[h])}
<1>1. PICK k \in 0..MaxFaces : m.faceHalfedge \in [0..(k - 1) -> Nat] /\ \A e \in D(m) : m.face[e] \in 0..(k - 1) \/ Hole(m, e)
  BY DEF IsMesh
<1>2. MaxFaces \in Nat /\ INVALID \in Nat /\ INVALID > MaxFaces /\ ValidHalfedges(m) = D(m) BY MeshFacts
<1>3. m.face[h] \in 0..(k - 1) BY <1>1
<1>4. m.face[h] \in DOMAIN m.faceHalfedge /\ m.face[h] # INVALID /\ m.face[h] \in 0..(MaxFaces - 1) BY <1>1, <1>2, <1>3
<1>5. FaceLoop(m, m.face[h]) = {<<Source(m, e), m.vertex[e]>> : e \in FaceSet(m, m.face[h])}
  BY <1>2 DEF FaceLoop, FaceSet
<1> QED BY <1>4, <1>5 DEF FacesOf

\* A face that cuts a vertex is seen to do so.
LEMMA CutPinches ==
  ASSUME NEW m, Surfaced(m, INVALID), m.fault = "none", NEW v, CutAt(m, v), \A h \in Fan(m, v) : Agrees(m, h)
  PROVE  Pinches(FacesOf(m, INVALID), v)
<1> DEFINE F == Fan(m, v)
           seen == FacesOf(m, INVALID)
<1>m. IsMesh(m) /\ Links(m) /\ Edges(m) /\ FaceSimple(m) BY DEF Surfaced
<1>1. PICK X \in SUBSET F : X # {} /\ X # F /\ \A h \in X : VertexStep(m)[h] \in X /\ ~Hole(m, h) BY DEF CutAt
<1> DEFINE S == {m.face[h] : h \in X}
<1>2. \A h \in D(m) : /\ Twin(h) \in D(m) /\ Twin(Twin(h)) = h /\ Source(m, Twin(h)) = m.vertex[h]
                      /\ m.vertex[Twin(h)] = Source(m, h) /\ m.next[h] \in D(m) /\ VertexStep(m)[h] = Twin(m.next[h])
                      /\ Source(m, m.next[h]) = m.vertex[h]
  BY <1>m, MeshFacts, StepFacts DEF Source, Links
<1>3. \A h \in F : h \in D(m) /\ m.vertex[h] = v BY DEF Fan
<1>4. DOMAIN seen = 0..(MaxFaces - 1) BY DEF FacesOf
<1>5. ASSUME NEW h \in D(m), ~Hole(m, h) PROVE m.face[h] \in DOMAIN seen /\ <<Source(m, h), m.vertex[h]>> \in seen[m.face[h]]
  <2>1. h \in FaceSet(m, m.face[h]) BY DEF FaceSet
  <2>2. m.face[h] \in 0..(MaxFaces - 1) /\ seen[m.face[h]] = {<<Source(m, e), m.vertex[e]>> : e \in FaceSet(m, m.face[h])}
    BY <1>5, <1>m, SeenFaces
  <2> HIDE DEF seen
  <2> QED BY <2>1, <2>2, <1>4
<1>6. ASSUME NEW h \in F, ~Hole(m, h) PROVE m.face[h] \in Around(seen, v) /\ m.face[m.next[h]] = m.face[h]
  <2>1. m.next[h] \in D(m) /\ Source(m, m.next[h]) = v BY <1>2, <1>3
  <2>2. m.face[m.next[h]] = m.face[h] /\ ~Hole(m, m.next[h]) BY <1>6 DEF Agrees, Hole
  <2>3. m.face[h] \in DOMAIN seen /\ <<v, m.vertex[m.next[h]]>> \in seen[m.face[h]] BY <2>1, <2>2, <1>5
  <2>4. <<v, m.vertex[m.next[h]]>>[1] = v OBVIOUS
  <2> HIDE DEF seen
  <2> QED BY <2>2, <2>3, <2>4 DEF Around
<1>7. ASSUME NEW k \in D(m), Source(m, k) = v, ~Hole(m, k) PROVE \E p \in F : m.next[p] = k /\ m.face[p] = m.face[k] /\ ~Hole(m, p)
  <2>1. Twin(k) \in F BY <1>2, <1>7 DEF Fan
  <2>2. PICK p \in F : m.next[p] = Twin(Twin(k)) BY <2>1, <1>m, Before
  <2>3. m.next[p] = k BY <2>2, <1>2
  <2> QED BY <2>3, <1>7 DEF Agrees, Hole
<1>8. ASSUME NEW g \in F, NEW h \in X, m.face[g] = m.face[h] PROVE g = h
  BY <1>1, <1>3, <1>8, <1>m DEF FaceSimple, Hole
<1>9. ClosedFan(seen, v, S)
  <2> SUFFICES ASSUME NEW h \in X, NEW e \in seen[m.face[h]], e[1] = v
               PROVE  \E g \in S : <<e[2], v>> \in seen[g]
    BY DEF ClosedFan
  <2>1. h \in D(m) /\ ~Hole(m, h) BY <1>1, <1>3
  <2>2. e \in {<<Source(m, b), m.vertex[b]>> : b \in FaceSet(m, m.face[h])} BY <2>1, <1>m, SeenFaces
  <2>3. PICK k \in FaceSet(m, m.face[h]) : e = <<Source(m, k), m.vertex[k]>> BY <2>2
  <2>4. k \in D(m) /\ m.face[k] = m.face[h] /\ Source(m, k) = v /\ e[2] = m.vertex[k] BY <2>3 DEF FaceSet
  <2>5. ~Hole(m, k) BY <2>1, <2>4 DEF Hole
  <2>6. PICK p \in F : m.next[p] = k /\ m.face[p] = m.face[k] BY <2>4, <2>5, <1>7
  <2>7. p = h BY <2>4, <2>6, <1>8
  <2>8. Twin(k) \in X BY <2>1, <2>6, <2>7, <1>1, <1>2
  <2>9. Twin(k) \in D(m) /\ ~Hole(m, Twin(k)) /\ Source(m, Twin(k)) = e[2] /\ m.vertex[Twin(k)] = v
    BY <2>4, <2>8, <1>1, <1>2
  <2>10. <<e[2], v>> \in seen[m.face[Twin(k)]] BY <2>9, <1>5
  <2>11. m.face[Twin(k)] \in S BY <2>8
  <2> QED BY <2>10, <2>11
<1>10. S # {} BY <1>1
<1>11. S \subseteq Around(seen, v) BY <1>1, <1>6
<1>12. S # Around(seen, v)
  <2> SUFFICES \E g \in F : g \notin X /\ ~Hole(m, g)
    <3>1. PICK g \in F : g \notin X /\ ~Hole(m, g) OBVIOUS
    <3>2. m.face[g] \in Around(seen, v) BY <3>1, <1>6
    <3>3. m.face[g] \notin S BY <3>1, <1>8
    <3> QED BY <3>2, <3>3
  <2>1. PICK h \in F : h \notin X BY <1>1
  <2>2. CASE ~Hole(m, h) BY <2>1, <2>2
  <2>3. CASE Hole(m, h)
    <3>1. Twin(h) \in D(m) /\ Source(m, Twin(h)) = v /\ ~Hole(m, Twin(h)) BY <2>3, <1>2, <1>3, <1>m DEF Edges
    <3>2. PICK p \in F : m.next[p] = Twin(h) /\ ~Hole(m, p) BY <3>1, <1>7
    <3>3. VertexStep(m)[p] = h BY <3>2, <1>2, <1>3
    <3>4. p \notin X BY <3>3, <2>1, <1>1
    <3> QED BY <3>2, <3>4
  <2> QED BY <2>2, <2>3
<1>13. S \in (SUBSET Around(seen, v)) \ {{}, Around(seen, v)} BY <1>10, <1>11, <1>12
<1> HIDE DEF S, seen
<1>14. Pinches(seen, v) BY <1>9, <1>13 DEF Pinches
<1> QED BY <1>14 DEF seen

\* So that a mesh nobody has pinched is left without open ends.
LEMMA UncutSettles ==
  ASSUME NEW m, Left(m), m.fault = "none", \A v \in Vertices : ~Pinches(FacesOf(m, INVALID), v)
  PROVE  Settled(m)
<1>1. Surfaced(m, INVALID) /\ IsMesh(m) BY DEF Left, Surfaced
<1>2. ASSUME NEW v \in Vertices PROVE Whole(m, v)
  <2>1. CASE Whole(m, v) BY <2>1
  <2>2. CASE Passed(m, v)
    <3>1. \A h \in Fan(m, v) : Agrees(m, h) BY <2>2 DEF Passed
    <3>2. ~CutAt(m, v) BY <3>1, <1>1, CutPinches
    <3>3. OneCycle(Fan(m, v), VertexStep(m)) /\ m.vertexHalfedge[v] \in Fan(m, v) BY <3>2, <2>2 DEF Passed
    <3>4. INVALID \notin D(m) /\ m.next \in [D(m) -> D(m)] BY <1>1, MeshFacts DEF IsMesh
    <3>5. INVALID \notin Fan(m, v) /\ \A h \in Fan(m, v) : m.next[h] # INVALID BY <3>4 DEF Fan
    <3> QED BY <3>1, <3>3, <3>5 DEF Whole, Corner
  <2> QED BY <2>1, <2>2 DEF Left
<1> QED BY <1>1, <1>2 DEF Settled

-----------------------------------------------------------------------------
(* Numbers for the holes.                                                  *)

\* cache_boundary_info, for one half-edge.
NumberNext(m, done, h) ==
  LET walk == FaceCycle(m, h)
      met == {i \in DOMAIN walk : done.face[walk[i]] # INVALID \/ \E j \in 1..(i - 1) : walk[j] = walk[i]}
      fresh == {walk[i] : i \in {j \in DOMAIN walk : \A k \in met : j < k}}
  IN  IF done.fault # "none" \/ done.face[h] # INVALID THEN done
      ELSE [face |-> [e \in DOMAIN m.face |-> IF e \in fresh THEN BoundaryFaceId(Len(done.first)) ELSE done.face[e]],
            first |-> Append(done.first, h),
            fault |-> IF met = {} /\ Closes(FaceStep(m), h) THEN "none" ELSE "throw"]

\* Before any hole has a number.
Unnumbered(m) ==
  [face |-> [h \in DOMAIN m.face |-> IF IsBoundaryFace(m, m.face[h]) THEN INVALID ELSE m.face[h]],
   first |-> <<>>, fault |-> "none"]

\* num is the recursive function of NumberBoundaries.
Numbers(num, m) ==
  num = [h \in 0..HalfedgeCount(m) |-> IF h = 0 THEN Unnumbered(m) ELSE NumberNext(m, num[h - 1], h - 1)]

\* The recursive function of cache_boundary_info exists.
LEMMA NumbersExist ==
  ASSUME NEW m, HalfedgeCount(m) \in Nat
  PROVE  \E num : Numbers(num, m)
<1> DEFINE Body(w, j) == IF j = 0 THEN Unnumbered(m) ELSE NumberNext(m, w[j - 1], j - 1)
           Eq(w, k) == w = [j \in 0..k |-> Body(w, j)]
           Good == {k \in Nat : \E w : Eq(w, k)}
<1>1. 0 \in Good
  <2> DEFINE w == [j \in 0..0 |-> Unnumbered(m)]
  <2>1. ASSUME NEW j \in 0..0 PROVE Body(w, j) = Unnumbered(m) OBVIOUS
  <2>2. w = [j \in 0..0 |-> Body(w, j)]
    <3> HIDE DEF Body
    <3> QED BY <2>1
  <2>3. Eq(w, 0) BY <2>2
  <2> HIDE DEF Eq, w
  <2> QED BY <2>3
<1>2. ASSUME NEW k \in Nat, k \in Good PROVE k + 1 \in Good
  <2>1. PICK w : Eq(w, k) BY <1>2
  <2> DEFINE next == [j \in 0..(k + 1) |-> Body(w, j)]
  <2>2. ASSUME NEW j \in 0..k PROVE next[j] = w[j]
    <3> HIDE DEF Body
    <3> QED BY <2>1
  <2>3. ASSUME NEW j \in 0..(k + 1) PROVE Body(w, j) = Body(next, j)
    <3>1. CASE j = 0 BY <3>1
    <3>2. CASE j # 0
      <4>1. j - 1 \in 0..k BY <3>2
      <4> HIDE DEF next
      <4> QED BY <4>1, <2>2
    <3> QED BY <3>1, <3>2
  <2> HIDE DEF Body
  <2>4. next = [j \in 0..(k + 1) |-> Body(next, j)] BY <2>3
  <2>5. Eq(next, k + 1) BY <2>4
  <2> HIDE DEF Eq, next
  <2> QED BY <2>5
<1>3. HalfedgeCount(m) \in Good
  <2> HIDE DEF Good
  <2> QED BY <1>1, <1>2, InductionOnSet
<1>4. PICK w : Eq(w, HalfedgeCount(m)) BY <1>3
<1> QED BY <1>4 DEF Numbers

\* Only half-edges of holes get other numbers, and those are no faces.
Renumbered(face, m) ==
  /\ face = [h \in D(m) |-> face[h]]
  /\ \A h \in D(m) : IF Hole(m, h) THEN face[h] \in Nat /\ face[h] > MaxFaces ELSE face[h] = m.face[h]

\* cache_boundary_info gives other numbers to holes only, whether it ends or throws.
LEMMA HolesNumbered ==
  ASSUME NEW m, IsMesh(m)
  PROVE  Renumbered(NumberBoundaries(m).face, m)
<1> DEFINE num == CHOOSE num : Numbers(num, m)
           N == HalfedgeCount(m)
           Fine(done, k) == Renumbered(done.face, m) /\ Len(done.first) \in 0..k /\ done.first \in Seq(Nat)
           Good == {k \in Nat : k <= N => Fine(num[k], k)}
<1>n. N \in Nat /\ N <= MaxHalfedges /\ D(m) = 0..(N - 1)
  <2>1. PICK k \in Nat : 2 * k <= MaxHalfedges /\ D(m) = 0..(2 * k - 1) BY DEF IsMesh
  <2>2. Cardinality(0..(2 * k - 1)) = 2 * k BY FS_Interval
  <2> QED BY <2>1, <2>2 DEF HalfedgeCount, D
<1>a. INVALID \in Nat /\ MaxFaces \in Nat /\ MaxHalfedges \in Nat /\ MaxHalfedges + MaxFaces < INVALID BY DcelAssumption
<1>m. DOMAIN m.face = D(m) /\ m.face \in [D(m) -> Nat] /\ \A h \in D(m) : IsBoundaryFace(m, m.face[h]) <=> Hole(m, h)
  BY MeshFacts DEF IsMesh, OnBoundary
<1>1. Numbers(num, m) BY <1>n, NumbersExist
<1>2. NumberBoundaries(m) = num[N] BY DEF NumberBoundaries, Numbers, NumberNext, Unnumbered
<1> HIDE DEF num, N
<1>3. ASSUME NEW k \in Nat, k <= N PROVE num[k] = IF k = 0 THEN Unnumbered(m) ELSE NumberNext(m, num[k - 1], k - 1)
  <2> DEFINE Body(j) == IF j = 0 THEN Unnumbered(m) ELSE NumberNext(m, num[j - 1], j - 1)
  <2>1. num = [j \in 0..N |-> Body(j)] BY <1>1 DEF Numbers, N
  <2>2. k \in 0..N BY <1>3, <1>n
  <2> HIDE DEF Body
  <2>3. num[k] = Body(k) BY <2>1, <2>2
  <2> QED BY <2>3 DEF Body
<1>4. 0 \in Good
  <2> SUFFICES Fine(num[0], 0) OBVIOUS
  <2>1. num[0] = Unnumbered(m) BY <1>3, <1>n
  <2>2. Fine(Unnumbered(m), 0) BY <1>a, <1>m DEF Unnumbered, Renumbered
  <2> QED BY <2>1, <2>2
<1>5. ASSUME NEW k \in Nat, k \in Good PROVE k + 1 \in Good
  <2> SUFFICES ASSUME k + 1 <= N PROVE Fine(num[k + 1], k + 1) OBVIOUS
  <2> DEFINE done == num[k]
             walk == FaceCycle(m, k)
             met == {i \in DOMAIN walk : done.face[walk[i]] # INVALID \/ \E j \in 1..(i - 1) : walk[j] = walk[i]}
             fresh == {walk[i] : i \in {j \in DOMAIN walk : \A l \in met : j < l}}
             b == Len(done.first)
  <2>1. Fine(done, k) /\ num[k + 1] = NumberNext(m, done, k) BY <1>3, <1>5, <1>n
  <2>2. b \in 0..k /\ BoundaryFaceId(b) \in Nat /\ BoundaryFaceId(b) > MaxFaces BY <2>1, <1>a, <1>n DEF BoundaryFaceId
  <2>w. DOMAIN walk \subseteq Nat
    <3>a. m.next \in [0..(N - 1) -> 0..(N - 1)]
      <4>1. m.next \in [D(m) -> D(m)] BY DEF IsMesh
      <4> QED BY <4>1, <1>n
    <3>b. k \in 0..(N - 1) BY <1>n, k + 1 <= N
    <3>1. m.next \in [0..(N - 1) -> 0..(N - 1)] /\ k \in 0..(N - 1) BY <3>a, <3>b
    <3>2. IsWalk(Cycle(m.next, k), m.next, k) BY <3>1, <1>n, CycleIsWalk
    <3>3. walk = Cycle(m.next, k) BY DEF FaceCycle, FaceStep
    <3> HIDE DEF walk
    <3> QED BY <3>2, <3>3 DEF IsWalk
  <2>3. ASSUME NEW e \in D(m), e \in fresh PROVE Hole(m, e)
    <3>1. PICK i \in DOMAIN walk : e = walk[i] /\ \A l \in met : i < l BY <2>3
    <3>2. i \notin met
      <4> SUFFICES ASSUME i \in met PROVE FALSE OBVIOUS
      <4>1. i < i BY <3>1
      <4>2. i \in Nat BY <2>w
      <4> QED BY <4>1, <4>2
    <3>3. done.face[e] = INVALID BY <3>1, <3>2
    <3>4. m.face[e] # INVALID \/ Hole(m, e) BY <1>a DEF Hole
    <3> QED BY <3>3, <3>4, <2>1 DEF Renumbered
  <2>4. CASE done.fault # "none" \/ done.face[k] # INVALID
    <3>1. num[k + 1] = done BY <2>1, <2>4 DEF NumberNext
    <3> QED BY <3>1, <2>1
  <2>5. CASE ~(done.fault # "none" \/ done.face[k] # INVALID)
    <3> DEFINE face == [e \in DOMAIN m.face |-> IF e \in fresh THEN BoundaryFaceId(b) ELSE done.face[e]]
    <3>1. num[k + 1] = [face |-> face, first |-> Append(done.first, k),
                        fault |-> IF met = {} /\ Closes(FaceStep(m), k) THEN "none" ELSE "throw"]
      BY <2>1, <2>5 DEF NumberNext
    <3>2. Renumbered(face, m)
      <4> HIDE DEF fresh, b, done
      <4> QED BY <2>1, <2>2, <2>3, <1>m DEF Renumbered
    <3>3. num[k + 1].face = face /\ num[k + 1].first = Append(done.first, k)
      <4> HIDE DEF face, met
      <4> QED BY <3>1
    <3>4. Append(done.first, k) \in Seq(Nat) /\ Len(Append(done.first, k)) \in 0..(k + 1) BY <2>1
    <3> HIDE DEF face, done
    <3> QED BY <3>2, <3>3, <3>4
  <2> QED BY <2>4, <2>5
<1>6. Nat \subseteq Good
  <2> HIDE DEF Good
  <2> QED BY <1>4, <1>5, InductionOnSet
<1> QED BY <1>2, <1>6, <1>n

\* And so leaves the surface as it was.
LEMMA NumberedSettles ==
  ASSUME NEW m, Settled(m), NEW face, Renumbered(face, m), NEW r, r = [m EXCEPT !.face = face]
  PROVE  Settled(r) /\ Kept(r, m, INVALID)
<1>m. IsMesh(m) /\ Links(m) /\ Edges(m) /\ FaceSimple(m) /\ FaceRefs(m) /\ FaceLoops(m, INVALID)
  BY DEF Settled, Surfaced
<1>1. DOMAIN m = {"next", "vertex", "face", "vertexHalfedge", "faceHalfedge", "fault"} /\ m.next \in [D(m) -> D(m)]
  BY <1>m DEF IsMesh
<1>2. /\ DOMAIN r = DOMAIN m /\ r.next = m.next /\ r.vertex = m.vertex /\ r.face = face
      /\ r.vertexHalfedge = m.vertexHalfedge /\ r.faceHalfedge = m.faceHalfedge /\ r.fault = m.fault
  BY <1>1
<1>3. D(r) = D(m) /\ VertexStep(r) = VertexStep(m) BY <1>2 DEF D, VertexStep
<1>4. \A h \in D(m) : (Hole(r, h) <=> Hole(m, h)) /\ (~Hole(m, h) => r.face[h] = m.face[h]) BY <1>2 DEF Renumbered, Hole
<1>5. (\A h : Source(r, h) = Source(m, h)) /\ \A v : Fan(r, v) = Fan(m, v) BY <1>2, <1>3 DEF Source, Fan
<1>6. \A f \in DOMAIN m.faceHalfedge : FaceSet(r, f) = FaceSet(m, f)
  <2> SUFFICES ASSUME NEW f \in DOMAIN m.faceHalfedge PROVE FaceSet(r, f) = FaceSet(m, f) OBVIOUS
  <2>1. ~(f > MaxFaces) BY <1>m, OpenFace
  <2>2. ASSUME NEW h \in D(m) PROVE r.face[h] = f <=> m.face[h] = f BY <2>1, <1>4 DEF Hole
  <2> QED BY <2>2, <1>3 DEF FaceSet
<1>7. IsMesh(r)
  <2>1. PICK k \in 0..MaxFaces : m.faceHalfedge \in [0..(k - 1) -> Nat] /\ \A h \in D(m) : m.face[h] \in 0..(k - 1) \/ Hole(m, h)
    BY <1>m DEF IsMesh
  <2>2. \A h \in D(r) : r.face[h] \in 0..(k - 1) \/ Hole(r, h) BY <2>1, <1>3, <1>4
  <2>3. r.face \in [D(r) -> Nat]
    <3>1. face = [h \in D(m) |-> face[h]] BY DEF Renumbered
    <3>2. \A h \in D(m) : face[h] \in Nat BY <1>m DEF Renumbered, IsMesh
    <3> QED BY <3>1, <3>2, <1>2, <1>3
  <2> QED BY <2>1, <2>2, <2>3, <1>m, <1>2, <1>3 DEF IsMesh
<1>8. Links(r) /\ Edges(r) /\ FaceRefs(r) /\ FaceLoops(r, INVALID)
  <2>1. Links(r) BY <1>m, <1>2, <1>3, <1>5 DEF Links
  <2>2. Edges(r)
    <3>1. \A h \in D(m) : Twin(h) \in D(m) BY <1>m, MeshFacts
    <3> QED BY <3>1, <1>m, <1>2, <1>3, <1>4, <1>5 DEF Edges
  <2>3. FaceRefs(r) BY <1>m, <1>2, <1>6 DEF FaceRefs
  <2>4. FaceLoops(r, INVALID) BY <1>m, <1>2, <1>6 DEF FaceLoops
  <2> QED BY <2>1, <2>2, <2>3, <2>4
<1>9. FaceSimple(r)
  <2> SUFFICES ASSUME NEW g \in D(m), NEW h \in D(m), r.face[g] = r.face[h], r.vertex[g] = r.vertex[h], ~Hole(r, g) PROVE g = h
    BY <1>3 DEF FaceSimple
  <2>1. ~Hole(r, h) BY DEF Hole
  <2>2. m.face[g] = m.face[h] /\ m.vertex[g] = m.vertex[h] /\ ~Hole(m, g) BY <2>1, <1>2, <1>4
  <2> QED BY <2>2, <1>m DEF FaceSimple
<1>10. \A h \in D(m) : Agrees(m, h) => Agrees(r, h)
  <2> SUFFICES ASSUME NEW h \in D(m), Agrees(m, h) PROVE Agrees(r, h) OBVIOUS
  <2>1. m.next[h] \in D(m) /\ r.next[h] = m.next[h] BY <1>1, <1>2
  <2>2. CASE Hole(m, h) BY <2>1, <2>2, <1>4 DEF Agrees, Hole
  <2>3. CASE ~Hole(m, h) BY <2>1, <2>3, <1>4 DEF Agrees, Hole
  <2> QED BY <2>2, <2>3
<1>11. ASSUME NEW v \in Vertices PROVE Whole(r, v)
  <2>1. Corner(m, v, Fan(m, v), INVALID, INVALID) BY DEF Settled, Whole
  <2>2. INVALID \notin D(m) BY <1>m, MeshFacts
  <2>3. ASSUME NEW h \in Fan(m, v) PROVE h \in D(m) /\ h # INVALID /\ r.next[h] # INVALID /\ Agrees(r, h)
    <3>1. h \in D(m) /\ h # INVALID /\ m.next[h] # INVALID BY <2>2, <1>1 DEF Fan
    <3>2. Agrees(m, h) BY <3>1, <2>1 DEF Corner
    <3> QED BY <3>1, <3>2, <1>2, <1>10
  <2>4. Corner(r, v, Fan(m, v), INVALID, INVALID)
    <3>1. INVALID \notin Fan(r, v) BY <2>2, <1>5 DEF Fan
    <3> QED BY <3>1, <2>1, <2>3, <1>2, <1>3, <1>5 DEF Corner
  <2> QED BY <2>4, <1>5 DEF Whole
<1>12. Kept(r, m, INVALID) BY <1>2, <1>6 DEF Kept
<1> QED BY <1>7, <1>8, <1>9, <1>11, <1>12 DEF Settled, Surfaced

-----------------------------------------------------------------------------
(* Where a mesh and a face begin.                                          *)

\* initialize leaves a mesh without half-edges.
LEMMA EmptySettles ==
  ASSUME NEW n \in 0..MaxFaces
  PROVE  Settled(EmptyMesh(n)) /\ Triangles(EmptyMesh(n), INVALID)
<1> DEFINE m == EmptyMesh(n)
<1>a. INVALID \in Nat /\ MaxFaces \in Nat /\ MaxHalfedges \in Nat BY DcelAssumption
<1>1. /\ DOMAIN m = {"next", "vertex", "face", "vertexHalfedge", "faceHalfedge", "fault"}
      /\ m.next = [h \in {} |-> INVALID] /\ m.vertex = [h \in {} |-> INVALID] /\ m.face = [h \in {} |-> INVALID]
      /\ m.vertexHalfedge = [v \in Vertices |-> INVALID] /\ m.faceHalfedge = [f \in 0..(n - 1) |-> INVALID]
  BY DEF EmptyMesh
<1> HIDE DEF m
<1>2. D(m) = {} BY <1>1 DEF D
<1>3. IsMesh(m)
  <2>1. 2 * 0 <= MaxHalfedges /\ D(m) = 0..(2 * 0 - 1) BY <1>2, <1>a
  <2>2. m.next \in [D(m) -> D(m)] /\ m.vertex \in [D(m) -> Vertices] /\ m.face \in [D(m) -> Nat] BY <1>1, <1>2
  <2>3. m.faceHalfedge \in [0..(n - 1) -> Nat] /\ \A h \in D(m) : m.face[h] \in 0..(n - 1) \/ Hole(m, h) BY <1>1, <1>2, <1>a
  <2>4. m.vertexHalfedge \in [Vertices -> Nat] BY <1>1, <1>a
  <2>5. 0 \in Nat OBVIOUS
  <2>6. \E k \in Nat : 2 * k <= MaxHalfedges /\ D(m) = 0..(2 * k - 1) BY <2>1, <2>5
  <2> QED BY <1>1, <2>2, <2>3, <2>4, <2>6 DEF IsMesh
<1>4. (\A v : Fan(m, v) = {}) /\ \A f : FaceSet(m, f) = {} BY <1>2 DEF Fan, FaceSet
<1>5. Links(m) /\ Edges(m) /\ FaceSimple(m) BY <1>2 DEF Links, Edges, FaceSimple
<1>6. FaceRefs(m) BY <1>1, <1>4 DEF FaceRefs
<1>7. OneCycle({}, m.next) /\ OneCycle({}, VertexStep(m)) BY DEF OneCycle
<1>8. FaceLoops(m, INVALID) BY <1>4, <1>7 DEF FaceLoops
<1>9. \A v \in Vertices : Whole(m, v) BY <1>1, <1>4, <1>7 DEF Whole, Corner
<1>10. Triangles(m, INVALID) BY <1>4 DEF Triangles, Triangular
<1> QED BY <1>3, <1>5, <1>6, <1>8, <1>9, <1>10 DEF Settled, Surfaced, m

\* begin_face.
LEMMA FaceBegins ==
  ASSUME NEW m, Settled(m), NEW f \in DOMAIN m.faceHalfedge, m.faceHalfedge[f] = INVALID
  PROVE  Chain(m, FaceInfo(f)) /\ f # INVALID /\ (Triangles(m, INVALID) => Triangles(m, f))
<1> DEFINE i == FaceInfo(f)
<1>1. i.face = f /\ i.corners = <<>> /\ i.first = INVALID /\ i.previous = INVALID /\ i.expectedNext = INVALID BY DEF FaceInfo
<1> HIDE DEF i
<1>2. Surfaced(m, INVALID) /\ \A v \in Vertices : Whole(m, v) BY DEF Settled
<1>3. FaceSet(m, f) = {} BY <1>2 DEF Surfaced, FaceRefs
<1>4. INVALID \notin DOMAIN m.faceHalfedge BY <1>2, OpenFace DEF Surfaced
<1>5. FaceLoops(m, f) BY <1>2, <1>4 DEF Surfaced, FaceLoops
<1>6. Surfaced(m, f) BY <1>2, <1>5 DEF Surfaced
<1>7. Path(m, f, <<>>) BY <1>3 DEF Path
<1>8. Len(<<>>) < 2 /\ <<>> \in Seq(Vertices) /\ DOMAIN <<>> = {} OBVIOUS
<1>9. Chain(m, i) BY <1>1, <1>2, <1>6, <1>7, <1>8 DEF Chain
<1>10. Triangles(m, INVALID) => Triangles(m, f) BY <1>4 DEF Triangles
<1> QED BY <1>4, <1>9, <1>10 DEF i

\* insert_new_face_id.
LEMMA FaceInserted ==
  ASSUME NEW m, Settled(m), FaceCount(m) < MaxFaces,
         NEW r, r = [m EXCEPT !.faceHalfedge = [f \in 0..FaceCount(m) |-> IF f < FaceCount(m) THEN @[f] ELSE INVALID]]
  PROVE  /\ Settled(r) /\ r.fault = m.fault
         /\ FaceCount(m) \in DOMAIN r.faceHalfedge /\ r.faceHalfedge[FaceCount(m)] = INVALID
         /\ Triangles(m, INVALID) => Triangles(r, INVALID)
<1>m. IsMesh(m) /\ Links(m) /\ Edges(m) /\ FaceSimple(m) /\ FaceRefs(m) /\ FaceLoops(m, INVALID) /\ \A v \in Vertices : Whole(m, v)
  BY DEF Settled, Surfaced
<1>a. INVALID \in Nat /\ MaxFaces \in Nat BY DcelAssumption
<1>1. PICK n \in 0..MaxFaces : m.faceHalfedge \in [0..(n - 1) -> Nat] /\ \A h \in D(m) : m.face[h] \in 0..(n - 1) \/ Hole(m, h)
  BY <1>m DEF IsMesh
<1>2. FaceCount(m) = n /\ n < MaxFaces /\ n \in Nat
  <2>1. n \in Nat /\ DOMAIN m.faceHalfedge = 0..(n - 1) BY <1>1, <1>a
  <2>2. Cardinality(0..(n - 1)) = n
    <3>1. n - 1 \in Int /\ 0 \in Int /\ (0 > n - 1 => n = 0) /\ (n - 1) - 0 + 1 = n BY <2>1
    <3>2. Cardinality(0..(n - 1)) = IF 0 > n - 1 THEN 0 ELSE (n - 1) - 0 + 1 BY <3>1, FS_Interval
    <3> QED BY <3>1, <3>2
  <2> QED BY <2>1, <2>2 DEF FaceCount
<1>3. DOMAIN m = {"next", "vertex", "face", "vertexHalfedge", "faceHalfedge", "fault"} BY <1>m DEF IsMesh
<1>4. /\ DOMAIN r = DOMAIN m /\ r.next = m.next /\ r.vertex = m.vertex /\ r.face = m.face
      /\ r.vertexHalfedge = m.vertexHalfedge /\ r.fault = m.fault
      /\ r.faceHalfedge = [f \in 0..n |-> IF f < n THEN m.faceHalfedge[f] ELSE INVALID]
  BY <1>2, <1>3
<1>5. D(r) = D(m) /\ VertexStep(r) = VertexStep(m) /\ (\A h : Hole(r, h) <=> Hole(m, h)) /\ (\A h : Source(r, h) = Source(m, h))
  BY <1>4 DEF D, VertexStep, Hole, Source
<1>6. (\A v : Fan(r, v) = Fan(m, v)) /\ (\A f : FaceSet(r, f) = FaceSet(m, f)) /\ (\A h : Agrees(r, h) <=> Agrees(m, h))
  BY <1>4, <1>5 DEF Fan, FaceSet, Agrees
<1>7. FaceSet(m, n) = {} BY <1>1, <1>2, <1>a DEF FaceSet, Hole
<1>8. \A f \in 0..n : f \in 0..(n - 1) \/ f = n BY <1>2
<1>9. IsMesh(r)
  <2>1. n + 1 \in 0..MaxFaces /\ 0..((n + 1) - 1) = 0..n BY <1>2, <1>a
  <2>2. r.faceHalfedge \in [0..n -> Nat] BY <1>1, <1>2, <1>4, <1>8, <1>a
  <2>3. \A h \in D(r) : r.face[h] \in 0..n \/ Hole(r, h) BY <1>1, <1>2, <1>4, <1>5
  <2> DEFINE k == n + 1
  <2>4. r.faceHalfedge \in [0..(k - 1) -> Nat] /\ \A h \in D(r) : r.face[h] \in 0..(k - 1) \/ Hole(r, h) BY <2>1, <2>2, <2>3
  <2>5. k \in 0..MaxFaces BY <2>1
  <2> HIDE DEF k
  <2>6. \E j \in 0..MaxFaces : r.faceHalfedge \in [0..(j - 1) -> Nat] /\ \A h \in D(r) : r.face[h] \in 0..(j - 1) \/ Hole(r, h)
    BY <2>4, <2>5
  <2> QED BY <2>6, <1>m, <1>4, <1>5 DEF IsMesh
<1>10. Links(r)
  <2>1. \A h \in D(r) : Source(r, r.next[h]) = r.vertex[h] BY <1>m, <1>4, <1>5 DEF Links
  <2>2. \A g, h \in D(r) : r.next[g] = r.next[h] => g = h BY <1>m, <1>4, <1>5 DEF Links
  <2> QED BY <2>1, <2>2 DEF Links
<1>11. Edges(r) BY <1>m, <1>4, <1>5 DEF Edges
<1>12. FaceSimple(r) BY <1>m, <1>4, <1>5 DEF FaceSimple
<1>13. DOMAIN r.faceHalfedge = 0..n /\ \A f \in 0..(n - 1) : f \in DOMAIN m.faceHalfedge /\ r.faceHalfedge[f] = m.faceHalfedge[f]
  BY <1>1, <1>2, <1>4
<1>14. n \in 0..n /\ r.faceHalfedge[n] = INVALID BY <1>2, <1>4
<1>15. FaceRefs(r)
  <2> SUFFICES ASSUME NEW f \in 0..n
               PROVE  IF r.faceHalfedge[f] = INVALID THEN FaceSet(r, f) = {} ELSE r.faceHalfedge[f] \in FaceSet(r, f)
    BY <1>13 DEF FaceRefs
  <2>1. CASE f = n BY <2>1, <1>6, <1>7, <1>14
  <2>2. CASE f \in 0..(n - 1) BY <2>2, <1>m, <1>6, <1>13 DEF FaceRefs
  <2> QED BY <2>1, <2>2, <1>8
<1>16. FaceLoops(r, INVALID)
  <2> SUFFICES ASSUME NEW f \in 0..n, f # INVALID PROVE OneCycle(FaceSet(r, f), r.next) BY <1>13 DEF FaceLoops
  <2>1. CASE f = n BY <2>1, <1>6, <1>7 DEF OneCycle
  <2>2. CASE f \in 0..(n - 1) BY <2>2, <1>m, <1>4, <1>6, <1>13 DEF FaceLoops
  <2> QED BY <2>1, <2>2, <1>8
<1>17. \A v \in Vertices : Whole(r, v)
  <2> SUFFICES ASSUME NEW v \in Vertices PROVE Whole(r, v) OBVIOUS
  <2>1. Corner(m, v, Fan(m, v), INVALID, INVALID) BY <1>m DEF Whole
  <2> QED BY <2>1, <1>4, <1>5, <1>6 DEF Whole, Corner
<1>18. ASSUME Triangles(m, INVALID) PROVE Triangles(r, INVALID)
  <2> SUFFICES ASSUME NEW f \in 0..n, f # INVALID PROVE Triangular(r, f) BY <1>13 DEF Triangles
  <2>1. CASE f = n BY <2>1, <1>6, <1>7 DEF Triangular
  <2>2. CASE f \in 0..(n - 1)
    <3>1. Triangular(m, f) BY <2>2, <1>13, <1>18 DEF Triangles
    <3> QED BY <3>1, <1>4, <1>6 DEF Triangular
  <2> QED BY <2>1, <2>2, <1>8
<1> QED BY <1>18, <1>2, <1>4, <1>9, <1>10, <1>11, <1>12, <1>13, <1>14, <1>15, <1>16, <1>17 DEF Settled, Surfaced

\* add_face_vertex, for the first vertex.
LEMMA CornerBegins ==
  ASSUME NEW m, NEW i, Chain(m, i), i.corners = <<>>, NEW v \in Vertices,
         NEW j, j.face = i.face, j.corners = Append(i.corners, v),
         j.first = i.first, j.previous = i.previous, j.expectedNext = i.expectedNext
  PROVE  Chain(m, j)
<1>1. j.corners = <<v>> BY DEF Chain
<1>2. Len(j.corners) = 1 /\ j.corners \in Seq(Vertices) /\ DOMAIN j.corners = {1} /\ Len(i.corners) = 0 BY <1>1
<1>3. FaceSet(m, i.face) = {}
  <2>1. \A h \in FaceSet(m, i.face) : \E l \in 1..(Len(i.corners) - 1) : TRUE BY DEF Chain, Path
  <2> QED BY <2>1, <1>2
<1>4. Path(m, j.face, j.corners) BY <1>3 DEF Path
<1>5. \A v2 \in Vertices : Whole(m, v2) BY <1>2 DEF Chain
<1>6. i.first = INVALID /\ i.previous = INVALID /\ i.expectedNext = INVALID /\ i.face \in DOMAIN m.faceHalfedge /\ Surfaced(m, i.face)
  BY <1>2 DEF Chain
<1>7. \A p, l \in DOMAIN j.corners : j.corners[p] = j.corners[l] => p = l BY <1>2
<1>8. Len(j.corners) < 2 BY <1>2
<1> QED BY <1>2, <1>4, <1>5, <1>6, <1>7, <1>8 DEF Chain

-----------------------------------------------------------------------------
(* The invariant of the specification.                                     *)

\* Between faces the mesh has no open ends; while a face is added, what it has so far is a chain
\* of half-edges.  Nothing is said of a mesh with a fault, of a pinched one, or after an edit.
Building == Sound /\ ~edited /\ ~pinched
Built ==
  /\ input \in Meshes
  /\ DOMAIN info = {"face", "corners", "expectedNext", "previous", "first", "firstExisted"}
  /\ info.face # INVALID => isAddingFace
  /\ faces = IF pinched THEN Lost ELSE FacesOf(mesh, info.face)
  /\ Building => IF info.face = INVALID THEN DOMAIN mesh.vertexHalfedge = Vertices => Settled(mesh)
                 ELSE Chain(mesh, info)
  /\ Building /\ isTriangleMesh => Triangles(mesh, info.face)

\* initialize of the face construction info.
LEMMA InfoShape ==
  ASSUME NEW f
  PROVE  /\ DOMAIN FaceInfo(f) = {"face", "corners", "expectedNext", "previous", "first", "firstExisted"}
         /\ FaceInfo(f).face = f
BY DEF FaceInfo

\* A new structure is built.
LEMMA BuiltInit == Init => Built
<1> SUFFICES ASSUME Init PROVE Built OBVIOUS
<1>1. PICK n \in FaceCounts : mesh = EmptyMesh(n) BY DEF Init
<1>2. n \in 0..MaxFaces BY DcelAssumption
<1>3. Settled(mesh) /\ Triangles(mesh, INVALID) BY <1>1, <1>2, EmptySettles
<1>4. info = FaceInfo(INVALID) /\ pinched = FALSE BY DEF Init
<1>5. info.face = INVALID /\ DOMAIN info = {"face", "corners", "expectedNext", "previous", "first", "firstExisted"}
  BY <1>4, InfoShape
<1>6. input \in Meshes /\ faces = IF pinched THEN Lost ELSE FacesOf(mesh, info.face) BY <1>4 DEF Init
<1> QED BY <1>3, <1>5, <1>6 DEF Built

\* The corners of a face are different vertices.
LEMMA NextCorner ==
  ASSUME NEW c \in Seq(Vertices), NEW v \in Vertices, NEW p \in UNION Meshes, IsPrefix(Append(c, v), p)
  PROVE  \A l \in DOMAIN c : c[l] # v
<1>1. p \in Seq(Vertices) /\ \A i, j \in DOMAIN p : p[i] = p[j] => i = j BY DcelAssumption
<1> DEFINE d == Append(c, v)
           k == Len(c)
<1>2. d \in Seq(Vertices) /\ Len(d) = k + 1 /\ k \in Nat /\ d[k + 1] = v /\ \A l \in 1..k : d[l] = c[l] OBVIOUS
<1>3. Len(d) <= Len(p) /\ SubSeq(p, 1, Len(d)) = SubSeq(d, 1, Len(d)) BY DEF IsPrefix
<1> HIDE DEF d, k
<1>4. ASSUME NEW l \in 1..(k + 1) PROVE l \in DOMAIN p /\ p[l] = d[l]
  <2>1. Len(d) <= Len(p) /\ Len(p) \in Nat BY <1>1, <1>3
  <2>2. SubSeq(p, 1, k + 1)[l] = p[l] BY <1>1, <1>2, <2>1
  <2>3. SubSeq(d, 1, k + 1)[l] = d[l] BY <1>2
  <2> QED BY <1>1, <1>2, <1>3, <2>1, <2>2, <2>3
<1> SUFFICES ASSUME NEW l \in 1..k, c[l] = v PROVE FALSE BY DEF k
<1>5. l \in 1..(k + 1) /\ k + 1 \in 1..(k + 1) /\ l # k + 1 BY <1>2
<1>6. p[l] = p[k + 1] BY <1>2, <1>4, <1>5
<1> QED BY <1>1, <1>4, <1>5, <1>6

\* begin_face.
LEMMA BuiltBegin ==
  ASSUME Built, NEW f \in DOMAIN mesh.faceHalfedge, BeginFace(f), faces' = IF pinched' THEN Lost ELSE FacesOf(mesh', info'.face)
  PROVE  Built'
<1>1. /\ MayAddFace /\ mesh.faceHalfedge[f] = INVALID /\ isAddingFace' = TRUE /\ info' = FaceInfo(f)
      /\ edited' = edited /\ pinched' = pinched /\ input' = input /\ mesh' = mesh /\ isTriangleMesh' = isTriangleMesh
  BY DEF BeginFace, historyVars
<1>2. Sound /\ ~isAddingFace /\ DOMAIN mesh.vertexHalfedge = Vertices BY <1>1 DEF MayAddFace, Ready
<1>3. info'.face = f /\ DOMAIN info' = {"face", "corners", "expectedNext", "previous", "first", "firstExisted"}
  BY <1>1, InfoShape
<1>4. ASSUME Building'
      PROVE  Chain(mesh', info') /\ f # INVALID /\ (isTriangleMesh' => Triangles(mesh', f))
  <2>1. Building BY <1>1, <1>4 DEF Building, Sound
  <2>2. Settled(mesh) /\ (isTriangleMesh => Triangles(mesh, INVALID)) BY <2>1, <1>2 DEF Built
  <2> QED BY <2>2, <1>1, FaceBegins
<1>5. Building' => IF info'.face = INVALID THEN DOMAIN mesh'.vertexHalfedge = Vertices => Settled(mesh') ELSE Chain(mesh', info')
  BY <1>3, <1>4
<1>6. input' \in Meshes BY <1>1 DEF Built
<1>7. Building' /\ isTriangleMesh' => Triangles(mesh', info'.face) BY <1>3, <1>4
<1> QED BY <1>1, <1>3, <1>5, <1>6, <1>7 DEF Built

\* begin_face() for a new face.
LEMMA BuiltBeginNew ==
  ASSUME Built, BeginNewFace, faces' = IF pinched' THEN Lost ELSE FacesOf(mesh', info'.face)
  PROVE  Built'
<1> DEFINE n == FaceCount(mesh)
<1>1. /\ MayAddFace /\ FaceCount(mesh) < MaxFaces /\ isAddingFace' = TRUE /\ info' = FaceInfo(n)
      /\ mesh' = [mesh EXCEPT !.faceHalfedge = [f \in 0..FaceCount(mesh) |-> IF f < FaceCount(mesh) THEN @[f] ELSE INVALID]]
      /\ edited' = edited /\ pinched' = pinched /\ input' = input /\ isTriangleMesh' = isTriangleMesh
  BY DEF BeginNewFace, historyVars
<1>2. Sound /\ ~isAddingFace /\ DOMAIN mesh.vertexHalfedge = Vertices BY <1>1 DEF MayAddFace, Ready
<1> HIDE DEF n
<1>3. info'.face = n /\ DOMAIN info' = {"face", "corners", "expectedNext", "previous", "first", "firstExisted"}
  BY <1>1, InfoShape
<1>4. ASSUME Building'
      PROVE  Chain(mesh', info') /\ n # INVALID /\ (isTriangleMesh' => Triangles(mesh', n))
  <2>1. Building BY <1>1, <1>2, <1>4 DEF Building
  <2>2. Settled(mesh) /\ (isTriangleMesh => Triangles(mesh, INVALID)) BY <2>1, <1>2 DEF Built
  <2>3. /\ Settled(mesh') /\ n \in DOMAIN mesh'.faceHalfedge /\ mesh'.faceHalfedge[n] = INVALID
        /\ Triangles(mesh, INVALID) => Triangles(mesh', INVALID)
    BY <2>2, <1>1, FaceInserted DEF n
  <2>4. /\ Chain(mesh', FaceInfo(n)) /\ n # INVALID
        /\ Triangles(mesh', INVALID) => Triangles(mesh', n)
    BY <2>3, FaceBegins
  <2> QED BY <2>2, <2>3, <2>4, <1>1
<1>5. Building' => IF info'.face = INVALID THEN DOMAIN mesh'.vertexHalfedge = Vertices => Settled(mesh') ELSE Chain(mesh', info')
  BY <1>3, <1>4
<1>6. input' \in Meshes BY <1>1 DEF Built
<1>7. Building' /\ isTriangleMesh' => Triangles(mesh', info'.face) BY <1>3, <1>4
<1> QED BY <1>1, <1>3, <1>5, <1>6, <1>7 DEF Built

\* What add_edge_internal knows of the face after it.
LEMMA ContinueDoes ==
  ASSUME NEW s, NEW new, DOMAIN info = {"face", "corners", "expectedNext", "previous", "first", "firstExisted"}
  PROVE  LET c == Continue(s, new)
         IN  /\ c.mesh = s /\ DOMAIN c.info = DOMAIN info
             /\ c.info.face = info.face /\ c.info.corners = info.corners
             /\ s.fault # "none" => c.info = info
             /\ s.fault = "none" => /\ c.info.first = (IF info.first = INVALID THEN new.added ELSE info.first)
                                    /\ c.info.firstExisted = (IF info.first = INVALID THEN new.existed ELSE info.firstExisted)
                                    /\ c.info.expectedNext = s.next[new.added] /\ c.info.previous = new.added
<1>1. CASE s.fault # "none" BY <1>1 DEF Continue
<1>2. CASE s.fault = "none"
  <2> DEFINE first == IF info.first = INVALID THEN new.added ELSE info.first
             existed == IF info.first = INVALID THEN new.existed ELSE info.firstExisted
             i == [info EXCEPT !.first = first, !.firstExisted = existed,
                               !.expectedNext = s.next[new.added], !.previous = new.added]
  <2>1. Continue(s, new) = [mesh |-> s, info |-> i] BY <1>2 DEF Continue
  <2>2. /\ DOMAIN i = DOMAIN info /\ i.face = info.face /\ i.corners = info.corners /\ i.first = first
        /\ i.firstExisted = existed /\ i.expectedNext = s.next[new.added] /\ i.previous = new.added
    <3> HIDE DEF first, existed
    <3> QED OBVIOUS
  <2>3. Continue(s, new).mesh = s /\ Continue(s, new).info = i
    <3> HIDE DEF i
    <3> QED BY <2>1
  <2> HIDE DEF i
  <2> QED BY <2>2, <2>3, <1>2
<1> QED BY <1>1, <1>2

\* add_face_vertex.
LEMMA BuiltVertex ==
  ASSUME Built, NEW v \in Vertices, AddFaceVertex(v), faces' = IF pinched' THEN Lost ELSE FacesOf(mesh', info'.face)
  PROVE  Built'
<1> DEFINE added == IF info.corners = <<>> THEN [mesh |-> mesh, info |-> info] ELSE AddEdge(Last(info.corners), v)
           Fields == {"face", "corners", "expectedNext", "previous", "first", "firstExisted"}
<1>1. /\ Sound /\ info.face # INVALID /\ (\E p \in input : IsPrefix(Append(info.corners, v), p))
      /\ HalfedgeCount(mesh) + 2 <= MaxHalfedges
      /\ mesh' = added.mesh /\ info' = [added.info EXCEPT !.corners = Append(@, v)]
      /\ edited' = edited /\ pinched' = pinched /\ input' = input /\ isAddingFace' = isAddingFace
      /\ isTriangleMesh' = isTriangleMesh
  BY DEF AddFaceVertex, PutCorner, historyVars, flagVars
<1> HIDE DEF added
<1>2. input \in Meshes /\ DOMAIN info = Fields /\ isAddingFace BY <1>1 DEF Built
<1>3. PICK p \in UNION Meshes : IsPrefix(Append(info.corners, v), p) BY <1>1, <1>2
<1>4. ASSUME info.corners = <<>>
      PROVE  /\ DOMAIN info' = Fields /\ info'.face = info.face
             /\ Building' => Building /\ Chain(mesh', info') /\ Kept(mesh', mesh, info.face)
  <2>1. added.mesh = mesh /\ added.info = info BY <1>4 DEF added
  <2>2. mesh' = mesh /\ info' = [info EXCEPT !.corners = Append(info.corners, v)] BY <1>1, <2>1
  <2>3. /\ DOMAIN info' = Fields /\ info'.face = info.face /\ info'.corners = Append(info.corners, v)
        /\ info'.first = info.first /\ info'.previous = info.previous /\ info'.expectedNext = info.expectedNext
    BY <2>2, <1>2
  <2>4. ASSUME Building' PROVE Building /\ Chain(mesh', info') /\ Kept(mesh', mesh, info.face)
    <3>1. Building BY <1>1, <2>4 DEF Building
    <3>2. Chain(mesh, info) BY <3>1, <1>1 DEF Built
    <3>3. Kept(mesh, mesh, info.face) BY DEF Kept
    <3>4. Chain(mesh, info') BY <3>2, <2>3, <1>4, CornerBegins
    <3> QED BY <3>1, <3>3, <3>4, <2>2
  <2> QED BY <2>3, <2>4
<1>5. ASSUME info.corners # <<>>
      PROVE  /\ DOMAIN info' = Fields /\ info'.face = info.face
             /\ Building' => Building /\ Chain(mesh', info') /\ Kept(mesh', mesh, info.face)
  <2> DEFINE source == Last(info.corners)
             new == CreateHalfedge(mesh, info.face, source, v)
             s == JoinPrevious(JoinTarget(new.mesh, new.added, new.existed, v), new.added, new.existed, info)
  <2>1. added = Continue(s, new) BY <1>5 DEF added, AddEdge, Join
  <2> HIDE DEF new, s, source
  <2>2. /\ added.mesh = s /\ DOMAIN added.info = Fields /\ added.info.face = info.face /\ added.info.corners = info.corners
        /\ s.fault = "none" => /\ added.info.first = (IF info.first = INVALID THEN new.added ELSE info.first)
                               /\ added.info.firstExisted = (IF info.first = INVALID THEN new.existed ELSE info.firstExisted)
                               /\ added.info.expectedNext = s.next[new.added] /\ added.info.previous = new.added
    BY <2>1, <1>2, ContinueDoes
  <2>3. /\ DOMAIN info' = Fields /\ info'.face = info.face /\ info'.corners = Append(info.corners, v)
        /\ info'.first = added.info.first /\ info'.firstExisted = added.info.firstExisted
        /\ info'.expectedNext = added.info.expectedNext /\ info'.previous = added.info.previous
    BY <2>2, <1>1
  <2>4. ASSUME Building' PROVE Building /\ Chain(mesh', info') /\ Kept(mesh', mesh, info.face)
    <3>1. Building /\ mesh' = s /\ s.fault = "none" BY <1>1, <2>2, <2>4 DEF Building, Sound
    <3>2. Chain(mesh, info) /\ mesh.fault = "none" BY <3>1, <1>1 DEF Built, Building, Sound
    <3>3. info.corners \in Seq(Vertices) BY <3>2 DEF Chain
    <3>4. Len(info.corners) > 0 /\ source = info.corners[Len(info.corners)] BY <3>3, <1>5 DEF source, Last
    <3>5. \A l \in DOMAIN info.corners : info.corners[l] # v BY <3>3, <1>3, NextCorner
    <3>6. v # info.corners[Len(info.corners)]
      <4>1. Len(info.corners) \in DOMAIN info.corners BY <3>3, <3>4
      <4> QED BY <4>1, <3>5
    <3>7. Surfaced(mesh, info.face) /\ Whole(mesh, v) BY <3>2, <3>5 DEF Chain
    <3>8. IsMesh(mesh) /\ Links(mesh) BY <3>7 DEF Surfaced
    <3>9. Corner(mesh, v, Fan(mesh, v), INVALID, INVALID) /\ Permutes(VertexStep(mesh), Fan(mesh, v))
      BY <3>7, <3>8, StepFacts DEF Whole
    <3>10. /\ Begun(mesh, info.face, source, v, info.previous, Fan(mesh, v), INVALID)
           /\ info.expectedNext = IF info.previous = INVALID THEN INVALID ELSE mesh.next[info.previous]
      BY <3>2, <3>4, <3>6, <3>9, ChainBegun
    <3>11. Grown(s, mesh, info.face, source, v, new.added, new.existed, info.previous, Fan(mesh, v), INVALID)
      BY <3>1, <3>10, <1>1, EdgeAdded DEF new, s
    <3>12. Extends(info', info, v, s, new.added, new.existed) BY <3>1, <2>2, <2>3 DEF Extends
    <3> QED BY <3>1, <3>2, <3>4, <3>5, <3>11, <3>12, <1>1, ChainGrows
  <2> QED BY <2>3, <2>4
<1>6. /\ DOMAIN info' = Fields /\ info'.face = info.face
      /\ Building' => Building /\ Chain(mesh', info') /\ Kept(mesh', mesh, info.face)
  BY <1>4, <1>5
<1>7. Building' /\ isTriangleMesh' => Triangles(mesh', info'.face)
  <2> SUFFICES ASSUME Building', isTriangleMesh' PROVE Triangles(mesh', info.face) BY <1>6
  <2>1. Triangles(mesh, info.face) BY <1>1, <1>6 DEF Built
  <2> QED BY <2>1, <1>6, TrianglesKept
<1> QED BY <1>1, <1>2, <1>6, <1>7 DEF Built

\* end_face.
LEMMA BuiltEnd ==
  ASSUME Built, EndFace, faces' = IF pinched' THEN Lost ELSE FacesOf(mesh', info'.face)
  PROVE  Built'
<1> DEFINE source == Last(info.corners)
           target == info.corners[1]
           new == CreateHalfedge(mesh, info.face, source, target)
           s == JoinPrevious(JoinTarget(new.mesh, new.added, new.existed, target), new.added, new.existed, info)
           added == AddEdge(source, target)
           closed == CloseFace(added)
           Fields == {"face", "corners", "expectedNext", "previous", "first", "firstExisted"}
<1>1. /\ Sound /\ info.face # INVALID /\ info.corners \in input /\ HalfedgeCount(mesh) + 2 <= MaxHalfedges
      /\ mesh' = closed /\ info' = (IF closed.fault = "none" THEN FaceInfo(INVALID) ELSE added.info)
      /\ isAddingFace' = (closed.fault # "none")
      /\ pinched' = (pinched \/ \E v \in Vertices : Pinches(FacesOf(mesh', info'.face), v))
      /\ edited' = edited /\ input' = input /\ isTriangleMesh' = (isTriangleMesh /\ Len(info.corners) = 3)
  BY DEF EndFace, FinishFace, PutFace
<1>2. added = Continue(s, new) BY DEF AddEdge, Join
<1>3. closed = Link(InsertionFixup(added.mesh, added.info.first, added.info.expectedNext, added.info.firstExisted),
                    added.info.previous, added.info.first)
  BY DEF CloseFace
<1> HIDE DEF new, s, source, target, added, closed
<1>4. input \in Meshes /\ DOMAIN info = Fields BY DEF Built
<1>5. /\ added.mesh = s /\ DOMAIN added.info = Fields /\ added.info.face = info.face
      /\ s.fault = "none" => /\ added.info.first = (IF info.first = INVALID THEN new.added ELSE info.first)
                             /\ added.info.firstExisted = (IF info.first = INVALID THEN new.existed ELSE info.firstExisted)
                             /\ added.info.expectedNext = s.next[new.added] /\ added.info.previous = new.added
  BY <1>2, <1>4, ContinueDoes
<1>6. DOMAIN info' = Fields /\ (info'.face # INVALID => isAddingFace') BY <1>1, <1>5, InfoShape
<1>7. ASSUME Building'
      PROVE  info'.face = INVALID /\ Settled(mesh') /\ (isTriangleMesh' => Triangles(mesh', INVALID))
  <2>1. Building /\ closed.fault = "none" /\ info' = FaceInfo(INVALID) BY <1>1, <1>7 DEF Building, Sound
  <2>2. Chain(mesh, info) /\ mesh.fault = "none" BY <2>1, <1>1 DEF Built, Building, Sound
  <2>3. s.fault = "none"
    <3> SUFFICES ASSUME s.fault # "none" PROVE FALSE OBVIOUS
    <3>1. closed = s BY <1>3, <1>5 DEF InsertionFixup, Link
    <3> QED BY <3>1, <2>1
  <2>4. info.corners \in UNION Meshes BY <1>1, <1>4
  <2>5. Len(info.corners) > 2 /\ info.corners \in Seq(Vertices) BY <2>4, DcelAssumption
  <2>6. source = info.corners[Len(info.corners)] /\ target = info.corners[1] BY DEF source, target, Last
  <2>7. /\ Begun(mesh, info.face, source, target, info.previous, FirstFan(mesh, info), info.first)
        /\ info.expectedNext = IF info.previous = INVALID THEN INVALID ELSE mesh.next[info.previous]
    BY <2>2, <2>5, <2>6, LastBegun
  <2>8. Grown(s, mesh, info.face, source, target, new.added, new.existed, info.previous, FirstFan(mesh, info), info.first)
    BY <2>3, <2>7, <1>1, EdgeAdded DEF new, s
  <2>9. info.first # INVALID
    <3>1. Drawn(mesh, info) /\ IsMesh(mesh)
      <4>1. ~(Len(info.corners) < 2) BY <2>5
      <4> QED BY <4>1, <2>2 DEF Chain, Surfaced
    <3>2. info.first \in D(mesh) BY <3>1 DEF Drawn, FaceSet
    <3> QED BY <3>1, <3>2, MeshFacts
  <2>10. closed = Link(InsertionFixup(s, info.first, s.next[new.added], info.firstExisted), new.added, info.first)
    BY <1>3, <1>5, <2>3, <2>9
  <2>11. /\ Left(closed) /\ Kept(closed, mesh, info.face)
         /\ Len(info.corners) = 3 => Triangular(closed, info.face)
    BY <2>2, <2>5, <2>6, <2>8, <2>10, ChainCloses
  <2>12. info'.face = INVALID BY <2>1, InfoShape
  <2>13. \A v \in Vertices : ~Pinches(FacesOf(closed, INVALID), v)
    <3>1. ~pinched' BY <1>7 DEF Building
    <3> QED BY <3>1, <2>12, <1>1
  <2>14. isTriangleMesh' => Triangles(closed, INVALID)
    <3> SUFFICES ASSUME isTriangleMesh' PROVE Triangles(closed, INVALID) OBVIOUS
    <3>1. Triangles(mesh, info.face) /\ Len(info.corners) = 3 BY <2>1, <1>1 DEF Built
    <3>2. Triangles(closed, info.face) /\ Triangular(closed, info.face) BY <3>1, <2>11, TrianglesKept
    <3> QED BY <3>2 DEF Triangles
  <2>15. Settled(closed) BY <2>1, <2>11, <2>13, UncutSettles
  <2> QED BY <2>12, <2>14, <2>15, <1>1
<1> QED BY <1>1, <1>4, <1>6, <1>7 DEF Built

\* cache_boundary_info.
LEMMA BuiltCache ==
  ASSUME Built, NEW force, CacheBoundaryInfo(force), faces' = IF pinched' THEN Lost ELSE FacesOf(mesh', info'.face)
  PROVE  Built'
<1> DEFINE face == NumberBoundaries(mesh).face
<1>1. /\ Ready /\ mesh' = [mesh EXCEPT !.face = face]
      /\ edited' = edited /\ pinched' = pinched /\ input' = input /\ info' = info /\ isAddingFace' = isAddingFace
      /\ isTriangleMesh' = isTriangleMesh
  BY DEF CacheBoundaryInfo, historyVars, flagVars
<1> HIDE DEF face
<1>2. info.face = INVALID /\ DOMAIN mesh.vertexHalfedge = Vertices /\ Sound BY <1>1 DEF Ready, Built
<1>3. ASSUME Building' PROVE Settled(mesh') /\ (isTriangleMesh' => Triangles(mesh', INVALID))
  <2>1. Settled(mesh) /\ (isTriangleMesh => Triangles(mesh, INVALID)) BY <1>1, <1>2, <1>3 DEF Building, Built
  <2>2. IsMesh(mesh) BY <2>1 DEF Settled, Surfaced
  <2>3. Renumbered(face, mesh) BY <2>2, HolesNumbered DEF face
  <2>4. Settled(mesh') /\ Kept(mesh', mesh, INVALID) BY <2>1, <2>3, <1>1, NumberedSettles
  <2> QED BY <2>1, <2>4, <1>1, TrianglesKept
<1> QED BY <1>1, <1>2, <1>3 DEF Built

\* initialize and clear.
LEMMA BuiltEmpty ==
  ASSUME Built, Initialize \/ Clear, faces' = IF pinched' THEN Lost ELSE FacesOf(mesh', info'.face)
  PROVE  Built'
<1>a. 0 \in 0..MaxFaces BY DcelAssumption
<1>1. info' = FaceInfo(INVALID) /\ input' \in Meshes BY DEF Initialize, Clear, Built
<1>2. info'.face = INVALID /\ DOMAIN info' = {"face", "corners", "expectedNext", "previous", "first", "firstExisted"}
  BY <1>1, InfoShape
<1>3. (DOMAIN mesh'.vertexHalfedge = Vertices => Settled(mesh')) /\ Triangles(mesh', INVALID)
  <2>1. CASE Initialize
    <3>1. PICK n \in FaceCounts : mesh' = EmptyMesh(n) BY <2>1 DEF Initialize
    <3>2. n \in 0..MaxFaces BY DcelAssumption
    <3> QED BY <3>1, <3>2, EmptySettles
  <2>2. CASE Clear
    <3>1. mesh' = [EmptyMesh(0) EXCEPT !.vertexHalfedge = [v \in {} |-> INVALID]] BY <2>2 DEF Clear
    <3>2. mesh'.vertexHalfedge = [v \in {} |-> INVALID] BY <3>1 DEF EmptyMesh
    <3>3. DOMAIN mesh'.faceHalfedge = {}
      <4>1. mesh'.faceHalfedge = [f \in 0..(0 - 1) |-> INVALID] BY <3>1 DEF EmptyMesh
      <4> QED BY <4>1
    <3>4. Triangles(mesh', INVALID) BY <3>3 DEF Triangles
    <3>5. ASSUME DOMAIN mesh'.vertexHalfedge = Vertices PROVE Settled(mesh')
      <4>1. Vertices = {} BY <3>2, <3>5
      <4>2. mesh' = EmptyMesh(0) BY <3>1, <4>1 DEF EmptyMesh
      <4> QED BY <4>2, <1>a, EmptySettles
    <3> QED BY <3>4, <3>5
  <2> QED BY <2>1, <2>2
<1> QED BY <1>1, <1>2, <1>3 DEF Built

\* Every step keeps Built.
LEMMA BuiltNext == Built /\ [Next]_dcelVars => Built'
<1> SUFFICES ASSUME Built, [Next]_dcelVars PROVE Built' OBVIOUS
<1>1. CASE UNCHANGED dcelVars BY <1>1 DEF Built, dcelVars, Building, Sound
<1>2. CASE Next
  <2>1. Step /\ faces' = IF pinched' THEN Lost ELSE FacesOf(mesh', info'.face) BY <1>2 DEF Next
  <2>2. ASSUME NEW f \in DOMAIN mesh.faceHalfedge, BeginFace(f) PROVE Built' BY <2>1, <2>2, BuiltBegin
  <2>3. CASE BeginNewFace BY <2>1, <2>3, BuiltBeginNew
  <2>4. CASE BeginFaceRefused
    <3>1. mesh' = [mesh EXCEPT !.fault = "throw"] /\ info.face = INVALID /\ info' = info /\ input' = input /\ pinched' = pinched
      BY <2>4 DEF BeginFaceRefused, Fault, historyVars
    <3>2. ~Building'
      <4> SUFFICES ASSUME Building' PROVE FALSE OBVIOUS
      <4>1. mesh'.fault = "none" BY DEF Building, Sound
      <4>2. edited' = edited /\ Sound BY <2>4 DEF BeginFaceRefused, historyVars
      <4>3. Building BY <3>1, <4>2 DEF Building
      <4> QED BY <3>1, <4>1
    <3> QED BY <2>1, <3>1, <3>2 DEF Built
  <2>5. ASSUME NEW v \in Vertices, AddFaceVertex(v) PROVE Built' BY <2>1, <2>5, BuiltVertex
  <2>6. CASE EndFace BY <2>1, <2>6, BuiltEnd
  <2>7. ASSUME NEW h, Collapse(h) \/ Flip(h) PROVE Built'
    <3>1. edited' = TRUE /\ info' = info /\ input' = input /\ isAddingFace' = isAddingFace
      BY <2>7 DEF Collapse, Flip, flagVars
    <3> QED BY <2>1, <3>1 DEF Built, Building
  <2>8. ASSUME NEW force, CacheBoundaryInfo(force) PROVE Built' BY <2>1, <2>8, BuiltCache
  <2>9. CASE Initialize \/ Clear BY <2>1, <2>9, BuiltEmpty
  <2> QED BY <2>1, <2>2, <2>3, <2>4, <2>5, <2>6, <2>7, <2>8, <2>9 DEF Step
<1> QED BY <1>1, <1>2

-----------------------------------------------------------------------------
(* What follows from it.                                                   *)

\* What a settled mesh has at every half-edge and every vertex.
LEMMA SettledFacts ==
  ASSUME NEW m, Settled(m)
  PROVE  /\ IsMesh(m) /\ Links(m) /\ Edges(m) /\ ValidHalfedges(m) = D(m)
         /\ \A h \in D(m) : Twin(h) \in D(m) /\ m.next[h] \in D(m) /\ Agrees(m, h) /\ Valid(m, h) /\ (OnBoundary(m, h) <=> Hole(m, h))
         /\ \A v \in Vertices : /\ OneCycle(Fan(m, v), VertexStep(m))
                                /\ IF Fan(m, v) = {} THEN m.vertexHalfedge[v] = INVALID ELSE m.vertexHalfedge[v] \in Fan(m, v)
         /\ INVALID \notin D(m)
<1>1. IsMesh(m) /\ Links(m) /\ Edges(m) /\ \A v \in Vertices : Whole(m, v) BY DEF Settled, Surfaced
<1>2. ValidHalfedges(m) = D(m) /\ INVALID \notin D(m) BY <1>1, MeshFacts
<1>3. ASSUME NEW h \in D(m)
      PROVE  Twin(h) \in D(m) /\ m.next[h] \in D(m) /\ Agrees(m, h) /\ Valid(m, h) /\ (OnBoundary(m, h) <=> Hole(m, h))
  <2>1. Twin(h) \in D(m) /\ Valid(m, h) /\ (OnBoundary(m, h) <=> Hole(m, h)) /\ m.vertex[h] \in Vertices BY <1>1, MeshFacts
  <2>2. m.next[h] \in D(m) BY <1>1 DEF IsMesh
  <2>3. h \in Fan(m, m.vertex[h]) \ {INVALID} /\ m.next[h] # INVALID BY <1>2, <2>2 DEF Fan
  <2>4. Corner(m, m.vertex[h], Fan(m, m.vertex[h]), INVALID, INVALID) BY <1>1, <2>1 DEF Whole
  <2> QED BY <2>1, <2>2, <2>3, <2>4 DEF Corner
<1>4. \A v \in Vertices : /\ OneCycle(Fan(m, v), VertexStep(m))
                          /\ IF Fan(m, v) = {} THEN m.vertexHalfedge[v] = INVALID ELSE m.vertexHalfedge[v] \in Fan(m, v)
  BY <1>1 DEF Whole, Corner
<1> QED BY <1>1, <1>2, <1>3, <1>4

\* The half-edges are numbered from 0.
LEMMA CountedHalfedges ==
  ASSUME NEW m, IsMesh(m)
  PROVE  \E n \in Nat : D(m) = 0..(n - 1)
<1>1. PICK k \in Nat : D(m) = 0..(2 * k - 1) BY DEF IsMesh
<1>2. 2 * k \in Nat OBVIOUS
<1> QED BY <1>1, <1>2

\* Between two calls that add faces to a mesh nobody has edited.
LEMMA RegularSettles ==
  ASSUME Built, ~edited, Regular
  PROVE  Settled(mesh) /\ faces = FacesOf(mesh, INVALID) /\ mesh.fault = "none" /\ (isTriangleMesh => Triangles(mesh, INVALID))
<1>1. Sound /\ ~isAddingFace /\ DOMAIN mesh.vertexHalfedge = Vertices /\ ~pinched BY DEF Regular, Ready
<1>2. info.face = INVALID /\ Building BY <1>1 DEF Built, Building
<1> QED BY <1>1, <1>2 DEF Built, Sound

\* Nothing of Manifold is missing between two calls.
LEMMA BuiltManifold == Built /\ ~edited => Manifold
<1> SUFFICES ASSUME Built, ~edited PROVE Manifold OBVIOUS
<1>1. ASSUME Regular
      PROVE  /\ \A h \in ValidHalfedges(mesh) :
                  /\ Valid(mesh, Twin(h)) /\ Valid(mesh, mesh.next[h])
                  /\ Source(mesh, mesh.next[h]) = mesh.vertex[h]
                  /\ mesh.face[mesh.next[h]] = mesh.face[h] \/ (OnBoundary(mesh, h) /\ OnBoundary(mesh, mesh.next[h]))
                  /\ \A g \in ValidHalfedges(mesh) : mesh.next[g] = mesh.next[h] => g = h
             /\ \A v \in Vertices : mesh.vertexHalfedge[v] # INVALID =>
                  Visited(VertexCycle(mesh, mesh.vertexHalfedge[v])) = {h \in ValidHalfedges(mesh) : mesh.vertex[h] = v}
             /\ \A g, h \in ValidHalfedges(mesh) :
                  Source(mesh, g) = Source(mesh, h) /\ mesh.vertex[g] = mesh.vertex[h] => g = h
             /\ \A h \in ValidHalfedges(mesh) : ~(OnBoundary(mesh, h) /\ OnBoundary(mesh, Twin(h)))
  <2> DEFINE m == mesh
  <2>1. /\ IsMesh(m) /\ Links(m) /\ Edges(m) /\ ValidHalfedges(m) = D(m)
        /\ \A h \in D(m) : Twin(h) \in D(m) /\ m.next[h] \in D(m) /\ Agrees(m, h) /\ Valid(m, h) /\ (OnBoundary(m, h) <=> Hole(m, h))
        /\ \A v \in Vertices : /\ OneCycle(Fan(m, v), VertexStep(m))
                               /\ IF Fan(m, v) = {} THEN m.vertexHalfedge[v] = INVALID ELSE m.vertexHalfedge[v] \in Fan(m, v)
    BY <1>1, RegularSettles, SettledFacts
  <2> HIDE DEF m
  <2>2. ASSUME NEW h \in D(m)
        PROVE  /\ Valid(m, Twin(h)) /\ Valid(m, m.next[h]) /\ Source(m, m.next[h]) = m.vertex[h]
               /\ m.face[m.next[h]] = m.face[h] \/ (OnBoundary(m, h) /\ OnBoundary(m, m.next[h]))
               /\ \A g \in D(m) : m.next[g] = m.next[h] => g = h
    BY <2>1 DEF Agrees, Links
  <2>3. ASSUME NEW v \in Vertices, m.vertexHalfedge[v] # INVALID
        PROVE  Visited(VertexCycle(m, m.vertexHalfedge[v])) = {h \in D(m) : m.vertex[h] = v}
    <3>1. m.vertexHalfedge[v] \in Fan(m, v) /\ OneCycle(Fan(m, v), VertexStep(m)) BY <2>1, <2>3
    <3>2. Permutes(VertexStep(m), Fan(m, v))
      <4>1. IsMesh(m) /\ Links(m) BY <2>1
      <4> QED BY <4>1, StepFacts
    <3>4. Fan(m, v) \subseteq D(m) BY DEF Fan
    <3>3. Visited(VertexCycle(m, m.vertexHalfedge[v])) = Fan(m, v) BY <2>1, <3>1, <3>2, <3>4, AroundVertex
    <3> QED BY <3>3 DEF Fan
  <2>4. \A g, h \in D(m) : Source(m, g) = Source(m, h) /\ m.vertex[g] = m.vertex[h] => g = h BY <2>1 DEF Edges
  <2>5. \A h \in D(m) : ~(OnBoundary(m, h) /\ OnBoundary(m, Twin(h))) BY <2>1 DEF Edges
  <2> QED BY <2>1, <2>2, <2>3, <2>4, <2>5 DEF m
<1>2. CyclesAgree BY <1>1 DEF CyclesAgree
<1>3. OneFanPerVertex BY <1>1 DEF OneFanPerVertex
<1>4. EdgesOnce /\ NoWireEdges BY <1>1 DEF EdgesOnce, NoWireEdges
<1> QED BY <1>2, <1>3, <1>4 DEF Manifold

\* Next permutes the half-edges of each face, as one cycle.
LEMMA FacePermutes ==
  ASSUME NEW m, Settled(m), NEW f \in DOMAIN m.faceHalfedge
  PROVE  Permutes(m.next, FaceSet(m, f)) /\ OneCycle(FaceSet(m, f), m.next) /\ FaceSet(m, f) \subseteq D(m)
<1>1. /\ IsMesh(m) /\ Links(m)
      /\ \A h \in D(m) : m.next[h] \in D(m) /\ Agrees(m, h)
  BY SettledFacts
<1>2. ~(f > MaxFaces) /\ f # INVALID BY <1>1, OpenFace
<1>3. \A h \in FaceSet(m, f) : h \in D(m) /\ m.face[h] = f /\ ~Hole(m, h) BY <1>2 DEF FaceSet, Hole
<1>4. \A h \in FaceSet(m, f) : m.next[h] \in FaceSet(m, f) BY <1>1, <1>3 DEF Agrees, FaceSet
<1>5. OneCycle(FaceSet(m, f), m.next) BY <1>2 DEF Settled, Surfaced, FaceLoops
<1> QED BY <1>1, <1>3, <1>4, <1>5 DEF Permutes, Links

\* dcel_face_cycle_range of a triangle visits three half-edges.
LEMMA TriangleHasThree ==
  ASSUME NEW m, Settled(m), NEW f \in DOMAIN m.faceHalfedge, Triangular(m, f), NEW h \in FaceSet(m, f)
  PROVE  Len(FaceCycle(m, h)) = 3
<1> DEFINE s == FaceCycle(m, h)
           F == FaceSet(m, f)
           k == Len(s)
<1>1. IsMesh(m) /\ Permutes(m.next, F) /\ F \subseteq D(m) BY SettledFacts, FacePermutes
<1>2. PICK n \in Nat : D(m) = 0..(n - 1) BY <1>1, CountedHalfedges
<1>3. IsRound(s, m.next, F, h)
  <2>1. m.next \in [D(m) -> D(m)] BY <1>1 DEF IsMesh
  <2> DEFINE step == m.next
  <2>2. DOMAIN step = 0..(n - 1) /\ \A x \in DOMAIN step : step[x] \in DOMAIN step BY <2>1, <1>2
  <2>3. F \subseteq DOMAIN step /\ Permutes(step, F) BY <1>1, <2>1
  <2>4. s = Cycle(step, h) BY DEF FaceCycle, FaceStep
  <2> HIDE DEF step, F, s
  <2>5. IsRound(Cycle(step, h), step, F, h) BY <2>2, <2>3, CycleCloses DEF F
  <2> QED BY <2>4, <2>5 DEF step
<1>4. /\ s \in Seq(F) /\ k \in Nat /\ k > 0 /\ s[1] = h /\ DOMAIN s = 1..k
      /\ \A i \in 1..(k - 1) : s[i + 1] = m.next[s[i]]
      /\ \A i, j \in 1..k : s[i] = s[j] => i = j
      /\ m.next[s[k]] = h
  BY <1>3 DEF IsRound
<1>5. m.next[h] # h /\ m.next[m.next[h]] # h /\ m.next[m.next[m.next[h]]] = h BY DEF Triangular
<1> HIDE DEF s, k
<1>6. k # 1 BY <1>4, <1>5
<1>7. k # 2
  <2> SUFFICES ASSUME k = 2 PROVE FALSE OBVIOUS
  <2>1. s[1 + 1] = m.next[s[1]] BY <1>4
  <2> QED BY <2>1, <1>4, <1>5
<1>8. ~(k > 3)
  <2> SUFFICES ASSUME k > 3 PROVE FALSE OBVIOUS
  <2>1. 1 \in 1..(k - 1) /\ 2 \in 1..(k - 1) /\ 3 \in 1..(k - 1) BY <1>4
  <2>2. s[1 + 1] = m.next[s[1]] /\ s[2 + 1] = m.next[s[2]] /\ s[3 + 1] = m.next[s[3]] BY <2>1, <1>4
  <2>3. s[4] = s[1] BY <2>2, <1>4, <1>5
  <2>4. 4 \in 1..k /\ 1 \in 1..k BY <1>4
  <2> QED BY <2>3, <2>4, <1>4
<1> QED BY <1>4, <1>6, <1>7, <1>8 DEF k, s

\* Nor is anything of the references and the face cycles.
LEMMA BuiltReferences == Built /\ ~edited => References /\ OneCyclePerFace /\ TrianglesStay
<1> SUFFICES ASSUME Built, ~edited PROVE References /\ OneCyclePerFace /\ TrianglesStay OBVIOUS
<1> DEFINE m == mesh
<1>1. ASSUME Regular
      PROVE  /\ Settled(m) /\ faces = FacesOf(m, INVALID) /\ (isTriangleMesh => Triangles(m, INVALID))
             /\ IsMesh(m) /\ ValidHalfedges(m) = D(m) /\ INVALID \notin D(m)
             /\ \A h \in D(m) : Valid(m, h)
  BY <1>1, RegularSettles, SettledFacts
<1>2. ASSUME Regular, NEW v \in Vertices
      PROVE  IF m.vertexHalfedge[v] = INVALID THEN \A e \in ValidHalfedges(m) : m.vertex[e] # v
             ELSE Valid(m, m.vertexHalfedge[v]) /\ m.vertex[m.vertexHalfedge[v]] = v
  <2>1. IF Fan(m, v) = {} THEN m.vertexHalfedge[v] = INVALID ELSE m.vertexHalfedge[v] \in Fan(m, v) BY <1>1, <1>2, SettledFacts
  <2> HIDE DEF m
  <2> QED BY <1>1, <1>2, <2>1 DEF Fan
<1>3. ASSUME Regular, NEW f \in DOMAIN m.faceHalfedge
      PROVE  /\ m.faceHalfedge[f] = INVALID => FaceSet(m, f) = {} /\ faces[f] = {}
             /\ m.faceHalfedge[f] # INVALID => m.faceHalfedge[f] \in FaceSet(m, f)
  <2>1. IF m.faceHalfedge[f] = INVALID THEN FaceSet(m, f) = {} ELSE m.faceHalfedge[f] \in FaceSet(m, f)
    BY <1>1, <1>3 DEF Settled, Surfaced, FaceRefs
  <2>2. ASSUME FaceSet(m, f) = {} PROVE faces[f] = {}
    <3>1. PICK n \in 0..MaxFaces : m.faceHalfedge \in [0..(n - 1) -> Nat] BY <1>1, <1>3 DEF IsMesh
    <3>2. f \in 0..(MaxFaces - 1) BY <3>1, DcelAssumption
    <3>3. FaceLoop(m, f) = {}
      <4>1. {e \in ValidHalfedges(m) : m.face[e] = f} = {} BY <1>1, <1>3, <2>2 DEF FaceSet
      <4> QED BY <4>1 DEF FaceLoop
    <3> HIDE DEF m
    <3> QED BY <3>2, <3>3, <1>1, <1>3 DEF FacesOf
  <2> QED BY <2>1, <2>2
<1>4. ASSUME Regular, NEW f \in DOMAIN m.faceHalfedge, m.faceHalfedge[f] # INVALID
      PROVE  Valid(m, m.faceHalfedge[f]) /\ m.face[m.faceHalfedge[f]] = f
  BY <1>1, <1>3, <1>4 DEF FaceSet
<1>5. ASSUME Regular, NEW f \in DOMAIN m.faceHalfedge, m.faceHalfedge[f] # INVALID
      PROVE  Visited(FaceCycle(m, m.faceHalfedge[f])) = {h \in ValidHalfedges(m) : m.face[h] = f}
  <2> DEFINE step == m.next
             F == FaceSet(m, f)
             h == m.faceHalfedge[f]
  <2>1. h \in F /\ Permutes(step, F) /\ OneCycle(F, step) /\ F \subseteq D(m) BY <1>1, <1>3, <1>5, FacePermutes
  <2>2. PICK n \in Nat : D(m) = 0..(n - 1) BY <1>1, <1>5, CountedHalfedges
  <2>3. step \in [D(m) -> D(m)] BY <1>1, <1>5 DEF IsMesh
  <2>4. DOMAIN step = 0..(n - 1) /\ (\A x \in DOMAIN step : step[x] \in DOMAIN step) /\ F \subseteq DOMAIN step BY <2>1, <2>2, <2>3
  <2>5. FaceCycle(m, h) = Cycle(step, h) BY DEF FaceCycle, FaceStep
  <2>6. F = {e \in ValidHalfedges(m) : m.face[e] = f} BY <1>1, <1>5 DEF FaceSet
  <2> HIDE DEF step, F, h
  <2>7. Visited(Cycle(step, h)) = F BY <2>1, <2>4, CycleVisits
  <2> QED BY <2>5, <2>6, <2>7 DEF h
<1>6. ASSUME Regular, isTriangleMesh, NEW f \in DOMAIN m.faceHalfedge, m.faceHalfedge[f] # INVALID
      PROVE  Len(FaceCycle(m, m.faceHalfedge[f])) = 3
  <2>1. Settled(m) /\ Triangles(m, INVALID) BY <1>1, <1>6
  <2>2. f # INVALID BY <1>1, <1>6, OpenFace
  <2>3. Triangular(m, f) BY <2>1, <2>2 DEF Triangles
  <2>4. m.faceHalfedge[f] \in FaceSet(m, f) BY <1>3, <1>6
  <2> QED BY <2>1, <2>3, <2>4, TriangleHasThree
<1>7. References BY <1>2, <1>3, <1>4 DEF References
<1>8. OneCyclePerFace BY <1>5 DEF OneCyclePerFace
<1>9. TrianglesStay BY <1>6 DEF TrianglesStay
<1> QED BY <1>7, <1>8, <1>9

\* While faces are only added, in whatever order, every mesh is a manifold between two calls
\* unless a face has pinched it.
THEOREM FacesMakeManifold == Spec => [](~edited => Manifold)
<1>1. Init => Built BY BuiltInit
<1>2. Built /\ [Next]_dcelVars => Built' BY BuiltNext
<1>3. Built => (~edited => Manifold) BY BuiltManifold
<1> QED BY <1>1, <1>2, <1>3, PTL DEF Spec

-----------------------------------------------------------------------------
(* The types, also after edits and faults.                                 *)

\* A half-edge or none, and what m_halfedges may have as a face.
Refs(m) == D(m) \cup {INVALID}
FaceValue(m, f) == f \in Nat /\ (f \in DOMAIN m.faceHalfedge \/ f > MaxFaces)

\* The arrays are of their types, also after edits and faults; a half-edge comes with a face.
Arrays(m) ==
  /\ DOMAIN m = {"next", "vertex", "face", "vertexHalfedge", "faceHalfedge", "fault"}
  /\ \E n \in Nat : 2 * n <= MaxHalfedges /\ D(m) = 0..(2 * n - 1)
  /\ m.next \in [D(m) -> D(m)]
  /\ m.vertex \in [D(m) -> Vertices \cup {INVALID}]
  /\ m.face \in [D(m) -> Nat]
  /\ \A h \in D(m) : FaceValue(m, m.face[h])
  /\ m.vertexHalfedge \in [Vertices -> Refs(m)]
  /\ \E n \in 0..MaxFaces : m.faceHalfedge \in [0..(n - 1) -> Refs(m)]
  /\ D(m) # {} => 0 \in DOMAIN m.faceHalfedge
  /\ m.fault \in {"none", "throw", "crash"}

\* The arrays after an edit that adds no half-edge and no face.
Like(r, m) ==
  /\ Arrays(r) /\ D(r) = D(m) /\ DOMAIN r.faceHalfedge = DOMAIN m.faceHalfedge

\* Two edits, one after the other.
LEMMA LikeTwice ==
  ASSUME NEW m, NEW r, NEW q, Like(r, m), Like(q, r)
  PROVE  Like(q, m)
BY DEF Like

\* An edit that changes nothing.
LEMMA LikeItself ==
  ASSUME NEW m, Arrays(m)
  PROVE  Like(m, m)
BY DEF Like

\* An edit that gives the arrays new contents of their types.
LEMMA LikeIf ==
  ASSUME NEW m, Arrays(m), NEW r, DOMAIN r = DOMAIN m,
         r.next \in [D(m) -> D(m)],
         r.vertex \in [D(m) -> Vertices \cup {INVALID}],
         r.face \in [D(m) -> Nat], \A h \in D(m) : FaceValue(m, r.face[h]),
         r.vertexHalfedge \in [Vertices -> Refs(m)],
         r.faceHalfedge \in [DOMAIN m.faceHalfedge -> Refs(m)],
         r.fault \in {"none", "throw", "crash"}
  PROVE  Like(r, m)
<1>1. D(r) = D(m) BY DEF D
<1>2. Refs(r) = Refs(m) BY <1>1 DEF Refs
<1>3. DOMAIN r.faceHalfedge = DOMAIN m.faceHalfedge OBVIOUS
<1>4. \A f : FaceValue(r, f) <=> FaceValue(m, f) BY <1>3 DEF FaceValue
<1>5. PICK n \in 0..MaxFaces : m.faceHalfedge \in [0..(n - 1) -> Refs(m)] BY DEF Arrays
<1>6. r.faceHalfedge \in [0..(n - 1) -> Refs(r)] BY <1>2, <1>5
<1>7. DOMAIN r = {"next", "vertex", "face", "vertexHalfedge", "faceHalfedge", "fault"}
      /\ (\E k \in Nat : 2 * k <= MaxHalfedges /\ D(m) = 0..(2 * k - 1))
      /\ (D(r) # {} => 0 \in DOMAIN r.faceHalfedge)
  BY <1>1, <1>3 DEF Arrays
<1>8. Arrays(r) BY <1>1, <1>2, <1>4, <1>6, <1>7 DEF Arrays
<1> QED BY <1>1, <1>3, <1>8 DEF Like

\* The arrays, one by one.
LEMMA ArrayTypes ==
  ASSUME NEW m, Arrays(m)
  PROVE  /\ DOMAIN m = {"next", "vertex", "face", "vertexHalfedge", "faceHalfedge", "fault"}
         /\ m.next \in [D(m) -> D(m)]
         /\ m.vertex \in [D(m) -> Vertices \cup {INVALID}]
         /\ m.face \in [D(m) -> Nat] /\ (\A h \in D(m) : FaceValue(m, m.face[h]))
         /\ m.vertexHalfedge \in [Vertices -> Refs(m)]
         /\ m.faceHalfedge \in [DOMAIN m.faceHalfedge -> Refs(m)]
         /\ m.fault \in {"none", "throw", "crash"}
         /\ INVALID \notin D(m)
         /\ \A h \in D(m) : Twin(h) \in D(m)
         /\ IsFiniteSet(D(m))
<1>1. PICK k \in Nat : 2 * k <= MaxHalfedges /\ D(m) = 0..(2 * k - 1) BY DEF Arrays
<1>2. PICK n \in 0..MaxFaces : m.faceHalfedge \in [0..(n - 1) -> Refs(m)] BY DEF Arrays
<1>3. m.faceHalfedge \in [DOMAIN m.faceHalfedge -> Refs(m)] BY <1>2
<1>4. INVALID \notin D(m) BY <1>1, DcelAssumption
<1>5. ASSUME NEW h \in D(m) PROVE Twin(h) \in D(m)
  <2>1. h \in Nat /\ h <= 2 * k - 1 BY <1>1
  <2>2. CASE h % 2 = 0
    <3>1. PICK l \in Nat : h = 2 * l BY <2>1, <2>2
    <3> QED BY <1>1, <2>1, <2>2, <3>1 DEF Twin
  <2>3. CASE h % 2 # 0
    <3>1. h > 0 BY <2>1, <2>3
    <3> QED BY <1>1, <2>1, <2>3, <3>1 DEF Twin
  <2> QED BY <2>2, <2>3
<1>6. IsFiniteSet(D(m)) BY <1>1, FS_Interval
<1> QED BY <1>3, <1>4, <1>5, <1>6 DEF Arrays

-----------------------------------------------------------------------------
(* What the walks find.                                                     *)

\* A walk stays among the half-edges, and its last one is one of them.
LEMMA WalkTyped ==
  ASSUME NEW m, Arrays(m), NEW step \in [D(m) -> D(m)], NEW h \in D(m)
  PROVE  Cycle(step, h) \in Seq(D(m)) /\ Len(Cycle(step, h)) > 0 /\ Last(Cycle(step, h)) \in D(m)
<1>1. PICK k \in Nat : D(m) = 0..(2 * k - 1) BY DEF Arrays
<1> DEFINE n == 2 * k
           s == Cycle(step, h)
<1>2. n \in Nat /\ DOMAIN step = 0..(n - 1) /\ \A x \in DOMAIN step : step[x] \in DOMAIN step BY <1>1
<1> HIDE DEF n, s
<1>3. IsWalk(Cycle(step, h), step, h) BY <1>2, CycleIsWalk
<1>4. s \in Seq(D(m)) /\ Len(s) > 0 BY <1>3 DEF IsWalk, s
<1>5. Last(s) \in D(m)
  <2>1. Len(s) \in 1..Len(s) BY <1>4
  <2> QED BY <1>4, <2>1 DEF Last
<1> QED BY <1>4, <1>5 DEF s

\* The walks around a vertex and a face.
LEMMA CyclesTyped ==
  ASSUME NEW m, Arrays(m), NEW h \in D(m)
  PROVE  /\ VertexCycle(m, h) \in Seq(D(m)) /\ Last(VertexCycle(m, h)) \in D(m)
         /\ FaceCycle(m, h) \in Seq(D(m)) /\ Last(FaceCycle(m, h)) \in D(m)
         /\ FacePrev(m, h) \in D(m)
<1>1. m.next \in [D(m) -> D(m)] /\ \A e \in D(m) : Twin(e) \in D(m) BY ArrayTypes
<1>2. VertexStep(m) \in [D(m) -> D(m)]
  <2>1. VertexStep(m) = [e \in D(m) |-> Twin(m.next[e])] BY DEF VertexStep, D
  <2>2. \A e \in D(m) : Twin(m.next[e]) \in D(m) BY <1>1
  <2> QED BY <2>1, <2>2
<1>3. \A e \in D(m) : VertexCycle(m, e) \in Seq(D(m)) /\ Last(VertexCycle(m, e)) \in D(m) BY <1>2, WalkTyped DEF VertexCycle
<1>4. FaceCycle(m, h) \in Seq(D(m)) /\ Last(FaceCycle(m, h)) \in D(m) BY <1>1, WalkTyped DEF FaceCycle, FaceStep
<1>5. FacePrev(m, h) \in D(m) BY <1>1, <1>3, <1>4 DEF FacePrev
<1> QED BY <1>3, <1>4, <1>5

\* What a search on a walk finds.
LEMMA FirstTyped ==
  ASSUME NEW m, Arrays(m), NEW s \in Seq(D(m)), NEW hits, hits \subseteq DOMAIN s
  PROVE  FirstOf(s, hits) \in Refs(m)
<1>1. hits \subseteq Nat OBVIOUS
<1>2. IF hits = {} THEN FirstOf(s, hits) = INVALID
      ELSE \E j \in hits : FirstOf(s, hits) = s[j] /\ \A i \in hits : j <= i
  BY <1>1, FirstOfFinds
<1>3. CASE hits = {} BY <1>2, <1>3 DEF Refs
<1>4. CASE hits # {}
  <2>1. PICK j \in hits : FirstOf(s, hits) = s[j] BY <1>2, <1>4
  <2>2. s[j] \in D(m) OBVIOUS
  <2> QED BY <2>1, <2>2 DEF Refs
<1> QED BY <1>3, <1>4

\* find_vertex_halfedge, get_next_boundary_edge and find_existing_previous.
LEMMA SearchesTyped ==
  ASSUME NEW m, Arrays(m)
  PROVE  /\ \A u, v : v \in Vertices => FindVertexHalfedge(m, u, v) \in Refs(m)
         /\ \A h \in D(m) : NextBoundaryEdge(m, h) \in Refs(m)
         /\ \A h \in D(m) : \A g : FindExistingPrevious(m, h, g) \in Refs(m)
<1>1. ASSUME NEW u, NEW v \in Vertices PROVE FindVertexHalfedge(m, u, v) \in Refs(m)
  <2>1. CASE m.vertexHalfedge[v] = INVALID BY <2>1 DEF FindVertexHalfedge, Refs
  <2>2. CASE m.vertexHalfedge[v] # INVALID
    <3> DEFINE s == VertexCycle(m, m.vertexHalfedge[v])
               hits == {i \in DOMAIN s : Source(m, s[i]) = u}
    <3>1. m.vertexHalfedge[v] \in D(m) BY <2>2, ArrayTypes DEF Refs
    <3>2. s \in Seq(D(m)) BY <3>1, CyclesTyped
    <3>3. FindVertexHalfedge(m, u, v) = FirstOf(s, hits) BY <2>2 DEF FindVertexHalfedge, FirstThat
    <3> QED BY <3>2, <3>3, FirstTyped
  <2> QED BY <2>1, <2>2
<1>2. ASSUME NEW h \in D(m) PROVE NextBoundaryEdge(m, h) \in Refs(m)
  <2> DEFINE s == VertexCycle(m, h)
             hits == {i \in DOMAIN s : OnBoundary(m, s[i])}
  <2>1. s \in Seq(D(m)) BY CyclesTyped
  <2>2. NextBoundaryEdge(m, h) = FirstOf(s, hits) BY DEF NextBoundaryEdge, FirstThat
  <2> QED BY <2>1, <2>2, FirstTyped
<1>3. ASSUME NEW h \in D(m), NEW g PROVE FindExistingPrevious(m, h, g) \in Refs(m)
  <2> DEFINE s == VertexCycle(m, h)
             hits == {i \in DOMAIN s : m.next[s[i]] = g}
  <2>1. s \in Seq(D(m)) BY CyclesTyped
  <2>2. FindExistingPrevious(m, h, g) = FirstOf(s, hits) BY DEF FindExistingPrevious, FirstThat
  <2> QED BY <2>1, <2>2, FirstTyped
<1> QED BY <1>1, <1>2, <1>3

-----------------------------------------------------------------------------
(* The edits, from the small to the large.                                  *)

\* An exception changes no array.
LEMMA FaultLike ==
  ASSUME NEW m, Arrays(m), NEW kind \in {"throw", "crash"}
  PROVE  Like(Fault(m, kind), m)
<1> DEFINE r == [m EXCEPT !.fault = kind]
<1>1. DOMAIN m = {"next", "vertex", "face", "vertexHalfedge", "faceHalfedge", "fault"} BY ArrayTypes
<1>2. /\ DOMAIN r = DOMAIN m /\ r.next = m.next /\ r.vertex = m.vertex /\ r.face = m.face
      /\ r.vertexHalfedge = m.vertexHalfedge /\ r.faceHalfedge = m.faceHalfedge /\ r.fault = kind
  BY <1>1
<1> HIDE DEF r
<1>3. Like(r, m) BY <1>2, ArrayTypes, LikeIf
<1> QED BY <1>3 DEF r, Fault

\* link_edges.
LEMMA LinkLike ==
  ASSUME NEW m, Arrays(m), NEW p \in Refs(m), NEW q \in Refs(m)
  PROVE  Like(Link(m, p, q), m)
<1>1. CASE m.fault # "none" BY <1>1, LikeItself DEF Link
<1>2. CASE m.fault = "none" /\ (p = INVALID \/ q = INVALID)
  <2>1. Link(m, p, q) = Fault(m, "crash") \/ Link(m, p, q) = Fault(m, "throw") BY <1>2 DEF Link
  <2> QED BY <2>1, FaultLike
<1>3. CASE m.fault = "none" /\ p # INVALID /\ q # INVALID
  <2> DEFINE r == [m EXCEPT !.next[p] = q]
  <2>1. DOMAIN m = {"next", "vertex", "face", "vertexHalfedge", "faceHalfedge", "fault"} BY ArrayTypes
  <2>2. /\ DOMAIN r = DOMAIN m /\ r.next = [m.next EXCEPT ![p] = q] /\ r.vertex = m.vertex /\ r.face = m.face
        /\ r.vertexHalfedge = m.vertexHalfedge /\ r.faceHalfedge = m.faceHalfedge /\ r.fault = m.fault
    BY <2>1
  <2>3. [m.next EXCEPT ![p] = q] \in [D(m) -> D(m)] BY <1>3, ArrayTypes DEF Refs
  <2> HIDE DEF r
  <2>4. Like(r, m) BY <2>2, <2>3, ArrayTypes, LikeIf
  <2>5. Link(m, p, q) = r BY <1>3 DEF Link, r
  <2> QED BY <2>4, <2>5
<1> QED BY <1>1, <1>2, <1>3

\* insert_after.
LEMMA InsertLike ==
  ASSUME NEW m, Arrays(m), NEW at \in D(m), NEW h \in D(m)
  PROVE  Like(InsertAfter(m, at, h), m)
<1> DEFINE r == Link(m, h, m.next[at])
           q == Link(r, at, Twin(h))
<1>1. h \in Refs(m) /\ m.next[at] \in Refs(m) /\ at \in Refs(m) /\ Twin(h) \in Refs(m) BY ArrayTypes DEF Refs
<1>2. Like(r, m) BY <1>1, LinkLike
<1>3. Arrays(r) /\ at \in Refs(r) /\ Twin(h) \in Refs(r) BY <1>1, <1>2 DEF Like, Refs
<1> HIDE DEF r
<1>4. Like(q, r) BY <1>3, LinkLike
<1>5. Like(q, m) BY <1>2, <1>4, LikeTwice
<1> QED BY <1>5 DEF InsertAfter, r

\* halfedge_handle::invalidate.
LEMMA InvalidateLike ==
  ASSUME NEW m, Arrays(m), NEW h
  PROVE  Like(Invalidate(m, h), m)
<1> DEFINE r == [m EXCEPT !.vertex[h] = INVALID]
<1>1. DOMAIN m = {"next", "vertex", "face", "vertexHalfedge", "faceHalfedge", "fault"} BY ArrayTypes
<1>2. /\ DOMAIN r = DOMAIN m /\ r.vertex = [m.vertex EXCEPT ![h] = INVALID] /\ r.next = m.next /\ r.face = m.face
      /\ r.vertexHalfedge = m.vertexHalfedge /\ r.faceHalfedge = m.faceHalfedge /\ r.fault = m.fault
  BY <1>1
<1>3. [m.vertex EXCEPT ![h] = INVALID] \in [D(m) -> Vertices \cup {INVALID}] BY ArrayTypes
<1> HIDE DEF r
<1>4. Like(r, m) BY <1>2, <1>3, ArrayTypes, LikeIf
<1> QED BY <1>4 DEF r, Invalidate

\* set_vertex_halfedge; a vertex id that is none changes nothing.
LEMMA SetVertexHalfedgeLike ==
  ASSUME NEW m, Arrays(m), NEW v, NEW h, v \in Vertices => h \in Refs(m)
  PROVE  Like(SetVertexHalfedge(m, v, h), m)
<1> DEFINE r == [m EXCEPT !.vertexHalfedge[v] = h]
<1>1. DOMAIN m = {"next", "vertex", "face", "vertexHalfedge", "faceHalfedge", "fault"} BY ArrayTypes
<1>2. /\ DOMAIN r = DOMAIN m /\ r.vertexHalfedge = [m.vertexHalfedge EXCEPT ![v] = h] /\ r.next = m.next /\ r.face = m.face
      /\ r.vertex = m.vertex /\ r.faceHalfedge = m.faceHalfedge /\ r.fault = m.fault
  BY <1>1
<1>3. [m.vertexHalfedge EXCEPT ![v] = h] \in [Vertices -> Refs(m)]
  <2>1. m.vertexHalfedge \in [Vertices -> Refs(m)] BY ArrayTypes
  <2> QED BY <2>1
<1> HIDE DEF r
<1>4. Like(r, m) BY <1>2, <1>3, ArrayTypes, LikeIf
<1> QED BY <1>4 DEF r, SetVertexHalfedge

\* set_face_halfedge.
LEMMA SetFaceHalfedgeLike ==
  ASSUME NEW m, Arrays(m), NEW f, NEW h, f \in DOMAIN m.faceHalfedge => h \in Refs(m)
  PROVE  Like(SetFaceHalfedge(m, f, h), m)
<1> DEFINE r == [m EXCEPT !.faceHalfedge[f] = h]
<1>1. DOMAIN m = {"next", "vertex", "face", "vertexHalfedge", "faceHalfedge", "fault"} BY ArrayTypes
<1>2. /\ DOMAIN r = DOMAIN m /\ r.faceHalfedge = [m.faceHalfedge EXCEPT ![f] = h] /\ r.next = m.next /\ r.face = m.face
      /\ r.vertex = m.vertex /\ r.vertexHalfedge = m.vertexHalfedge /\ r.fault = m.fault
  BY <1>1
<1>3. [m.faceHalfedge EXCEPT ![f] = h] \in [DOMAIN m.faceHalfedge -> Refs(m)]
  <2>1. m.faceHalfedge \in [DOMAIN m.faceHalfedge -> Refs(m)] BY ArrayTypes
  <2> QED BY <2>1
<1> HIDE DEF r
<1>4. Like(r, m) BY <1>2, <1>3, ArrayTypes, LikeIf
<1> QED BY <1>4 DEF r, SetFaceHalfedge

\* set_current_face for a whole walk.
LEMMA SetFacesLike ==
  ASSUME NEW m, Arrays(m), NEW walk, NEW f, FaceValue(m, f)
  PROVE  Like(SetFaces(m, walk, f), m)
<1> DEFINE face == [h \in DOMAIN m.face |-> IF h \in Visited(walk) THEN f ELSE m.face[h]]
           r == [m EXCEPT !.face = face]
<1>1. DOMAIN m = {"next", "vertex", "face", "vertexHalfedge", "faceHalfedge", "fault"} BY ArrayTypes
<1>2. DOMAIN m.face = D(m) /\ f \in Nat /\ \A h \in D(m) : FaceValue(m, m.face[h]) /\ m.face[h] \in Nat BY ArrayTypes DEF FaceValue
<1>3. face \in [D(m) -> Nat] /\ \A h \in D(m) : FaceValue(m, face[h]) BY <1>2
<1> HIDE DEF face
<1>4. /\ DOMAIN r = DOMAIN m /\ r.face = face /\ r.next = m.next /\ r.faceHalfedge = m.faceHalfedge
      /\ r.vertex = m.vertex /\ r.vertexHalfedge = m.vertexHalfedge /\ r.fault = m.fault
  BY <1>1
<1> HIDE DEF r
<1>5. Like(r, m) BY <1>3, <1>4, ArrayTypes, LikeIf
<1> QED BY <1>5 DEF r, face, SetFaces

\* What an edit may look at stays what it was.
LEMMA LikeKeeps ==
  ASSUME NEW r, NEW m, Like(r, m)
  PROVE  /\ Arrays(r) /\ D(r) = D(m) /\ Refs(r) = Refs(m)
         /\ DOMAIN r.faceHalfedge = DOMAIN m.faceHalfedge
         /\ \A f : FaceValue(r, f) <=> FaceValue(m, f)
BY DEF Like, Refs, FaceValue

\* A face that is not that of a hole has a place in m_faceHalfedges.
LEMMA FaceCounted ==
  ASSUME NEW m, Arrays(m)
  PROVE  /\ FaceCount(m) \in 0..MaxFaces
         /\ \A h \in D(m) : ~OnBoundary(m, h) => m.face[h] \in DOMAIN m.faceHalfedge
<1>1. PICK n \in 0..MaxFaces : m.faceHalfedge \in [0..(n - 1) -> Refs(m)] BY DEF Arrays
<1>2. FaceCount(m) = n
  <2>1. DOMAIN m.faceHalfedge = 0..(n - 1) BY <1>1
  <2>2. n \in Nat /\ MaxFaces \in Nat BY DcelAssumption
  <2>3. Cardinality(0..(n - 1)) = n BY <2>2, FS_Interval
  <2> QED BY <2>1, <2>3 DEF FaceCount
<1>3. ASSUME NEW h \in D(m), ~OnBoundary(m, h) PROVE m.face[h] \in DOMAIN m.faceHalfedge
  <2>1. FaceValue(m, m.face[h]) BY DEF Arrays
  <2>2. ~(m.face[h] > n) BY <1>2, <1>3 DEF OnBoundary, IsBoundaryFace
  <2>3. ~(m.face[h] > MaxFaces) BY <2>1, <2>2, DcelAssumption DEF FaceValue
  <2> QED BY <2>1, <2>3 DEF FaceValue
<1> QED BY <1>2, <1>3

\* adjust_vertex_halfedge.
LEMMA AdjustVertexLike ==
  ASSUME NEW m, Arrays(m), NEW v
  PROVE  Like(AdjustVertexHalfedge(m, v), m)
<1>1. CASE m.vertexHalfedge[v] = INVALID BY <1>1, LikeItself DEF AdjustVertexHalfedge
<1>2. CASE m.vertexHalfedge[v] # INVALID
  <2> DEFINE s == VertexCycle(m, m.vertexHalfedge[v])
             hits == {i \in DOMAIN s : Valid(m, s[i])}
  <2>1. ASSUME v \in Vertices PROVE FirstOf(s, hits) \in Refs(m)
    <3>1. m.vertexHalfedge[v] \in D(m) BY <1>2, <2>1, ArrayTypes DEF Refs
    <3>2. s \in Seq(D(m)) BY <3>1, CyclesTyped
    <3> HIDE DEF s
    <3> QED BY <3>2, FirstTyped
  <2>2. AdjustVertexHalfedge(m, v) = SetVertexHalfedge(m, v, FirstOf(s, hits))
    BY <1>2 DEF AdjustVertexHalfedge, FirstThat
  <2> HIDE DEF s, hits
  <2>3. Like(SetVertexHalfedge(m, v, FirstOf(s, hits)), m) BY <2>1, SetVertexHalfedgeLike
  <2> QED BY <2>2, <2>3
<1> QED BY <1>1, <1>2

\* adjust_face_halfedge.
LEMMA AdjustFaceLike ==
  ASSUME NEW m, Arrays(m), NEW f
  PROVE  Like(AdjustFaceHalfedge(m, f), m)
<1>1. CASE m.faceHalfedge[f] = INVALID BY <1>1, LikeItself DEF AdjustFaceHalfedge
<1>2. CASE m.faceHalfedge[f] # INVALID
  <2> DEFINE s == FaceCycle(m, m.faceHalfedge[f])
             hits == {i \in DOMAIN s : Valid(m, s[i])}
  <2>1. ASSUME f \in DOMAIN m.faceHalfedge PROVE FirstOf(s, hits) \in Refs(m)
    <3>1. m.faceHalfedge[f] \in D(m) BY <1>2, <2>1, ArrayTypes DEF Refs
    <3>2. s \in Seq(D(m)) BY <3>1, CyclesTyped
    <3> HIDE DEF s
    <3> QED BY <3>2, FirstTyped
  <2>2. AdjustFaceHalfedge(m, f) = SetFaceHalfedge(m, f, FirstOf(s, hits))
    BY <1>2 DEF AdjustFaceHalfedge, FirstThat
  <2> HIDE DEF s, hits
  <2>3. Like(SetFaceHalfedge(m, f, FirstOf(s, hits)), m) BY <2>1, SetFaceHalfedgeLike
  <2> QED BY <2>2, <2>3
<1> QED BY <1>1, <1>2

\* remove_spike, and the first lines of remove_edge.
LEMMA UnhookLike ==
  ASSUME NEW m, Arrays(m), NEW h \in D(m)
  PROVE  Like(RemoveSpike(m, h), m) /\ Like(Unhook(m, h), m)
<1>1. FacePrev(m, h) \in Refs(m) BY CyclesTyped DEF Refs
<1>2. m.next[Twin(h)] \in Refs(m) BY ArrayTypes DEF Refs
<1>3. Like(RemoveSpike(m, h), m) BY <1>1, <1>2, LinkLike DEF RemoveSpike
<1> QED BY <1>3, LikeItself DEF Unhook

\* An edge is given up.
LEMMA DropLike ==
  ASSUME NEW m, Arrays(m), NEW h
  PROVE  Like(Drop(m, h), m)
<1>1. Like(Invalidate(m, h), m) BY InvalidateLike
<1>2. Like(Drop(m, h), Invalidate(m, h)) BY <1>1, LikeKeeps, InvalidateLike DEF Drop
<1> QED BY <1>1, <1>2, LikeTwice

\* The reference of an end of an edge that is removed.
LEMMA ReleaseLike ==
  ASSUME NEW m, Arrays(m), NEW v, NEW floating \in BOOLEAN
  PROVE  Like(Release(m, v, floating), m)
<1>1. Like(SetVertexHalfedge(m, v, INVALID), m) BY SetVertexHalfedgeLike DEF Refs
<1>2. Like(AdjustVertexHalfedge(m, v), m) BY AdjustVertexLike
<1> QED BY <1>1, <1>2 DEF Release

\* The faces at an edge that is removed.
LEMMA MergeFacesLike ==
  ASSUME NEW was, Arrays(was), NEW m, Like(m, was), NEW h \in D(was)
  PROVE  Like(MergeFaces(m, was, h), was)
<1>1. /\ Arrays(m) /\ D(m) = D(was) /\ Refs(m) = Refs(was) /\ (\A f : FaceValue(m, f) <=> FaceValue(was, f)) /\ Like(m, m)
  BY LikeKeeps, LikeItself
<1>2. Twin(h) \in D(was) /\ FaceValue(m, was.face[h]) /\ m.next[h] \in D(m) BY <1>1, ArrayTypes
<1>3. CASE ~IsBoundaryEdge(was, h)
  <2> DEFINE q == SetFaces(m, FaceCycle(m, h), was.face[h])
             r == IF was.face[h] = was.face[Twin(h)] THEN m ELSE SetFaceHalfedge(q, was.face[Twin(h)], INVALID)
  <2>1. Like(q, m) BY <1>1, <1>2, SetFacesLike
  <2>2. Arrays(q) /\ INVALID \in Refs(q) BY <2>1, LikeKeeps DEF Refs
  <2>3. Like(SetFaceHalfedge(q, was.face[Twin(h)], INVALID), q) BY <2>2, SetFaceHalfedgeLike
  <2>4. Like(SetFaceHalfedge(q, was.face[Twin(h)], INVALID), m) BY <2>1, <2>3, LikeTwice
  <2>5. Like(r, m) BY <1>1, <2>4
  <2>6. MergeFaces(m, was, h) = AdjustFaceHalfedge(r, was.face[h]) BY <1>3 DEF MergeFaces
  <2> HIDE DEF q, r
  <2>7. Like(AdjustFaceHalfedge(r, was.face[h]), r) BY <2>5, LikeKeeps, AdjustFaceLike
  <2>8. Like(MergeFaces(m, was, h), m) BY <2>5, <2>6, <2>7, LikeTwice
  <2> QED BY <2>8, LikeTwice
<1>4. CASE IsBoundaryEdge(was, h) /\ (Floating(was, h) \/ Floating(was, Twin(h)))
  <2>1. MergeFaces(m, was, h) = m BY <1>4 DEF MergeFaces
  <2> QED BY <2>1
<1>5. CASE IsBoundaryEdge(was, h) /\ ~(Floating(was, h) \/ Floating(was, Twin(h)))
  <2>1. MergeFaces(m, was, h) = SetFaces(m, FaceCycle(m, m.next[h]), was.face[h]) BY <1>5 DEF MergeFaces
  <2>2. Like(MergeFaces(m, was, h), m) BY <1>1, <1>2, <2>1, SetFacesLike
  <2> QED BY <2>2, LikeTwice
<1> QED BY <1>3, <1>4, <1>5

\* remove_edge.
LEMMA RemoveEdgeLike ==
  ASSUME NEW m, Arrays(m), NEW h \in D(m)
  PROVE  Like(RemoveEdge(m, h), m)
<1> DEFINE a == Unhook(m, h)
           b == Unhook(a, Twin(h))
           c == Drop(b, h)
           d == Release(c, m.vertex[h], Floating(m, h))
           e == Release(d, m.vertex[Twin(h)], Floating(m, Twin(h)))
<1>0. Floating(m, h) \in BOOLEAN /\ Floating(m, Twin(h)) \in BOOLEAN BY DEF Floating
<1>1. Like(a, m) /\ Twin(h) \in D(m) BY UnhookLike, ArrayTypes
<1>2. Arrays(a) /\ Twin(h) \in D(a) BY <1>1, LikeKeeps
<1>x. RemoveEdge(m, h) = MergeFaces(e, m, h) BY DEF RemoveEdge
<1> HIDE DEF a
<1>3. Like(b, a) BY <1>2, UnhookLike
<1>4. Like(b, m) /\ Arrays(b) BY <1>1, <1>3, LikeTwice, LikeKeeps
<1> HIDE DEF b
<1>5. Like(c, b) BY <1>4, DropLike
<1>6. Like(c, m) /\ Arrays(c) BY <1>4, <1>5, LikeTwice, LikeKeeps
<1> HIDE DEF c
<1>7. Like(d, c) BY <1>0, <1>6, ReleaseLike
<1>8. Like(d, m) /\ Arrays(d) BY <1>6, <1>7, LikeTwice, LikeKeeps
<1> HIDE DEF d
<1>9. Like(e, d) BY <1>0, <1>8, ReleaseLike
<1>10. Like(e, m) BY <1>8, <1>9, LikeTwice
<1> HIDE DEF e
<1>11. Like(MergeFaces(e, m, h), m) BY <1>10, MergeFacesLike
<1> QED BY <1>11, <1>x

\* The face of a half-edge.
LEMMA KeepFaceLike ==
  ASSUME NEW m, Arrays(m), NEW h
  PROVE  Like(KeepFace(m, h), m) /\ Like(LoseFace(m, h), m)
<1>1. Like(m, m) BY LikeItself
<1>2. Like(AdjustFaceHalfedge(m, m.face[h]), m) BY AdjustFaceLike
<1>3. Like(SetFaceHalfedge(m, m.face[h], INVALID), m) BY SetFaceHalfedgeLike DEF Refs
<1> QED BY <1>1, <1>2, <1>3 DEF KeepFace, LoseFace

\* The links of remove_loop.
LEMMA BypassLike ==
  ASSUME NEW m, Arrays(m), NEW h \in D(m), NEW nextTwin \in D(m)
  PROVE  Like(Bypass(m, h, nextTwin), m)
<1> DEFINE r == Link(m, h, m.next[nextTwin])
<1>1. h \in Refs(m) /\ m.next[nextTwin] \in Refs(m) BY ArrayTypes DEF Refs
<1>2. Like(r, m) BY <1>1, LinkLike
<1>3. FacePrev(m, nextTwin) \in Refs(m) BY CyclesTyped DEF Refs
<1>4. Bypass(m, h, nextTwin) = Link(r, FacePrev(m, nextTwin), h) BY DEF Bypass
<1> HIDE DEF r
<1>5. Arrays(r) /\ h \in Refs(r) /\ FacePrev(m, nextTwin) \in Refs(r) BY <1>1, <1>2, <1>3, LikeKeeps
<1>6. Like(Bypass(m, h, nextTwin), r) BY <1>4, <1>5, LinkLike
<1> QED BY <1>2, <1>6, LikeTwice

\* The faces that remove_loop sets; the invalid handle becomes face 0.
LEMMA TakeFaceLike ==
  ASSUME NEW m, Arrays(m), NEW h \in D(m), NEW next \in D(m), NEW f, FaceValue(m, f)
  PROVE  Like(TakeFace(m, h, next, f), m)
<1> DEFINE face == [m.face EXCEPT ![h] = f, ![next] = 0, ![Twin(next)] = 0]
           r == [m EXCEPT !.face = face]
<1>1. DOMAIN m = {"next", "vertex", "face", "vertexHalfedge", "faceHalfedge", "fault"} BY ArrayTypes
<1>2. FaceValue(m, 0) /\ Twin(next) \in D(m) BY ArrayTypes DEF Arrays, FaceValue
<1>3. f \in Nat /\ m.face \in [D(m) -> Nat] /\ \A g \in D(m) : FaceValue(m, m.face[g]) BY ArrayTypes DEF FaceValue
<1>4. face \in [D(m) -> Nat] /\ \A g \in D(m) : face[g] \in {m.face[g], f, 0} BY <1>2, <1>3
<1>5. \A g \in D(m) : FaceValue(m, face[g]) BY <1>2, <1>3, <1>4
<1>x. TakeFace(m, h, next, f) = r BY DEF TakeFace
<1> HIDE DEF face
<1>6. /\ DOMAIN r = DOMAIN m /\ r.face = face /\ r.next = m.next /\ r.faceHalfedge = m.faceHalfedge
      /\ r.vertex = m.vertex /\ r.vertexHalfedge = m.vertexHalfedge /\ r.fault = m.fault
  BY <1>1
<1> HIDE DEF r
<1>7. Like(r, m) BY <1>4, <1>5, <1>6, ArrayTypes, LikeIf
<1> QED BY <1>7, <1>x

\* The last lines of remove_loop.
LEMMA SettleLike ==
  ASSUME NEW m, Arrays(m), NEW h \in D(m)
  PROVE  Like(Settle(m, h), m)
<1> DEFINE r == AdjustVertexHalfedge(m, m.vertex[h])
<1>1. Like(RemoveEdge(m, h), m) BY RemoveEdgeLike
<1>2. Like(r, m) BY AdjustVertexLike
<1>3. Arrays(r) BY <1>2, LikeKeeps
<1>4. Like(AdjustVertexHalfedge(r, m.vertex[Twin(h)]), r) BY <1>3, AdjustVertexLike
<1>5. Like(AdjustVertexHalfedge(r, m.vertex[Twin(h)]), m) BY <1>2, <1>4, LikeTwice
<1> QED BY <1>1, <1>5 DEF Settle

\* remove_loop.
LEMMA RemoveLoopLike ==
  ASSUME NEW m, Arrays(m), NEW h \in D(m)
  PROVE  Like(RemoveLoop(m, h), m)
<1> DEFINE next == m.next[h]
           a == Bypass(m, h, Twin(next))
           b == LoseFace(a, h)
           c == TakeFace(b, h, next, m.face[Twin(next)])
           d == Drop(c, next)
           e == KeepFace(d, h)
<1>1. next \in D(m) /\ Twin(next) \in D(m) BY ArrayTypes
<1>2. CASE m.next[next] # h
  <2>1. RemoveLoop(m, h) = Fault(m, "throw") BY <1>2 DEF RemoveLoop
  <2> QED BY <2>1, FaultLike
<1>3. CASE m.next[next] = h
  <2>x. RemoveLoop(m, h) = Settle(e, h) BY <1>3 DEF RemoveLoop
  <2>f. FaceValue(m, m.face[Twin(next)]) BY <1>1, ArrayTypes
  <2> HIDE DEF next
  <2>1. Like(a, m) BY <1>1, BypassLike
  <2> HIDE DEF a
  <2>2. Like(b, a) BY <2>1, LikeKeeps, KeepFaceLike
  <2>3. Like(b, m) BY <2>1, <2>2, LikeTwice
  <2>4. Arrays(b) /\ h \in D(b) /\ next \in D(b) /\ FaceValue(b, m.face[Twin(next)]) BY <1>1, <2>3, <2>f, LikeKeeps
  <2> HIDE DEF b
  <2>5. Like(c, b) BY <2>4, TakeFaceLike
  <2>6. Like(c, m) /\ Arrays(c) BY <2>3, <2>5, LikeTwice, LikeKeeps
  <2> HIDE DEF c
  <2>7. Like(d, c) BY <2>6, DropLike
  <2>8. Like(d, m) /\ Arrays(d) BY <2>6, <2>7, LikeTwice, LikeKeeps
  <2> HIDE DEF d
  <2>9. Like(e, d) BY <2>8, KeepFaceLike
  <2>10. Like(e, m) BY <2>8, <2>9, LikeTwice
  <2>11. Arrays(e) /\ h \in D(e) BY <2>10, LikeKeeps
  <2> HIDE DEF e
  <2>12. Like(Settle(e, h), e) BY <2>11, SettleLike
  <2> QED BY <2>x, <2>10, <2>12, LikeTwice
<1> QED BY <1>2, <1>3

\* One side of a collapse.
LEMMA CutOutLike ==
  ASSUME NEW m, Arrays(m), NEW h \in D(m)
  PROVE  Like(CutOut(m, h), m)
<1> DEFINE prev == FacePrev(m, h)
           a == Link(m, prev, m.next[h])
           b == Invalidate(a, h)
           c == KeepFace(b, h)
<1>1. Like(m, m) /\ Like(Fault(m, "throw"), m) BY LikeItself, FaultLike
<1>2. prev \in Refs(m) /\ m.next[h] \in Refs(m) BY CyclesTyped, ArrayTypes DEF Refs
<1>x. CutOut(m, h) \in {m, Fault(m, "throw"), c} BY DEF CutOut, Splice
<1> HIDE DEF prev
<1>3. Like(a, m) /\ Arrays(a) BY <1>2, LinkLike, LikeKeeps
<1> HIDE DEF a
<1>4. Like(b, a) /\ Arrays(b) BY <1>3, InvalidateLike, LikeKeeps
<1> HIDE DEF b
<1>5. Like(c, b) BY <1>4, KeepFaceLike
<1>6. Like(c, m) BY <1>3, <1>4, <1>5, LikeTwice
<1> HIDE DEF c
<1> QED BY <1>1, <1>6, <1>x

\* The end of another name that the half-edges at the moved vertex get.
LEMMA RenameLike ==
  ASSUME NEW m, Arrays(m), NEW moved, NEW target \in Vertices \cup {INVALID}
  PROVE  Like(Rename(m, moved, target), m)
<1> DEFINE vertex == [e \in DOMAIN m.next |-> IF e \in moved THEN target ELSE m.vertex[e]]
           r == [m EXCEPT !.vertex = vertex]
<1>1. DOMAIN m = {"next", "vertex", "face", "vertexHalfedge", "faceHalfedge", "fault"} BY ArrayTypes
<1>2. vertex \in [D(m) -> Vertices \cup {INVALID}] BY ArrayTypes DEF D
<1>x. Rename(m, moved, target) = r BY DEF Rename
<1> HIDE DEF vertex
<1>6. /\ DOMAIN r = DOMAIN m /\ r.vertex = vertex /\ r.next = m.next /\ r.faceHalfedge = m.faceHalfedge
      /\ r.face = m.face /\ r.vertexHalfedge = m.vertexHalfedge /\ r.fault = m.fault
  BY <1>1
<1> HIDE DEF r
<1>7. Like(r, m) BY <1>2, <1>6, ArrayTypes, LikeIf
<1> QED BY <1>7, <1>x

\* The references of the two vertices that become one.
LEMMA MergeLike ==
  ASSUME NEW m, Arrays(m), NEW target, NEW source
  PROVE  Like(Merge(m, target, source), m)
<1> DEFINE r == AdjustVertexHalfedge(m, target)
<1>1. Like(m, m) BY LikeItself
<1>2. Like(r, m) /\ Arrays(r) BY AdjustVertexLike, LikeKeeps
<1>x. Merge(m, target, source) \in {m, SetVertexHalfedge(r, source, INVALID)} BY DEF Merge
<1> HIDE DEF r
<1>3. Like(SetVertexHalfedge(r, source, INVALID), r) BY <1>2, SetVertexHalfedgeLike DEF Refs
<1>4. Like(SetVertexHalfedge(r, source, INVALID), m) BY <1>2, <1>3, LikeTwice
<1> QED BY <1>1, <1>4, <1>x

\* A face that has shrunk to two half-edges is removed.
LEMMA UnloopLike ==
  ASSUME NEW m, Arrays(m), NEW h \in D(m)
  PROVE  Like(Unloop(m, h), m)
BY LikeItself, RemoveLoopLike DEF Unloop

\* collapse_edge_internal, whatever it finds on its way.
LEMMA CollapseLike ==
  ASSUME NEW m, Arrays(m), NEW h \in D(m)
  PROVE  Like(CollapseEdge(m, h), m)
<1> DEFINE target == m.vertex[h]
           a == Rename(m, Visited(VertexCycle(m, Twin(h))), target)
           b == CutOut(a, h)
           c == CutOut(b, Twin(h))
           d == Merge(c, target, Source(m, h))
           e == Unloop(d, m.next[h])
<1>1. target \in Vertices \cup {INVALID} /\ Twin(h) \in D(m) /\ m.next[h] \in D(m) /\ m.next[Twin(h)] \in D(m) BY ArrayTypes
<1>x. CollapseEdge(m, h) = Unloop(e, m.next[Twin(h)]) BY DEF CollapseEdge
<1> HIDE DEF target
<1>2. Like(a, m) BY <1>1, RenameLike
<1>3. Arrays(a) /\ h \in D(a) BY <1>2, LikeKeeps
<1> HIDE DEF a
<1>4. Like(b, a) BY <1>3, CutOutLike
<1>5. Like(b, m) BY <1>2, <1>4, LikeTwice
<1>6. Arrays(b) /\ Twin(h) \in D(b) BY <1>1, <1>5, LikeKeeps
<1> HIDE DEF b
<1>7. Like(c, b) BY <1>6, CutOutLike
<1>8. Like(c, m) /\ Arrays(c) BY <1>5, <1>7, LikeTwice, LikeKeeps
<1> HIDE DEF c
<1>9. Like(d, c) BY <1>8, MergeLike
<1>10. Like(d, m) BY <1>8, <1>9, LikeTwice
<1>11. Arrays(d) /\ m.next[h] \in D(d) BY <1>1, <1>10, LikeKeeps
<1> HIDE DEF d
<1>12. Like(e, d) BY <1>11, UnloopLike
<1>13. Like(e, m) BY <1>10, <1>12, LikeTwice
<1>14. Arrays(e) /\ m.next[Twin(h)] \in D(e) BY <1>1, <1>13, LikeKeeps
<1> HIDE DEF e
<1>15. Like(Unloop(e, m.next[Twin(h)]), e) BY <1>14, UnloopLike
<1> QED BY <1>13, <1>15, <1>x, LikeTwice

\* flip_edge.
LEMMA FlipLike ==
  ASSUME NEW m, Arrays(m), NEW h \in D(m)
  PROVE  Like(FlipEdge(m, h), m)
<1> DEFINE twin == Twin(h)
           next0 == m.next[h]
           prev0 == m.next[next0]
           next1 == m.next[twin]
           prev1 == m.next[next1]
           f0 == m.face[h]
           f1 == m.face[twin]
           Renamed(holder, x, old, new) == IF holder[x] = old THEN [holder EXCEPT ![x] = new] ELSE holder
           vh == Renamed(Renamed(m.vertexHalfedge, m.vertex[h], h, Twin(next0)), m.vertex[twin], twin, Twin(next1))
           fh == Renamed(Renamed(m.faceHalfedge, f0, next0, h), f1, next1, twin)
           vertex == [m.vertex EXCEPT ![h] = m.vertex[next0], ![twin] = m.vertex[next1]]
           face == [m.face EXCEPT ![next0] = f1, ![next1] = f0]
           next == [m.next EXCEPT ![h] = prev0, ![prev0] = next1, ![next1] = h, ![twin] = prev1, ![prev1] = next0, ![next0] = twin]
           r == [m EXCEPT !.vertexHalfedge = vh, !.vertex = vertex, !.faceHalfedge = fh, !.face = face, !.next = next]
<1>x. FlipEdge(m, h) = r BY DEF FlipEdge
<1>1. /\ m.next \in [D(m) -> D(m)] /\ m.vertex \in [D(m) -> Vertices \cup {INVALID}] /\ m.face \in [D(m) -> Nat]
      /\ m.vertexHalfedge \in [Vertices -> Refs(m)] /\ m.faceHalfedge \in [DOMAIN m.faceHalfedge -> Refs(m)]
      /\ \A e \in D(m) : Twin(e) \in D(m) /\ FaceValue(m, m.face[e])
  BY ArrayTypes
<1>2. twin \in D(m) /\ next0 \in D(m) /\ prev0 \in D(m) /\ next1 \in D(m) /\ prev1 \in D(m) BY <1>1
<1>3. Twin(next0) \in Refs(m) /\ Twin(next1) \in Refs(m) /\ h \in Refs(m) /\ twin \in Refs(m) BY <1>1, <1>2 DEF Refs
<1>4. FaceValue(m, f0) /\ FaceValue(m, f1) /\ f0 \in Nat /\ f1 \in Nat BY <1>1, <1>2
<1>5. ASSUME NEW S, NEW holder \in [S -> Refs(m)], NEW x, NEW old, NEW new \in Refs(m) PROVE Renamed(holder, x, old, new) \in [S -> Refs(m)]
  OBVIOUS
<1> HIDE DEF Renamed
<1>6. vh \in [Vertices -> Refs(m)]
  <2>1. Renamed(m.vertexHalfedge, m.vertex[h], h, Twin(next0)) \in [Vertices -> Refs(m)] BY <1>1, <1>3, <1>5
  <2> QED BY <2>1, <1>3, <1>5
<1>7. fh \in [DOMAIN m.faceHalfedge -> Refs(m)]
  <2>1. Renamed(m.faceHalfedge, f0, next0, h) \in [DOMAIN m.faceHalfedge -> Refs(m)] BY <1>1, <1>3, <1>5
  <2> QED BY <2>1, <1>3, <1>5
<1> HIDE DEF twin, next0, prev0, next1, prev1, f0, f1
<1>8. vertex \in [D(m) -> Vertices \cup {INVALID}]
  <2>1. m.vertex[next0] \in Vertices \cup {INVALID} /\ m.vertex[next1] \in Vertices \cup {INVALID} BY <1>1, <1>2
  <2> QED BY <2>1, <1>1
<1>9. face \in [D(m) -> Nat] /\ \A e \in D(m) : face[e] \in {m.face[e], f0, f1} BY <1>1, <1>2, <1>4
<1>10. next \in [D(m) -> D(m)] BY <1>1, <1>2
<1>11. DOMAIN m = {"next", "vertex", "face", "vertexHalfedge", "faceHalfedge", "fault"} BY ArrayTypes
<1>12. \A e \in D(m) : FaceValue(m, face[e]) BY <1>1, <1>4, <1>9
<1> HIDE DEF vh, fh, vertex, face, next
<1>13. /\ DOMAIN r = DOMAIN m /\ r.vertex = vertex /\ r.next = next /\ r.faceHalfedge = fh
       /\ r.face = face /\ r.vertexHalfedge = vh /\ r.fault = m.fault
  BY <1>11
<1> HIDE DEF r
<1>14. Like(r, m) BY <1>6, <1>7, <1>8, <1>9, <1>10, <1>12, <1>13, ArrayTypes, LikeIf
<1> QED BY <1>14, <1>x

-----------------------------------------------------------------------------
(* Half-edges that are added.                                               *)

\* The arrays after an edit that may add half-edges.
Wider(r, m) == Arrays(r) /\ D(m) \subseteq D(r) /\ DOMAIN r.faceHalfedge = DOMAIN m.faceHalfedge

\* One edit after the other.
LEMMA WiderThenLike ==
  ASSUME NEW m, NEW r, NEW q, Wider(r, m), Like(q, r)
  PROVE  Wider(q, m) /\ D(q) = D(r)
BY DEF Wider, Like

\* How many half-edges there are.
LEMMA PairsCounted ==
  ASSUME NEW m, Arrays(m)
  PROVE  \E k \in Nat : HalfedgeCount(m) = 2 * k /\ 2 * k <= MaxHalfedges /\ D(m) = 0..(2 * k - 1)
<1>1. PICK k \in Nat : 2 * k <= MaxHalfedges /\ D(m) = 0..(2 * k - 1) BY DEF Arrays
<1>2. Cardinality(0..(2 * k - 1)) = 2 * k BY FS_Interval
<1> QED BY <1>1, <1>2 DEF HalfedgeCount, D

\* A new pair of half-edges, with a face on one side.
LEMMA NewPairWider ==
  ASSUME NEW m, Arrays(m), NEW f \in DOMAIN m.faceHalfedge, NEW source \in Vertices, NEW target \in Vertices,
         HalfedgeCount(m) + 2 <= MaxHalfedges
  PROVE  LET new == NewPair(m, HalfedgeCount(m), f, source, target)
         IN  Wider(new.mesh, m) /\ new.added \in D(new.mesh) /\ new.existed \in BOOLEAN
<1> DEFINE n == HalfedgeCount(m)
           Extend(array, x, y) == [h \in 0..(n + 1) |-> IF h = n THEN x ELSE IF h = n + 1 THEN y ELSE array[h]]
           new == NewPair(m, n, f, source, target)
           r == [m EXCEPT !.next = Extend(m.next, n + 1, n), !.vertex = Extend(m.vertex, target, source),
                          !.face = Extend(m.face, f, INVALID)]
<1>1. PICK k \in Nat : n = 2 * k /\ 2 * k <= MaxHalfedges /\ D(m) = 0..(2 * k - 1) BY PairsCounted
<1>x. new.mesh = r /\ new.added = n /\ new.existed = FALSE BY DEF NewPair
<1>2. /\ m.next \in [D(m) -> D(m)] /\ m.vertex \in [D(m) -> Vertices \cup {INVALID}] /\ m.face \in [D(m) -> Nat]
      /\ m.vertexHalfedge \in [Vertices -> Refs(m)] /\ m.fault \in {"none", "throw", "crash"}
      /\ \A e \in D(m) : FaceValue(m, m.face[e])
  BY ArrayTypes
<1>3. DOMAIN m = {"next", "vertex", "face", "vertexHalfedge", "faceHalfedge", "fault"} BY ArrayTypes
<1>4. PICK c \in 0..MaxFaces : m.faceHalfedge \in [0..(c - 1) -> Refs(m)] BY DEF Arrays
<1>5. INVALID \in Nat /\ INVALID > MaxFaces /\ MaxFaces \in Nat /\ MaxHalfedges \in Nat BY DcelAssumption
<1>6. f \in Nat /\ f \in 0..(c - 1) /\ FaceValue(m, f) /\ FaceValue(m, INVALID) BY <1>4, <1>5 DEF FaceValue
<1>7. n \in Nat /\ D(m) = 0..(n - 1) BY <1>1
<1>g. n + 2 <= MaxHalfedges /\ n + 2 = 2 * (k + 1) /\ k + 1 \in Nat BY <1>1
<1>8. Extend(m.next, n + 1, n) \in [0..(n + 1) -> 0..(n + 1)] BY <1>2, <1>7
<1>e. ASSUME NEW V, NEW array \in [D(m) -> V], NEW x \in V, NEW y \in V PROVE Extend(array, x, y) \in [0..(n + 1) -> V]
  <2>1. ASSUME NEW h \in 0..(n + 1), h # n, h # n + 1 PROVE h \in D(m) BY <2>1, <1>7
  <2> QED BY <2>1
<1>9. Extend(m.vertex, target, source) \in [0..(n + 1) -> Vertices \cup {INVALID}]
  <2>1. target \in Vertices \cup {INVALID} /\ source \in Vertices \cup {INVALID} OBVIOUS
  <2> HIDE DEF Extend
  <2> QED BY <2>1, <1>2, <1>e
<1>10. Extend(m.face, f, INVALID) \in [0..(n + 1) -> Nat] BY <1>2, <1>5, <1>6, <1>7
<1>11. ASSUME NEW h \in 0..(n + 1) PROVE FaceValue(m, Extend(m.face, f, INVALID)[h])
  <2>1. CASE h = n BY <2>1, <1>6
  <2>2. CASE h = n + 1 BY <2>2, <1>6, <1>7
  <2>3. CASE h # n /\ h # n + 1
    <3>1. h \in D(m) BY <2>3, <1>7
    <3> QED BY <3>1, <2>3, <1>2
  <2> QED BY <2>1, <2>2, <2>3
<1> HIDE DEF n, new
<1>12. /\ DOMAIN r = DOMAIN m /\ r.next = Extend(m.next, n + 1, n) /\ r.vertex = Extend(m.vertex, target, source)
       /\ r.face = Extend(m.face, f, INVALID) /\ r.vertexHalfedge = m.vertexHalfedge /\ r.faceHalfedge = m.faceHalfedge
       /\ r.fault = m.fault
  BY <1>3
<1> HIDE DEF Extend, r
<1>13. D(r) = 0..(n + 1) /\ n + 1 = 2 * (k + 1) - 1 BY <1>8, <1>12, <1>g, <1>7 DEF D
<1>14. D(m) \subseteq D(r) /\ n \in D(r) /\ Refs(m) \subseteq Refs(r) BY <1>7, <1>13 DEF Refs
<1>15. \A g : FaceValue(m, g) <=> FaceValue(r, g) BY <1>12 DEF FaceValue
<1>16. \A h \in D(r) : FaceValue(r, r.face[h]) BY <1>11, <1>12, <1>13, <1>15
<1>17. r.vertexHalfedge \in [Vertices -> Refs(r)] BY <1>2, <1>12, <1>14
<1>18. r.faceHalfedge \in [0..(c - 1) -> Refs(r)] BY <1>4, <1>12, <1>14
<1>19. 0 \in DOMAIN r.faceHalfedge BY <1>6, <1>18
<1>20. 2 * (k + 1) <= MaxHalfedges /\ D(r) = 0..(2 * (k + 1) - 1) BY <1>13, <1>g
<1>21. r.next \in [D(r) -> D(r)] /\ r.vertex \in [D(r) -> Vertices \cup {INVALID}] /\ r.face \in [D(r) -> Nat]
  BY <1>8, <1>9, <1>10, <1>12, <1>13
<1>22. \E j \in Nat : 2 * j <= MaxHalfedges /\ D(r) = 0..(2 * j - 1) BY <1>20, <1>g
<1>23. Arrays(r) BY <1>2, <1>3, <1>12, <1>16, <1>17, <1>18, <1>19, <1>21, <1>22 DEF Arrays
<1>24. Wider(r, m) BY <1>12, <1>14, <1>23 DEF Wider
<1> QED BY <1>x, <1>14, <1>24 DEF new, n

\* create_halfedge_internal.
LEMMA CreateWider ==
  ASSUME NEW m, Arrays(m), NEW f \in DOMAIN m.faceHalfedge, NEW source \in Vertices, NEW target \in Vertices,
         HalfedgeCount(m) + 2 <= MaxHalfedges
  PROVE  LET new == CreateHalfedge(m, f, source, target)
         IN  Wider(new.mesh, m) /\ new.added \in D(new.mesh) /\ new.existed \in BOOLEAN
<1> DEFINE opposite == FindVertexHalfedge(m, target, source)
           new == CreateHalfedge(m, f, source, target)
           added == Twin(opposite)
<1>1. CASE ~Valid(m, opposite)
  <2>1. new = NewPair(m, HalfedgeCount(m), f, source, target) BY <1>1 DEF CreateHalfedge, FindOrCreate
  <2> QED BY <2>1, NewPairWider
<1>2. CASE Valid(m, opposite)
  <2>1. new = OtherSide(m, f, added) BY <1>2 DEF CreateHalfedge, FindOrCreate
  <2>2. opposite \in D(m) BY <1>2 DEF Valid, D
  <2>3. added \in D(m) BY <2>2, ArrayTypes
  <2> HIDE DEF opposite, added
  <2> DEFINE q == IF m.face[added] # INVALID THEN Fault(m, "throw") ELSE [m EXCEPT !.face[added] = f]
  <2>4. new.mesh = q /\ new.added = added /\ new.existed = TRUE BY <2>1 DEF OtherSide
  <2>5. Like(q, m)
    <3> DEFINE r == [m EXCEPT !.face[added] = f]
    <3>1. DOMAIN m = {"next", "vertex", "face", "vertexHalfedge", "faceHalfedge", "fault"} BY ArrayTypes
    <3>2. /\ DOMAIN r = DOMAIN m /\ r.face = [m.face EXCEPT ![added] = f] /\ r.next = m.next /\ r.vertex = m.vertex
          /\ r.vertexHalfedge = m.vertexHalfedge /\ r.faceHalfedge = m.faceHalfedge /\ r.fault = m.fault
      BY <3>1
    <3>3. PICK c \in 0..MaxFaces : m.faceHalfedge \in [0..(c - 1) -> Refs(m)] BY DEF Arrays
    <3>4. f \in Nat /\ FaceValue(m, f) BY <3>3 DEF FaceValue
    <3>5. m.face \in [D(m) -> Nat] /\ \A h \in D(m) : FaceValue(m, m.face[h]) BY ArrayTypes
    <3>6. [m.face EXCEPT ![added] = f] \in [D(m) -> Nat] /\ \A h \in D(m) : FaceValue(m, [m.face EXCEPT ![added] = f][h])
      BY <3>4, <3>5
    <3> HIDE DEF r
    <3>7. Like(r, m) BY <3>2, <3>6, ArrayTypes, LikeIf
    <3>8. Like(Fault(m, "throw"), m) BY FaultLike
    <3> QED BY <3>7, <3>8 DEF r
  <2> HIDE DEF q, new
  <2>6. Wider(q, m) /\ added \in D(q) BY <2>3, <2>5 DEF Like, Wider
  <2>7. Wider(new.mesh, m) /\ new.added \in D(new.mesh) /\ new.existed \in BOOLEAN BY <2>4, <2>6
  <2> QED BY <2>7 DEF new
<1> QED BY <1>1, <1>2

\* The new half-edge is joined to its target.
LEMMA JoinTargetLike ==
  ASSUME NEW m, Arrays(m), NEW added \in D(m), NEW existed \in BOOLEAN, NEW target \in Vertices
  PROVE  Like(JoinTarget(m, added, existed, target), m)
<1> DEFINE bound == NextBoundaryEdge(m, m.vertexHalfedge[target])
<1>1. Like(m, m) BY LikeItself
<1>2. Like(SetVertexHalfedge(m, target, added), m) BY SetVertexHalfedgeLike DEF Refs
<1>3. Like(JoinAt(m, bound, added), m)
  <2>1. CASE ~Valid(m, bound)
    <3>1. JoinAt(m, bound, added) = Fault(m, "throw") BY <2>1 DEF JoinAt
    <3> QED BY <3>1, FaultLike
  <2>2. CASE Valid(m, bound)
    <3>1. JoinAt(m, bound, added) = InsertAfter(m, bound, added) BY <2>2 DEF JoinAt
    <3>2. bound \in D(m) BY <2>2 DEF Valid, D
    <3> HIDE DEF bound
    <3> QED BY <3>1, <3>2, InsertLike
  <2> QED BY <2>1, <2>2
<1>4. JoinTarget(m, added, existed, target) \in {m, SetVertexHalfedge(m, target, added), JoinAt(m, bound, added)} BY DEF JoinTarget
<1> HIDE DEF bound
<1> QED BY <1>1, <1>2, <1>3, <1>4

\* perform_insertion_fixup.
LEMMA FixupLike ==
  ASSUME NEW m, Arrays(m), NEW added, m.fault = "none" => added \in D(m), NEW expectedNext \in Refs(m), NEW existed \in BOOLEAN
  PROVE  Like(InsertionFixup(m, added, expectedNext, existed), m)
<1> DEFINE bound == NextBoundaryEdge(m, Twin(added))
           before == FindExistingPrevious(m, Twin(added), added)
           r == IF existed THEN Link(m, before, m.next[bound]) ELSE m
<1>1. CASE m.fault # "none" \/ expectedNext = INVALID \/ added = expectedNext
  <2>1. InsertionFixup(m, added, expectedNext, existed) = m BY <1>1 DEF InsertionFixup
  <2> QED BY <2>1, LikeItself
<1>2. CASE ~(m.fault # "none" \/ expectedNext = INVALID \/ added = expectedNext)
  <2>1. InsertionFixup(m, added, expectedNext, existed) = LinkBehind(m, bound, added, expectedNext, existed)
    BY <1>2 DEF InsertionFixup
  <2>2. Twin(added) \in D(m) BY <1>2, ArrayTypes
  <2>3. bound \in Refs(m) /\ before \in Refs(m) BY <2>2, SearchesTyped
  <2>4. CASE bound = INVALID
    <3>1. LinkBehind(m, bound, added, expectedNext, existed) \in {Fault(m, "crash"), Fault(m, "throw")} BY <2>4 DEF LinkBehind
    <3> QED BY <3>1, <2>1, FaultLike
  <2>5. CASE bound # INVALID
    <3>1. LinkBehind(m, bound, added, expectedNext, existed) = Link(r, bound, expectedNext) BY <2>5 DEF LinkBehind
    <3>2. m.next[bound] \in Refs(m) BY <2>3, <2>5, ArrayTypes DEF Refs
    <3> HIDE DEF bound, before
    <3>3. Like(Link(m, before, m.next[bound]), m) BY <2>3, <3>2, LinkLike
    <3>4. Like(r, m) BY <3>3, LikeItself
    <3> HIDE DEF r
    <3>5. Arrays(r) /\ bound \in Refs(r) /\ expectedNext \in Refs(r) BY <2>3, <3>4, LikeKeeps
    <3>6. Like(Link(r, bound, expectedNext), r) BY <3>5, LinkLike
    <3> QED BY <2>1, <3>1, <3>4, <3>6, LikeTwice
  <2> QED BY <2>4, <2>5
<1> QED BY <1>1, <1>2

\* What is kept of the face under construction.
InfoTyped(i, m) ==
  /\ DOMAIN i = {"face", "corners", "expectedNext", "previous", "first", "firstExisted"}
  /\ i.face \in DOMAIN m.faceHalfedge \cup {INVALID}
  /\ i.corners \in Seq(Vertices)
  /\ i.first \in Refs(m) /\ i.previous \in Refs(m) /\ i.expectedNext \in Refs(m)
  /\ i.firstExisted \in BOOLEAN

\* The new half-edge is joined to the face.
LEMMA JoinPreviousLike ==
  ASSUME NEW m, Arrays(m), NEW added \in D(m), NEW existed \in BOOLEAN, NEW i, InfoTyped(i, m)
  PROVE  Like(JoinPrevious(m, added, existed, i), m)
<1> DEFINE a == InsertionFixup(m, added, i.expectedNext, existed)
           b == LinkPrevious(a, i.previous, added)
           c == FirstOfFace(b, i.face, added)
<1>x. JoinPrevious(m, added, existed, i) = c BY DEF JoinPrevious
<1>1. Like(a, m) BY FixupLike DEF InfoTyped
<1>2. Arrays(a) /\ added \in Refs(a) /\ i.previous \in Refs(a) BY <1>1, LikeKeeps DEF Refs, InfoTyped
<1> HIDE DEF a
<1>3. Like(b, a) BY <1>2, LinkLike, LikeItself DEF LinkPrevious
<1>4. Like(b, m) /\ Arrays(b) /\ added \in Refs(b) BY <1>1, <1>2, <1>3, LikeTwice, LikeKeeps
<1> HIDE DEF b
<1>5. Like(c, b) BY <1>4, LikeItself, SetFaceHalfedgeLike DEF FirstOfFace
<1> QED BY <1>x, <1>4, <1>5, LikeTwice

\* The record is one of a larger mesh, too.
LEMMA InfoWider ==
  ASSUME NEW i, NEW m, InfoTyped(i, m), NEW r, Wider(r, m)
  PROVE  InfoTyped(i, r)
BY DEF InfoTyped, Wider, Refs

\* add_edge_internal.
LEMMA AddEdgeTyped ==
  ASSUME Arrays(mesh), InfoTyped(info, mesh), info.face # INVALID, NEW source \in Vertices, NEW target \in Vertices,
         HalfedgeCount(mesh) + 2 <= MaxHalfedges
  PROVE  LET edge == AddEdge(source, target)
         IN  /\ Wider(edge.mesh, mesh) /\ InfoTyped(edge.info, edge.mesh)
             /\ edge.mesh.fault = "none" => edge.info.first \in D(edge.mesh)
             /\ edge.info.corners = info.corners
<1> DEFINE new == CreateHalfedge(mesh, info.face, source, target)
           a == JoinTarget(new.mesh, new.added, new.existed, target)
           joined == JoinPrevious(a, new.added, new.existed, info)
           edge == AddEdge(source, target)
<1>x. edge = Continue(joined, new) BY DEF AddEdge, Join
<1>1. Wider(new.mesh, mesh) /\ new.added \in D(new.mesh) /\ new.existed \in BOOLEAN
  <2>1. info.face \in DOMAIN mesh.faceHalfedge BY DEF InfoTyped
  <2> QED BY <2>1, CreateWider
<1> HIDE DEF new, edge
<1>2. Like(a, new.mesh) BY <1>1, JoinTargetLike DEF Wider
<1>3. Wider(a, mesh) /\ new.added \in D(a) BY <1>1, <1>2, WiderThenLike
<1>4. Arrays(a) /\ InfoTyped(info, a) BY <1>3, InfoWider DEF Wider
<1> HIDE DEF a
<1>5. Like(joined, a) BY <1>1, <1>3, <1>4, JoinPreviousLike
<1>6. Wider(joined, mesh) /\ new.added \in D(joined) BY <1>3, <1>5, WiderThenLike
<1> HIDE DEF joined
<1>7. InfoTyped(info, joined) BY <1>6, InfoWider
<1>8. CASE joined.fault # "none"
  <2>1. edge.mesh = joined /\ edge.info = info BY <1>x, <1>8 DEF Continue
  <2> QED BY <2>1, <1>6, <1>7, <1>8 DEF edge
<1>9. CASE joined.fault = "none"
  <2> DEFINE first == IF info.first = INVALID THEN new.added ELSE info.first
             existed == IF info.first = INVALID THEN new.existed ELSE info.firstExisted
             i == [info EXCEPT !.first = first, !.firstExisted = existed, !.expectedNext = joined.next[new.added],
                               !.previous = new.added]
  <2>1. DOMAIN info = {"face", "corners", "expectedNext", "previous", "first", "firstExisted"} BY DEF InfoTyped
  <2>2. edge.mesh = joined /\ edge.info = [info EXCEPT !.first = IF @ = INVALID THEN new.added ELSE @,
                              !.firstExisted = IF info.first = INVALID THEN new.existed ELSE @,
                              !.expectedNext = joined.next[new.added],
                              !.previous = new.added]
    BY <1>x, <1>9 DEF Continue
  <2>3. edge.info = i BY <2>1, <2>2
  <2>4. joined.next[new.added] \in D(joined) BY <1>6, ArrayTypes DEF Wider
  <2>5. first \in D(joined) /\ existed \in BOOLEAN BY <1>1, <1>6, <1>7 DEF InfoTyped, Refs
  <2> HIDE DEF first, existed
  <2>6. /\ DOMAIN i = DOMAIN info /\ i.face = info.face /\ i.corners = info.corners /\ i.first = first
        /\ i.firstExisted = existed /\ i.expectedNext = joined.next[new.added] /\ i.previous = new.added
    BY <2>1
  <2> HIDE DEF i
  <2>7. InfoTyped(i, joined) BY <2>4, <2>5, <2>6, <1>6, <1>7 DEF InfoTyped, Refs
  <2> QED BY <2>2, <2>3, <2>5, <2>6, <2>7, <1>6 DEF edge
<1> QED BY <1>8, <1>9

\* end_face closes what add_edge_internal left.
LEMMA CloseLike ==
  ASSUME NEW edge, Arrays(edge.mesh), InfoTyped(edge.info, edge.mesh), edge.mesh.fault = "none" => edge.info.first \in D(edge.mesh)
  PROVE  Like(CloseFace(edge), edge.mesh)
<1> DEFINE m == edge.mesh
           i == edge.info
           a == InsertionFixup(m, i.first, i.expectedNext, i.firstExisted)
<1>1. Like(a, m) BY FixupLike DEF InfoTyped
<1>2. CloseFace(edge) = Link(a, i.previous, i.first) BY DEF CloseFace
<1>3. Arrays(a) /\ i.previous \in Refs(a) /\ i.first \in Refs(a) BY <1>1, LikeKeeps DEF InfoTyped
<1> HIDE DEF a
<1>4. Like(CloseFace(edge), a) BY <1>2, <1>3, LinkLike
<1> QED BY <1>1, <1>4, LikeTwice

-----------------------------------------------------------------------------
(* Numbers for the holes, of any arrays.                                    *)

\* cache_boundary_info lists half-edges, and its numbers are no faces.
LEMMA NumbersTyped ==
  ASSUME NEW m, Arrays(m)
  PROVE  LET numbered == NumberBoundaries(m)
         IN  /\ numbered.face \in [D(m) -> Nat] /\ \A h \in D(m) : FaceValue(m, numbered.face[h])
             /\ numbered.first \in Seq(D(m))
<1> DEFINE num == CHOOSE num : Numbers(num, m)
           N == HalfedgeCount(m)
           Fine(done, k) == /\ done.face \in [D(m) -> Nat] /\ \A h \in D(m) : FaceValue(m, done.face[h])
                            /\ done.first \in Seq(D(m)) /\ Len(done.first) \in 0..k
           Good == {k \in Nat : k <= N => Fine(num[k], k)}
<1>n. N \in Nat /\ N <= MaxHalfedges /\ D(m) = 0..(N - 1)
  <2>1. PICK k \in Nat : N = 2 * k /\ 2 * k <= MaxHalfedges /\ D(m) = 0..(2 * k - 1) BY PairsCounted
  <2> QED BY <2>1
<1>a. INVALID \in Nat /\ MaxFaces \in Nat /\ MaxHalfedges \in Nat /\ MaxHalfedges + MaxFaces < INVALID BY DcelAssumption
<1>m. DOMAIN m.face = D(m) /\ m.face \in [D(m) -> Nat] /\ \A h \in D(m) : FaceValue(m, m.face[h]) BY ArrayTypes
<1>1. Numbers(num, m) BY <1>n, NumbersExist
<1>2. NumberBoundaries(m) = num[N] BY DEF NumberBoundaries, Numbers, NumberNext, Unnumbered
<1> HIDE DEF num, N
<1>3. ASSUME NEW k \in Nat, k <= N PROVE num[k] = IF k = 0 THEN Unnumbered(m) ELSE NumberNext(m, num[k - 1], k - 1)
  <2> DEFINE Body(j) == IF j = 0 THEN Unnumbered(m) ELSE NumberNext(m, num[j - 1], j - 1)
  <2>1. num = [j \in 0..N |-> Body(j)] BY <1>1 DEF Numbers, N
  <2>2. k \in 0..N BY <1>3, <1>n
  <2> HIDE DEF Body
  <2>3. num[k] = Body(k) BY <2>1, <2>2
  <2> QED BY <2>3 DEF Body
<1>4. 0 \in Good
  <2> SUFFICES Fine(num[0], 0) OBVIOUS
  <2>1. num[0] = Unnumbered(m) BY <1>3, <1>n
  <2>2. Fine(Unnumbered(m), 0)
    <3>1. FaceValue(m, INVALID) BY <1>a DEF FaceValue
    <3>2. \A h \in D(m) : Unnumbered(m).face[h] \in {INVALID, m.face[h]} BY <1>m DEF Unnumbered
    <3>3. Unnumbered(m).face \in [D(m) -> Nat] BY <1>a, <1>m DEF Unnumbered
    <3>4. Unnumbered(m).first = <<>> BY DEF Unnumbered
    <3>5. \A h \in D(m) : FaceValue(m, Unnumbered(m).face[h]) BY <3>1, <3>2, <1>m
    <3> QED BY <3>3, <3>4, <3>5
  <2> QED BY <2>1, <2>2
<1>5. ASSUME NEW k \in Nat, k \in Good PROVE k + 1 \in Good
  <2> SUFFICES ASSUME k + 1 <= N PROVE Fine(num[k + 1], k + 1) OBVIOUS
  <2> DEFINE done == num[k]
             walk == FaceCycle(m, k)
             met == {i \in DOMAIN walk : done.face[walk[i]] # INVALID \/ \E j \in 1..(i - 1) : walk[j] = walk[i]}
             fresh == {walk[i] : i \in {j \in DOMAIN walk : \A l \in met : j < l}}
             b == Len(done.first)
  <2>1. Fine(done, k) /\ num[k + 1] = NumberNext(m, done, k) BY <1>3, <1>5, <1>n
  <2>2. b \in 0..k /\ BoundaryFaceId(b) \in Nat /\ BoundaryFaceId(b) > MaxFaces
    <3>1. b \in 0..k BY <2>1
    <3> HIDE DEF b
    <3> QED BY <3>1, <1>a, <1>n, k + 1 <= N DEF BoundaryFaceId
  <2>3. k \in D(m) BY <1>n, k + 1 <= N
  <2>4. CASE done.fault # "none" \/ done.face[k] # INVALID
    <3>1. num[k + 1] = done BY <2>1, <2>4 DEF NumberNext
    <3> HIDE DEF done
    <3> QED BY <3>1, <2>1
  <2>5. CASE ~(done.fault # "none" \/ done.face[k] # INVALID)
    <3> DEFINE face == [e \in DOMAIN m.face |-> IF e \in fresh THEN BoundaryFaceId(b) ELSE done.face[e]]
    <3>1. num[k + 1] = [face |-> face, first |-> Append(done.first, k),
                        fault |-> IF met = {} /\ Closes(FaceStep(m), k) THEN "none" ELSE "throw"]
      BY <2>1, <2>5 DEF NumberNext
    <3>2. face \in [D(m) -> Nat] /\ \A h \in D(m) : FaceValue(m, face[h])
      <4> HIDE DEF fresh, b, done
      <4>1. FaceValue(m, BoundaryFaceId(b)) BY <2>2 DEF FaceValue
      <4>2. \A h \in D(m) : face[h] \in {BoundaryFaceId(b), done.face[h]} BY <1>m
      <4>3. face \in [D(m) -> Nat] BY <2>1, <2>2, <1>m
      <4>4. \A h \in D(m) : FaceValue(m, face[h]) BY <4>1, <4>2, <2>1
      <4> QED BY <4>3, <4>4
    <3>3. num[k + 1].face = face /\ num[k + 1].first = Append(done.first, k)
      <4> HIDE DEF face, met
      <4> QED BY <3>1
    <3>4. Append(done.first, k) \in Seq(D(m)) /\ Len(Append(done.first, k)) \in 0..(k + 1) BY <2>1, <2>3
    <3> HIDE DEF face, done
    <3> QED BY <3>2, <3>3, <3>4
  <2> QED BY <2>4, <2>5
<1>6. Nat \subseteq Good
  <2> HIDE DEF Good
  <2> QED BY <1>4, <1>5, InductionOnSet
<1> QED BY <1>2, <1>6, <1>n

-----------------------------------------------------------------------------
(* The types of all variables.                                             *)

\* What clear() leaves: no vertices.
Cleared == [EmptyMesh(0) EXCEPT !.vertexHalfedge = [v \in {} |-> INVALID]]

\* The variables that are true or false.
Flags == isAddingFace \in BOOLEAN /\ isTriangleMesh \in BOOLEAN /\ isBoundaryInfoCached \in BOOLEAN

\* The types of all variables, with what an edit relies on: half-edges come in pairs and with a
\* face 0, and nothing is under construction in a mesh without vertices.
TypeInv ==
  /\ input \in Meshes
  /\ Flags
  /\ IF DOMAIN mesh.vertexHalfedge = Vertices THEN Arrays(mesh)
     ELSE mesh = Cleared /\ ~isAddingFace /\ info.face = INVALID
  /\ InfoTyped(info, mesh)
  /\ boundaryHalfedges \in Seq(D(mesh))

\* The mesh of initialize.
LEMMA EmptyTyped ==
  ASSUME NEW n \in 0..MaxFaces
  PROVE  Arrays(EmptyMesh(n)) /\ D(EmptyMesh(n)) = {}
<1> DEFINE m == EmptyMesh(n)
<1>1. /\ DOMAIN m = {"next", "vertex", "face", "vertexHalfedge", "faceHalfedge", "fault"}
      /\ m.next = [h \in {} |-> INVALID] /\ m.vertex = [h \in {} |-> INVALID] /\ m.face = [h \in {} |-> INVALID]
      /\ m.vertexHalfedge = [v \in Vertices |-> INVALID] /\ m.faceHalfedge = [f \in 0..(n - 1) |-> INVALID] /\ m.fault = "none"
  BY DEF EmptyMesh
<1> HIDE DEF m
<1>2. D(m) = {} BY <1>1 DEF D
<1>3. INVALID \in Refs(m) BY DEF Refs
<1>4. \E k \in Nat : 2 * k <= MaxHalfedges /\ D(m) = 0..(2 * k - 1)
  <2>1. 2 * 0 <= MaxHalfedges /\ 0..(2 * 0 - 1) = {} BY DcelAssumption
  <2> QED BY <2>1, <1>2
<1>5. m.next \in [D(m) -> D(m)] /\ m.vertex \in [D(m) -> Vertices \cup {INVALID}] /\ m.face \in [D(m) -> Nat] BY <1>1, <1>2
<1>6. m.vertexHalfedge \in [Vertices -> Refs(m)] /\ m.faceHalfedge \in [0..(n - 1) -> Refs(m)] BY <1>1, <1>3
<1>7. \A h \in D(m) : FaceValue(m, m.face[h]) BY <1>2
<1>8. \E k \in 0..MaxFaces : m.faceHalfedge \in [0..(k - 1) -> Refs(m)] BY <1>6
<1>9. Arrays(m) BY <1>1, <1>2, <1>4, <1>5, <1>6, <1>7, <1>8 DEF Arrays
<1> QED BY <1>2, <1>9 DEF m

\* The mesh of clear(), written out.
LEMMA ClearedTyped ==
  /\ DOMAIN Cleared.vertexHalfedge = {} /\ D(Cleared) = {} /\ Refs(Cleared) = {INVALID}
  /\ Cleared = [next |-> [h \in {} |-> INVALID], vertex |-> [h \in {} |-> INVALID], face |-> [h \in {} |-> INVALID],
                vertexHalfedge |-> [v \in {} |-> INVALID], faceHalfedge |-> [f \in 0..(0 - 1) |-> INVALID], fault |-> "none"]
<1>1. Cleared = [next |-> [h \in {} |-> INVALID], vertex |-> [h \in {} |-> INVALID], face |-> [h \in {} |-> INVALID],
                vertexHalfedge |-> [v \in {} |-> INVALID], faceHalfedge |-> [f \in 0..(0 - 1) |-> INVALID], fault |-> "none"]
  BY DEF Cleared, EmptyMesh
<1> QED BY <1>1 DEF D, Refs

\* The record of begin_face and initialize.
LEMMA FaceInfoTyped ==
  ASSUME NEW m, NEW f \in DOMAIN m.faceHalfedge \cup {INVALID}
  PROVE  InfoTyped(FaceInfo(f), m)
BY DEF FaceInfo, InfoTyped, Refs

\* A new structure is of its types.
LEMMA TypeInit == Init => TypeInv
<1> SUFFICES ASSUME Init PROVE TypeInv OBVIOUS
<1>1. PICK n \in FaceCounts : mesh = EmptyMesh(n) BY DEF Init
<1>2. n \in 0..MaxFaces BY DcelAssumption
<1>3. Arrays(mesh) /\ D(mesh) = {} BY <1>1, <1>2, EmptyTyped
<1>4. DOMAIN mesh.vertexHalfedge = Vertices BY <1>3 DEF Arrays
<1>5. InfoTyped(info, mesh) BY FaceInfoTyped DEF Init
<1>6. boundaryHalfedges = <<>> /\ input \in Meshes /\ Flags BY DEF Init, Flags
<1>7. boundaryHalfedges \in Seq(D(mesh)) BY <1>6
<1> QED BY <1>3, <1>4, <1>5, <1>6, <1>7 DEF TypeInv

\* A step that leaves a mesh with vertices.
LEMMA TypeStep ==
  ASSUME TypeInv, Arrays(mesh'), InfoTyped(info', mesh'), Flags',
         input' \in Meshes, boundaryHalfedges' \in Seq(D(mesh'))
  PROVE  TypeInv'
<1>1. DOMAIN mesh'.vertexHalfedge = Vertices BY DEF Arrays
<1> QED BY <1>1 DEF TypeInv

\* Half-edges that were boundary half-edges still are half-edges.
LEMMA StillListed ==
  ASSUME TypeInv, boundaryHalfedges' = boundaryHalfedges, D(mesh) \subseteq D(mesh')
  PROVE  boundaryHalfedges' \in Seq(D(mesh'))
BY DEF TypeInv

\* An edit of the mesh between two faces.
LEMMA TypeEdit ==
  ASSUME TypeInv, Like(mesh', mesh), UNCHANGED <<input, info, flagVars, boundaryVars>>
  PROVE  TypeInv'
<1>1. info' = info /\ input' = input /\ Flags' /\ boundaryHalfedges' = boundaryHalfedges
  BY DEF flagVars, boundaryVars, TypeInv, Flags
<1>2. Wider(mesh', mesh) BY DEF Like, Wider
<1>3. InfoTyped(info', mesh') BY <1>1, <1>2, InfoWider DEF TypeInv
<1>4. boundaryHalfedges' \in Seq(D(mesh')) BY <1>1, <1>2, StillListed DEF Wider
<1> QED BY <1>1, <1>2, <1>3, <1>4, TypeStep DEF Wider, TypeInv

\* begin_face( faceId ).
LEMMA TypeBegin ==
  ASSUME TypeInv, NEW f \in DOMAIN mesh.faceHalfedge, BeginFace(f)
  PROVE  TypeInv'
<1>1. /\ Arrays(mesh) /\ mesh' = mesh /\ info' = FaceInfo(f) /\ isAddingFace' = TRUE /\ input' = input
      /\ isTriangleMesh' = isTriangleMesh /\ boundaryHalfedges' = boundaryHalfedges /\ isBoundaryInfoCached' = isBoundaryInfoCached
  BY DEF BeginFace, MayAddFace, Ready, TypeInv, boundaryVars
<1>2. InfoTyped(info', mesh') BY <1>1, FaceInfoTyped
<1>3. Flags' BY <1>1 DEF TypeInv, Flags
<1>4. boundaryHalfedges' \in Seq(D(mesh')) BY <1>1, StillListed
<1> QED BY <1>1, <1>2, <1>3, <1>4, TypeStep DEF TypeInv

\* begin_face() makes room for one more face.
LEMMA TypeBeginNew ==
  ASSUME TypeInv, BeginNewFace
  PROVE  TypeInv'
<1> DEFINE n == FaceCount(mesh)
           faceHalfedge == [f \in 0..n |-> IF f < n THEN mesh.faceHalfedge[f] ELSE INVALID]
<1>1. /\ Arrays(mesh) /\ n < MaxFaces /\ mesh' = [mesh EXCEPT !.faceHalfedge = faceHalfedge] /\ info' = FaceInfo(n)
      /\ isAddingFace' = TRUE /\ input' = input
      /\ isTriangleMesh' = isTriangleMesh /\ boundaryHalfedges' = boundaryHalfedges /\ isBoundaryInfoCached' = isBoundaryInfoCached
  BY DEF BeginNewFace, MayAddFace, Ready, TypeInv, boundaryVars
<1>2. n \in 0..MaxFaces BY <1>1, FaceCounted
<1>3. mesh.faceHalfedge \in [0..(n - 1) -> Refs(mesh)]
  <2>1. PICK c \in 0..MaxFaces : mesh.faceHalfedge \in [0..(c - 1) -> Refs(mesh)] BY <1>1 DEF Arrays
  <2>2. DOMAIN mesh.faceHalfedge = 0..(c - 1) /\ c \in Nat BY <2>1, DcelAssumption
  <2>3. n = c BY <2>2, FS_Interval DEF FaceCount
  <2> QED BY <2>1, <2>3
<1>4. /\ DOMAIN mesh = {"next", "vertex", "face", "vertexHalfedge", "faceHalfedge", "fault"}
      /\ mesh.next \in [D(mesh) -> D(mesh)] /\ mesh.vertex \in [D(mesh) -> Vertices \cup {INVALID}]
      /\ mesh.face \in [D(mesh) -> Nat] /\ mesh.vertexHalfedge \in [Vertices -> Refs(mesh)]
      /\ mesh.fault \in {"none", "throw", "crash"} /\ \A h \in D(mesh) : FaceValue(mesh, mesh.face[h])
  BY <1>1, ArrayTypes
<1>m. MaxFaces \in Nat /\ n \in Nat BY <1>2, DcelAssumption
<1>5. /\ DOMAIN mesh' = DOMAIN mesh /\ mesh'.next = mesh.next /\ mesh'.vertex = mesh.vertex /\ mesh'.face = mesh.face
      /\ mesh'.vertexHalfedge = mesh.vertexHalfedge /\ mesh'.faceHalfedge = faceHalfedge /\ mesh'.fault = mesh.fault
  <2> HIDE DEF n, faceHalfedge
  <2> QED BY <1>1, <1>4
<1>6. D(mesh') = D(mesh) /\ Refs(mesh') = Refs(mesh) BY <1>5 DEF D, Refs
<1>7. faceHalfedge \in [0..n -> Refs(mesh)]
  <2>1. INVALID \in Refs(mesh) BY DEF Refs
  <2>2. ASSUME NEW f \in 0..n PROVE faceHalfedge[f] \in Refs(mesh)
    <3>1. CASE f < n
      <4>1. f \in 0..(n - 1) BY <3>1, <1>m
      <4> QED BY <4>1, <3>1, <1>3
    <3>2. CASE ~(f < n) BY <3>2, <2>1
    <3> QED BY <3>1, <3>2
  <2> QED BY <2>2
<1>8. ASSUME NEW f, FaceValue(mesh, f) PROVE FaceValue(mesh', f)
  <2>1. f \in 0..(n - 1) \/ f > MaxFaces BY <1>3, <1>8 DEF FaceValue
  <2>2. DOMAIN mesh'.faceHalfedge = 0..n BY <1>5
  <2>3. f \in 0..n \/ f > MaxFaces BY <2>1, <1>m
  <2> QED BY <2>2, <2>3, <1>8 DEF FaceValue
<1>9. n + 1 \in 0..MaxFaces /\ mesh'.faceHalfedge \in [0..((n + 1) - 1) -> Refs(mesh')]
  <2>1. mesh'.faceHalfedge \in [0..n -> Refs(mesh')] BY <1>5, <1>6, <1>7
  <2>2. n < MaxFaces BY <1>1
  <2> HIDE DEF n, faceHalfedge
  <2>3. (n + 1) - 1 = n /\ n + 1 \in 0..MaxFaces BY <2>2, <1>m
  <2> QED BY <2>1, <2>3
<1>10. n \in DOMAIN mesh'.faceHalfedge /\ 0 \in DOMAIN mesh'.faceHalfedge BY <1>5, <1>m
<1> HIDE DEF n, faceHalfedge
<1>11. \A h \in D(mesh') : FaceValue(mesh', mesh'.face[h]) BY <1>4, <1>5, <1>6, <1>8
<1>12. \E k \in Nat : 2 * k <= MaxHalfedges /\ D(mesh') = 0..(2 * k - 1) BY <1>1, <1>6 DEF Arrays
<1>13. mesh'.next \in [D(mesh') -> D(mesh')] /\ mesh'.vertex \in [D(mesh') -> Vertices \cup {INVALID}] /\ mesh'.face \in [D(mesh') -> Nat]
       /\ mesh'.vertexHalfedge \in [Vertices -> Refs(mesh')]
  BY <1>4, <1>5, <1>6
<1>14. \E c \in 0..MaxFaces : mesh'.faceHalfedge \in [0..(c - 1) -> Refs(mesh')] BY <1>9
<1>15. Arrays(mesh') BY <1>4, <1>5, <1>10, <1>11, <1>12, <1>13, <1>14 DEF Arrays
<1>16. InfoTyped(info', mesh') BY <1>1, <1>10, FaceInfoTyped
<1>17. Flags' BY <1>1 DEF TypeInv, Flags
<1>18. boundaryHalfedges' \in Seq(D(mesh')) BY <1>1, <1>6, StillListed
<1> QED BY <1>1, <1>15, <1>16, <1>17, <1>18, TypeStep DEF TypeInv

\* The record with one more corner.
LEMMA CornerTyped ==
  ASSUME NEW i, NEW m, InfoTyped(i, m), NEW v \in Vertices
  PROVE  InfoTyped([i EXCEPT !.corners = Append(@, v)], m)
<1> DEFINE j == [i EXCEPT !.corners = Append(i.corners, v)]
<1>1. DOMAIN i = {"face", "corners", "expectedNext", "previous", "first", "firstExisted"} BY DEF InfoTyped
<1>2. /\ DOMAIN j = DOMAIN i /\ j.corners = Append(i.corners, v) /\ j.face = i.face /\ j.expectedNext = i.expectedNext
      /\ j.previous = i.previous /\ j.first = i.first /\ j.firstExisted = i.firstExisted
  BY <1>1
<1> HIDE DEF j
<1>3. InfoTyped(j, m) BY <1>2 DEF InfoTyped
<1> QED BY <1>3 DEF j

\* add_face_vertex.
LEMMA TypeVertex ==
  ASSUME TypeInv, NEW v \in Vertices, AddFaceVertex(v)
  PROVE  TypeInv'
<1> DEFINE edge == AddEdge(Last(info.corners), v)
           added == IF info.corners = <<>> THEN [mesh |-> mesh, info |-> info] ELSE edge
<1>1. /\ info.face # INVALID /\ HalfedgeCount(mesh) + 2 <= MaxHalfedges /\ PutCorner(v, added) /\ input' = input
      /\ isAddingFace' = isAddingFace /\ isTriangleMesh' = isTriangleMesh /\ boundaryHalfedges' = boundaryHalfedges
      /\ isBoundaryInfoCached' = isBoundaryInfoCached
  BY DEF AddFaceVertex, flagVars, boundaryVars
<1>2. Arrays(mesh) /\ InfoTyped(info, mesh) /\ info.corners \in Seq(Vertices) BY <1>1 DEF TypeInv, InfoTyped
<1>3. Wider(added.mesh, mesh) /\ InfoTyped(added.info, added.mesh)
  <2>1. CASE info.corners = <<>> BY <2>1, <1>2 DEF Wider
  <2>2. CASE info.corners # <<>>
    <3>1. Last(info.corners) \in Vertices BY <2>2, <1>2 DEF Last
    <3>2. Wider(edge.mesh, mesh) /\ InfoTyped(edge.info, edge.mesh) BY <3>1, <1>1, <1>2, AddEdgeTyped
    <3> QED BY <2>2, <3>2
  <2> QED BY <2>1, <2>2
<1> HIDE DEF added
<1>4. mesh' = added.mesh /\ info' = [added.info EXCEPT !.corners = Append(@, v)] BY <1>1 DEF PutCorner
<1>5. InfoTyped(info', mesh') BY <1>3, <1>4, CornerTyped
<1>6. Arrays(mesh') /\ D(mesh) \subseteq D(mesh') BY <1>3, <1>4 DEF Wider
<1>7. Flags' BY <1>1 DEF TypeInv, Flags
<1>8. boundaryHalfedges' \in Seq(D(mesh')) BY <1>1, <1>6, StillListed
<1> QED BY <1>1, <1>5, <1>6, <1>7, <1>8, TypeStep DEF TypeInv

\* end_face.
LEMMA TypeEnd ==
  ASSUME TypeInv, EndFace
  PROVE  TypeInv'
<1> DEFINE edge == AddEdge(Last(info.corners), info.corners[1])
           closed == CloseFace(edge)
<1>1. /\ info.face # INVALID /\ HalfedgeCount(mesh) + 2 <= MaxHalfedges /\ PutFace(closed, edge.info) /\ input' = input
      /\ info.corners \in input
      /\ isTriangleMesh' = (isTriangleMesh /\ Len(info.corners) = 3) /\ boundaryHalfedges' = boundaryHalfedges
      /\ isBoundaryInfoCached' = isBoundaryInfoCached
  BY DEF EndFace, FinishFace, boundaryVars
<1>2. Arrays(mesh) /\ InfoTyped(info, mesh) /\ info.corners \in Seq(Vertices) BY <1>1 DEF TypeInv, InfoTyped
<1>3. Len(info.corners) > 2 BY <1>1, DcelAssumption DEF TypeInv
<1>4. Last(info.corners) \in Vertices /\ info.corners[1] \in Vertices BY <1>2, <1>3 DEF Last
<1>5. Wider(edge.mesh, mesh) /\ InfoTyped(edge.info, edge.mesh) /\ (edge.mesh.fault = "none" => edge.info.first \in D(edge.mesh))
  BY <1>1, <1>2, <1>4, AddEdgeTyped
<1> HIDE DEF edge
<1>6. Like(closed, edge.mesh) BY <1>5, CloseLike DEF Wider
<1> HIDE DEF closed
<1>7. mesh' = closed /\ isAddingFace' = (closed.fault # "none") /\ info' = IF closed.fault = "none" THEN FaceInfo(INVALID) ELSE edge.info
  BY <1>1 DEF PutFace
<1>8. Wider(closed, mesh) BY <1>5, <1>6, WiderThenLike
<1>9. InfoTyped(info', mesh')
  <2>1. InfoTyped(edge.info, closed)
    <3>1. Wider(closed, edge.mesh) BY <1>6 DEF Like, Wider
    <3> QED BY <3>1, <1>5, InfoWider
  <2>2. InfoTyped(FaceInfo(INVALID), closed) BY FaceInfoTyped
  <2> QED BY <1>7, <2>1, <2>2
<1>10. Arrays(mesh') /\ D(mesh) \subseteq D(mesh') BY <1>7, <1>8 DEF Wider
<1>11. Flags' BY <1>1, <1>7 DEF TypeInv, Flags
<1>12. boundaryHalfedges' \in Seq(D(mesh')) BY <1>1, <1>10, StillListed
<1> QED BY <1>1, <1>9, <1>10, <1>11, <1>12, TypeStep DEF TypeInv

\* cache_boundary_info.
LEMMA TypeCache ==
  ASSUME TypeInv, NEW force \in BOOLEAN, CacheBoundaryInfo(force)
  PROVE  TypeInv'
<1> DEFINE face == NumberBoundaries(mesh).face
<1>1. /\ Arrays(mesh) /\ mesh' = [mesh EXCEPT !.face = face]
      /\ boundaryHalfedges' = NumberBoundaries(mesh).first /\ isBoundaryInfoCached' \in BOOLEAN
      /\ input' = input /\ info' = info /\ isAddingFace' = isAddingFace /\ isTriangleMesh' = isTriangleMesh
  BY DEF CacheBoundaryInfo, Ready, TypeInv, flagVars
<1>2. face \in [D(mesh) -> Nat] /\ (\A h \in D(mesh) : FaceValue(mesh, face[h])) /\ boundaryHalfedges' \in Seq(D(mesh))
  BY <1>1, NumbersTyped
<1> HIDE DEF face
<1>3. DOMAIN mesh = {"next", "vertex", "face", "vertexHalfedge", "faceHalfedge", "fault"} BY <1>1, ArrayTypes
<1>4. /\ DOMAIN mesh' = DOMAIN mesh /\ mesh'.face = face /\ mesh'.next = mesh.next /\ mesh'.vertex = mesh.vertex
      /\ mesh'.vertexHalfedge = mesh.vertexHalfedge /\ mesh'.faceHalfedge = mesh.faceHalfedge /\ mesh'.fault = mesh.fault
  BY <1>1, <1>3
<1>5. Like(mesh', mesh)
  <2>1. /\ mesh.next \in [D(mesh) -> D(mesh)] /\ mesh.vertex \in [D(mesh) -> Vertices \cup {INVALID}]
        /\ mesh.vertexHalfedge \in [Vertices -> Refs(mesh)] /\ mesh.faceHalfedge \in [DOMAIN mesh.faceHalfedge -> Refs(mesh)]
        /\ mesh.fault \in {"none", "throw", "crash"}
    BY <1>1, ArrayTypes
  <2>2. mesh'.next \in [D(mesh) -> D(mesh)] /\ mesh'.vertex \in [D(mesh) -> Vertices \cup {INVALID}] BY <2>1, <1>4
  <2>3. mesh'.face \in [D(mesh) -> Nat] /\ \A h \in D(mesh) : FaceValue(mesh, mesh'.face[h]) BY <1>2, <1>4
  <2>4. mesh'.vertexHalfedge \in [Vertices -> Refs(mesh)] /\ mesh'.faceHalfedge \in [DOMAIN mesh.faceHalfedge -> Refs(mesh)] BY <2>1, <1>4
  <2>5. mesh'.fault \in {"none", "throw", "crash"} BY <2>1, <1>4
  <2> QED BY <2>2, <2>3, <2>4, <2>5, <1>1, <1>4, LikeIf
<1>6. Wider(mesh', mesh) /\ D(mesh') = D(mesh) BY <1>5 DEF Like, Wider
<1>7. InfoTyped(info', mesh') BY <1>1, <1>6, InfoWider DEF TypeInv
<1>8. Flags' BY <1>1 DEF TypeInv, Flags
<1> QED BY <1>1, <1>2, <1>6, <1>7, <1>8, TypeStep DEF TypeInv, Wider

\* initialize and clear.
LEMMA TypeEmpty ==
  ASSUME TypeInv, Initialize \/ Clear
  PROVE  TypeInv'
<1>1. info' = FaceInfo(INVALID) /\ boundaryHalfedges' = <<>> BY DEF Initialize, Clear
<1>2. InfoTyped(info', mesh') BY <1>1, FaceInfoTyped
<1>3. input' \in Meshes /\ Flags' BY DEF Initialize, Clear, TypeInv, Flags, flagVars
<1>4. boundaryHalfedges' \in Seq(D(mesh')) BY <1>1
<1>5. CASE Initialize
  <2>1. PICK n \in FaceCounts : mesh' = EmptyMesh(n) BY <1>5 DEF Initialize
  <2>2. Arrays(mesh') BY <2>1, EmptyTyped, DcelAssumption
  <2> QED BY <2>2, <1>2, <1>3, <1>4, TypeStep
<1>6. CASE Clear
  <2>1. mesh' = Cleared /\ isAddingFace' = FALSE /\ info'.face = INVALID BY <1>1, <1>6, InfoShape DEF Clear, Cleared
  <2>2. CASE Vertices = {}
    <3>1. mesh' = EmptyMesh(0) BY <2>1, <2>2 DEF Cleared, EmptyMesh
    <3>2. Arrays(mesh')
      <4>1. 0 \in 0..MaxFaces BY DcelAssumption
      <4> QED BY <3>1, <4>1, EmptyTyped
    <3> QED BY <3>2, <1>2, <1>3, <1>4, TypeStep
  <2>3. CASE Vertices # {}
    <3>1. DOMAIN mesh'.vertexHalfedge # Vertices BY <2>1, <2>3, ClearedTyped
    <3> QED BY <3>1, <2>1, <1>2, <1>3, <1>4 DEF TypeInv
  <2> QED BY <2>2, <2>3
<1> QED BY <1>5, <1>6

\* Every step keeps the types.
LEMMA TypeNext == TypeInv /\ [Next]_dcelVars => TypeInv'
<1> SUFFICES ASSUME TypeInv, [Next]_dcelVars PROVE TypeInv' OBVIOUS
<1>1. CASE UNCHANGED dcelVars BY <1>1 DEF TypeInv, dcelVars, Flags
<1>2. CASE Next
  <2>1. ASSUME NEW f \in DOMAIN mesh.faceHalfedge, BeginFace(f) PROVE TypeInv' BY <2>1, TypeBegin
  <2>2. CASE BeginNewFace BY <2>2, TypeBeginNew
  <2>3. CASE BeginFaceRefused
    <3>1. Arrays(mesh) /\ mesh' = Fault(mesh, "throw") BY <2>3 DEF BeginFaceRefused, TypeInv
    <3>2. Like(mesh', mesh) BY <3>1, FaultLike
    <3> QED BY <2>3, <3>2, TypeEdit DEF BeginFaceRefused
  <2>4. ASSUME NEW v \in Vertices, AddFaceVertex(v) PROVE TypeInv' BY <2>4, TypeVertex
  <2>5. CASE EndFace BY <2>5, TypeEnd
  <2>6. ASSUME NEW h \in DOMAIN mesh.next, Collapse(h) \/ Flip(h) PROVE TypeInv'
    <3>1. Arrays(mesh) BY <2>6 DEF Collapse, Flip, Ready, TypeInv
    <3>2. h \in D(mesh) BY <2>6 DEF D
    <3>3. Like(mesh', mesh) BY <2>6, <3>1, <3>2, CollapseLike, FlipLike DEF Collapse, Flip
    <3> QED BY <2>6, <3>3, TypeEdit DEF Collapse, Flip
  <2>7. ASSUME NEW force \in BOOLEAN, CacheBoundaryInfo(force) PROVE TypeInv' BY <2>7, TypeCache
  <2>8. CASE Initialize \/ Clear BY <2>8, TypeEmpty
  <2> QED BY <1>2, <2>1, <2>2, <2>3, <2>4, <2>5, <2>6, <2>7, <2>8 DEF Next, Step
<1> QED BY <1>1, <1>2

\* The invariant says what TypeOK says.
LEMMA TypeInvTypes == TypeInv => TypeOK
<1> SUFFICES ASSUME TypeInv PROVE TypeOK OBVIOUS
<1> DEFINE H == D(mesh)
           Ref(set) == set \cup {INVALID}
<1>1. /\ H = 0..(Cardinality(H) - 1) /\ Cardinality(H) <= MaxHalfedges
      /\ mesh.next \in [H -> H]
      /\ mesh.vertex \in [H -> Ref(Vertices)]
      /\ DOMAIN mesh.face = H
      /\ \A h \in H : mesh.face[h] \in Ref(DOMAIN mesh.faceHalfedge) \/ OnBoundary(mesh, h)
      /\ mesh.vertexHalfedge \in [Vertices -> Ref(H)] \cup [{} -> {}]
      /\ \E n \in 0..MaxFaces : mesh.faceHalfedge \in [0..(n - 1) -> Ref(H)]
      /\ mesh.fault \in {"none", "throw", "crash"}
  <2>1. CASE DOMAIN mesh.vertexHalfedge = Vertices
    <3>1. Arrays(mesh) BY <2>1 DEF TypeInv
    <3>2. PICK k \in Nat : HalfedgeCount(mesh) = 2 * k /\ 2 * k <= MaxHalfedges /\ D(mesh) = 0..(2 * k - 1) BY <3>1, PairsCounted
    <3>3. Cardinality(H) = 2 * k BY <3>2 DEF HalfedgeCount, D
    <3>4. \A h \in H : mesh.face[h] \in DOMAIN mesh.faceHalfedge \/ OnBoundary(mesh, h) BY <3>1, FaceCounted
    <3>5. /\ mesh.next \in [H -> H] /\ mesh.vertex \in [H -> Ref(Vertices)] /\ DOMAIN mesh.face = H
          /\ mesh.vertexHalfedge \in [Vertices -> Ref(H)] /\ mesh.fault \in {"none", "throw", "crash"}
      BY <3>1, ArrayTypes DEF Refs
    <3>6. \E n \in 0..MaxFaces : mesh.faceHalfedge \in [0..(n - 1) -> Ref(H)] BY <3>1 DEF Arrays, Refs
    <3>7. H = 0..(Cardinality(H) - 1) /\ Cardinality(H) <= MaxHalfedges BY <3>2, <3>3
    <3> HIDE DEF H
    <3> QED BY <3>4, <3>5, <3>6, <3>7
  <2>2. CASE DOMAIN mesh.vertexHalfedge # Vertices
    <3>1. mesh = Cleared BY <2>2 DEF TypeInv
    <3>2. /\ mesh.next = [h \in {} |-> INVALID] /\ mesh.vertex = [h \in {} |-> INVALID] /\ mesh.face = [h \in {} |-> INVALID]
          /\ mesh.vertexHalfedge = [v \in {} |-> INVALID] /\ mesh.faceHalfedge = [f \in 0..(0 - 1) |-> INVALID] /\ mesh.fault = "none"
      BY <3>1, ClearedTyped
    <3>3. H = {} /\ Cardinality(H) = 0 BY <3>2, FS_EmptySet DEF D
    <3>4. MaxHalfedges \in Nat /\ 0 \in 0..MaxFaces BY DcelAssumption
    <3>5. H = 0..(Cardinality(H) - 1) /\ Cardinality(H) <= MaxHalfedges BY <3>3, <3>4
    <3>6. mesh.faceHalfedge \in [0..(0 - 1) -> Ref(H)] BY <3>2
    <3>7. mesh.vertexHalfedge \in [{} -> {}] BY <3>2
    <3>8. mesh.next \in [H -> H] /\ mesh.vertex \in [H -> Ref(Vertices)] /\ DOMAIN mesh.face = H BY <3>2, <3>3
    <3>9. \A h \in H : mesh.face[h] \in Ref(DOMAIN mesh.faceHalfedge) \/ OnBoundary(mesh, h) BY <3>3
    <3>10. mesh.fault \in {"none", "throw", "crash"} BY <3>2
    <3>11. \E n \in 0..MaxFaces : mesh.faceHalfedge \in [0..(n - 1) -> Ref(H)] BY <3>4, <3>6
    <3> HIDE DEF H
    <3> QED BY <3>5, <3>7, <3>8, <3>9, <3>10, <3>11
  <2> QED BY <2>1, <2>2
<1>2. info.face \in Ref(DOMAIN mesh.faceHalfedge) /\ {info.first, info.previous, info.expectedNext} \subseteq Ref(H)
  BY DEF TypeInv, InfoTyped, Refs
<1>3. {isAddingFace, isTriangleMesh, isBoundaryInfoCached, info.firstExisted} \subseteq BOOLEAN
  BY DEF TypeInv, InfoTyped, Flags
<1>4. boundaryHalfedges \in Seq(H) BY DEF TypeInv
<1>5. H = DOMAIN mesh.next BY DEF D
<1> HIDE DEF H
<1> QED BY <1>1, <1>2, <1>3, <1>4, <1>5 DEF TypeOK

\* Whatever is added, collapsed, flipped or numbered, and wherever an operation ends in an exception:
\* references are half-edges that exist or INVALID, and a half-edge that is not of a hole has a
\* face of the mesh, so that no array is read or written beyond its end.
THEOREM TypeCorrect == Spec => []TypeOK
<1>1. Init => TypeInv BY TypeInit
<1>2. TypeInv /\ [Next]_dcelVars => TypeInv' BY TypeNext
<1> QED BY <1>1, <1>2, TypeInvTypes, PTL DEF Spec

\* While faces are only added, m_vertexHalfedges and m_faceHalfedges refer to half-edges of their vertex
\* or face or to nothing if it has none, the half-edges of a face are the one cycle that
\* dcel_face_cycle_range walks, and it has three of them if is_triangle_mesh is true.
THEOREM FacesKeepReferences == Spec => [](~edited => Consistent)
<1>1. Init => Built /\ TypeInv BY BuiltInit, TypeInit
<1>2. (Built /\ TypeInv) /\ [Next]_dcelVars => (Built /\ TypeInv)' BY BuiltNext, TypeNext
<1>3. Built /\ TypeInv => (~edited => Consistent) BY BuiltReferences, TypeInvTypes DEF Consistent
<1> QED BY <1>1, <1>2, <1>3, PTL DEF Spec
=============================================================================
