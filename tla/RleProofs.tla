------------------------------ MODULE RleProofs ------------------------------
(***************************************************************************)
(* Every index spec that the builders of rle_index_spec make passes         *)
(* check_consistency, every lookup in it finds the run that holds the voxel, *)
(* and the distances, channels and cached adjacency of a level set belong to *)
(* the index spec that it has at that moment, whatever calls are made.      *)
(*                                                                          *)
(* Consistent alone is no invariant of the calls one by one: what a builder *)
(* makes of a scanline depends on how its runs ascend and alternate, and    *)
(* what the parts of a level set have in common is their index spec.  The   *)
(* inductive invariant IInv says so: the index spec of every level set is   *)
(* sound (IsIndex: check_consistency without its early return for an empty  *)
(* box, and with a region code that the set operations know), and its other *)
(* parts have as many values as it has voxels with data.                    *)
(*                                                                          *)
(* The argument has three layers.  A scanline: it fits its box if its runs  *)
(* grow and no run with data follows another (Fits), and then bisecting,    *)
(* scanning and walking find the same run.  An index spec: scanlines that   *)
(* fit, numbered on from each other, make a sound one (SoundFromLines), so  *)
(* that of each builder only its line is left to prove: cut where it is     *)
(* trimmed, joined where neighbours are equal (CoalescedIs), dilated gap by *)
(* gap between two runs with data (PassGapsIs).  A level set: the calls put *)
(* the results of the builders together (IsLevelSet).                       *)
(***************************************************************************)
EXTENDS RleLevelSet, FiniteSetTheorems, WellFoundedInduction, TLAPS

USE DEF Listed, Final, Runs, IsDefined

(* Numbers and sets of them. *)

\* The least element of a set of natural numbers.
LEMMA LeastNat ==
  ASSUME NEW T, T \subseteq Nat, T # {} PROVE \E x \in T : \A y \in T : x <= y
<1>1. PICK x \in T : \A y \in T : ~ (<<y, x>> \in OpToRel(<, Nat))
  BY NatLessThanWellFounded, WFMin
<1>2. \A y \in T : ~ (y < x)
  BY <1>1 DEF OpToRel
<1> QED BY <1>2

\* Induction, for a set.
LEMMA InductionOnSet ==
  ASSUME NEW T, 0 \in T, \A n \in Nat : n \in T => n + 1 \in T
  PROVE Nat \subseteq T
<1>1. SUFFICES ASSUME Nat \ T # {} PROVE FALSE
  OBVIOUS
<1>2. PICK m \in Nat \ T : \A y \in Nat \ T : m <= y
  BY <1>1, LeastNat
<1>3. m # 0 /\ m - 1 \in Nat /\ m - 1 \in T
  BY <1>2
<1> QED BY <1>2, <1>3

\* A function that is built up from a value at a with one step for each number up to b exists.
Closed(step, X, a, b) == \A k \in (a + 1)..b : \A x \in X : step[<<k, x>>] \in X

\* w is such a function.
BuiltUp(w, X, base, a, b, step) ==
  w \in [a..b -> X] /\ w[a] = base /\ \A k \in (a + 1)..b : w[k] = step[<<k, w[k - 1]>>]

\* Such a function exists: by induction over the numbers up to which one exists.
LEMMA StepsExist ==
  ASSUME NEW X, NEW base \in X, NEW a \in Int, NEW b \in Int, a <= b, NEW step, Closed(step, X, a, b)
  PROVE \E w : BuiltUp(w, X, base, a, b, step)
<1> USE DEF Closed, BuiltUp
<1> DEFINE Eq(w, n) == w = [k \in a..(a + n) |-> IF k = a THEN base ELSE step[<<k, w[k - 1]>>]]
           Good == {n \in Nat : a + n <= b => \E w \in [a..(a + n) -> X] : Eq(w, n)}
<1>1. 0 \in Good
  <2> DEFINE w == [k \in a..(a + 0) |-> base]
  <2>1. w \in [a..(a + 0) -> X] OBVIOUS
  <2>2. Eq(w, 0) OBVIOUS
  <2> QED BY <2>1, <2>2
<1>2. ASSUME NEW n \in Nat, n \in Good PROVE n + 1 \in Good
  <2>1. SUFFICES ASSUME a + (n + 1) <= b PROVE \E w \in [a..(a + (n + 1)) -> X] : Eq(w, n + 1)
    OBVIOUS
  <2>2. PICK v \in [a..(a + n) -> X] : Eq(v, n) BY <1>2, <2>1
  <2> DEFINE w == [k \in a..(a + (n + 1)) |-> IF k = a THEN base ELSE step[<<k, v[k - 1]>>]]
  <2>3. \A k \in a..(a + n) : w[k] = v[k] BY <2>2
  <2>4. \A k \in a..(a + (n + 1)) : k # a => k - 1 \in a..(a + n) OBVIOUS
  <2>5. \A k \in a..(a + (n + 1)) : w[k] \in X BY <2>1, <2>4
  <2>6. w \in [a..(a + (n + 1)) -> X] BY <2>5
  <2>7. \A k \in a..(a + (n + 1)) : k # a => w[k - 1] = v[k - 1] BY <2>3, <2>4
  <2> DEFINE again == [k \in a..(a + (n + 1)) |-> IF k = a THEN base ELSE step[<<k, w[k - 1]>>]]
  <2>8. \A k \in a..(a + (n + 1)) : w[k] = again[k] BY <2>7
  <2>9. w = again BY <2>8
  <2>10. Eq(w, n + 1) BY <2>9
  <2> HIDE DEF Eq, w
  <2> QED BY <2>6, <2>10
<1>3. b - a \in Nat /\ a + (b - a) = b OBVIOUS
<1>4. b - a \in Good
  <2> HIDE DEF Good
  <2> QED BY <1>1, <1>2, <1>3, InductionOnSet
<1>5. PICK w \in [a..b -> X] : w = [k \in a..b |-> IF k = a THEN base ELSE step[<<k, w[k - 1]>>]] BY <1>3, <1>4
<1>6. \A k \in (a + 1)..b : k \in a..b /\ k # a OBVIOUS
<1>7. w[a] = base /\ \A k \in (a + 1)..b : w[k] = step[<<k, w[k - 1]>>] BY <1>5, <1>6
<1> QED BY <1>7

\* Induction from a number to a larger one.
LEMMA InductionFrom ==
  ASSUME NEW a \in Int, NEW b \in Int, NEW T, a \in T, \A k \in a..(b - 1) : k \in T => k + 1 \in T
  PROVE \A k \in a..b : k \in T
<1> DEFINE Good == {n \in Nat : a + n <= b => a + n \in T}
<1>1. 0 \in Good OBVIOUS
<1>2. ASSUME NEW n \in Nat, n \in Good PROVE n + 1 \in Good
  <2>1. SUFFICES ASSUME a + (n + 1) <= b PROVE a + (n + 1) \in T OBVIOUS
  <2>2. a + n \in T /\ a + n \in a..(b - 1) BY <1>2, <2>1
  <2>3. (a + n) + 1 \in T BY <2>2
  <2> QED BY <2>3
<1>3. \A n \in Nat : n \in Good
  <2> HIDE DEF Good
  <2> QED BY <1>1, <1>2, InductionOnSet
<1>4. ASSUME NEW k \in a..b PROVE k \in T
  <2>1. k - a \in Good /\ a + (k - a) = k BY <1>3
  <2> QED BY <2>1
<1> QED BY <1>4

\* A bounded set of integers has a greatest element, and a least.
LEMMA GreatestIn ==
  ASSUME NEW a \in Int, NEW b \in Int, NEW S \in SUBSET (a..b), S # {}
  PROVE \E m \in S : \A x \in S : x <= m
<1> DEFINE T == {b - x : x \in S}
<1>0. \A x \in S : b - x \in Nat OBVIOUS
<1>1. T \subseteq Nat /\ T # {} BY <1>0
<1>2. PICK t \in T : \A y \in T : t <= y BY <1>1, LeastNat
<1>3. PICK m \in S : t = b - m BY <1>2
<1>4. \A x \in S : b - x \in T OBVIOUS
<1>5. \A x \in S : b - m <= b - x BY <1>2, <1>3, <1>4
<1> HIDE DEF T
<1>6. \A x \in S : x <= m BY <1>5
<1> QED BY <1>6

\* A set of numbers between a and b has a least element.
LEMMA LeastIn ==
  ASSUME NEW a \in Int, NEW b \in Int, NEW S \in SUBSET (a..b), S # {}
  PROVE \E m \in S : \A x \in S : m <= x
<1> DEFINE T == {x - a : x \in S}
<1>0. \A x \in S : x - a \in Nat OBVIOUS
<1>1. T \subseteq Nat /\ T # {} BY <1>0
<1>2. PICK t \in T : \A y \in T : t <= y BY <1>1, LeastNat
<1>3. PICK m \in S : t = m - a BY <1>2
<1>4. \A x \in S : x - a \in T OBVIOUS
<1>5. \A x \in S : m - a <= x - a BY <1>2, <1>3, <1>4
<1> HIDE DEF T
<1>6. \A x \in S : m <= x BY <1>5
<1> QED BY <1>6

\* Min of the community modules is that element.
LEMMA MinIs == ASSUME NEW a \in Int, NEW b \in Int, NEW S \in SUBSET (a..b), S # {}
               PROVE  Min(S) \in S /\ \A x \in S : Min(S) <= x
  BY Zenon, LeastIn DEF Min

\* And Max the greatest.
LEMMA MaxIs == ASSUME NEW a \in Int, NEW b \in Int, NEW S \in SUBSET (a..b), S # {}
               PROVE  Max(S) \in S /\ \A x \in S : x <= Max(S)
<1>1. \E m \in S : \A x \in S : m >= x
  <2>1. PICK m \in S : \A x \in S : x <= m BY GreatestIn
  <2>2. \A x \in S : m >= x BY <2>1
  <2> QED BY <2>2
<1>2. Max(S) \in S /\ \A x \in S : Max(S) >= x BY Zenon, <1>1 DEF Max
<1> QED BY <1>2

\* s lists S in ascending order.
IsAscending(s) == \A i, j \in 1..Len(s) : i < j => s[i] < s[j]

\* s lists the elements of S in ascending order.
Lists(s, S) == s \in Seq(Int) /\ IsAscending(s) /\ (\A i \in 1..Len(s) : s[i] \in S) /\ \A x \in S : \E i \in 1..Len(s) : s[i] = x

\* upTo is the recursive function that Ascending( S ) is taken from.
Collects(upTo, S, a, b) ==
  upTo = [i \in (a - 1)..b |-> IF i < a THEN <<>> ELSE IF i \in S THEN Append(upTo[i - 1], i) ELSE upTo[i - 1]]

\* The recursive function of AscendingFrom exists.
LEMMA CollectsExist ==
  ASSUME NEW S, NEW a \in Int, NEW b \in Int, a <= b PROVE \E upTo : Collects(upTo, S, a, b)
<1> DEFINE X == Seq(Int)
           step == [p \in (a..b) \X X |-> IF p[1] \in S THEN Append(p[2], p[1]) ELSE p[2]]
<1>1. \A k \in ((a - 1) + 1)..b : \A x \in X : step[<<k, x>>] = (IF k \in S THEN Append(x, k) ELSE x)
  OBVIOUS
<1>2. \A k \in ((a - 1) + 1)..b : \A x \in X : step[<<k, x>>] \in X
  <2>1. SUFFICES ASSUME NEW k \in ((a - 1) + 1)..b, NEW x \in X PROVE step[<<k, x>>] \in X OBVIOUS
  <2>2. step[<<k, x>>] = (IF k \in S THEN Append(x, k) ELSE x) BY <1>1
  <2>3. Append(x, k) \in X OBVIOUS
  <2> HIDE DEF step, X
  <2> QED BY <2>2, <2>3
<1> HIDE DEF step, X
<1>3. <<>> \in X BY DEF X
<1>4. PICK w \in [(a - 1)..b -> X] : w[a - 1] = <<>> /\ \A k \in ((a - 1) + 1)..b : w[k] = step[<<k, w[k - 1]>>]
  <2>1. Closed(step, X, a - 1, b) BY <1>2 DEF Closed
  <2>2. a - 1 \in Int /\ a - 1 <= b OBVIOUS
  <2>3. PICK w : BuiltUp(w, X, <<>>, a - 1, b, step) BY <1>3, <2>1, <2>2, StepsExist
  <2> QED BY <2>3 DEF BuiltUp
<1> DEFINE again == [i \in (a - 1)..b |-> IF i < a THEN <<>> ELSE IF i \in S THEN Append(w[i - 1], i) ELSE w[i - 1]]
<1>5. \A k \in (a - 1)..b : k # a - 1 => w[k] = (IF k \in S THEN Append(w[k - 1], k) ELSE w[k - 1])
  <2>1. SUFFICES ASSUME NEW k \in (a - 1)..b, k # a - 1 PROVE w[k] = (IF k \in S THEN Append(w[k - 1], k) ELSE w[k - 1])
    OBVIOUS
  <2>2. k \in ((a - 1) + 1)..b /\ k - 1 \in (a - 1)..b BY <2>1
  <2>3. w[k - 1] \in X BY <2>2
  <2>4. w[k] = step[<<k, w[k - 1]>>] BY <1>4, <2>2
  <2> QED BY <1>1, <2>2, <2>3, <2>4
<1>6. \A k \in (a - 1)..b : w[k] = again[k]
  <2>1. SUFFICES ASSUME NEW k \in (a - 1)..b PROVE w[k] = again[k] OBVIOUS
  <2>2. CASE k = a - 1
    <3>1. w[k] = <<>> BY <1>4, <2>2
    <3> QED BY <3>1, <2>2
  <2>3. CASE k # a - 1
    <3>1. w[k] = (IF k \in S THEN Append(w[k - 1], k) ELSE w[k - 1]) BY <1>5, <2>3
    <3>2. ~(k < a) BY <2>3
    <3> QED BY <3>1, <3>2
  <2> QED BY <2>2, <2>3
<1>7. w = again BY <1>6
<1> QED BY <1>7 DEF Collects

\* A list in ascending order and one larger element.
LEMMA ListsMore ==
  ASSUME NEW s, NEW S, Lists(s, S), NEW x \in Int, \A y \in S : y < x
  PROVE Lists(Append(s, x), S \cup {x})
<1>1. s \in Seq(Int) BY DEF Lists
<1>2. PICK n \in Nat : n = Len(s) BY <1>1
<1>3. PICK t : t = Append(s, x) OBVIOUS
<1>4. t \in Seq(Int) /\ Len(t) = n + 1 /\ t[n + 1] = x /\ \A i \in 1..n : t[i] = s[i] BY <1>1, <1>2, <1>3
<1>5. \A i \in 1..n : s[i] \in S /\ s[i] < x /\ s[i] \in Int BY <1>1, <1>2 DEF Lists
<1>6. IsAscending(t)
  <2>1. SUFFICES ASSUME NEW i \in 1..(n + 1), NEW j \in 1..(n + 1), i < j PROVE t[i] < t[j]
    BY <1>4 DEF IsAscending
  <2>2. i \in 1..n BY <2>1
  <2>3. CASE j = n + 1 BY <1>4, <1>5, <2>2, <2>3
  <2>4. CASE j \in 1..n
    <3>1. s[i] < s[j] BY <2>1, <2>2, <2>4, <1>2 DEF Lists, IsAscending
    <3> QED BY <3>1, <2>2, <2>4, <1>4
  <2> QED BY <2>3, <2>4
<1>7. \A i \in 1..(n + 1) : t[i] \in S \cup {x}
  <2>1. SUFFICES ASSUME NEW i \in 1..(n + 1) PROVE t[i] \in S \cup {x} OBVIOUS
  <2>2. CASE i = n + 1 BY <1>4, <2>2
  <2>3. CASE i \in 1..n BY <1>4, <1>5, <2>3
  <2> QED BY <2>2, <2>3
<1>8. \A y \in S \cup {x} : \E i \in 1..(n + 1) : t[i] = y
  <2>1. ASSUME NEW y \in S PROVE \E i \in 1..(n + 1) : t[i] = y
    <3>1. PICK i \in 1..n : s[i] = y BY <1>2 DEF Lists
    <3>2. i \in 1..(n + 1) /\ t[i] = y BY <3>1, <1>4
    <3> QED BY <3>2
  <2>2. n + 1 \in 1..(n + 1) OBVIOUS
  <2> QED BY <2>1, <2>2, <1>4
<1> QED BY <1>3, <1>4, <1>6, <1>7, <1>8 DEF Lists

\* The empty sequence lists the empty set.
LEMMA EmptyLists == Lists(<<>>, {})
  BY DEF Lists, IsAscending

\* The elements up to a number.
UpTo(S, i) == {x \in S : x <= i}

\* One number more: the part of S up to i + 1 has i + 1 more, or is the same.
LEMMA UpToSteps ==
  ASSUME NEW S, S \subseteq Int, NEW i \in Int
  PROVE  /\ UpTo(S, i + 1) = IF i + 1 \in S THEN UpTo(S, i) \cup {i + 1} ELSE UpTo(S, i)
         /\ \A y \in UpTo(S, i) : y < i + 1
         /\ (\A x \in S : i < x) => UpTo(S, i) = {}
         /\ (\A x \in S : x <= i) => UpTo(S, i) = S
<1>1. \A x \in S : x \in Int OBVIOUS
<1>2. \A x : x \in UpTo(S, i) <=> x \in S /\ x <= i BY DEF UpTo
<1>3. \A x : x \in UpTo(S, i + 1) <=> x \in S /\ x <= i + 1 BY DEF UpTo
<1>4. \A x \in S : x <= i + 1 <=> x <= i \/ x = i + 1 BY <1>1
<1>5. UpTo(S, i + 1) = IF i + 1 \in S THEN UpTo(S, i) \cup {i + 1} ELSE UpTo(S, i)
  <2>1. CASE i + 1 \in S BY <1>2, <1>3, <1>4, <2>1
  <2>2. CASE i + 1 \notin S
    <3>1. \A x \in S : x # i + 1 BY <2>2
    <3> QED BY <1>2, <1>3, <1>4, <2>2, <3>1
  <2> QED BY <2>1, <2>2
<1>6. \A x \in S : x <= i <=> x < i + 1 /\ ~(i < x) BY <1>1
<1>7. \A y \in UpTo(S, i) : y < i + 1 BY <1>2, <1>6
<1>8. (\A x \in S : i < x) => UpTo(S, i) = {}
  <2>1. SUFFICES ASSUME \A x \in S : i < x, NEW x \in UpTo(S, i) PROVE FALSE OBVIOUS
  <2>2. x \in S /\ x <= i /\ i < x /\ x \in Int BY <1>1, <1>2, <2>1
  <2> QED BY <2>2
<1>9. (\A x \in S : x <= i) => UpTo(S, i) = S BY <1>2
<1> QED BY <1>5, <1>7, <1>8, <1>9

\* A list has one element for each of a range of numbers if it lists that range.
LEMMA ListsRange ==
  ASSUME NEW s, NEW n \in Nat, Lists(s, 0..(n - 1)) PROVE Len(s) = n /\ \A i \in 1..n : s[i] = i - 1
<1>1. s \in Seq(Int) /\ IsAscending(s) /\ (\A i \in 1..Len(s) : s[i] \in 0..(n - 1)) /\ \A x \in 0..(n - 1) : \E i \in 1..Len(s) : s[i] = x
  BY DEF Lists
<1>2. PICK m \in Nat : m = Len(s) BY <1>1
<1>3. \A i \in 1..m : s[i] >= i - 1
  <2> DEFINE T == {i \in 1..m : s[i] >= i - 1}
  <2>1. SUFFICES ASSUME m >= 1 PROVE \A i \in 1..m : i \in T OBVIOUS
  <2>2. 1 \in T BY <2>1, <1>1, <1>2
  <2>3. ASSUME NEW i \in 1..(m - 1), i \in T PROVE i + 1 \in T
    <3>0. i \in 1..m /\ i + 1 \in 1..m /\ i < i + 1 OBVIOUS
    <3>1. s[i] < s[i + 1] /\ s[i] \in Int /\ s[i + 1] \in Int BY <3>0, <1>1, <1>2 DEF IsAscending
    <3> QED BY <2>3, <3>0, <3>1
  <2> HIDE DEF T
  <2> QED BY <2>2, <2>3, InductionFrom
<1>4. ASSUME NEW i \in 1..m PROVE s[i] = i - 1
  <2> DEFINE T == {k \in 1..m : s[k] = k - 1}
  <2>1. 1 \in T
    <3>1. n > 0 /\ m >= 1 BY <1>1, <1>2, <1>4
    <3>2. PICK j \in 1..m : s[j] = 0 BY <3>1, <1>1, <1>2
    <3>3. s[1] >= 0 /\ s[1] \in Int BY <1>1, <1>2, <3>1
    <3>4. j # 1 => s[1] < s[j] BY <1>1, <1>2, <3>1 DEF IsAscending
    <3> QED BY <3>1, <3>2, <3>3, <3>4
  <2>2. ASSUME NEW k \in 1..(m - 1), k \in T PROVE k + 1 \in T
    <3>1. k + 1 \in 1..m /\ s[k + 1] \in 0..(n - 1) /\ s[k] = k - 1 BY <2>2, <1>1, <1>2
    <3>2. s[k + 1] >= k BY <3>1, <1>3
    <3>3. k \in 0..(n - 1) BY <3>1, <3>2
    <3>4. PICK j \in 1..m : s[j] = k BY <3>3, <1>1, <1>2
    <3>5. j > k
      <4>1. SUFFICES ASSUME j <= k PROVE FALSE OBVIOUS
      <4>2. s[j] <= s[k] /\ k \in 1..m
        <5>1. j < k => s[j] < s[k] BY <1>1, <1>2 DEF IsAscending
        <5>2. s[j] \in Int /\ s[k] \in Int BY <1>1, <1>2
        <5> QED BY <5>1, <5>2, <4>1
      <4> QED BY <4>2, <3>1, <3>4
    <3>6. j # k + 1 => s[k + 1] < s[j] BY <3>1, <3>5, <1>1, <1>2 DEF IsAscending
    <3>7. s[k + 1] = k BY <3>1, <3>2, <3>4, <3>6
    <3> QED BY <3>1, <3>7
  <2>3. \A k \in 1..m : k \in T
    <3> HIDE DEF T
    <3> QED BY <2>1, <2>2, <1>4, InductionFrom
  <2> QED BY <2>3
<1>5. m = n
  <2>1. CASE m > n
    <3>1. s[m] \in 0..(n - 1) /\ s[m] = m - 1 BY <1>1, <1>2, <1>4, <2>1
    <3> QED BY <3>1, <2>1
  <2>2. CASE m < n
    <3>1. m \in 0..(n - 1) BY <2>2
    <3>2. PICK j \in 1..m : s[j] = m BY <3>1, <1>1, <1>2
    <3>3. s[j] = j - 1 BY <1>4
    <3> QED BY <3>2, <3>3
  <2> QED BY <2>1, <2>2
<1> QED BY <1>2, <1>4, <1>5

\* Quotient and remainder.
LEMMA DivMod ==
  ASSUME NEW n \in Nat, NEW d \in Nat \ {0}
  PROVE n \div d \in Nat /\ n % d \in 0..(d - 1) /\ n = d * (n \div d) + (n % d)
  OBVIOUS

\* A multiple of d is at least d less than a greater multiple.
LEMMA ProductSmaller == ASSUME NEW d \in Nat, NEW p \in Int, NEW q \in Int, p < q PROVE d * p + d <= d * q
<1>1. PICK e \in Nat : q = p + 1 + e
  <2>1. q - p - 1 \in Nat /\ q = p + 1 + (q - p - 1) OBVIOUS
  <2> QED BY <2>1
<1>2. d * q = d * p + d + d * e /\ d * e \in Nat BY <1>1
<1>3. d * p \in Int OBVIOUS
<1> QED BY <1>2, <1>3

\* There is one way to divide with a rest.
LEMMA DivUnique ==
  ASSUME NEW d \in Nat \ {0}, NEW q \in Int, NEW r \in 0..(d - 1), NEW q2 \in Int, NEW r2 \in 0..(d - 1), d * q + r = d * q2 + r2
  PROVE q = q2 /\ r = r2
<1>1. d * q \in Int /\ d * q2 \in Int /\ d \in Nat OBVIOUS
<1>2. CASE q < q2
  <2>1. d * q + d <= d * q2 BY <1>2, ProductSmaller
  <2> QED BY <1>1, <2>1
<1>3. CASE q2 < q
  <2>1. d * q2 + d <= d * q BY <1>3, ProductSmaller
  <2> QED BY <1>1, <2>1
<1>4. CASE q = q2 BY <1>1, <1>4
<1> QED BY <1>2, <1>3, <1>4

\* The place of a scanline among the scanlines, and of a voxel on them.
LEMMA PlaceIn ==
  ASSUME NEW a \in Nat, NEW b \in Nat, NEW x \in 0..(a - 1), NEW y \in 0..(b - 1)
  PROVE x + a * y \in 0..(a * b - 1) /\ (x + a * y) \div a = y /\ (x + a * y) % a = x
<1>1. a * y + a <= a * b BY ProductSmaller
<1>2. a * y \in Nat /\ a * b \in Nat OBVIOUS
<1>3. x + a * y \in 0..(a * b - 1) BY <1>1, <1>2
<1>4. a \in Nat \ {0} /\ x + a * y \in Nat BY <1>2
<1>5. PICK n \in Nat, q \in Nat, r \in 0..(a - 1) : n = x + a * y /\ q = n \div a /\ r = n % a /\ n = a * q + r BY <1>4, DivMod
<1>6. a * y + x = a * q + r BY <1>2, <1>5
<1>7. y = q /\ x = r BY <1>4, <1>6, DivUnique
<1> QED BY <1>3, <1>5, <1>7

\* A place in a box of a columns and b rows has a column and a row.
LEMMA PlaceOf ==
  ASSUME NEW a \in Nat, NEW b \in Nat, NEW n \in 0..(a * b - 1)
  PROVE n % a \in 0..(a - 1) /\ n \div a \in 0..(b - 1) /\ n = (n % a) + a * (n \div a)
<1>1. a \in Nat \ {0}
  <2>1. CASE a = 0
    <3>1. a * b = 0 BY <2>1
    <3> QED BY <3>1
  <2> QED BY <2>1
<1>2. n \in Nat /\ a * b \in Nat OBVIOUS
<1>3. PICK q \in Nat, r \in 0..(a - 1) : q = n \div a /\ r = n % a /\ n = a * q + r BY <1>1, <1>2, DivMod
<1>4. q < b
  <2>1. CASE b <= q
    <3>1. a * b <= a * q
      <4>1. CASE b = q BY <1>2, <4>1
      <4>2. CASE b < q
        <5>1. a * b + a <= a * q BY <4>2, ProductSmaller
        <5>2. a * q \in Int OBVIOUS
        <5> QED BY <1>2, <5>1, <5>2
      <4> QED BY <2>1, <4>1, <4>2
    <3>2. a * q \in Nat OBVIOUS
    <3> QED BY <1>2, <1>3, <3>1, <3>2
  <2> QED BY <2>1
<1>5. a * q \in Nat OBVIOUS
<1> QED BY <1>3, <1>4, <1>5

\* Dividing by a product is dividing twice.
LEMMA DivDiv ==
  ASSUME NEW n \in Nat, NEW a \in Nat \ {0}, NEW b \in Nat \ {0}
  PROVE n \div (a * b) = (n \div a) \div b
<1>1. PICK q \in Nat, r \in 0..(a - 1) : q = n \div a /\ r = n % a /\ n = a * q + r BY DivMod
<1>2. PICK p \in Nat, s \in 0..(b - 1) : p = q \div b /\ s = q % b /\ q = b * p + s BY DivMod
<1>3. PICK c \in Nat \ {0} : c = a * b
  <2>1. a * b \in Nat /\ a * b # 0 OBVIOUS
  <2> QED BY <2>1
<1>4. r + a * s \in 0..(c - 1)
  <2>1. a \in Nat /\ b \in Nat OBVIOUS
  <2> QED BY <1>3, <2>1, PlaceIn
<1>5. n = c * p + (r + a * s)
  <2>1. a * q = a * (b * p) + a * s BY <1>2
  <2>2. a * (b * p) = (a * b) * p OBVIOUS
  <2>3. a * q \in Int /\ a * s \in Int /\ (a * b) * p \in Int OBVIOUS
  <2> QED BY <1>1, <1>3, <2>1, <2>2, <2>3
<1>6. PICK t \in Nat, u \in 0..(c - 1) : t = n \div c /\ u = n % c /\ n = c * t + u BY DivMod
<1>7. PICK v \in 0..(c - 1) : v = r + a * s BY <1>4
<1>8. t = p BY <1>5, <1>6, <1>7, DivUnique
<1> QED BY <1>1, <1>2, <1>3, <1>6, <1>8

\* A function that is not above d at first and is at last goes above it in one step.
LEMMA Crossing ==
  ASSUME NEW a \in Int, NEW b \in Int, a <= b, NEW f, \A k \in a..b : f[k] \in Int, NEW d \in Int, f[a] <= d, d < f[b]
  PROVE \E k \in (a + 1)..b : f[k - 1] <= d /\ d < f[k]
<1>1. SUFFICES ASSUME \A k \in (a + 1)..b : ~(f[k - 1] <= d /\ d < f[k]) PROVE FALSE OBVIOUS
<1> DEFINE T == {k \in a..b : f[k] <= d}
<1>2. a \in T OBVIOUS
<1>3. ASSUME NEW k \in a..(b - 1), k \in T PROVE k + 1 \in T
  <2>1. k + 1 \in (a + 1)..b /\ k + 1 \in a..b /\ (k + 1) - 1 = k OBVIOUS
  <2>2. ~(d < f[k + 1]) BY <1>1, <1>3, <2>1
  <2>3. f[k + 1] \in Int BY <2>1
  <2> QED BY <2>1, <2>2, <2>3
<1>4. b \in a..b OBVIOUS
<1>5. b \in T
  <2> HIDE DEF T
  <2>1. \A k \in a..b : k \in T BY <1>2, <1>3, InductionFrom
  <2> QED BY <1>4, <2>1
<1>6. f[b] <= d /\ f[b] \in Int BY <1>4, <1>5
<1> QED BY <1>6

\* Place m of a box of a columns and b rows is row y and column x.
IsAt(a, b, m, x, y) == m \in 0..(a * b - 1) /\ m \div a = y /\ m % a = x

\* The same, for the place itself.
LEMMA PlacedIn ==
  ASSUME NEW a, a \in Nat, NEW b, b \in Nat, NEW x, x \in 0..(a - 1), NEW y, y \in 0..(b - 1), NEW m, m = x + a * y
  PROVE IsAt(a, b, m, x, y)
BY PlaceIn DEF IsAt

\* A function that grows at every step grows.
LEMMA GrowsFar ==
  ASSUME NEW a \in Int, NEW b \in Int, NEW f, \A i \in a..b : f[i] \in Int, \A i \in a..(b - 1) : f[i] < f[i + 1],
         NEW i, i \in a..b, NEW j, j \in a..b, i < j
  PROVE f[i] < f[j]
<1> DEFINE T == {k \in (i + 1)..j : f[i] < f[k]}
<1>1. i + 1 \in Int /\ j \in Int OBVIOUS
<1>2. i + 1 \in T
  <2>1. i \in a..(b - 1) /\ i + 1 \in (i + 1)..j OBVIOUS
  <2> QED BY <2>1
<1>3. ASSUME NEW k \in (i + 1)..(j - 1), k \in T PROVE k + 1 \in T
  <2>1. k \in a..(b - 1) /\ k \in a..b /\ k + 1 \in a..b /\ k + 1 \in (i + 1)..j OBVIOUS
  <2>2. PICK p \in Int, q \in Int, r \in Int : p = f[i] /\ q = f[k] /\ r = f[k + 1] BY <2>1
  <2>3. p < q /\ q < r BY <1>3, <2>1, <2>2
  <2>4. p < r BY <2>3
  <2> QED BY <2>1, <2>2, <2>4
<1> HIDE DEF T
<1>4. j \in T
  <2>1. \A k \in (i + 1)..j : k \in T BY <1>1, <1>2, <1>3, InductionFrom
  <2> QED BY <2>1
<1> QED BY <1>4 DEF T

\* A neighbour in a list.
LEMMA ListedNext ==
  ASSUME NEW s, NEW S, Lists(s, S), NEW j, j \in 1..Len(s)
  PROVE  /\ s[j] \in S /\ s[j] \in Int /\ s[1] <= s[j] /\ s[j] <= s[Len(s)]
         /\ j + 1 \in 1..Len(s) => s[j] < s[j + 1] /\ \A x \in S : x <= s[j] \/ x >= s[j + 1]
<1>1. PICK n \in Nat : n = Len(s) BY DEF Lists
<1>2. (\A i \in 1..n : s[i] \in S /\ s[i] \in Int) /\ (\A x \in S : \E i \in 1..n : s[i] = x) /\ \A i, k \in 1..n : i < k => s[i] < s[k]
  BY <1>1 DEF Lists, IsAscending
<1>3. j \in 1..n /\ 1 \in 1..n /\ n \in 1..n BY <1>1
<1>4. \A i, k \in 1..n : i <= k => s[i] <= s[k]
  <2>1. SUFFICES ASSUME NEW i \in 1..n, NEW k \in 1..n, i <= k PROVE s[i] <= s[k] OBVIOUS
  <2>2. CASE i = k BY <1>2, <2>2
  <2>3. CASE i < k
    <3>1. s[i] < s[k] /\ s[i] \in Int /\ s[k] \in Int BY <1>2, <2>3
    <3> QED BY <3>1
  <2> QED BY <2>1, <2>2, <2>3
<1>5. s[1] <= s[j] /\ s[j] <= s[n] BY <1>3, <1>4
<1>6. ASSUME j + 1 \in 1..n, NEW x \in S PROVE x <= s[j] \/ x >= s[j + 1]
  <2>1. PICK i \in 1..n : s[i] = x BY <1>2
  <2>2. i <= j \/ j + 1 <= i BY <1>3
  <2>3. CASE i <= j BY <1>3, <1>4, <2>1, <2>3
  <2>4. CASE j + 1 <= i
    <3>1. s[j + 1] <= s[i] /\ s[j + 1] \in Int /\ s[i] \in Int BY <1>2, <1>4, <1>6, <2>4
    <3> QED BY <2>1, <3>1
  <2> QED BY <2>2, <2>3, <2>4
<1>7. j + 1 \in 1..n => s[j] < s[j + 1]
  <2>1. j < j + 1 BY <1>3
  <2> QED BY <1>2, <1>3, <2>1
<1> QED BY <1>1, <1>2, <1>3, <1>5, <1>6, <1>7

\* Behind an odd number comes an even one.
LEMMA Parity ==
  ASSUME NEW k \in Nat, k % 2 = 1 PROVE (k + 1) % 2 # 1
OBVIOUS

(* Flooding the voxels that are not populated with regions. *)

\* A sequence in ascending order has as many members as its set.
LEMMA ListsCount ==
  ASSUME NEW s, NEW S, Lists(s, S)
  PROVE Cardinality(S) = Len(s)
<1>1. PICK n \in Nat : n = Len(s) BY DEF Lists
<1>2. s \in Seq(Int) BY DEF Lists
<1>3. s \in [1..n -> S] BY <1>1, <1>2 DEF Lists
<1>4. \A i, j \in 1..n : s[i] = s[j] => i = j
  <2>1. SUFFICES ASSUME NEW i \in 1..n, NEW j \in 1..n, s[i] = s[j] PROVE i = j OBVIOUS
  <2>2. \A p, q \in 1..n : p < q => s[p] < s[q] BY <1>1 DEF Lists, IsAscending
  <2>3. s[i] \in Int /\ s[j] \in Int BY <1>1, <1>2
  <2>4. CASE i < j BY <2>1, <2>2, <2>3, <2>4
  <2>5. CASE j < i BY <2>1, <2>2, <2>3, <2>5
  <2> QED BY <2>4, <2>5
<1>5. \A x \in S : \E i \in 1..n : s[i] = x BY <1>1 DEF Lists
<1>6. s \in Bijection(1..n, S) BY <1>3, <1>4, <1>5 DEF Bijection, Injection, Surjection, IsInjective
<1>7. ExistsBijection(1..n, S) BY <1>6 DEF ExistsBijection
<1>8. IsFiniteSet(1..n) /\ Cardinality(1..n) = n
  <2>1. 1 \in Int /\ n \in Int OBVIOUS
  <2>2. IsFiniteSet(1..n) /\ Cardinality(1..n) = IF 1 > n THEN 0 ELSE n - 1 + 1 BY <2>1, FS_Interval
  <2> QED BY <2>2
<1>9. Cardinality(S) = n BY <1>7, <1>8, FS_Bijection
<1> QED BY <1>1, <1>9

(* Sequences of the model. *)

\* The first n values of a function on 1..n.
LEMMA ListedSame ==
  ASSUME NEW n \in Nat, NEW f, f = [i \in 1..n |-> f[i]]
  PROVE Listed(f, n) = f
<1>1. PICK S : S = {f[i] : i \in 1..n} OBVIOUS
<1>2. f \in Seq(S) /\ Len(f) = n BY <1>1
<1> QED BY <1>2

\* And AscendingFrom takes its value at b.
LEMMA AscendingFromIs ==
  ASSUME NEW S, NEW a \in Int, NEW b \in Int, a <= b
  PROVE \E upTo : Collects(upTo, S, a, b) /\ AscendingFrom(S, a, b) = upTo[b]
<1> DEFINE upTo == CHOOSE upTo : Collects(upTo, S, a, b)
<1>1. Collects(upTo, S, a, b) BY CollectsExist
<1>2. AscendingFrom(S, a, b) = upTo[b] BY Zenon DEF AscendingFrom, Collects
<1> HIDE DEF upTo
<1> QED BY <1>1, <1>2

\* Ascending lists the elements of any finite set of integers.
LEMMA AscendingIs ==
  ASSUME NEW a \in Int, NEW b \in Int, NEW S \in SUBSET (a..b)
  PROVE Lists(Ascending(S), S)
<1>1. CASE S = {}
  <2>1. Ascending(S) = <<>> BY <1>1 DEF Ascending
  <2> QED BY <1>1, <2>1, EmptyLists
<1>2. CASE S # {}
  <2>0. S \subseteq Int OBVIOUS
  <2>1. PICK lo \in Int : lo = Min(S) /\ lo \in S /\ \A x \in S : lo <= x BY <1>2, <2>0, MinIs
  <2>2. PICK hi \in Int : hi = Max(S) /\ hi \in S /\ \A x \in S : x <= hi BY <1>2, <2>0, MaxIs
  <2>3. Ascending(S) = AscendingFrom(S, lo, hi) BY <1>2, <2>1, <2>2 DEF Ascending
  <2>4. lo <= hi BY <2>1, <2>2
  <2>5. PICK upTo : Collects(upTo, S, lo, hi) /\ AscendingFrom(S, lo, hi) = upTo[hi] BY <2>4, AscendingFromIs
  <2>6. \A i \in (lo - 1)..hi : upTo[i] = IF i < lo THEN <<>> ELSE IF i \in S THEN Append(upTo[i - 1], i) ELSE upTo[i - 1]
    BY <2>5 DEF Collects
  <2> DEFINE T == {i \in (lo - 1)..hi : Lists(upTo[i], UpTo(S, i))}
  <2>7. lo - 1 \in T
    <3>0. lo - 1 \in Int /\ (\A x \in S : lo - 1 < x)
      <4>1. \A x \in S : x \in Int /\ lo <= x BY <2>0, <2>1
      <4> QED BY <4>1
    <3>1. UpTo(S, lo - 1) = {} BY <2>0, <3>0, UpToSteps
    <3>2. upTo[lo - 1] = <<>> BY <2>6, <2>4
    <3>3. lo - 1 \in (lo - 1)..hi BY <2>4
    <3> QED BY <3>1, <3>2, <3>3, EmptyLists
  <2>8. ASSUME NEW i \in (lo - 1)..(hi - 1), i \in T PROVE i + 1 \in T
    <3>1. i + 1 \in (lo - 1)..hi /\ ~(i + 1 < lo) /\ (i + 1) - 1 = i BY <2>8
    <3>2. upTo[i + 1] = (IF i + 1 \in S THEN Append(upTo[i], i + 1) ELSE upTo[i]) BY <2>6, <3>1
    <3>3. CASE i + 1 \in S
      <4>0. i \in Int OBVIOUS
      <4>1. UpTo(S, i + 1) = UpTo(S, i) \cup {i + 1} BY <4>0, <3>3, <2>0, UpToSteps
      <4>2. \A y \in UpTo(S, i) : y < i + 1 BY <4>0, <2>0, UpToSteps
      <4>3. Lists(upTo[i], UpTo(S, i)) /\ i + 1 \in Int BY <2>8
      <4>4. Lists(Append(upTo[i], i + 1), UpTo(S, i) \cup {i + 1}) BY <4>2, <4>3, ListsMore
      <4> QED BY <3>1, <3>2, <3>3, <4>1, <4>4
    <3>4. CASE i + 1 \notin S
      <4>0. i \in Int OBVIOUS
      <4>1. UpTo(S, i + 1) = UpTo(S, i) BY <4>0, <3>4, <2>0, UpToSteps
      <4> QED BY <3>1, <3>2, <3>4, <4>1, <2>8
    <3> QED BY <3>3, <3>4
  <2>9. hi \in T
    <3>1. lo - 1 \in Int /\ hi \in (lo - 1)..hi BY <2>4
    <3> HIDE DEF T
    <3>2. \A k \in (lo - 1)..hi : k \in T BY <2>7, <2>8, <3>1, InductionFrom
    <3> QED BY <3>1, <3>2
  <2>10. UpTo(S, hi) = S BY <2>0, <2>2, UpToSteps
  <2> QED BY <2>3, <2>5, <2>9, <2>10
<1> QED BY <1>1, <1>2

(* The lookup. *)

\* The types of what a scanline holds.
LEMMA LineTypes ==
  ASSUME NEW line, IsLine(line)
  PROVE  /\ Len(line) \in Nat /\ Len(line) >= 2 /\ Len(line) - 1 \in Nat
         /\ \A k \in 1..Len(line) : line[k] \in Int \X Int /\ line[k][1] \in Int /\ line[k][2] \in Int /\ line[k] = <<line[k][1], line[k][2]>>
         /\ \A k \in Runs(line) : k \in 1..Len(line) /\ k + 1 \in 1..Len(line) /\ k \in Int
<1>1. PICK X : X = Int \X Int OBVIOUS
<1>2. line \in Seq(X) /\ Len(line) >= 2 BY <1>1 DEF IsLine
<1>3. PICK n \in Nat : n = Len(line) BY <1>2
<1>4. ASSUME NEW k \in 1..n PROVE line[k] \in X BY <1>2, <1>3
<1>5. ASSUME NEW p \in X PROVE p[1] \in Int /\ p[2] \in Int /\ p = <<p[1], p[2]>> BY <1>1
<1>6. ASSUME NEW k \in 1..n PROVE line[k] \in Int \X Int /\ line[k][1] \in Int /\ line[k][2] \in Int /\ line[k] = <<line[k][1], line[k][2]>>
  BY <1>1, <1>4, <1>5
<1>7. \A k \in 1..(n - 1) : k \in 1..n /\ k + 1 \in 1..n /\ k \in Int OBVIOUS
<1>8. n >= 2 /\ n - 1 \in Nat BY <1>2, <1>3
<1> QED BY <1>3, <1>6, <1>7, <1>8

\* No run ends before it starts.
Ascends(line) == \A k \in Runs(line) : line[k][1] <= line[k + 1][1]

\* A later run of an ascending scanline does not start before an earlier one.
LEMMA AscendsFar ==
  ASSUME NEW line, IsLine(line), Ascends(line), NEW i \in 1..Len(line), NEW j \in 1..Len(line), i <= j
  PROVE line[i][1] <= line[j][1]
<1> DEFINE T == {k \in i..j : line[i][1] <= line[k][1]}
<1>0. Len(line) \in Nat /\ (\A k \in 1..Len(line) : line[k][1] \in Int) /\ i \in Int /\ j \in Int BY LineTypes
<1>1. i \in T BY <1>0
<1>2. ASSUME NEW k \in i..(j - 1), k \in T PROVE k + 1 \in T
  <2>1. k \in 1..(Len(line) - 1) /\ k \in 1..Len(line) /\ k + 1 \in 1..Len(line) BY <1>0
  <2>2. line[k][1] <= line[k + 1][1] BY <2>1 DEF Ascends
  <2>3. line[i][1] <= line[k][1] BY <1>2
  <2> QED BY <1>0, <2>1, <2>2, <2>3
<1>3. \A k \in i..j : k \in T
  <2> HIDE DEF T
  <2> QED BY <1>0, <1>1, <1>2, InductionFrom
<1> QED BY <1>0, <1>3

\* The run that the searches find: the last one, of those between two, that does not start behind x.
Between(line, x, k, low, high) ==
  k \in low..high /\ (k = low \/ line[k][1] <= x) /\ (k = high \/ x < line[k + 1][1])

\* There is a last run, among those from low to high, that starts at x or before it.
LEMMA BetweenExists ==
  ASSUME NEW line, IsLine(line), NEW x \in Int, NEW low \in Runs(line), NEW high \in Runs(line), low <= high
  PROVE \E k : Between(line, x, k, low, high)
<1> DEFINE S == {k \in low..high : k = low \/ line[k][1] <= x}
<1>0. /\ Len(line) \in Nat /\ low \in Int /\ high \in Int /\ low \in low..high
      /\ \A k \in low..high : k \in Int /\ k \in 1..Len(line) /\ k + 1 \in 1..Len(line) /\ line[k + 1][1] \in Int
  BY LineTypes
<1>1. S # {} /\ S \in SUBSET (low..high) BY <1>0
<1>2. PICK k \in S : \A j \in S : j <= k BY <1>0, <1>1, GreatestIn
<1>3. k \in low..high /\ (k = low \/ line[k][1] <= x) BY <1>2
<1>4. k = high \/ x < line[k + 1][1]
  <2>1. SUFFICES ASSUME k # high, ~(x < line[k + 1][1]) PROVE FALSE OBVIOUS
  <2>2. k + 1 \in low..high BY <1>0, <1>3, <2>1
  <2>6. line[k + 1][1] \in Int BY <1>0, <1>3
  <2>5. line[k + 1][1] <= x BY <2>1, <2>6
  <2>3. k + 1 \in S BY <2>2, <2>5
  <2>4. k + 1 <= k BY <1>2, <2>3
  <2> QED BY <1>0, <1>3, <2>4
<1> QED BY <1>3, <1>4 DEF Between

\* And no other one.
LEMMA BetweenUnique ==
  ASSUME NEW line, IsLine(line), Ascends(line), NEW x \in Int, NEW low \in Runs(line), NEW high \in Runs(line),
         NEW j, Between(line, x, j, low, high), NEW k, Between(line, x, k, low, high)
  PROVE j = k
<1> DEFINE Bad(i, m) == i < m
<1>0. /\ Len(line) \in Nat /\ low \in Int /\ high \in Int
      /\ \A i \in low..high : i \in Int /\ i \in 1..Len(line) /\ i + 1 \in 1..Len(line) /\ line[i][1] \in Int /\ line[i + 1][1] \in Int
  <2>1. Len(line) \in Nat /\ low \in 1..(Len(line) - 1) /\ high \in 1..(Len(line) - 1) BY LineTypes
  <2>2. \A i \in low..high : i \in Int /\ i \in 1..Len(line) /\ i + 1 \in 1..Len(line) BY <2>1
  <2> QED BY <2>1, <2>2, LineTypes
<1>1. ASSUME NEW i, Between(line, x, i, low, high), NEW m, Between(line, x, m, low, high), i < m PROVE FALSE
  <2>1. i \in low..high /\ m \in low..high /\ i # high /\ m # low BY <1>0, <1>1 DEF Between
  <2>2. x < line[i + 1][1] /\ line[m][1] <= x BY <1>1, <2>1 DEF Between
  <2>3. i + 1 \in 1..Len(line) /\ m \in 1..Len(line) /\ i + 1 <= m BY <1>0, <1>1, <2>1
  <2>4. line[i + 1][1] <= line[m][1] BY <2>3, AscendsFar
  <2> QED BY SMTT(20), <1>0, <2>1, <2>2, <2>4
<1>2. j \in Int /\ k \in Int BY <1>0 DEF Between
<1>3. ~(j < k) /\ ~(k < j) BY <1>1
<1> QED BY <1>2, <1>3

\* find is the recursive function that Bisect( line, x ) is taken from.
Halves(find, line, x) ==
  find = [r \in Runs(line) \X Runs(line) |->
            IF r[1] >= r[2] THEN r[1]
            ELSE IF line[Middle(r)][1] <= x THEN find[<<Middle(r), r[2]>>]
            ELSE find[<<r[1], Middle(r) - 1>>]]

\* What the bisection from low to high returns.
Hit(line, x, low, high) == IF low >= high THEN low ELSE CHOOSE k : Between(line, x, k, low, high)

\* It is that run.
LEMMA HitIs ==
  ASSUME NEW line, IsLine(line), NEW x \in Int, NEW low \in Runs(line), NEW high \in Runs(line), low <= high
  PROVE Between(line, x, Hit(line, x, low, high), low, high)
<1>1. CASE low < high
  <2>1. Hit(line, x, low, high) = CHOOSE k : Between(line, x, k, low, high) BY <1>1, LineTypes DEF Hit
  <2>2. \E k : Between(line, x, k, low, high) BY BetweenExists
  <2> QED BY Zenon, <2>1, <2>2
<1>2. CASE low = high
  <2>1. Hit(line, x, low, high) = low BY <1>2, LineTypes DEF Hit
  <2> QED BY <1>2, <2>1, LineTypes DEF Between
<1>3. low \in Int /\ high \in Int BY LineTypes
<1> QED BY <1>1, <1>2, <1>3

\* The middle of two indexes is above the lower and at most the upper.
LEMMA MiddleIs ==
  ASSUME NEW low \in Int, NEW high \in Int, low < high
  PROVE Middle(<<low, high>>) \in Int /\ low < Middle(<<low, high>>) /\ Middle(<<low, high>>) <= high
  BY DEF Middle

\* Half of the runs lead to the same one.
LEMMA HalvesStep ==
  ASSUME NEW line, IsLine(line), Ascends(line), NEW x \in Int, NEW low \in Runs(line), NEW high \in Runs(line), low < high
  PROVE  Hit(line, x, low, high) = IF line[Middle(<<low, high>>)][1] <= x THEN Hit(line, x, Middle(<<low, high>>), high)
                                   ELSE Hit(line, x, low, Middle(<<low, high>>) - 1)
<1>0. PICK m : m = Middle(<<low, high>>) OBVIOUS
<1>1. /\ low \in Int /\ high \in Int /\ m \in Int /\ low < m /\ m <= high /\ m \in Runs(line) /\ m - 1 \in Runs(line) /\ low <= m - 1
      /\ line[m][1] \in Int
  <2>1. Len(line) \in Nat /\ low \in 1..(Len(line) - 1) /\ high \in 1..(Len(line) - 1) BY LineTypes
  <2>2. low \in Int /\ high \in Int /\ m \in Int /\ low < m /\ m <= high BY <1>0, <2>1, MiddleIs
  <2>3. m \in 1..(Len(line) - 1) /\ m - 1 \in 1..(Len(line) - 1) /\ low <= m - 1 /\ m \in 1..Len(line) BY <2>1, <2>2
  <2>4. line[m][1] \in Int BY <2>3, LineTypes
  <2> QED BY <2>2, <2>3, <2>4
<1>2. Between(line, x, Hit(line, x, low, high), low, high)
  <2>1. low <= high BY <1>1
  <2> QED BY <2>1, HitIs
<1>3. CASE line[m][1] <= x
  <2>1. PICK k : k = Hit(line, x, m, high) OBVIOUS
  <2>2. Between(line, x, k, m, high) BY <1>1, <2>1, HitIs
  <2>3. Between(line, x, k, low, high) BY <1>1, <1>3, <2>2 DEF Between
  <2>4. k = Hit(line, x, low, high) BY <1>2, <2>3, BetweenUnique
  <2> QED BY <1>0, <1>3, <2>1, <2>4
<1>4. CASE ~(line[m][1] <= x)
  <2>1. PICK k : k = Hit(line, x, low, m - 1) OBVIOUS
  <2>2. Between(line, x, k, low, m - 1) BY <1>1, <2>1, HitIs
  <2>3. k = m - 1 => x < line[k + 1][1] BY <1>1, <1>4
  <2>4. Between(line, x, k, low, high) BY <1>1, <2>2, <2>3 DEF Between
  <2>5. k = Hit(line, x, low, high) BY <1>2, <2>4, BetweenUnique
  <2> QED BY <1>0, <1>4, <2>1, <2>5
<1> QED BY <1>3, <1>4

\* The recursive function of Bisect exists.
LEMMA HalvesExist == ASSUME NEW line, IsLine(line), Ascends(line), NEW x \in Int PROVE \E find : Halves(find, line, x)
<1> DEFINE f == [r \in Runs(line) \X Runs(line) |-> Hit(line, x, r[1], r[2])]
           again == [r \in Runs(line) \X Runs(line) |->
                       IF r[1] >= r[2] THEN r[1]
                       ELSE IF line[Middle(r)][1] <= x THEN f[<<Middle(r), r[2]>>]
                       ELSE f[<<r[1], Middle(r) - 1>>]]
<1>1. ASSUME NEW r \in Runs(line) \X Runs(line) PROVE f[r] = again[r]
  <2>0. PICK low \in Runs(line), high \in Runs(line) : r = <<low, high>> OBVIOUS
  <2>1. low \in Int /\ high \in Int /\ r[1] = low /\ r[2] = high BY <2>0, LineTypes
  <2>2. CASE low >= high BY <2>0, <2>1, <2>2 DEF Hit
  <2>3. CASE low < high
    <3>1. PICK m : m = Middle(r) OBVIOUS
    <3>2. m \in Runs(line) /\ m - 1 \in Runs(line) BY <2>0, <2>1, <2>3, <3>1, MiddleIs, LineTypes
    <3>3. f[r] = Hit(line, x, low, high) BY <2>1
    <3>4. f[<<m, high>>] = Hit(line, x, m, high) /\ f[<<low, m - 1>>] = Hit(line, x, low, m - 1) BY <3>2
    <3>5. Hit(line, x, low, high) = IF line[m][1] <= x THEN Hit(line, x, m, high) ELSE Hit(line, x, low, m - 1)
      BY <2>0, <2>3, <3>1, HalvesStep
    <3>6. again[r] = IF line[m][1] <= x THEN f[<<m, high>>] ELSE f[<<low, m - 1>>]
      <4> HIDE DEF f
      <4> QED BY <2>1, <2>3, <3>1
    <3> QED BY <3>3, <3>4, <3>5, <3>6
  <2> QED BY <2>1, <2>2, <2>3
<1>2. f = again BY <1>1
<1> QED BY <1>2 DEF Halves

\* The bisection finds what the definition asks for.
LEMMA BisectIs ==
  ASSUME NEW line, IsLine(line), Ascends(line), NEW x \in Int
  PROVE Bisect(line, x) = Hit(line, x, 1, Len(line) - 1)
<1> DEFINE find == CHOOSE find : Halves(find, line, x)
<1>1. Halves(find, line, x) BY HalvesExist
<1>2. Bisect(line, x) = find[<<1, Len(line) - 1>>] BY Zenon DEF Bisect, Halves, Runs
<1> HIDE DEF find
<1> DEFINE Good == {n \in Nat : \A low, high \in Runs(line) : low <= high /\ high - low <= n => find[<<low, high>>] = Hit(line, x, low, high)}
<1>3. \A low, high \in Runs(line) :
        find[<<low, high>>] = IF low >= high THEN low
                              ELSE IF line[Middle(<<low, high>>)][1] <= x THEN find[<<Middle(<<low, high>>), high>>]
                              ELSE find[<<low, Middle(<<low, high>>) - 1>>]
  BY <1>1 DEF Halves
<1>4. 0 \in Good
  <2>1. SUFFICES ASSUME NEW low \in Runs(line), NEW high \in Runs(line), low <= high, high - low <= 0
                 PROVE  find[<<low, high>>] = Hit(line, x, low, high)
    OBVIOUS
  <2>2. low >= high BY <2>1, LineTypes
  <2>3. find[<<low, high>>] = low BY <1>3, <2>2
  <2> QED BY <2>2, <2>3 DEF Hit
<1>5. ASSUME NEW n \in Nat, n \in Good PROVE n + 1 \in Good
  <2>1. SUFFICES ASSUME NEW low \in Runs(line), NEW high \in Runs(line), low <= high, high - low <= n + 1
                 PROVE  find[<<low, high>>] = Hit(line, x, low, high)
    OBVIOUS
  <2>2. low \in Int /\ high \in Int BY LineTypes
  <2>3. CASE low = high
    <3>1. low >= high BY <2>2, <2>3
    <3>2. find[<<low, high>>] = low BY <1>3, <3>1
    <3> QED BY <3>1, <3>2 DEF Hit
  <2>4. CASE low < high
    <3>1. PICK m : m = Middle(<<low, high>>) OBVIOUS
    <3>2. m \in Int /\ low < m /\ m <= high BY <2>2, <2>4, <3>1, MiddleIs
    <3>3. m \in Runs(line) /\ m - 1 \in Runs(line) BY <3>2, LineTypes
    <3>4. find[<<m, high>>] = Hit(line, x, m, high) BY SMTT(20), <1>5, <2>1, <2>2, <3>2, <3>3
    <3>5. find[<<low, m - 1>>] = Hit(line, x, low, m - 1) BY <1>5, <2>1, <2>2, <3>2, <3>3
    <3>6. find[<<low, high>>] = IF line[m][1] <= x THEN find[<<m, high>>] ELSE find[<<low, m - 1>>]
      BY <1>3, <2>2, <2>4, <3>1
    <3>7. Hit(line, x, low, high) = IF line[m][1] <= x THEN Hit(line, x, m, high) ELSE Hit(line, x, low, m - 1)
      BY <2>4, <3>1, HalvesStep
    <3> QED BY <3>4, <3>5, <3>6, <3>7
  <2> QED BY <2>1, <2>2, <2>3, <2>4
<1>6. Len(line) - 2 \in Nat /\ 1 \in Runs(line) /\ Len(line) - 1 \in Runs(line) BY LineTypes
<1>7. Len(line) - 2 \in Good
  <2> HIDE DEF Good
  <2> QED BY <1>4, <1>5, <1>6, InductionOnSet
<1> QED BY <1>2, <1>6, <1>7, LineTypes

\* BCIndexXtoRunIndex finds the last run that starts at x or before it, by scanning few runs or by bisecting many.
LEMMA RunIndexIs ==
  ASSUME NEW line, IsLine(line), Ascends(line), NEW x \in Int
  PROVE Between(line, x, RunIndex(line, x), 1, Len(line) - 1)
<1>0. Len(line) \in Nat /\ 1 \in Runs(line) /\ Len(line) - 1 \in Runs(line) /\ 1 <= Len(line) - 1 BY LineTypes
<1>1. CASE Len(line) - 2 < 4
  <2> DEFINE P(k) == (\A j \in 2..k : line[j][1] <= x) /\ (k = Len(line) - 1 \/ x < line[k + 1][1])
  <2>1. RunIndex(line, x) = CHOOSE k \in Runs(line) : P(k) BY Zenon, <1>1 DEF RunIndex, Scan
  <2>2. PICK k : Between(line, x, k, 1, Len(line) - 1) BY <1>0, BetweenExists
  <2>3. k \in Runs(line) /\ (k = 1 \/ line[k][1] <= x) /\ (k = Len(line) - 1 \/ x < line[k + 1][1]) BY <2>2 DEF Between
  <2>4. \A j \in 2..k : line[j][1] <= x
    <3>1. SUFFICES ASSUME NEW j \in 2..k PROVE line[j][1] <= x OBVIOUS
    <3>2. k # 1 /\ j \in 1..Len(line) /\ k \in 1..Len(line) /\ j <= k BY <2>3, <1>0
    <3>3. line[j][1] <= line[k][1] BY <3>2, AscendsFar
    <3>4. line[j][1] \in Int /\ line[k][1] \in Int /\ line[k][1] <= x BY <3>2, <2>3, LineTypes
    <3> QED BY <3>3, <3>4
  <2>5. P(k) BY <2>3, <2>4
  <2> HIDE DEF P
  <2>6. RunIndex(line, x) \in Runs(line) /\ P(RunIndex(line, x)) BY Zenon, <2>1, <2>3, <2>5
  <2>7. RunIndex(line, x) \in 1..(Len(line) - 1) /\ (RunIndex(line, x) = 1 \/ RunIndex(line, x) \in 2..RunIndex(line, x)) BY <2>6, <1>0
  <2> QED BY <2>6, <2>7 DEF P, Between
<1>2. CASE ~(Len(line) - 2 < 4)
  <2>1. RunIndex(line, x) = Hit(line, x, 1, Len(line) - 1) BY <1>2, BisectIs DEF RunIndex
  <2> QED BY <1>0, <2>1, HitIs
<1> QED BY <1>1, <1>2

\* x is a voxel of the run k.
Holds(line, k, x) == k \in Runs(line) /\ line[k][1] <= x /\ x < line[k + 1][1]

\* What a run says of x.
Says(run, x) == IF run[2] >= 0 THEN run[2] + (x - run[1]) ELSE run[2]

\* A run that holds x is the one that is found.
LEMMA HoldsIsFound ==
  ASSUME NEW line, IsLine(line), Ascends(line), NEW x \in Int, NEW k, Holds(line, k, x)
  PROVE k = RunIndex(line, x)
<1>1. Len(line) \in Nat /\ 1 \in Runs(line) /\ Len(line) - 1 \in Runs(line) /\ 1 <= Len(line) - 1
  <2>1. Len(line) \in Nat /\ Len(line) >= 2 BY LineTypes
  <2> QED BY <2>1
<1>2. Between(line, x, k, 1, Len(line) - 1) BY <1>1 DEF Holds, Between
<1>3. Between(line, x, RunIndex(line, x), 1, Len(line) - 1) BY RunIndexIs
<1> QED BY <1>1, <1>2, <1>3, BetweenUnique

\* So there is one at most.
LEMMA HoldsOnce ==
  ASSUME NEW line, IsLine(line), Ascends(line), NEW x \in Int, NEW j, Holds(line, j, x), NEW k, Holds(line, k, x)
  PROVE j = k
<1>1. j = RunIndex(line, x) /\ k = RunIndex(line, x) BY HoldsIsFound
<1> QED BY <1>1

\* A voxel of a run has the data index or the region that the run says.
LEMMA InLineOfRun ==
  ASSUME NEW line, IsLine(line), Ascends(line), NEW x \in Int, NEW ext, NEW k, Holds(line, k, x)
  PROVE InLine(line, x, ext) = Says(line[k], x)
<1>1. RunIndex(line, x) = k BY HoldsIsFound
<1>2. InRun(line, k, x, ext) = Says(line[k], x) BY DEF InRun, Holds, Says
<1> QED BY <1>1, <1>2 DEF InLine

\* A voxel outside all the runs is of the exterior region.
LEMMA InLineOfNone ==
  ASSUME NEW line, IsLine(line), Ascends(line), NEW x \in Int, NEW ext, \A k : ~Holds(line, k, x)
  PROVE InLine(line, x, ext) = ext
<1>1. RunIndex(line, x) \in 1..(Len(line) - 1) BY RunIndexIs DEF Between
<1>2. ~(line[RunIndex(line, x)][1] <= x /\ x < line[RunIndex(line, x) + 1][1]) BY <1>1 DEF Holds
<1> QED BY <1>2 DEF InLine, InRun

\* A lookup finds what a walk over the scanline finds.
LEMMA InLineIsWalked ==
  ASSUME NEW line, IsLine(line), Ascends(line), NEW x \in Int, NEW ext
  PROVE InLine(line, x, ext) = Walked(line, x, ext)
<1> DEFINE hits == {k \in Runs(line) : line[k][1] <= x /\ x < line[k + 1][1]}
<1>1. \A k : k \in hits <=> Holds(line, k, x) BY DEF Holds
<1>2. Walked(line, x, ext) = IF hits = {} THEN ext ELSE InRun(line, CHOOSE k \in hits : TRUE, x, ext) BY Zenon DEF Walked
<1> HIDE DEF hits
<1>3. CASE hits = {}
  <2>1. \A k : ~Holds(line, k, x) BY <1>1, <1>3
  <2> QED BY <1>2, <1>3, <2>1, InLineOfNone
<1>4. CASE hits # {}
  <2>1. (CHOOSE k \in hits : TRUE) \in hits BY Zenon, <1>4
  <2>2. (CHOOSE k \in hits : TRUE) = RunIndex(line, x) BY Zenon, <1>1, <2>1, HoldsIsFound
  <2> QED BY Zenon, <1>2, <1>4, <2>2 DEF InLine
<1> QED BY <1>3, <1>4

(* Counting voxels. *)

\* How many voxels a run has that may have data.
Width(line, k) == IF line[k][2] >= 0 THEN line[k + 1][1] - line[k][1] ELSE 0

\* before counts the voxels with data before each run.
Counts(before, line) ==
  /\ before \in [1..Len(line) -> Int]
  /\ before[1] = 0
  /\ \A k \in 2..Len(line) : before[k] = before[k - 1] + Width(line, k - 1)

\* The number of voxels of a run is an integer.
LEMMA WidthInt == ASSUME NEW line, IsLine(line) PROVE \A k \in Runs(line) : Width(line, k) \in Int
<1>1. SUFFICES ASSUME NEW k \in Runs(line) PROVE Width(line, k) \in Int OBVIOUS
<1>2. k \in 1..Len(line) /\ k + 1 \in 1..Len(line) BY LineTypes
<1>3. line[k][1] \in Int /\ line[k + 1][1] \in Int BY <1>2, LineTypes
<1> QED BY <1>3 DEF Width

\* The recursive function DefinedBefore exists: it counts.
LEMMA DefinedBeforeIs == ASSUME NEW line, IsLine(line) PROVE Counts(DefinedBefore(line), line)
<1> DEFINE Eq(before) == before = [k \in 1..Len(line) |->
             IF k = 1 THEN 0 ELSE before[k - 1] + IF IsDefined(line[k - 1]) THEN line[k][1] - line[k - 1][1] ELSE 0]
           step == [p \in (2..Len(line)) \X Int |-> p[2] + Width(line, p[1] - 1)]
<1>0. Len(line) \in Nat /\ Len(line) >= 2 BY LineTypes
<1>1. \A k \in 2..Len(line) : \A x \in Int : step[<<k, x>>] = x + Width(line, k - 1) /\ Width(line, k - 1) \in Int
  <2>1. \A k \in 2..Len(line) : k - 1 \in Runs(line) BY <1>0
  <2> QED BY <2>1, WidthInt
<1>2. Closed(step, Int, 1, Len(line))
  <2>1. (1 + 1)..Len(line) = 2..Len(line) BY <1>0
  <2> HIDE DEF step
  <2>2. \A k \in 2..Len(line) : \A x \in Int : step[<<k, x>>] \in Int
    <3>1. SUFFICES ASSUME NEW k \in 2..Len(line), NEW x \in Int PROVE step[<<k, x>>] \in Int OBVIOUS
    <3>2. step[<<k, x>>] = x + Width(line, k - 1) /\ Width(line, k - 1) \in Int BY <1>1
    <3> QED BY <3>2
  <2> QED BY <2>1, <2>2 DEF Closed
<1> HIDE DEF step
<1>3. PICK w : BuiltUp(w, Int, 0, 1, Len(line), step)
  <2>1. 0 \in Int /\ 1 \in Int /\ Len(line) \in Int /\ 1 <= Len(line) BY <1>0
  <2> QED BY <1>2, <2>1, StepsExist
<1>4. /\ w \in [1..Len(line) -> Int] /\ w[1] = 0
      /\ \A k \in 2..Len(line) : w[k] = step[<<k, w[k - 1]>>] /\ w[k - 1] \in Int
  <2>1. (1 + 1)..Len(line) = 2..Len(line) BY <1>0
  <2>2. \A k \in 2..Len(line) : k - 1 \in 1..Len(line) BY <1>0
  <2> QED BY <1>3, <2>1, <2>2 DEF BuiltUp
<1>5. \A k \in 2..Len(line) : w[k] = w[k - 1] + Width(line, k - 1) BY <1>1, <1>4
<1>6. \E before : Eq(before)
  <2> DEFINE again == [k \in 1..Len(line) |->
             IF k = 1 THEN 0 ELSE w[k - 1] + IF IsDefined(line[k - 1]) THEN line[k][1] - line[k - 1][1] ELSE 0]
  <2>1. \A k \in 1..Len(line) : w[k] = again[k]
    <3>1. SUFFICES ASSUME NEW k \in 1..Len(line) PROVE w[k] = again[k] OBVIOUS
    <3>2. CASE k = 1 BY <1>4, <3>2
    <3>3. CASE k # 1
      <4>1. k \in 2..Len(line) /\ (k - 1) + 1 = k BY <1>0, <3>3
      <4>2. w[k] = w[k - 1] + Width(line, k - 1) BY <1>5, <4>1
      <4>3. Width(line, k - 1) = IF IsDefined(line[k - 1]) THEN line[k][1] - line[k - 1][1] ELSE 0 BY <4>1 DEF Width
      <4> QED BY <3>3, <4>2, <4>3
    <3> QED BY <3>2, <3>3
  <2>2. w = again BY <1>4, <2>1
  <2>3. Eq(w) BY <2>2
  <2> QED BY <2>3
<1> DEFINE before == CHOOSE before : Eq(before)
<1>7. Eq(before) BY <1>6
<1>8. DefinedBefore(line) = before BY Zenon DEF DefinedBefore
<1> HIDE DEF before
<1>9. before[1] = 0 BY <1>0, <1>7
<1>10. \A k \in 2..Len(line) : before[k] = before[k - 1] + Width(line, k - 1)
  <2>1. SUFFICES ASSUME NEW k \in 2..Len(line) PROVE before[k] = before[k - 1] + Width(line, k - 1) OBVIOUS
  <2>2. k # 1 /\ k \in 1..Len(line) /\ (k - 1) + 1 = k BY <1>0
  <2>3. before[k] = before[k - 1] + IF IsDefined(line[k - 1]) THEN line[k][1] - line[k - 1][1] ELSE 0 BY <1>7, <2>2
  <2> QED BY <2>2, <2>3 DEF Width
<1>11. before \in [1..Len(line) -> Int]
  <2> DEFINE T == {k \in 1..Len(line) : before[k] \in Int}
  <2>1. 1 \in T BY <1>0, <1>9
  <2>2. ASSUME NEW k \in 1..(Len(line) - 1), k \in T PROVE k + 1 \in T
    <3>1. k + 1 \in 2..Len(line) /\ k + 1 \in 1..Len(line) /\ (k + 1) - 1 = k /\ k \in Runs(line) BY <1>0
    <3>2. before[k + 1] = before[k] + Width(line, k) BY <1>10, <3>1
    <3>3. Width(line, k) \in Int BY <3>1, WidthInt
    <3> QED BY <2>2, <3>1, <3>2, <3>3
  <2>3. \A k \in 1..Len(line) : k \in T
    <3>1. 1 \in Int /\ Len(line) \in Int BY <1>0
    <3> HIDE DEF T
    <3> QED BY <2>1, <2>2, <3>1, InductionFrom
  <2> QED BY <1>7, <2>3
<1> QED BY <1>8, <1>9, <1>10, <1>11 DEF Counts

\* The counts of a line depend only on where its runs start and which have data.
Alike(line, other) ==
  /\ Len(other) = Len(line)
  /\ \A k \in 1..Len(line) : other[k][1] = line[k][1]
  /\ \A k \in Runs(line) : other[k][2] >= 0 <=> line[k][2] >= 0

\* Scanlines with runs of the same kinds at the same places have the same counts.
LEMMA CountsUnique ==
  ASSUME NEW line, IsLine(line), NEW other, IsLine(other), Alike(line, other)
  PROVE DefinedBefore(other) = DefinedBefore(line)
<1> DEFINE f == DefinedBefore(line)
           g == DefinedBefore(other)
           T == {k \in 1..Len(line) : f[k] = g[k]}
<1>0. Len(line) \in Nat /\ Len(line) >= 2 /\ Len(other) = Len(line) BY LineTypes DEF Alike
<1>1. Counts(f, line) /\ Counts(g, other) BY DefinedBeforeIs
<1> HIDE DEF f, g
<1>2. 1 \in T BY <1>0, <1>1 DEF Counts
<1>3. ASSUME NEW k \in 1..(Len(line) - 1), k \in T PROVE k + 1 \in T
  <2>1. k + 1 \in 2..Len(line) /\ k + 1 \in 1..Len(line) /\ (k + 1) - 1 = k /\ k \in Runs(line) /\ k \in 1..Len(line) BY <1>0
  <2>2. f[k + 1] = f[k] + Width(line, k) BY <1>1, <2>1 DEF Counts
  <2>3. g[k + 1] = g[k] + Width(other, k) BY <1>0, <1>1, <2>1 DEF Counts
  <2>4. Width(line, k) = Width(other, k) BY <2>1 DEF Alike, Width
  <2> QED BY <1>3, <2>1, <2>2, <2>3, <2>4
<1>4. \A k \in 1..Len(line) : k \in T
  <2>1. 1 \in Int /\ Len(line) \in Int BY <1>0
  <2> HIDE DEF T
  <2> QED BY <1>2, <1>3, <2>1, InductionFrom
<1>5. f \in [1..Len(line) -> Int] /\ g \in [1..Len(line) -> Int] BY <1>0, <1>1 DEF Counts
<1>6. f = g BY <1>4, <1>5
<1> QED BY <1>6 DEF f, g

\* The counts start with 0 and grow with the runs.
LEMMA CountsGrow ==
  ASSUME NEW line, IsLine(line), Ascends(line)
  PROVE  /\ DefinedBefore(line) \in [1..Len(line) -> Nat]
         /\ \A i, j \in 1..Len(line) : i <= j => DefinedBefore(line)[i] <= DefinedBefore(line)[j]
         /\ DefinedBefore(line)[1] = 0
         /\ \A k \in Runs(line) : DefinedBefore(line)[k + 1] = DefinedBefore(line)[k] + Width(line, k)
<1>1. PICK f : f = DefinedBefore(line) OBVIOUS
<1>2. Counts(f, line) BY <1>1, DefinedBeforeIs
<1>0. Len(line) \in Nat /\ Len(line) >= 2 BY LineTypes
<1>3. \A k \in Runs(line) : Width(line, k) \in Nat
  <2>1. SUFFICES ASSUME NEW k \in Runs(line) PROVE Width(line, k) \in Nat OBVIOUS
  <2>2. k \in 1..Len(line) /\ k + 1 \in 1..Len(line) BY <1>0
  <2>3. line[k][1] \in Int /\ line[k + 1][1] \in Int BY <2>2, LineTypes
  <2>4. line[k][1] <= line[k + 1][1] BY DEF Ascends
  <2> QED BY <2>3, <2>4 DEF Width
<1>4. \A k \in Runs(line) : f[k + 1] = f[k] + Width(line, k)
  <2>1. \A k \in Runs(line) : k + 1 \in 2..Len(line) /\ (k + 1) - 1 = k BY <1>0
  <2> QED BY <1>2, <2>1 DEF Counts
<1>5. ASSUME NEW i \in 1..Len(line), NEW j \in 1..Len(line), i <= j PROVE f[i] <= f[j]
  <2> DEFINE T == {k \in i..j : f[i] <= f[k]}
  <2>0. f[i] \in Int BY <1>2 DEF Counts
  <2>1. i \in T BY <1>5, <2>0
  <2>2. ASSUME NEW k \in i..(j - 1), k \in T PROVE k + 1 \in T
    <3>1. k \in Runs(line) /\ k + 1 \in i..j /\ k \in 1..Len(line) BY <1>0
    <3>2. f[k + 1] = f[k] + Width(line, k) /\ Width(line, k) \in Nat /\ f[k] \in Int BY <1>2, <1>3, <1>4, <3>1 DEF Counts
    <3> QED BY <2>0, <2>2, <3>1, <3>2
  <2>3. \A k \in i..j : k \in T
    <3> HIDE DEF T
    <3> QED BY <2>1, <2>2, InductionFrom
  <2> QED BY <1>5, <2>3
<1>6. f[1] = 0 BY <1>2 DEF Counts
<1>7. \A i \in 1..Len(line) : f[i] \in Int /\ f[i] >= 0
  <2>1. 1 \in 1..Len(line) /\ \A i \in 1..Len(line) : 1 <= i BY <1>0
  <2>2. \A i \in 1..Len(line) : f[i] \in Int BY <1>2 DEF Counts
  <2> QED BY <1>5, <1>6, <2>1, <2>2
<1>8. f \in [1..Len(line) -> Nat] BY <1>2, <1>7 DEF Counts
<1> QED BY <1>1, <1>4, <1>5, <1>6, <1>8

\* How many voxels of a line have data.
DefinedIn(line) == DefinedBefore(line)[Len(line)]

\* The number of the voxels with data of an ascending scanline.
LEMMA DefinedInNat == ASSUME NEW line, IsLine(line), Ascends(line) PROVE DefinedIn(line) \in Nat
<1>1. Len(line) \in 1..Len(line) BY LineTypes
<1> QED BY <1>1, CountsGrow DEF DefinedIn

\* A line is numbered.
LEMMA NumberedLineIs ==
  ASSUME NEW line, IsLine(line), Ascends(line), NEW n \in Nat, NEW l, l = NumberedLine(line, DefinedBefore(line), n)
  PROVE  /\ IsLine(l) /\ Alike(line, l)
         /\ \A k \in Runs(line) : l[k] = IF line[k][2] >= 0 THEN <<line[k][1], n + DefinedBefore(line)[k]>> ELSE line[k]
         /\ l[Len(line)] = line[Len(line)]
<1>1. PICK before \in [1..Len(line) -> Nat] : before = DefinedBefore(line) BY CountsGrow
<1>0. PICK m \in Nat : m = Len(line) /\ m >= 2 BY LineTypes
<1>2. PICK X : X = Int \X Int OBVIOUS
<1>4. PICK t : t = [k \in 1..(m - 1) |-> IF line[k][2] >= 0 THEN <<line[k][1], n + before[k]>> ELSE line[k]] OBVIOUS
<1>5. \A k \in 1..(m - 1) : t[k] \in X
  <2>1. SUFFICES ASSUME NEW k \in 1..(m - 1) PROVE t[k] \in X OBVIOUS
  <2>2. k \in 1..m /\ line[k] \in X /\ line[k][1] \in Int BY <1>0, <1>2, LineTypes
  <2>3. n + before[k] \in Int BY <1>0, <2>2
  <2>4. <<line[k][1], n + before[k]>> \in X BY <1>2, <2>2, <2>3
  <2> QED BY <1>4, <2>2, <2>4
<1>6. t \in Seq(X) /\ Len(t) = m - 1
  <2>1. t \in [1..(m - 1) -> X] BY <1>4, <1>5
  <2>2. m - 1 \in Nat BY <1>0
  <2> QED BY <2>1, <2>2
<1>7. PICK e : e = line[m] OBVIOUS
<1>8. e \in X BY <1>0, <1>2, <1>7, LineTypes
<1>9. l = t \o <<e>> BY <1>0, <1>1, <1>4, <1>7 DEF NumberedLine
<1>10. l \in Seq(X) /\ Len(l) = m /\ (\A k \in 1..(m - 1) : l[k] = t[k]) /\ l[m] = e BY <1>6, <1>8, <1>9
<1>11. IsLine(l) BY <1>0, <1>2, <1>10 DEF IsLine
<1>12. \A k \in 1..(m - 1) : l[k] = IF line[k][2] >= 0 THEN <<line[k][1], n + before[k]>> ELSE line[k] BY <1>4, <1>10
<1>13. \A k \in 1..m : l[k][1] = line[k][1]
  <2>1. SUFFICES ASSUME NEW k \in 1..m PROVE l[k][1] = line[k][1] OBVIOUS
  <2>2. CASE k = m BY <1>7, <1>10, <2>2
  <2>3. CASE k # m
    <3>1. k \in 1..(m - 1) BY <2>3
    <3>2. l[k] = <<line[k][1], n + before[k]>> \/ l[k] = line[k] BY <1>12, <3>1
    <3> QED BY <3>2
  <2> QED BY <2>2, <2>3
<1>14. \A k \in 1..(m - 1) : l[k][2] >= 0 <=> line[k][2] >= 0
  <2>1. SUFFICES ASSUME NEW k \in 1..(m - 1) PROVE l[k][2] >= 0 <=> line[k][2] >= 0 OBVIOUS
  <2>2. before[k] \in Nat BY <1>0
  <2>3. CASE line[k][2] >= 0
    <3>2. l[k] = <<line[k][1], n + before[k]>> BY <1>12, <2>3
    <3>1. l[k][2] = n + before[k] BY <3>2
    <3> QED BY <2>2, <2>3, <3>1
  <2>4. CASE ~(line[k][2] >= 0) BY <1>12, <2>4
  <2> QED BY <2>3, <2>4
<1>15. Alike(line, l) BY <1>0, <1>10, <1>13, <1>14 DEF Alike
<1> QED BY <1>0, <1>1, <1>7, <1>10, <1>11, <1>12, <1>15

\* Whether a scanline ascends depends on where its runs are.
LEMMA AlikeAscends == ASSUME NEW line, NEW other, Len(line) \in Nat, Alike(line, other), Ascends(line) PROVE Ascends(other)
<1>1. SUFFICES ASSUME NEW k \in Runs(other) PROVE other[k][1] <= other[k + 1][1] BY DEF Ascends
<1>2. k \in Runs(line) /\ k \in 1..Len(line) /\ k + 1 \in 1..Len(line) BY DEF Alike
<1> QED BY <1>2 DEF Alike, Ascends

(* Builders. *)

\* Scanlines.
LineSeqs == Seq(Int \X Int)

\* What a builder holds.
Builders == [lines : Seq(LineSeqs), n : Nat]

\* The lines that are numbered.
GoodLines(lines, count) == \A k \in 1..count : IsLine(lines[k]) /\ Ascends(lines[k])

\* A scanline more in a builder.
LEMMA PutIs ==
  ASSUME NEW b \in Builders, NEW line, IsLine(line), Ascends(line)
  PROVE  /\ Put(b, line) \in Builders
         /\ Put(b, line).lines = Append(b.lines, NumberedLine(line, DefinedBefore(line), b.n))
         /\ Put(b, line).n = b.n + DefinedIn(line)
<1>1. b.n \in Nat /\ b.lines \in Seq(LineSeqs) BY DEF Builders
<1>2. PICK l : l = NumberedLine(line, DefinedBefore(line), b.n) OBVIOUS
<1>3. l \in LineSeqs
  <2>1. IsLine(l) BY <1>1, <1>2, NumberedLineIs
  <2> QED BY <2>1 DEF IsLine, LineSeqs
<1>4. DefinedIn(line) \in Nat BY DefinedInNat
<1>5. Put(b, line) = [lines |-> Append(b.lines, l), n |-> b.n + DefinedIn(line)] BY <1>2 DEF Put, PutCounted, DefinedIn
<1>6. Append(b.lines, l) \in Seq(LineSeqs) BY <1>1, <1>3
<1>7. b.n + DefinedIn(line) \in Nat BY <1>1, <1>4
<1> QED BY <1>2, <1>5, <1>6, <1>7 DEF Builders

\* The builders before each line.
Building(upTo, lines, count) ==
  /\ upTo \in [0..count -> Builders]
  /\ upTo[0] = Nothing
  /\ \A k \in 1..count : upTo[k] = Put(upTo[k - 1], lines[k])

\* An empty builder.
LEMMA NothingIs == Nothing \in Builders /\ Nothing.lines = <<>> /\ Nothing.n = 0
<1>1. <<>> \in Seq(LineSeqs) OBVIOUS
<1> QED BY <1>1 DEF Nothing, Builders

\* The recursive function of Numbered exists.
LEMMA NumberedIs ==
  ASSUME NEW count \in Nat, NEW lines, GoodLines(lines, count)
  PROVE \E upTo : Building(upTo, lines, count) /\ Numbered(lines, count) = upTo[count]
<1> DEFINE Eq(upTo) == upTo = [k \in 0..count |-> IF k = 0 THEN Nothing ELSE Put(upTo[k - 1], lines[k])]
           step == [p \in (1..count) \X Builders |-> Put(p[2], lines[p[1]])]
<1>1. \A k \in 1..count : \A x \in Builders : step[<<k, x>>] = Put(x, lines[k]) OBVIOUS
<1> HIDE DEF step
<1>2. Closed(step, Builders, 0, count)
  <2>1. (0 + 1)..count = 1..count OBVIOUS
  <2>2. \A k \in 1..count : \A x \in Builders : step[<<k, x>>] \in Builders
    <3>1. SUFFICES ASSUME NEW k \in 1..count, NEW x \in Builders PROVE step[<<k, x>>] \in Builders OBVIOUS
    <3>2. IsLine(lines[k]) /\ Ascends(lines[k]) BY DEF GoodLines
    <3>3. Put(x, lines[k]) \in Builders BY <3>2, PutIs
    <3> QED BY <1>1, <3>3
  <2> QED BY <2>1, <2>2 DEF Closed
<1>3. PICK w : BuiltUp(w, Builders, Nothing, 0, count, step)
  <2>1. 0 \in Int /\ count \in Int /\ 0 <= count /\ Nothing \in Builders BY NothingIs
  <2> QED BY <1>2, <2>1, StepsExist
<1>4. Building(w, lines, count)
  <2>1. (0 + 1)..count = 1..count /\ \A k \in 1..count : k - 1 \in 0..count OBVIOUS
  <2>2. w \in [0..count -> Builders] /\ w[0] = Nothing /\ \A k \in 1..count : w[k] = step[<<k, w[k - 1]>>] BY <1>3, <2>1 DEF BuiltUp
  <2>3. \A k \in 1..count : w[k - 1] \in Builders BY <2>1, <2>2
  <2> QED BY <1>1, <2>2, <2>3 DEF Building
<1>5. Eq(w)
  <2> DEFINE again == [k \in 0..count |-> IF k = 0 THEN Nothing ELSE Put(w[k - 1], lines[k])]
  <2>1. \A k \in 0..count : w[k] = again[k]
    <3>1. SUFFICES ASSUME NEW k \in 0..count PROVE w[k] = again[k] OBVIOUS
    <3>2. CASE k = 0 BY <1>4, <3>2 DEF Building
    <3>3. CASE k # 0
      <4>1. k \in 1..count BY <3>3
      <4> QED BY <1>4, <3>3, <4>1 DEF Building
    <3> QED BY <3>2, <3>3
  <2>2. w = again BY <1>4, <2>1 DEF Building
  <2> QED BY <2>2
<1> DEFINE upTo == CHOOSE upTo : Eq(upTo)
<1>6. Eq(upTo) BY <1>5
<1>7. Numbered(lines, count) = upTo[count] BY Zenon DEF Numbered
<1> HIDE DEF upTo
<1>8. upTo[0] = Nothing BY <1>6
<1>9. \A k \in 1..count : upTo[k] = Put(upTo[k - 1], lines[k])
  <2>1. SUFFICES ASSUME NEW k \in 1..count PROVE upTo[k] = Put(upTo[k - 1], lines[k]) OBVIOUS
  <2>2. k # 0 /\ k \in 0..count OBVIOUS
  <2> QED BY <1>6, <2>2
<1>10. \A k \in 0..count : upTo[k] \in Builders
  <2> DEFINE T == {k \in 0..count : upTo[k] \in Builders}
  <2>1. 0 \in T BY <1>8, NothingIs
  <2>2. ASSUME NEW k \in 0..(count - 1), k \in T PROVE k + 1 \in T
    <3>1. k + 1 \in 1..count /\ k + 1 \in 0..count /\ (k + 1) - 1 = k OBVIOUS
    <3>2. upTo[k + 1] = Put(upTo[k], lines[k + 1]) BY <1>9, <3>1
    <3>3. IsLine(lines[k + 1]) /\ Ascends(lines[k + 1]) BY <3>1 DEF GoodLines
    <3>4. Put(upTo[k], lines[k + 1]) \in Builders BY <2>2, <3>3, PutIs
    <3> QED BY <3>1, <3>2, <3>4
  <2>3. 0 \in Int /\ count \in Int OBVIOUS
  <2> HIDE DEF T
  <2>4. \A k \in 0..count : k \in T BY <2>1, <2>2, <2>3, InductionFrom
  <2> QED BY <2>4 DEF T
<1>11. Building(upTo, lines, count) BY <1>6, <1>8, <1>9, <1>10 DEF Building
<1> QED BY <1>7, <1>11

\* The number of the first voxel of each line.
IsNumbering(N, lines, count) ==
  N \in [0..count -> Nat] /\ N[0] = 0 /\ \A k \in 1..count : N[k] = N[k - 1] + DefinedIn(lines[k])

\* The numbers grow from scanline to scanline.
LEMMA NumberingGrows ==
  ASSUME NEW count \in Nat, NEW lines, GoodLines(lines, count), NEW N, IsNumbering(N, lines, count), NEW i \in 0..count, NEW j \in 0..count, i <= j
  PROVE N[i] <= N[j]
<1> DEFINE T == {k \in i..j : N[i] <= N[k]}
<1>0. N[i] \in Nat BY DEF IsNumbering
<1>1. i \in T BY <1>0
<1>2. ASSUME NEW k \in i..(j - 1), k \in T PROVE k + 1 \in T
  <2>1. k + 1 \in i..j /\ k \in 0..count /\ k + 1 \in 1..count /\ (k + 1) - 1 = k OBVIOUS
  <2>2. N[k + 1] = N[k] + DefinedIn(lines[k + 1]) /\ N[k] \in Nat BY <2>1 DEF IsNumbering
  <2>3. DefinedIn(lines[k + 1]) \in Nat BY <2>1, DefinedInNat DEF GoodLines
  <2> QED BY <1>0, <1>2, <2>1, <2>2, <2>3
<1>3. i \in Int /\ j \in Int OBVIOUS
<1>4. \A k \in i..j : k \in T
  <2> HIDE DEF T
  <2> QED BY <1>1, <1>2, <1>3, InductionFrom
<1> QED BY <1>4

\* They depend on how many voxels with data each scanline has, and on nothing else.
LEMMA NumberingUnique ==
  ASSUME NEW count \in Nat, NEW lines, NEW N, IsNumbering(N, lines, count), NEW others, NEW M, IsNumbering(M, others, count),
         \A k \in 1..count : DefinedIn(others[k]) = DefinedIn(lines[k])
  PROVE \A k \in 0..count : M[k] = N[k]
<1> DEFINE T == {k \in 0..count : M[k] = N[k]}
<1>1. 0 \in T BY DEF IsNumbering
<1>2. ASSUME NEW k \in 0..(count - 1), k \in T PROVE k + 1 \in T
  <2>1. k + 1 \in 0..count /\ k + 1 \in 1..count /\ (k + 1) - 1 = k OBVIOUS
  <2>2. N[k + 1] = N[k] + DefinedIn(lines[k + 1]) /\ M[k + 1] = M[k] + DefinedIn(others[k + 1]) BY <2>1 DEF IsNumbering
  <2> QED BY <1>2, <2>1, <2>2
<1>3. 0 \in Int /\ count \in Int OBVIOUS
<1> HIDE DEF T
<1>4. \A k \in 0..count : k \in T BY <1>1, <1>2, <1>3, InductionFrom
<1> QED BY <1>4 DEF T

\* What the builders return: every scanline numbered on from those before it.
LEMMA NumberedResult ==
  ASSUME NEW count \in Nat, NEW lines, GoodLines(lines, count), NEW b, b = Numbered(lines, count)
  PROVE  /\ b \in Builders /\ Len(b.lines) = count
         /\ \E N : /\ IsNumbering(N, lines, count) /\ b.n = N[count]
                   /\ \A k \in 1..count : b.lines[k] = NumberedLine(lines[k], DefinedBefore(lines[k]), N[k - 1])
<1>1. PICK upTo : Building(upTo, lines, count) /\ b = upTo[count] BY NumberedIs
<1> DEFINE N == [k \in 0..count |-> upTo[k].n]
           Row(j) == NumberedLine(lines[j], DefinedBefore(lines[j]), N[j - 1])
           T == {k \in 0..count : Len(upTo[k].lines) = k /\ \A j \in 1..k : upTo[k].lines[j] = Row(j)}
<1>2. \A k \in 0..count : upTo[k] \in Builders /\ upTo[k].n \in Nat /\ upTo[k].lines \in Seq(LineSeqs) BY <1>1 DEF Building, Builders
<1>3. ASSUME NEW k \in 1..count
      PROVE  /\ upTo[k].lines = Append(upTo[k - 1].lines, Row(k))
             /\ upTo[k].n = upTo[k - 1].n + DefinedIn(lines[k])
             /\ N[k] = upTo[k].n /\ N[k - 1] = upTo[k - 1].n
  <2>1. k - 1 \in 0..count /\ k \in 0..count OBVIOUS
  <2>2. upTo[k] = Put(upTo[k - 1], lines[k]) BY <1>1 DEF Building
  <2>3. IsLine(lines[k]) /\ Ascends(lines[k]) BY DEF GoodLines
  <2>4. /\ upTo[k].lines = Append(upTo[k - 1].lines, NumberedLine(lines[k], DefinedBefore(lines[k]), upTo[k - 1].n))
        /\ upTo[k].n = upTo[k - 1].n + DefinedIn(lines[k])
    BY <1>2, <2>1, <2>2, <2>3, PutIs
  <2> QED BY <2>1, <2>4
<1>4. IsNumbering(N, lines, count)
  <2>1. N \in [0..count -> Nat] BY <1>2
  <2>2. N[0] = 0 BY <1>1, NothingIs DEF Building
  <2>3. \A k \in 1..count : N[k] = N[k - 1] + DefinedIn(lines[k])
    <3> SUFFICES ASSUME NEW k \in 1..count PROVE N[k] = N[k - 1] + DefinedIn(lines[k]) OBVIOUS
    <3> HIDE DEF N
    <3> QED BY <1>3
  <2> HIDE DEF N
  <2> QED BY <2>1, <2>2, <2>3 DEF IsNumbering
<1>5. 0 \in T
  <2>1. upTo[0].lines = <<>> BY <1>1, NothingIs DEF Building
  <2> QED BY <2>1
<1>6. ASSUME NEW k \in 0..(count - 1), k \in T PROVE k + 1 \in T
  <2> HIDE DEF N
  <2>1. k + 1 \in 1..count /\ k + 1 \in 0..count /\ k \in 0..count /\ (k + 1) - 1 = k OBVIOUS
  <2>2. PICK s \in Seq(LineSeqs) : s = upTo[k].lines BY <1>2, <2>1
  <2>3. PICK t, e : t = upTo[k + 1].lines /\ e = Row(k + 1) OBVIOUS
  <2>4. t = Append(s, e)
    <3> HIDE DEF Row
    <3> QED BY <1>3, <2>1, <2>2, <2>3
  <2>5. Len(s) = k /\ \A j \in 1..k : s[j] = Row(j) BY <1>6, <2>2
  <2> HIDE DEF Row
  <2>7. Len(t) = k + 1 /\ t[k + 1] = e /\ \A j \in 1..k : t[j] = s[j] BY <2>2, <2>4, <2>5
  <2>8. \A j \in 1..(k + 1) : t[j] = Row(j)
    <3>1. SUFFICES ASSUME NEW j \in 1..(k + 1) PROVE t[j] = Row(j) OBVIOUS
    <3>2. CASE j = k + 1 BY <2>3, <2>7, <3>2
    <3>3. CASE j # k + 1
      <4>1. j \in 1..k BY <3>3
      <4> QED BY <2>5, <2>7, <4>1
    <3> QED BY <3>2, <3>3
  <2> QED BY <2>1, <2>3, <2>7, <2>8
<1>7. 0 \in Int /\ count \in Int /\ count \in 0..count OBVIOUS
<1>8. count \in T
  <2> HIDE DEF T
  <2>1. \A k \in 0..count : k \in T BY <1>5, <1>6, <1>7, InductionFrom
  <2> QED BY <1>7, <2>1
<1>9. b \in Builders /\ Len(b.lines) = count /\ (\A j \in 1..count : b.lines[j] = Row(j)) /\ b.n = N[count] BY <1>1, <1>2, <1>7, <1>8
<1>10. \A k \in 1..count : b.lines[k] = NumberedLine(lines[k], DefinedBefore(lines[k]), N[k - 1]) BY <1>9
<1> HIDE DEF N, Row, T
<1> QED BY <1>4, <1>9, <1>10

\* The voxels with data have the numbers 0, 1, 2 ... from one line to the next.
AreNumbered(lines, n, N) ==
  /\ IsNumbering(N, lines, Len(lines)) /\ n = N[Len(lines)]
  /\ \A k \in 1..Len(lines) : \A j \in Runs(lines[k]) :
       lines[k][j][2] >= 0 => lines[k][j][2] = N[k - 1] + DefinedBefore(lines[k])[j]

\* Numbering what is numbered changes nothing.
LEMMA NumberedAgain ==
  ASSUME NEW lines \in Seq(LineSeqs), GoodLines(lines, Len(lines)), NEW n, NEW N, AreNumbered(lines, n, N)
  PROVE Numbered(lines, Len(lines)) = [lines |-> lines, n |-> n]
<1>1. PICK count \in Nat : count = Len(lines) OBVIOUS
<1>2. PICK b : b = Numbered(lines, count) OBVIOUS
<1>3. b \in Builders /\ Len(b.lines) = count BY <1>1, <1>2, NumberedResult
<1>4. PICK M : /\ IsNumbering(M, lines, count) /\ b.n = M[count]
               /\ \A k \in 1..count : b.lines[k] = NumberedLine(lines[k], DefinedBefore(lines[k]), M[k - 1])
  BY <1>1, <1>2, NumberedResult
<1>5. IsNumbering(N, lines, count) /\ n = N[count] BY <1>1 DEF AreNumbered
<1>6. \A k \in 0..count : M[k] = N[k] BY <1>4, <1>5, NumberingUnique
<1>7. ASSUME NEW k \in 1..count PROVE b.lines[k] = lines[k]
  <2>1. PICK line, l : line = lines[k] /\ l = b.lines[k] OBVIOUS
  <2>2. IsLine(line) /\ Ascends(line) BY <1>1, <2>1 DEF GoodLines
  <2>3. k - 1 \in 0..count OBVIOUS
  <2>4. N[k - 1] \in Nat BY <1>5, <2>3 DEF IsNumbering
  <2>5. l = NumberedLine(line, DefinedBefore(line), N[k - 1]) BY <1>4, <1>6, <2>1, <2>3
  <2>6. /\ IsLine(l) /\ Len(l) = Len(line) /\ l[Len(line)] = line[Len(line)]
        /\ \A j \in Runs(line) : l[j] = IF line[j][2] >= 0 THEN <<line[j][1], N[k - 1] + DefinedBefore(line)[j]>> ELSE line[j]
    BY <2>2, <2>4, <2>5, NumberedLineIs DEF Alike
  <2>7. \A j \in Runs(line) : l[j] = line[j]
    <3>1. SUFFICES ASSUME NEW j \in Runs(line) PROVE l[j] = line[j] OBVIOUS
    <3>2. line[j][2] >= 0 => line[j][2] = N[k - 1] + DefinedBefore(line)[j] BY <1>1, <2>1 DEF AreNumbered
    <3>3. j \in 1..Len(line) /\ line[j] = <<line[j][1], line[j][2]>> BY <2>2, LineTypes
    <3>4. CASE line[j][2] >= 0
      <4>1. l[j] = <<line[j][1], N[k - 1] + DefinedBefore(line)[j]>> BY <2>6, <3>4
      <4> QED BY <3>2, <3>3, <3>4, <4>1
    <3>5. CASE ~(line[j][2] >= 0) BY <2>6, <3>5
    <3> QED BY <3>4, <3>5
  <2>8. Len(line) \in Nat BY <2>2, LineTypes
  <2>9. \A j \in 1..Len(line) : l[j] = line[j]
    <3>1. SUFFICES ASSUME NEW j \in 1..Len(line) PROVE l[j] = line[j] OBVIOUS
    <3>2. j = Len(line) \/ j \in Runs(line) BY <2>8
    <3> QED BY <2>6, <2>7, <3>2
  <2>10. l \in Seq(Int \X Int) /\ line \in Seq(Int \X Int) BY <2>2, <2>6 DEF IsLine
  <2>11. l = line
    <3>1. PICK X : X = Int \X Int OBVIOUS
    <3>2. l \in Seq(X) /\ line \in Seq(X) BY <2>10, <3>1
    <3> QED BY <2>6, <2>9, <3>2
  <2> QED BY <2>1, <2>11
<1>8. b.lines \in Seq(LineSeqs) /\ b = [lines |-> b.lines, n |-> b.n] BY <1>3 DEF Builders
<1>9. b.lines = lines BY <1>1, <1>3, <1>7, <1>8
<1>10. b.n = n BY <1>4, <1>5, <1>6
<1> QED BY <1>1, <1>2, <1>8, <1>9, <1>10

\* What Numbered gives is numbered.
LEMMA NumberedAre ==
  ASSUME NEW count \in Nat, NEW lines, GoodLines(lines, count), NEW b, b = Numbered(lines, count)
  PROVE  /\ b.lines \in Seq(LineSeqs) /\ b.n \in Nat /\ Len(b.lines) = count /\ GoodLines(b.lines, count)
         /\ \A k \in 1..count : Alike(lines[k], b.lines[k])
         /\ \A k \in 1..count : \A j \in Runs(lines[k]) : ~(lines[k][j][2] >= 0) => b.lines[k][j] = lines[k][j]
         /\ \E N : AreNumbered(b.lines, b.n, N)
<1>1. b \in Builders /\ Len(b.lines) = count BY NumberedResult
<1>2. PICK N : /\ IsNumbering(N, lines, count) /\ b.n = N[count]
               /\ \A k \in 1..count : b.lines[k] = NumberedLine(lines[k], DefinedBefore(lines[k]), N[k - 1])
  BY NumberedResult
<1>3. ASSUME NEW k \in 1..count
      PROVE  /\ IsLine(b.lines[k]) /\ Alike(lines[k], b.lines[k]) /\ Ascends(b.lines[k])
             /\ DefinedBefore(b.lines[k]) = DefinedBefore(lines[k])
             /\ \A j \in Runs(lines[k]) :
                  b.lines[k][j] = IF lines[k][j][2] >= 0 THEN <<lines[k][j][1], N[k - 1] + DefinedBefore(lines[k])[j]>> ELSE lines[k][j]
  <2>1. PICK line, l : line = lines[k] /\ l = b.lines[k] OBVIOUS
  <2>2. IsLine(line) /\ Ascends(line) BY <2>1 DEF GoodLines
  <2>3. N[k - 1] \in Nat
    <3>1. k - 1 \in 0..count OBVIOUS
    <3> QED BY <1>2, <3>1 DEF IsNumbering
  <2>4. l = NumberedLine(line, DefinedBefore(line), N[k - 1]) BY <1>2, <2>1
  <2>5. /\ IsLine(l) /\ Alike(line, l)
        /\ \A j \in Runs(line) : l[j] = IF line[j][2] >= 0 THEN <<line[j][1], N[k - 1] + DefinedBefore(line)[j]>> ELSE line[j]
    BY <2>2, <2>3, <2>4, NumberedLineIs
  <2>6. DefinedBefore(l) = DefinedBefore(line) BY <2>2, <2>5, CountsUnique
  <2>7. Ascends(l)
    <3>1. Len(line) \in Nat BY <2>2, LineTypes
    <3> QED BY <2>2, <2>5, <3>1, AlikeAscends
  <2> QED BY <2>1, <2>5, <2>6, <2>7
<1>4. \A k \in 1..count : DefinedIn(b.lines[k]) = DefinedIn(lines[k])
  <2>1. SUFFICES ASSUME NEW k \in 1..count PROVE DefinedIn(b.lines[k]) = DefinedIn(lines[k]) OBVIOUS
  <2>2. Len(b.lines[k]) = Len(lines[k]) BY <1>3 DEF Alike
  <2> QED BY <1>3, <2>2 DEF DefinedIn
<1>5. IsNumbering(N, b.lines, count) BY <1>2, <1>4 DEF IsNumbering
<1>6. ASSUME NEW k \in 1..count, NEW j \in Runs(b.lines[k]), b.lines[k][j][2] >= 0
      PROVE  b.lines[k][j][2] = N[k - 1] + DefinedBefore(b.lines[k])[j]
  <2>1. Runs(b.lines[k]) = Runs(lines[k]) /\ j \in Runs(lines[k]) BY <1>3 DEF Alike
  <2>2. lines[k][j][2] >= 0 BY <1>3, <1>6, <2>1 DEF Alike
  <2>3. b.lines[k][j] = <<lines[k][j][1], N[k - 1] + DefinedBefore(lines[k])[j]>> BY <1>3, <2>1, <2>2
  <2>4. b.lines[k][j][2] = N[k - 1] + DefinedBefore(lines[k])[j] BY <2>3
  <2> QED BY <1>3, <2>4
<1>7. AreNumbered(b.lines, b.n, N) BY <1>1, <1>2, <1>5, <1>6 DEF AreNumbered
<1>8. \A k \in 1..count : \A j \in Runs(lines[k]) : ~(lines[k][j][2] >= 0) => b.lines[k][j] = lines[k][j] BY <1>3
<1>9. GoodLines(b.lines, count) BY <1>3 DEF GoodLines
<1>10. \A k \in 1..count : Alike(lines[k], b.lines[k]) BY <1>3
<1> QED BY <1>1, <1>7, <1>8, <1>9, <1>10 DEF Builders

\* The runs of a line fit a box that goes from lo to hi, hi not included.
Fits(line, lo, hi) ==
  /\ IsLine(line)
  /\ \/ Len(line) = 2 /\ line[1][1] = line[2][1] /\ ~(line[1][2] >= 0)
     \/ /\ \A k \in Runs(line) : line[k][1] < line[k + 1][1]
        /\ line[1][1] >= lo /\ line[Len(line)][1] <= hi
        /\ \A k \in 1..(Len(line) - 2) : ~(line[k][2] >= 0 /\ line[k + 1][2] >= 0)

\* What check_consistency wants, with the numbers of the lines.
Sound(ix) ==
  /\ ix \in Indexes
  /\ Len(ix.lines) = ix.size[2] * ix.size[3]
  /\ \A k \in 1..Len(ix.lines) : Fits(ix.lines[k], ix.org[1], ix.org[1] + ix.size[1])
  /\ \E N : AreNumbered(ix.lines, ix.n, N)

(* Sound index specs. *)

\* The types of what an index spec holds.
LEMMA IndexTypes ==
  ASSUME NEW ix \in Indexes
  PROVE  /\ ix.org[1] \in Int /\ ix.org[2] \in Int /\ ix.org[3] \in Int
         /\ ix.size[1] \in Nat /\ ix.size[2] \in Nat /\ ix.size[3] \in Nat
         /\ ix.ext \in Int /\ ix.ext < 0 /\ ix.n \in Nat /\ ix.lines \in Seq(LineSeqs) /\ Len(ix.lines) \in Nat
         /\ \A k \in 1..Len(ix.lines) : ix.lines[k] \in Seq(Int \X Int)
<1>1. /\ ix.org \in Int \X Int \X Int /\ ix.size \in Nat \X Nat \X Nat /\ ix.ext \in {-1, -2}
      /\ ix.lines \in Seq(LineSeqs) /\ ix.n \in Nat
  BY DEF Indexes, LineSeqs
<1>2. ix.org[1] \in Int /\ ix.org[2] \in Int /\ ix.org[3] \in Int BY <1>1
<1>3. ix.size[1] \in Nat /\ ix.size[2] \in Nat /\ ix.size[3] \in Nat BY <1>1
<1>4. \A k \in 1..Len(ix.lines) : ix.lines[k] \in LineSeqs BY <1>1
<1>5. Len(ix.lines) \in Nat BY <1>1
<1> QED BY <1>1, <1>2, <1>3, <1>4, <1>5 DEF LineSeqs

\* The end of the box, axis by axis.
LEMMA EndIs == ASSUME NEW ix PROVE End(ix)[1] = ix.org[1] + ix.size[1] /\ End(ix)[2] = ix.org[2] + ix.size[2] /\ End(ix)[3] = ix.org[3] + ix.size[3]
  BY DEF End, Sum3

\* A scanline that fits ascends.
LEMMA FitsAscends == ASSUME NEW line, NEW lo, NEW hi, Fits(line, lo, hi) PROVE IsLine(line) /\ Ascends(line)
<1>1. IsLine(line) BY DEF Fits
<1>2. \A k \in Runs(line) : line[k][1] \in Int /\ line[k + 1][1] \in Int
  <2>1. Len(line) \in Nat BY <1>1, LineTypes
  <2>2. \A k \in Runs(line) : k \in 1..Len(line) /\ k + 1 \in 1..Len(line) BY <2>1
  <2> QED BY <1>1, <2>2, LineTypes
<1>3. CASE Len(line) = 2 /\ line[1][1] = line[2][1]
  <2>1. \A k \in Runs(line) : k = 1 BY <1>3
  <2> QED BY <1>1, <1>2, <1>3, <2>1 DEF Ascends
<1>4. CASE \A k \in Runs(line) : line[k][1] < line[k + 1][1]
  <2>1. \A k \in Runs(line) : line[k][1] <= line[k + 1][1] BY <1>2, <1>4
  <2> QED BY <1>1, <2>1 DEF Ascends
<1> QED BY <1>3, <1>4 DEF Fits

\* Fits is what check_consistency asks of a scanline of the box.
LEMMA FitsIs ==
  ASSUME NEW ix \in Indexes, NEW line \in Seq(Int \X Int)
  PROVE LineFits(ix, line) <=> Fits(line, ix.org[1], ix.org[1] + ix.size[1])
<1>1. End(ix)[1] = ix.org[1] + ix.size[1] BY EndIs
<1>2. LineFits(ix, line) => Len(line) >= 2 BY DEF LineFits
<1>3. Fits(line, ix.org[1], ix.org[1] + ix.size[1]) => Len(line) >= 2 BY DEF Fits, IsLine
<1>4. ASSUME Len(line) >= 2 PROVE LineFits(ix, line) <=> Fits(line, ix.org[1], ix.org[1] + ix.size[1])
  <2>1. IsLine(line) BY <1>4 DEF IsLine
  <2>2. CASE Len(line) = 2 /\ line[1][1] = line[2][1]
    <3>1. ~(\A k \in Runs(line) : line[k][1] < line[k + 1][1])
      <4>1. 1 \in Runs(line) /\ 1 + 1 = 2 /\ line[1][1] \in Int
        <5>1. 1 \in 1..Len(line) BY <2>2
        <5>2. line[1][1] \in Int BY <2>1, <5>1, LineTypes
        <5> QED BY <2>2, <5>2
      <4> QED BY <2>2, <4>1
    <3>2. LineFits(ix, line) <=> ~(line[1][2] >= 0) BY <1>4, <2>2 DEF LineFits, IsEmptyLine
    <3>3. Fits(line, ix.org[1], ix.org[1] + ix.size[1]) <=> ~(line[1][2] >= 0) BY <2>1, <2>2, <3>1 DEF Fits
    <3> QED BY <3>2, <3>3
  <2>3. CASE ~(Len(line) = 2 /\ line[1][1] = line[2][1])
    <3>1. LineFits(ix, line) <=> RunsFit(ix, line) BY <1>4, <2>3 DEF LineFits, IsEmptyLine
    <3>2. RunsFit(ix, line) <=> Fits(line, ix.org[1], ix.org[1] + ix.size[1]) BY <1>1, <2>1, <2>3 DEF RunsFit, Fits
    <3> QED BY <3>1, <3>2
  <2> QED BY <2>2, <2>3
<1> QED BY <1>2, <1>3, <1>4

\* A sound index spec is one that passes check_consistency.
THEOREM SoundIsIndex == ASSUME NEW ix PROVE Sound(ix) <=> IsIndex(ix)
<1>1. SUFFICES ASSUME ix \in Indexes PROVE Sound(ix) <=> ScanlinesFit(ix) BY DEF Sound, IsIndex
<1>2. PICK lines \in Seq(LineSeqs), count \in Nat : lines = ix.lines /\ count = Len(lines) BY <1>1, IndexTypes
<1>3. DOMAIN lines = 1..count /\ \A k \in 1..count : lines[k] \in Seq(Int \X Int) BY <1>1, <1>2, IndexTypes
<1>4. (\A k \in 1..count : LineFits(ix, lines[k])) <=> \A k \in 1..count : Fits(lines[k], ix.org[1], ix.org[1] + ix.size[1])
  BY <1>1, <1>3, FitsIs
<1>5. ASSUME \A k \in 1..count : Fits(lines[k], ix.org[1], ix.org[1] + ix.size[1])
      PROVE  (\E N : AreNumbered(lines, ix.n, N)) <=> Numbered(lines, count) = [lines |-> lines, n |-> ix.n]
  <2>1. GoodLines(lines, count) BY <1>5, FitsAscends DEF GoodLines
  <2>2. (\E N : AreNumbered(lines, ix.n, N)) => Numbered(lines, count) = [lines |-> lines, n |-> ix.n]
    BY <1>2, <2>1, NumberedAgain
  <2>3. ASSUME Numbered(lines, count) = [lines |-> lines, n |-> ix.n] PROVE \E N : AreNumbered(lines, ix.n, N)
    <3>1. PICK b : b = Numbered(lines, count) OBVIOUS
    <3>2. \E N : AreNumbered(b.lines, b.n, N) BY <2>1, <3>1, NumberedAre
    <3>3. b.lines = lines /\ b.n = ix.n BY <2>3, <3>1
    <3> QED BY <3>2, <3>3
  <2> QED BY <2>2, <2>3
<1>6. ix.ext < 0 BY <1>1, IndexTypes
<1> QED BY <1>1, <1>2, <1>3, <1>4, <1>5, <1>6 DEF Sound, ScanlinesFit

\* What a builder of lines that fit makes is sound.
LEMMA SoundFromLines ==
  ASSUME NEW org \in Int \X Int \X Int, NEW size \in Nat \X Nat \X Nat, NEW ext \in {-1, -2}, NEW lines,
         \A k \in 1..(size[2] * size[3]) : Fits(lines[k], org[1], org[1] + size[1]),
         NEW ix, ix = Index(org, size, ext, Numbered(lines, size[2] * size[3]))
  PROVE Sound(ix) /\ ix.org = org /\ ix.size = size /\ ix.ext = ext /\ \A k \in 1..(size[2] * size[3]) : Alike(lines[k], ix.lines[k])
<1>1. PICK count \in Nat : count = size[2] * size[3]
  <2>1. size[2] \in Nat /\ size[3] \in Nat OBVIOUS
  <2> QED BY <2>1
<1>2. PICK b : b = Numbered(lines, count) OBVIOUS
<1>3. GoodLines(lines, count) BY <1>1, FitsAscends DEF GoodLines
<1>4. /\ b.lines \in Seq(LineSeqs) /\ b.n \in Nat /\ Len(b.lines) = count /\ GoodLines(b.lines, count)
      /\ \A k \in 1..count : Alike(lines[k], b.lines[k])
      /\ \E N : AreNumbered(b.lines, b.n, N)
  <2>1. b.lines \in Seq(LineSeqs) /\ b.n \in Nat /\ Len(b.lines) = count /\ GoodLines(b.lines, count) BY <1>2, <1>3, NumberedAre
  <2>2. \A k \in 1..count : Alike(lines[k], b.lines[k]) BY <1>2, <1>3, NumberedAre
  <2>4. \E N : AreNumbered(b.lines, b.n, N) BY <1>2, <1>3, NumberedAre
  <2> QED BY <2>1, <2>2, <2>4
<1>5. ASSUME NEW k \in 1..count PROVE Fits(b.lines[k], org[1], org[1] + size[1])
  <2>1. PICK line, l : line = lines[k] /\ l = b.lines[k] OBVIOUS
  <2>2. Fits(line, org[1], org[1] + size[1]) BY <1>1, <2>1
  <2>3. Alike(line, l) /\ IsLine(l) BY <1>4, <2>1 DEF GoodLines
  <2>4. Len(line) \in Nat /\ Len(line) >= 2 /\ Len(l) = Len(line) BY <2>2, <2>3, LineTypes DEF Fits, Alike
  <2>5. 1 \in 1..Len(line) /\ Len(line) \in 1..Len(line) /\ 1 \in Runs(line) /\ (\A j \in Runs(line) : j \in 1..Len(line) /\ j + 1 \in 1..Len(line))
        /\ \A j \in 1..(Len(line) - 2) : j \in Runs(line) /\ j + 1 \in Runs(line)
    BY <2>4
  <2>6. l[1][1] = line[1][1] /\ l[Len(line)][1] = line[Len(line)][1] /\ (\A j \in Runs(line) : l[j][1] = line[j][1] /\ l[j + 1][1] = line[j + 1][1])
    BY <2>3, <2>5 DEF Alike
  <2>7. \A j \in Runs(line) : l[j][2] >= 0 <=> line[j][2] >= 0 BY <2>3 DEF Alike
  <2>8. CASE Len(line) = 2 /\ line[1][1] = line[2][1] /\ ~(line[1][2] >= 0)
    <3>1. l[2][1] = line[2][1] BY <2>6, <2>8
    <3> QED BY <2>1, <2>3, <2>4, <2>5, <2>6, <2>7, <2>8, <3>1 DEF Fits
  <2>9. CASE ~(Len(line) = 2 /\ line[1][1] = line[2][1] /\ ~(line[1][2] >= 0))
    <3>1. /\ \A j \in Runs(line) : line[j][1] < line[j + 1][1]
          /\ line[1][1] >= org[1] /\ line[Len(line)][1] <= org[1] + size[1]
          /\ \A j \in 1..(Len(line) - 2) : ~(line[j][2] >= 0 /\ line[j + 1][2] >= 0)
      BY <2>2, <2>9 DEF Fits
    <3>2. \A j \in Runs(l) : l[j][1] < l[j + 1][1] BY <2>4, <2>6, <3>1
    <3>3. \A j \in 1..(Len(l) - 2) : ~(l[j][2] >= 0 /\ l[j + 1][2] >= 0) BY <2>4, <2>5, <2>7, <3>1
    <3>4. l[1][1] >= org[1] /\ l[Len(l)][1] <= org[1] + size[1] BY <2>4, <2>6, <3>1
    <3> QED BY <2>1, <2>3, <3>2, <3>3, <3>4 DEF Fits
  <2> QED BY <2>8, <2>9
<1>6. ix = [org |-> org, size |-> size, ext |-> ext, lines |-> b.lines, n |-> b.n] BY <1>1, <1>2 DEF Index
<1>7. ix \in Indexes
  <2>1. b.lines \in Seq(Seq(Int \X Int)) BY <1>4 DEF LineSeqs
  <2> QED BY <1>4, <1>6, <2>1 DEF Indexes
<1>8. ix.org = org /\ ix.size = size /\ ix.ext = ext /\ ix.lines = b.lines /\ ix.n = b.n BY <1>6
<1> QED BY <1>1, <1>4, <1>5, <1>7, <1>8 DEF Sound

\* The voxels of a line are numbered from n on.
NumberedFrom(line, n) ==
  /\ IsLine(line) /\ Ascends(line)
  /\ \A j \in Runs(line) : line[j][2] >= 0 => line[j][2] = n + DefinedBefore(line)[j]

\* The types of a run that holds a voxel.
LEMMA RunTypes ==
  ASSUME NEW line, IsLine(line), NEW x \in Int, NEW k, Holds(line, k, x)
  PROVE  k \in Runs(line) /\ k \in 1..Len(line) /\ k + 1 \in 1..Len(line) /\ line[k][1] \in Int /\ line[k + 1][1] \in Int /\ line[k][2] \in Int
         /\ line[k][1] <= x /\ x < line[k + 1][1]
<1>1. Len(line) \in Nat BY LineTypes
<1>2. k \in 1..Len(line) /\ k + 1 \in 1..Len(line) BY <1>1 DEF Holds
<1> QED BY <1>2, LineTypes DEF Holds

\* The lookup returns an integer.
LEMMA InLineInt ==
  ASSUME NEW line, IsLine(line), Ascends(line), NEW x \in Int, NEW ext \in Int PROVE InLine(line, x, ext) \in Int
<1>1. CASE \E k : Holds(line, k, x)
  <2>1. PICK k : Holds(line, k, x) BY <1>1
  <2>2. InLine(line, x, ext) = Says(line[k], x) BY <2>1, InLineOfRun
  <2>3. line[k][1] \in Int /\ line[k][2] \in Int BY <2>1, RunTypes
  <2> QED BY <2>2, <2>3 DEF Says
<1>2. CASE ~\E k : Holds(line, k, x)
  <2>1. InLine(line, x, ext) = ext BY <1>2, InLineOfNone
  <2> QED BY <2>1
<1> QED BY <1>1, <1>2

\* A voxel has data where a run has.
LEMMA HasData ==
  ASSUME NEW line, IsLine(line), Ascends(line), NEW x \in Int, NEW ext \in Int, ext < 0
  PROVE InLine(line, x, ext) >= 0 <=> \E k : Holds(line, k, x) /\ line[k][2] >= 0
<1>1. CASE \E k : Holds(line, k, x)
  <2>1. PICK k : Holds(line, k, x) BY <1>1
  <2>2. InLine(line, x, ext) = Says(line[k], x) BY <2>1, InLineOfRun
  <2>3. line[k][1] \in Int /\ line[k][2] \in Int /\ line[k][1] <= x BY <2>1, RunTypes
  <2>4. InLine(line, x, ext) >= 0 <=> line[k][2] >= 0 BY <2>2, <2>3 DEF Says
  <2>5. \A j : Holds(line, j, x) => j = k BY <2>1, HoldsOnce
  <2> QED BY <2>1, <2>4, <2>5
<1>2. CASE ~\E k : Holds(line, k, x)
  <2>1. InLine(line, x, ext) = ext BY <1>2, InLineOfNone
  <2> QED BY <1>2, <2>1
<1> QED BY <1>1, <1>2

\* A voxel with data is in a run with data, and has its number.
LEMMA DataOfLine ==
  ASSUME NEW n \in Nat, NEW line, NumberedFrom(line, n), NEW x \in Int, NEW ext \in Int, ext < 0, InLine(line, x, ext) >= 0
  PROVE  \E k : /\ Holds(line, k, x) /\ line[k][2] >= 0
                /\ InLine(line, x, ext) = n + DefinedBefore(line)[k] + (x - line[k][1])
<1>1. IsLine(line) /\ Ascends(line) BY DEF NumberedFrom
<1>2. PICK k : Holds(line, k, x) /\ line[k][2] >= 0 BY <1>1, HasData
<1>3. InLine(line, x, ext) = Says(line[k], x) BY <1>1, <1>2, InLineOfRun
<1>4. k \in Runs(line) BY <1>2 DEF Holds
<1>5. line[k][2] = n + DefinedBefore(line)[k] BY <1>2, <1>4 DEF NumberedFrom
<1> QED BY <1>2, <1>3, <1>5 DEF Says

\* Along a scanline the data indices grow.
LEMMA DataGrows ==
  ASSUME NEW n \in Nat, NEW line, NumberedFrom(line, n), NEW ext \in Int, ext < 0,
         NEW x \in Int, InLine(line, x, ext) >= 0, NEW y \in Int, InLine(line, y, ext) >= 0, x < y
  PROVE InLine(line, x, ext) < InLine(line, y, ext)
<1>1. IsLine(line) /\ Ascends(line) BY DEF NumberedFrom
<1>2. PICK f : f = DefinedBefore(line) OBVIOUS
<1>3. PICK j : Holds(line, j, x) /\ line[j][2] >= 0 /\ InLine(line, x, ext) = n + f[j] + (x - line[j][1]) BY <1>2, DataOfLine
<1>4. PICK k : Holds(line, k, y) /\ line[k][2] >= 0 /\ InLine(line, y, ext) = n + f[k] + (y - line[k][1]) BY <1>2, DataOfLine
<1>5. /\ j \in Runs(line) /\ j + 1 \in 1..Len(line) /\ j \in 1..Len(line) /\ line[j][1] \in Int /\ line[j + 1][1] \in Int
      /\ x < line[j + 1][1] /\ line[j][1] <= x
  BY <1>1, <1>3, RunTypes
<1>6. /\ k \in Runs(line) /\ k + 1 \in 1..Len(line) /\ k \in 1..Len(line) /\ line[k][1] \in Int /\ line[k + 1][1] \in Int
      /\ y < line[k + 1][1] /\ line[k][1] <= y
  BY <1>1, <1>4, RunTypes
<1>7. /\ f \in [1..Len(line) -> Nat] /\ f[j + 1] = f[j] + Width(line, j)
      /\ \A a, b \in 1..Len(line) : a <= b => f[a] <= f[b]
  BY <1>1, <1>2, <1>5, CountsGrow
<1>8. f[j] \in Nat /\ f[k] \in Nat /\ f[j + 1] \in Nat BY <1>5, <1>6, <1>7
<1>9. CASE j = k
  <2>1. PICK p \in Int, c \in Int : p = line[j][1] /\ c = f[j] BY <1>5, <1>8
  <2>2. InLine(line, x, ext) = n + c + (x - p) BY <1>3, <2>1
  <2>3. InLine(line, y, ext) = n + c + (y - p) BY <1>4, <1>9, <2>1
  <2> QED BY <2>2, <2>3
<1>10. CASE j < k
  <2>1. f[j + 1] <= f[k] BY <1>5, <1>6, <1>7, <1>10
  <2>2. f[j + 1] = f[j] + (line[j + 1][1] - line[j][1]) BY <1>3, <1>7 DEF Width
  <2>3. PICK p \in Int, q \in Int, r \in Int, c \in Int, e \in Int : p = line[j][1] /\ q = line[j + 1][1] /\ r = line[k][1] /\ c = f[j] /\ e = f[k]
    <3>1. line[j][1] \in Int /\ line[j + 1][1] \in Int /\ line[k][1] \in Int /\ f[j] \in Int /\ f[k] \in Int BY <1>5, <1>6, <1>8
    <3> QED BY Zenon, <3>1
  <2>4. InLine(line, x, ext) = n + c + (x - p) BY <1>3, <2>3
  <2>5. InLine(line, y, ext) = n + e + (y - r) BY <1>4, <2>3
  <2>6. c + (q - p) <= e /\ x < q /\ r <= y BY <1>5, <1>6, <2>1, <2>2, <2>3
  <2> QED BY <2>4, <2>5, <2>6
<1>11. CASE k < j
  <2>1. line[k + 1][1] <= line[j][1]
    <3>1. k + 1 <= j BY <1>5, <1>6, <1>11
    <3> QED BY <1>1, <1>5, <1>6, <3>1, AscendsFar
  <2> QED BY SMTT(20), <1>5, <1>6, <2>1
<1>12. j \in Int /\ k \in Int BY <1>5, <1>6
<1> QED BY <1>9, <1>10, <1>11, <1>12

\* They are those that the scanline was given.
LEMMA DataRange ==
  ASSUME NEW n \in Nat, NEW line, NumberedFrom(line, n), NEW x \in Int, NEW ext \in Int, ext < 0, InLine(line, x, ext) >= 0
  PROVE InLine(line, x, ext) \in n..(n + DefinedIn(line) - 1) /\ line[1][1] <= x /\ x < line[Len(line)][1]
<1>1. IsLine(line) /\ Ascends(line) BY DEF NumberedFrom
<1>2. PICK f : f = DefinedBefore(line) OBVIOUS
<1>3. PICK j : Holds(line, j, x) /\ line[j][2] >= 0 /\ InLine(line, x, ext) = n + f[j] + (x - line[j][1]) BY <1>2, DataOfLine
<1>4. /\ j \in Runs(line) /\ j + 1 \in 1..Len(line) /\ j \in 1..Len(line) /\ line[j][1] \in Int /\ line[j + 1][1] \in Int
      /\ x < line[j + 1][1] /\ line[j][1] <= x
  BY <1>1, <1>3, RunTypes
<1>5. Len(line) \in Nat /\ Len(line) >= 2 /\ 1 \in 1..Len(line) /\ Len(line) \in 1..Len(line)
  <2>1. Len(line) \in Nat /\ Len(line) >= 2 BY <1>1, LineTypes
  <2> QED BY <2>1
<1>6. /\ f \in [1..Len(line) -> Nat] /\ f[j + 1] = f[j] + Width(line, j)
      /\ \A a, b \in 1..Len(line) : a <= b => f[a] <= f[b]
  BY <1>1, <1>2, <1>4, CountsGrow
<1>7. f[j] \in Nat /\ f[j + 1] \in Nat /\ f[Len(line)] \in Nat BY <1>4, <1>5, <1>6
<1>8. f[j + 1] <= f[Len(line)] BY <1>4, <1>5, <1>6
<1>9. f[j + 1] = f[j] + (line[j + 1][1] - line[j][1]) BY <1>3, <1>6 DEF Width
<1>10. line[1][1] <= line[j][1] /\ line[j + 1][1] <= line[Len(line)][1]
  <2>1. 1 <= j /\ j + 1 <= Len(line) BY <1>4
  <2> QED BY <1>1, <1>4, <1>5, <2>1, AscendsFar
<1>11. line[1][1] \in Int /\ line[Len(line)][1] \in Int BY <1>1, <1>5, LineTypes
<1>12. DefinedIn(line) = f[Len(line)] BY <1>2 DEF DefinedIn
<1>13. InLine(line, x, ext) \in n..(n + f[Len(line)] - 1)
  <2>1. PICK p \in Int, q \in Int, c \in Nat, e \in Nat : p = line[j][1] /\ q = line[j + 1][1] /\ c = f[j] /\ e = f[Len(line)]
    BY <1>4, <1>7
  <2>2. InLine(line, x, ext) = n + c + (x - p) BY <1>3, <2>1
  <2>3. c + (q - p) <= e /\ x < q /\ p <= x BY <1>4, <1>8, <1>9, <2>1
  <2>4. n + c + (x - p) \in n..(n + e - 1) BY <2>3
  <2> QED BY <2>1, <2>2, <2>4
<1> QED BY SMTT(20), <1>4, <1>10, <1>11, <1>12, <1>13

\* And all of those.
LEMMA DataOnto ==
  ASSUME NEW n \in Nat, NEW line, NumberedFrom(line, n), NEW ext \in Int, NEW d \in n..(n + DefinedIn(line) - 1)
  PROVE \E x \in Int : InLine(line, x, ext) = d
<1>1. IsLine(line) /\ Ascends(line) BY DEF NumberedFrom
<1>2. PICK f : f = DefinedBefore(line) OBVIOUS
<1>3. /\ f \in [1..Len(line) -> Nat] /\ f[1] = 0 /\ \A k \in Runs(line) : f[k + 1] = f[k] + Width(line, k)
  BY <1>1, <1>2, CountsGrow
<1>4. Len(line) \in Nat /\ Len(line) >= 2 BY <1>1, LineTypes
<1>5. f[Len(line)] \in Nat /\ DefinedIn(line) = f[Len(line)] BY <1>2, <1>3, <1>4 DEF DefinedIn
<1>6. PICK e \in Int : d = n + e /\ f[1] <= e /\ e < f[Len(line)]
  <2>1. d - n \in Int /\ d = n + (d - n) /\ 0 <= d - n /\ d - n < f[Len(line)] BY <1>5
  <2> QED BY <1>3, <2>1
<1>7. PICK i \in (1 + 1)..Len(line) : f[i - 1] <= e /\ e < f[i]
  <2>1. 1 \in Int /\ Len(line) \in Int /\ 1 <= Len(line) /\ \A k \in 1..Len(line) : f[k] \in Int BY <1>3, <1>4
  <2> QED BY <1>6, <2>1, Crossing
<1>8. PICK k \in Runs(line) : i = k + 1 /\ k \in 1..Len(line) /\ k + 1 \in 1..Len(line)
  <2>1. i - 1 \in Runs(line) /\ i = (i - 1) + 1 /\ i - 1 \in 1..Len(line) /\ i \in 1..Len(line) BY <1>4
  <2> QED BY <2>1
<1>9. f[k] <= e /\ e < f[k] + Width(line, k) /\ f[k] \in Nat
  <2>1. i - 1 = k BY <1>8
  <2> QED BY <1>3, <1>7, <1>8, <2>1
<1>10. line[k][1] \in Int /\ line[k + 1][1] \in Int /\ line[k][2] \in Int BY <1>1, <1>8, LineTypes
<1>11. line[k][2] >= 0 /\ Width(line, k) = line[k + 1][1] - line[k][1]
  <2>1. ~(line[k][2] >= 0) => Width(line, k) = 0 BY DEF Width
  <2>2. line[k][2] >= 0 => Width(line, k) = line[k + 1][1] - line[k][1] BY DEF Width
  <2> QED BY <1>9, <2>1, <2>2
<1>12. PICK p \in Int, q \in Int, c \in Nat : p = line[k][1] /\ q = line[k + 1][1] /\ c = f[k] BY <1>9, <1>10
<1>17. PICK x \in Int : x = p + (e - c) OBVIOUS
<1>13. Holds(line, k, x)
  <2>1. c <= e /\ e < c + (q - p) BY <1>9, <1>11, <1>12
  <2>2. p <= x /\ x < q BY <1>17, <2>1
  <2> QED BY <1>12, <2>2 DEF Holds
<1>14. InLine(line, x, ext) = Says(line[k], x) BY <1>1, <1>13, InLineOfRun
<1>15. line[k][2] = n + f[k] BY <1>2, <1>11 DEF NumberedFrom
<1>16. Says(line[k], x) = d
  <2>1. Says(line[k], x) = (n + c) + (x - p) BY <1>11, <1>12, <1>15 DEF Says
  <2> QED BY <1>6, <1>17, <2>1
<1> QED BY <1>14, <1>16

\* How many voxels of a line have data, and which one is the first, the second ...
LEMMA DataListed ==
  ASSUME NEW n \in Nat, NEW line, NumberedFrom(line, n), NEW ext \in Int, ext < 0, NEW s, NEW S \in SUBSET Int,
         Lists(s, S), \A x \in Int : x \in S <=> InLine(line, x, ext) >= 0
  PROVE Len(s) = DefinedIn(line) /\ \A i \in 1..Len(s) : InLine(line, s[i], ext) = n + i - 1
<1>1. IsLine(line) /\ Ascends(line) BY DEF NumberedFrom
<1>2. PICK m \in Nat : m = DefinedIn(line) BY <1>1, DefinedInNat
<1>3. s \in Seq(Int) BY DEF Lists
<1>4. PICK c \in Nat : c = Len(s) BY <1>3
<1>5. PICK t : t = [i \in 1..c |-> InLine(line, s[i], ext) - n] OBVIOUS
<1>6. \A i \in 1..c : s[i] \in Int /\ s[i] \in S /\ InLine(line, s[i], ext) >= 0 /\ InLine(line, s[i], ext) \in n..(n + m - 1)
  <2>1. SUFFICES ASSUME NEW i \in 1..c
                 PROVE  s[i] \in Int /\ s[i] \in S /\ InLine(line, s[i], ext) >= 0 /\ InLine(line, s[i], ext) \in n..(n + m - 1)
    OBVIOUS
  <2>2. s[i] \in Int /\ s[i] \in S BY <1>3, <1>4 DEF Lists
  <2>3. InLine(line, s[i], ext) >= 0 BY <2>2
  <2> QED BY <1>2, <2>2, <2>3, DataRange
<1>7. \A i \in 1..c : t[i] \in 0..(m - 1) /\ t[i] \in Int
  <2>1. SUFFICES ASSUME NEW i \in 1..c PROVE t[i] \in 0..(m - 1) OBVIOUS
  <2>2. t[i] = InLine(line, s[i], ext) - n /\ InLine(line, s[i], ext) \in n..(n + m - 1) BY <1>5, <1>6
  <2> QED BY <2>2
<1>8. t \in Seq(Int) /\ Len(t) = c
  <2>1. t \in [1..c -> Int] BY <1>5, <1>7
  <2> QED BY <2>1
<1>9. IsAscending(t)
  <2>1. SUFFICES ASSUME NEW i \in 1..c, NEW j \in 1..c, i < j PROVE t[i] < t[j] BY <1>8 DEF IsAscending
  <2>2. s[i] < s[j] BY <1>4, <2>1 DEF Lists, IsAscending
  <2>3. InLine(line, s[i], ext) < InLine(line, s[j], ext) BY <1>6, <2>2, DataGrows
  <2>4. t[i] = InLine(line, s[i], ext) - n /\ t[j] = InLine(line, s[j], ext) - n BY <1>5
  <2>5. InLine(line, s[i], ext) \in Int /\ InLine(line, s[j], ext) \in Int BY <1>6
  <2> QED BY <2>3, <2>4, <2>5
<1>10. ASSUME NEW d \in 0..(m - 1) PROVE \E i \in 1..c : t[i] = d
  <2>1. n + d \in n..(n + m - 1) OBVIOUS
  <2>2. PICK x \in Int : InLine(line, x, ext) = n + d BY <1>2, <2>1, DataOnto
  <2>3. x \in S
    <3>1. InLine(line, x, ext) >= 0 BY <2>2
    <3> QED BY <3>1
  <2>4. PICK i \in 1..c : s[i] = x BY <1>4, <2>3 DEF Lists
  <2>5. t[i] = d BY <1>5, <2>2, <2>4
  <2> QED BY <2>5
<1>11. Lists(t, 0..(m - 1)) BY <1>7, <1>8, <1>9, <1>10 DEF Lists
<1>12. c = m /\ \A i \in 1..m : t[i] = i - 1 BY <1>8, <1>11, ListsRange
<1>13. ASSUME NEW i \in 1..c PROVE InLine(line, s[i], ext) = n + i - 1
  <2>1. t[i] = i - 1 /\ t[i] = InLine(line, s[i], ext) - n /\ InLine(line, s[i], ext) \in Int BY <1>5, <1>6, <1>12
  <2> QED BY <2>1
<1> QED BY <1>2, <1>4, <1>12, <1>13

\* The scanline without voxels fits every box, and looking up in it says the exterior region.
LEMMA EmptyLineIs ==
  /\ IsLine(EmptyLine) /\ Ascends(EmptyLine) /\ Len(EmptyLine) = 2 /\ EmptyLine[1][1] = 0 /\ EmptyLine[2][1] = 0 /\ EmptyLine[1][2] = -1
  /\ \A lo, hi : Fits(EmptyLine, lo, hi)
  /\ \A x \in Int : \A ext : InLine(EmptyLine, x, ext) = ext
<1>1. EmptyLine \in Seq(Int \X Int) /\ Len(EmptyLine) = 2 BY DEF EmptyLine
<1>2. EmptyLine[1][1] = 0 /\ EmptyLine[2][1] = 0 /\ EmptyLine[1][2] = -1 BY DEF EmptyLine
<1>3. IsLine(EmptyLine) BY <1>1 DEF IsLine
<1>4. \A lo, hi : Fits(EmptyLine, lo, hi) BY <1>1, <1>2, <1>3 DEF Fits
<1>5. Ascends(EmptyLine) BY <1>4, FitsAscends
<1>6. ASSUME NEW x \in Int, NEW ext PROVE InLine(EmptyLine, x, ext) = ext
  <2>1. \A k : ~Holds(EmptyLine, k, x)
    <3>1. SUFFICES ASSUME NEW k, Holds(EmptyLine, k, x) PROVE FALSE OBVIOUS
    <3>2. k = 1 BY <1>1, <3>1 DEF Holds
    <3>3. EmptyLine[1][1] <= x /\ x < EmptyLine[1 + 1][1] BY <3>1, <3>2 DEF Holds
    <3> QED BY <1>2, <3>3
  <2> QED BY <1>3, <1>5, <2>1, InLineOfNone
<1> QED BY <1>1, <1>2, <1>3, <1>4, <1>5, <1>6

\* A scanline of a sound index spec.
LEMMA SoundLine ==
  ASSUME NEW ix, Sound(ix), NEW k \in 1..Len(ix.lines)
  PROVE IsLine(ix.lines[k]) /\ Ascends(ix.lines[k]) /\ Fits(ix.lines[k], ix.org[1], ix.org[1] + ix.size[1])
<1>1. Fits(ix.lines[k], ix.org[1], ix.org[1] + ix.size[1]) BY DEF Sound
<1> QED BY <1>1, FitsAscends

\* Which of the scanlines is looked up.
LEMMA LineAtIs ==
  ASSUME NEW ix, Sound(ix), NEW y \in Int, NEW z \in Int
  PROVE  /\ Fits(LineAt(ix, y, z), ix.org[1], ix.org[1] + ix.size[1]) /\ IsLine(LineAt(ix, y, z)) /\ Ascends(LineAt(ix, y, z))
         /\ LineAt(ix, y, z) = EmptyLine \/ \E k \in 1..Len(ix.lines) : LineAt(ix, y, z) = ix.lines[k]
<1>1. CASE HasLine(ix, y, z)
  <2>0. ix \in Indexes BY DEF Sound
  <2>1. PICK a \in Nat, b \in Nat, p \in Int, q \in Int :
          a = ix.size[2] /\ b = ix.size[3] /\ p = y - ix.org[2] /\ q = z - ix.org[3] /\ p \in 0..(a - 1) /\ q \in 0..(b - 1)
    <3>1. y - ix.org[2] \in Int /\ z - ix.org[3] \in Int /\ ix.size[2] \in Nat /\ ix.size[3] \in Nat /\ y - ix.org[2] \in 0..(ix.size[2] - 1) /\ z - ix.org[3] \in 0..(ix.size[3] - 1)
      BY <1>1, <2>0, IndexTypes DEF HasLine
    <3> QED BY Zenon, <3>1
  <2>2. p + a * q \in 0..(a * b - 1) BY <2>1, PlaceIn
  <2>3. a * b = Len(ix.lines) /\ a * b \in Nat
    <3>1. a * b \in Nat OBVIOUS
    <3>2. a * b = Len(ix.lines) BY <2>1 DEF Sound
    <3> QED BY <3>1, <3>2
  <2>4. PICK k \in 1..Len(ix.lines) : k = 1 + p + a * q
    <3>1. 1 + p + a * q = 1 + (p + a * q)
      <4>1. p \in Int /\ q \in Int BY <2>1
      <4> QED BY <4>1
    <3>2. 1 + (p + a * q) \in 1..(a * b) BY <2>2, <2>3
    <3> QED BY <2>3, <3>1, <3>2
  <2>5. LineAt(ix, y, z) = ix.lines[k] BY <1>1, <2>1, <2>4 DEF LineAt
  <2> QED BY <2>5, SoundLine
<1>2. CASE ~HasLine(ix, y, z)
  <2>1. LineAt(ix, y, z) = EmptyLine BY <1>2 DEF LineAt
  <2> QED BY <2>1, EmptyLineIs
<1> QED BY <1>1, <1>2

\* Voxels.
Voxels3 == Int \X Int \X Int

\* XYZtoDataIndex finds what walking over all the runs from the left finds.
THEOREM LookupIsWalk ==
  ASSUME NEW ix, Sound(ix), NEW x \in Int, NEW y \in Int, NEW z \in Int
  PROVE DataIndex(ix, <<x, y, z>>) = WalkedTo(ix, <<x, y, z>>)
<1>1. PICK line : line = LineAt(ix, y, z) OBVIOUS
<1>2. IsLine(line) /\ Ascends(line) BY <1>1, LineAtIs
<1>3. InLine(line, x, ix.ext) = Walked(line, x, ix.ext) BY <1>2, InLineIsWalked
<1>4. DataIndex(ix, <<x, y, z>>) = InLine(line, x, ix.ext) BY <1>1 DEF DataIndex
<1>5. WalkedTo(ix, <<x, y, z>>) = Walked(line, x, ix.ext) BY <1>1 DEF WalkedTo
<1> QED BY <1>3, <1>4, <1>5

\* The scanlines of a sound index spec are numbered on from each other.
LEMMA SoundNumbers ==
  ASSUME NEW ix, Sound(ix)
  PROVE  \E N : /\ IsNumbering(N, ix.lines, Len(ix.lines)) /\ ix.n = N[Len(ix.lines)]
                /\ \A k \in 1..Len(ix.lines) : NumberedFrom(ix.lines[k], N[k - 1])
<1>1. PICK N : AreNumbered(ix.lines, ix.n, N) BY DEF Sound
<1>2. \A k \in 1..Len(ix.lines) : NumberedFrom(ix.lines[k], N[k - 1])
  <2>1. \A k \in 1..Len(ix.lines) : IsLine(ix.lines[k]) /\ Ascends(ix.lines[k]) BY SoundLine
  <2> QED BY <1>1, <2>1 DEF AreNumbered, NumberedFrom
<1> QED BY <1>1, <1>2 DEF AreNumbered

\* A lookup gives a code or the index of a datum that there is.
LEMMA LookupRange ==
  ASSUME NEW ix, Sound(ix), NEW x \in Int, NEW y \in Int, NEW z \in Int
  PROVE DataIndex(ix, <<x, y, z>>) \in Int /\ DataIndex(ix, <<x, y, z>>) < ix.n
<1>0. ix \in Indexes BY DEF Sound
<1>1. PICK line : line = LineAt(ix, y, z) OBVIOUS
<1>2. IsLine(line) /\ Ascends(line) /\ (line = EmptyLine \/ \E k \in 1..Len(ix.lines) : line = ix.lines[k]) BY <1>1, LineAtIs
<1>3. PICK d : d = DataIndex(ix, <<x, y, z>>) OBVIOUS
<1>4. d = InLine(line, x, ix.ext) BY <1>1, <1>3 DEF DataIndex
<1>5. ix.ext \in Int /\ ix.ext < 0 /\ ix.n \in Nat /\ Len(ix.lines) \in Nat BY <1>0, IndexTypes
<1>6. d \in Int BY <1>2, <1>4, <1>5, InLineInt
<1>7. CASE d < 0 BY <1>3, <1>5, <1>6, <1>7
<1>8. CASE d >= 0
  <2>1. PICK k \in 1..Len(ix.lines) : line = ix.lines[k]
    <3>1. CASE line = EmptyLine
      <4>1. d = ix.ext BY <1>4, <3>1, EmptyLineIs
      <4> QED BY <1>5, <1>8, <4>1
    <3> QED BY <1>2, <3>1
  <2>2. PICK N : /\ IsNumbering(N, ix.lines, Len(ix.lines)) /\ ix.n = N[Len(ix.lines)]
                 /\ \A j \in 1..Len(ix.lines) : NumberedFrom(ix.lines[j], N[j - 1])
    BY SoundNumbers
  <2>3. PICK c \in Nat : c = Len(ix.lines) BY <1>5
  <2>4. k - 1 \in 0..c /\ k \in 0..c /\ c \in 0..c /\ k <= c BY <2>3
  <2>5. N[k - 1] \in Nat /\ N[k] \in Nat /\ N[c] \in Nat /\ N[k] = N[k - 1] + DefinedIn(line) BY <2>1, <2>2, <2>3, <2>4 DEF IsNumbering
  <2>6. GoodLines(ix.lines, c) BY <2>3, SoundLine DEF GoodLines
  <2>7. N[k] <= N[c] BY <2>2, <2>3, <2>4, <2>6, NumberingGrows
  <2>8. NumberedFrom(line, N[k - 1]) BY <2>1, <2>2
  <2>9. d \in N[k - 1]..(N[k - 1] + DefinedIn(line) - 1) BY <1>4, <1>5, <1>8, <2>5, <2>8, DataRange
  <2>10. DefinedIn(line) \in Nat BY <1>2, DefinedInNat
  <2>11. d < N[c] BY <2>5, <2>7, <2>9, <2>10
  <2> QED BY <1>3, <1>6, <2>2, <2>3, <2>11
<1> QED BY <1>5, <1>6, <1>7, <1>8

\* The scanline and the place on it of a voxel of the box.
IsPlaced(ix, a, k, m) ==
  /\ a \in Nat /\ m \in Nat /\ m % a \in 0..(a - 1) /\ m \div a \in 0..(Len(ix.lines) - 1) /\ m = (m % a) + a * (m \div a)
  /\ VoxelAt(ix, k) \in Voxels3
  /\ DataIndex(ix, VoxelAt(ix, k)) = InLine(ix.lines[1 + (m \div a)], ix.org[1] + (m % a), ix.ext)

\* The voxel of each place of the box.
LEMMA VoxelIs ==
  ASSUME NEW ix, Sound(ix), NEW a, a = ix.size[1], NEW k, k \in 1..Volume(ix), NEW m, m = k - 1
  PROVE IsPlaced(ix, a, k, m)
<1>0. ix \in Indexes BY DEF Sound
<1>1. PICK b \in Nat, c \in Nat : b = ix.size[2] /\ c = ix.size[3] BY <1>0, IndexTypes
<1>2. a \in Nat BY <1>0, IndexTypes
<1>3. PICK d \in Nat : d = b * c OBVIOUS
<1>4. d = Len(ix.lines) BY <1>1, <1>3 DEF Sound
<1>5. Volume(ix) = a * d
  <2>1. Volume(ix) = a * b * c BY <1>1 DEF Volume
  <2>2. a * b * c = a * (b * c) BY <1>2
  <2> QED BY <1>3, <2>1, <2>2
<1>6. m \in 0..(a * d - 1)
  <2>1. a * d \in Nat BY <1>2
  <2> QED BY <1>5, <2>1
<1>7. PICK p, q : p = m % a /\ q = m \div a OBVIOUS
<1>8. p \in 0..(a - 1) /\ q \in 0..(d - 1) /\ m = p + a * q BY <1>2, <1>6, <1>7, PlaceOf
<1>9. q \in 0..(b * c - 1) BY <1>3, <1>8
<1>10. q % b \in 0..(b - 1) /\ q \div b \in 0..(c - 1) /\ q = (q % b) + b * (q \div b) BY <1>9, PlaceOf
<1>11. PICK r \in Nat, s \in Nat : r = q % b /\ s = q \div b /\ r \in 0..(b - 1) /\ s \in 0..(c - 1) /\ q = r + b * s
  <2>1. q % b \in Nat /\ q \div b \in Nat BY <1>10
  <2> QED BY <1>10, <2>1
<1>12. m \div (a * b) = s
  <2>1. a \in Nat \ {0} /\ b \in Nat \ {0} /\ m \in Nat BY <1>2, <1>6, <1>8, <1>11
  <2>2. m \div (a * b) = (m \div a) \div b BY <2>1, DivDiv
  <2> QED BY <1>7, <1>11, <2>2
<1>13. PICK x \in Int, y \in Int, z \in Int : x = ix.org[1] + p /\ y = ix.org[2] + r /\ z = ix.org[3] + s
  <2>1. ix.org[1] \in Int /\ ix.org[2] \in Int /\ ix.org[3] \in Int BY <1>0, IndexTypes
  <2>2. p \in Int BY <1>8
  <2> QED BY SMTT(20), <2>1, <2>2
<1>14. VoxelAt(ix, k) = <<x, y, z>>
  <2>1. VoxelAt(ix, k) = Sum3(ix.org, <<m % a, (m \div a) % b, m \div (a * b)>>) BY <1>1 DEF VoxelAt
  <2>2. VoxelAt(ix, k) = Sum3(ix.org, <<p, r, s>>) BY <1>7, <1>11, <1>12, <2>1
  <2> QED BY <1>13, <2>2 DEF Sum3
<1>15. LineAt(ix, y, z) = ix.lines[1 + q]
  <2>1. ix.org[1] \in Int /\ ix.org[2] \in Int /\ ix.org[3] \in Int BY <1>0, IndexTypes
  <2>2. y - ix.org[2] = r /\ z - ix.org[3] = s BY <1>13, <2>1
  <2>3. HasLine(ix, y, z) BY <1>1, <1>11, <2>2 DEF HasLine
  <2>4. LineAt(ix, y, z) = ix.lines[1 + r + b * s] BY <1>1, <2>2, <2>3 DEF LineAt
  <2>5. 1 + r + b * s = 1 + q BY <1>11
  <2> QED BY <2>4, <2>5
<1>16. DataIndex(ix, <<x, y, z>>) = InLine(LineAt(ix, y, z), x, ix.ext) BY DEF DataIndex
<1>17. m \in Nat BY <1>6
<1>18. m % a \in 0..(a - 1) /\ m \div a \in 0..(Len(ix.lines) - 1) BY <1>4, <1>7, <1>8
<1>19. m = (m % a) + a * (m \div a) BY Zenon, <1>7, <1>8
<1>20. VoxelAt(ix, k) \in Voxels3 BY <1>13, <1>14 DEF Voxels3
<1>21. DataIndex(ix, VoxelAt(ix, k)) = InLine(ix.lines[1 + q], x, ix.ext) BY Zenon, <1>14, <1>15, <1>16
<1>22. 1 + (m \div a) = 1 + q /\ ix.org[1] + (m % a) = x BY Zenon, <1>7, <1>13
<1>23. DataIndex(ix, VoxelAt(ix, k)) = InLine(ix.lines[1 + (m \div a)], ix.org[1] + (m % a), ix.ext) BY Zenon, <1>21, <1>22
<1> QED BY Zenon, <1>2, <1>17, <1>18, <1>19, <1>20, <1>23 DEF IsPlaced

\* Every voxel of the box is there.
LEMMA VoxelThere ==
  ASSUME NEW ix, Sound(ix), NEW a, a = ix.size[1], NEW p \in 0..(a - 1), NEW q \in 0..(Len(ix.lines) - 1)
  PROVE 1 + (p + a * q) \in 1..Volume(ix) /\ DataIndex(ix, VoxelAt(ix, 1 + (p + a * q))) = InLine(ix.lines[1 + q], ix.org[1] + p, ix.ext)
<1>0. ix \in Indexes BY DEF Sound
<1>1. PICK b \in Nat, c \in Nat : b = ix.size[2] /\ c = ix.size[3] BY <1>0, IndexTypes
<1>2. a \in Nat BY <1>0, IndexTypes
<1>3. PICK d \in Nat : d = b * c OBVIOUS
<1>4. d = Len(ix.lines) BY <1>1, <1>3 DEF Sound
<1>5. Volume(ix) = a * d
  <2>1. Volume(ix) = a * b * c BY <1>1 DEF Volume
  <2>2. a * b * c = a * (b * c) BY <1>2
  <2> QED BY <1>3, <2>1, <2>2
<1>6. PICK m : m = p + a * q OBVIOUS
<1>7. m \in 0..(a * d - 1) /\ m \div a = q /\ m % a = p
  <2>1. q \in 0..(d - 1) BY <1>4
  <2>2. IsAt(a, d, m, p, q) BY <1>2, <1>6, <2>1, PlacedIn
  <2> QED BY Zenon, <2>2 DEF IsAt
<1>8. PICK k : k = 1 + m OBVIOUS
<1>9. k \in 1..Volume(ix) /\ m = k - 1
  <2>1. a * d \in Nat BY <1>2
  <2> QED BY <1>5, <1>7, <1>8, <2>1
<1>10. DataIndex(ix, VoxelAt(ix, k)) = InLine(ix.lines[1 + (m \div a)], ix.org[1] + (m % a), ix.ext)
  <2>1. IsPlaced(ix, a, k, m) BY <1>9, VoxelIs
  <2> QED BY <2>1 DEF IsPlaced
<1>11. DataIndex(ix, VoxelAt(ix, k)) = InLine(ix.lines[1 + q], ix.org[1] + p, ix.ext) BY Zenon, <1>7, <1>10
<1>12. k = 1 + (p + a * q) BY Zenon, <1>6, <1>8
<1> QED BY Zenon, <1>9, <1>11, <1>12

\* The voxels with data have the indices 0, 1, 2 ... in the order of the box.
LEMMA CoordsAre ==
  ASSUME NEW ix, Sound(ix)
  PROVE  /\ Len(Coords(ix)) = ix.n /\ Coords(ix) \in Seq(Voxels3)
         /\ \A i \in 1..ix.n : DataIndex(ix, Coords(ix)[i]) = i - 1
<1>0. ix \in Indexes BY DEF Sound
<1>1. PICK a \in Nat, ext \in Int, n \in Nat, c \in Nat, o \in Int, V \in Nat :
        a = ix.size[1] /\ ext = ix.ext /\ n = ix.n /\ c = Len(ix.lines) /\ o = ix.org[1] /\ V = Volume(ix)
  <2>1. Volume(ix) \in Nat
    <3>1. \A s, t, u \in Nat : s * t * u \in Nat OBVIOUS
    <3>2. ix.size[1] \in Nat /\ ix.size[2] \in Nat /\ ix.size[3] \in Nat BY <1>0, IndexTypes
    <3> QED BY <3>1, <3>2 DEF Volume
  <2>2. ix.size[1] \in Nat /\ ix.ext \in Int /\ ix.n \in Nat /\ Len(ix.lines) \in Nat /\ ix.org[1] \in Int BY <1>0, IndexTypes
  <2> QED BY Zenon, <2>1, <2>2
<1>2. ext < 0 BY <1>0, <1>1, IndexTypes
<1>3. PICK N : /\ IsNumbering(N, ix.lines, c) /\ n = N[c] /\ \A k \in 1..c : NumberedFrom(ix.lines[k], N[k - 1])
  BY <1>1, SoundNumbers
<1>4. GoodLines(ix.lines, c) BY <1>1, SoundLine DEF GoodLines
<1> DEFINE D(k) == DataIndex(ix, VoxelAt(ix, k))
           S == {k \in 1..V : D(k) >= 0}
           L(k) == 1 + ((k - 1) \div a)
           X(k) == o + ((k - 1) % a)
<1>5. ASSUME NEW k \in 1..V
      PROVE  /\ L(k) \in 1..c /\ X(k) \in Int /\ k = 1 + (X(k) - o) + a * (L(k) - 1) /\ X(k) \in o..(o + a - 1)
             /\ D(k) = InLine(ix.lines[L(k)], X(k), ext) /\ VoxelAt(ix, k) \in Voxels3
  <2>1. PICK m : m = k - 1 OBVIOUS
  <2>2. /\ m \in Nat /\ m % a \in 0..(a - 1) /\ m \div a \in 0..(c - 1) /\ m = (m % a) + a * (m \div a) /\ VoxelAt(ix, k) \in Voxels3
        /\ DataIndex(ix, VoxelAt(ix, k)) = InLine(ix.lines[1 + (m \div a)], o + (m % a), ext)
    <3>1. k \in 1..Volume(ix) /\ a = ix.size[1] BY <1>1
    <3>2. IsPlaced(ix, a, k, m) BY <2>1, <3>1, VoxelIs
    <3> QED BY Zenon, <1>1, <3>2 DEF IsPlaced
  <2>3. L(k) = 1 + (m \div a) /\ X(k) = o + (m % a) BY <2>1
  <2>4. PICK p \in Int, q \in Int : p = m % a /\ q = m \div a BY <2>2
  <2> HIDE DEF L, X
  <2>5. L(k) - 1 = q /\ X(k) - o = p BY <2>3, <2>4
  <2>6. k = 1 + p + a * q
    <3>1. a * q \in Int /\ m = p + a * q BY <2>2, <2>4
    <3> QED BY <2>1, <3>1
  <2>7. L(k) \in 1..c /\ X(k) \in Int /\ X(k) \in o..(o + a - 1) BY <2>2, <2>3
  <2> QED BY <2>2, <2>3, <2>5, <2>6, <2>7
<1> HIDE DEF L, X
<1>6. ASSUME NEW k \in S PROVE D(k) \in N[L(k) - 1]..(N[L(k)] - 1) /\ N[L(k)] \in Nat /\ N[L(k) - 1] \in Nat
  <2>0. k \in 1..V /\ D(k) >= 0 OBVIOUS
  <2>1. L(k) \in 1..c /\ X(k) \in Int /\ D(k) = InLine(ix.lines[L(k)], X(k), ext) BY <1>5, <2>0
  <2>2. L(k) - 1 \in 0..c /\ L(k) \in 0..c BY <2>1
  <2>3. N[L(k) - 1] \in Nat /\ N[L(k)] \in Nat /\ N[L(k)] = N[L(k) - 1] + DefinedIn(ix.lines[L(k)]) BY <1>3, <2>1, <2>2 DEF IsNumbering
  <2>4. NumberedFrom(ix.lines[L(k)], N[L(k) - 1]) BY <1>3, <2>1
  <2>5. InLine(ix.lines[L(k)], X(k), ext) \in N[L(k) - 1]..(N[L(k) - 1] + DefinedIn(ix.lines[L(k)]) - 1)
    BY <1>2, <2>0, <2>1, <2>3, <2>4, DataRange
  <2>6. PICK u \in Int, v \in Int, w \in Int : u = N[L(k) - 1] /\ v = N[L(k)] /\ w = DefinedIn(ix.lines[L(k)]) /\ v = u + w
    <3>1. DefinedIn(ix.lines[L(k)]) \in Nat
      <4>1. IsLine(ix.lines[L(k)]) /\ Ascends(ix.lines[L(k)]) BY <2>4 DEF NumberedFrom
      <4> QED BY <4>1, DefinedInNat
    <3> QED BY <2>3, <3>1
  <2>7. D(k) \in u..(u + w - 1) BY Zenon, <2>1, <2>5, <2>6
  <2> HIDE DEF D
  <2>8. D(k) \in u..(v - 1) BY <2>6, <2>7
  <2> QED BY Zenon, <2>3, <2>6, <2>8
<1>7. ASSUME NEW j \in S, NEW k \in S, j < k PROVE D(j) < D(k)
  <2>0. j \in 1..V /\ D(j) >= 0 /\ k \in 1..V /\ D(k) >= 0 OBVIOUS
  <2>1. L(j) \in 1..c /\ X(j) \in Int /\ D(j) = InLine(ix.lines[L(j)], X(j), ext) /\ j = 1 + (X(j) - o) + a * (L(j) - 1) /\ X(j) \in o..(o + a - 1)
    BY <1>5, <2>0
  <2>2. L(k) \in 1..c /\ X(k) \in Int /\ D(k) = InLine(ix.lines[L(k)], X(k), ext) /\ k = 1 + (X(k) - o) + a * (L(k) - 1) /\ X(k) \in o..(o + a - 1)
    BY <1>5, <2>0
  <2>3. CASE L(j) = L(k)
    <3>1. X(j) < X(k)
      <4>1. PICK w \in Int : w = a * (L(j) - 1)
        <5>1. L(j) - 1 \in Int BY <2>1
        <5>2. a * (L(j) - 1) \in Int BY <5>1
        <5> QED BY <5>2
      <4>2. j = 1 + (X(j) - o) + w /\ k = 1 + (X(k) - o) + w BY <2>1, <2>2, <2>3, <4>1
      <4> QED BY <1>7, <2>1, <2>2, <4>2
    <3>2. L(k) - 1 \in 0..c BY <2>2
    <3>3. N[L(k) - 1] \in Nat /\ NumberedFrom(ix.lines[L(k)], N[L(k) - 1]) BY <1>3, <2>2, <3>2 DEF IsNumbering
    <3> HIDE DEF D
    <3> QED BY <1>2, <2>0, <2>1, <2>2, <2>3, <3>1, <3>3, DataGrows
  <2>4. CASE L(j) < L(k)
    <3>1. L(j) \in 0..c /\ L(k) - 1 \in 0..c /\ L(j) <= L(k) - 1 BY <2>1, <2>2, <2>4
    <3>2. N[L(j)] <= N[L(k) - 1] BY <1>3, <1>4, <3>1, NumberingGrows
    <3>3. D(j) \in N[L(j) - 1]..(N[L(j)] - 1) /\ D(k) \in N[L(k) - 1]..(N[L(k)] - 1) BY <1>6
    <3>4. N[L(j)] \in Nat /\ N[L(k) - 1] \in Nat /\ N[L(j) - 1] \in Nat /\ N[L(k)] \in Nat BY <1>6
    <3> HIDE DEF D
    <3> QED BY <3>2, <3>3, <3>4
  <2>5. CASE L(k) < L(j)
    <3>1. PICK p \in Int, q \in Int : p = L(k) - 1 /\ q = L(j) - 1 /\ p < q
      <4>1. L(k) - 1 \in Int /\ L(j) - 1 \in Int /\ L(k) - 1 < L(j) - 1 BY <2>1, <2>2, <2>5
      <4> QED BY <4>1
    <3>2. a * p + a <= a * q BY <3>1, ProductSmaller
    <3>3. PICK v \in Int, w \in Int : v = a * p /\ w = a * q OBVIOUS
    <3>4. j = 1 + (X(j) - o) + w /\ k = 1 + (X(k) - o) + v BY <2>1, <2>2, <3>1, <3>3
    <3> QED BY <1>7, <2>1, <2>2, <3>2, <3>3, <3>4
  <2>6. L(j) \in Int /\ L(k) \in Int BY <2>1, <2>2
  <2> QED BY <2>3, <2>4, <2>5, <2>6
<1>8. ASSUME NEW d \in 0..(n - 1) PROVE \E k \in S : D(k) = d
  <2>1. N[0] = 0 /\ N[c] = n /\ N \in [0..c -> Nat] BY <1>3 DEF IsNumbering
  <2>2. PICK l \in (0 + 1)..c : N[l - 1] <= d /\ d < N[l]
    <3>1. 0 \in Int /\ c \in Int /\ 0 <= c /\ (\A k \in 0..c : N[k] \in Int) /\ d \in Int /\ N[0] <= d /\ d < N[c] BY <2>1
    <3> QED BY <3>1, Crossing
  <2>3. l \in 1..c /\ l - 1 \in 0..c BY <2>2
  <2>4. NumberedFrom(ix.lines[l], N[l - 1]) /\ N[l - 1] \in Nat /\ N[l] = N[l - 1] + DefinedIn(ix.lines[l])
    BY <1>3, <2>1, <2>3 DEF IsNumbering
  <2>5. DefinedIn(ix.lines[l]) \in Nat
    <3>1. IsLine(ix.lines[l]) /\ Ascends(ix.lines[l]) BY <2>4 DEF NumberedFrom
    <3> QED BY <3>1, DefinedInNat
  <2>6. d \in N[l - 1]..(N[l - 1] + DefinedIn(ix.lines[l]) - 1) BY <2>2, <2>4, <2>5
  <2>7. PICK x \in Int : InLine(ix.lines[l], x, ext) = d BY <2>4, <2>6, DataOnto
  <2>8. InLine(ix.lines[l], x, ext) >= 0 BY <2>7
  <2>9. x \in o..(o + a - 1)
    <3>1. ix.lines[l][1][1] <= x /\ x < ix.lines[l][Len(ix.lines[l])][1] BY <1>2, <2>4, <2>8, DataRange
    <3>2. Fits(ix.lines[l], o, o + a) BY <1>1, <2>3 DEF Sound
    <3>3. IsLine(ix.lines[l]) BY <3>2 DEF Fits
    <3>4. Len(ix.lines[l]) \in Nat /\ Len(ix.lines[l]) >= 2 BY <3>3, LineTypes
    <3>5. 1 \in 1..Len(ix.lines[l]) /\ Len(ix.lines[l]) \in 1..Len(ix.lines[l]) BY <3>4
    <3>6. ix.lines[l][1][1] \in Int /\ ix.lines[l][Len(ix.lines[l])][1] \in Int BY <3>3, <3>5, LineTypes
    <3>7. ~(Len(ix.lines[l]) = 2 /\ ix.lines[l][1][1] = ix.lines[l][2][1])
      <4>1. SUFFICES ASSUME Len(ix.lines[l]) = 2, ix.lines[l][1][1] = ix.lines[l][2][1] PROVE FALSE OBVIOUS
      <4>2. ix.lines[l][1][1] <= x /\ x < ix.lines[l][1][1] BY <3>1, <4>1
      <4> QED BY <3>6, <4>2
    <3>8. ix.lines[l][1][1] >= o /\ ix.lines[l][Len(ix.lines[l])][1] <= o + a BY <3>2, <3>7 DEF Fits
    <3>9. PICK f \in Int, g \in Int : f = ix.lines[l][1][1] /\ g = ix.lines[l][Len(ix.lines[l])][1] BY <3>6
    <3>10. f <= x /\ x < g /\ f >= o /\ g <= o + a BY Zenon, <3>1, <3>8, <3>9
    <3> QED BY <3>9, <3>10
  <2>10. PICK p \in 0..(a - 1) : x = o + p
    <3>1. x - o \in 0..(a - 1) /\ x = o + (x - o) BY <2>9
    <3> QED BY <3>1
  <2>11. PICK q \in 0..(c - 1) : l = 1 + q
    <3>1. l - 1 \in 0..(c - 1) /\ l = 1 + (l - 1) BY <2>3
    <3> QED BY <3>1
  <2>12. 1 + (p + a * q) \in 1..V /\ D(1 + (p + a * q)) = InLine(ix.lines[1 + q], o + p, ext) BY <1>1, VoxelThere
  <2>13. D(1 + (p + a * q)) = d BY <2>7, <2>10, <2>11, <2>12
  <2>14. 1 + (p + a * q) \in S BY <2>8, <2>7, <2>12, <2>13
  <2> QED BY <2>13, <2>14
<1>9. PICK s : s = Ascending(S) /\ Lists(s, S)
  <2>1. S \in SUBSET (1..V) /\ 1 \in Int /\ V \in Int OBVIOUS
  <2> HIDE DEF S
  <2> QED BY <2>1, AscendingIs
<1>10. Coords(ix) = VoxelsAt(ix, s) BY <1>1, <1>9 DEF Coords
<1>11. s \in Seq(Int) /\ IsAscending(s) /\ (\A i \in 1..Len(s) : s[i] \in S) /\ \A x \in S : \E i \in 1..Len(s) : s[i] = x
  BY <1>9 DEF Lists
<1>12. PICK m \in Nat : m = Len(s) BY <1>11
<1>13. PICK t : t = [i \in 1..m |-> D(s[i])] OBVIOUS
<1>14. \A i \in 1..m : t[i] \in 0..(n - 1)
  <2>1. SUFFICES ASSUME NEW i \in 1..m PROVE t[i] \in 0..(n - 1) OBVIOUS
  <2>2. PICK k \in S : k = s[i] BY <1>11, <1>12
  <2>3. k \in 1..V /\ D(k) >= 0 OBVIOUS
  <2>4. D(k) \in Int /\ D(k) < n
    <3>1. PICK x \in Int, y \in Int, z \in Int : VoxelAt(ix, k) = <<x, y, z>> BY <1>5, <2>3 DEF Voxels3
    <3> QED BY <1>1, <3>1, LookupRange
  <2> QED BY <1>13, <2>2, <2>3, <2>4
<1>15. t \in Seq(Int) /\ Len(t) = m
  <2>1. t \in [1..m -> Int] BY <1>13, <1>14
  <2> QED BY <2>1
<1>16. IsAscending(t)
  <2>1. SUFFICES ASSUME NEW i \in 1..m, NEW j \in 1..m, i < j PROVE t[i] < t[j] BY <1>15 DEF IsAscending
  <2>2. s[i] < s[j] /\ s[i] \in S /\ s[j] \in S BY <1>11, <1>12, <2>1 DEF IsAscending
  <2>3. D(s[i]) < D(s[j]) BY <1>7, <2>2
  <2> QED BY <1>13, <2>3
<1>17. ASSUME NEW d \in 0..(n - 1) PROVE \E i \in 1..m : t[i] = d
  <2>1. PICK k \in S : D(k) = d BY <1>8
  <2>2. PICK i \in 1..m : s[i] = k BY <1>11, <1>12
  <2>3. t[i] = d BY <1>13, <2>1, <2>2
  <2> QED BY <2>3
<1>18. Lists(t, 0..(n - 1)) BY <1>14, <1>15, <1>16, <1>17 DEF Lists
<1>19. m = n /\ \A i \in 1..n : t[i] = i - 1 BY <1>15, <1>18, ListsRange
<1>20. Coords(ix) = [i \in 1..n |-> VoxelAt(ix, s[i])] BY <1>10, <1>12, <1>19 DEF VoxelsAt
<1>21. \A i \in 1..n : DataIndex(ix, Coords(ix)[i]) = i - 1 BY <1>13, <1>19, <1>20
<1>22. \A i \in 1..n : VoxelAt(ix, s[i]) \in Voxels3
  <2>1. SUFFICES ASSUME NEW i \in 1..n PROVE VoxelAt(ix, s[i]) \in Voxels3 OBVIOUS
  <2>2. s[i] \in 1..V BY <1>11, <1>12, <1>19
  <2> QED BY <1>5, <2>2
<1>23. Coords(ix) \in Seq(Voxels3) /\ Len(Coords(ix)) = n
  <2>1. Coords(ix) \in [1..n -> Voxels3] BY <1>20, <1>22
  <2> QED BY <2>1
<1> QED BY <1>1, <1>21, <1>23

\* The class of a data index is 0, and that of a region is the region.
LEMMA ClassIs ==
  ASSUME NEW c, c \in Int
  PROVE  /\ Class(c) \in Int /\ (c >= 0 => Class(c) = 0) /\ (c < 0 => Class(c) = c) /\ Class(Class(c)) = Class(c)
         /\ (Class(c) >= 0 <=> c >= 0)
BY DEF Class

\* What the codes that are joined begin at: S[i] is where the code i begins and the one before it ends.
IsCut(S, starts, codes, end) ==
  /\ codes \in Seq(Int)
  /\ \A i \in 1..(Len(codes) + 1) : S[i] \in Int
  /\ \A i \in 1..Len(codes) : S[i] = starts[i] /\ S[i] < S[i + 1]
  /\ S[Len(codes) + 1] = end

\* The entries of the line that they are joined to: cc[j] is the first code of the run j.
IsJoined(cc, line, S, codes, ext) ==
  /\ cc \in Seq(Int) /\ Len(cc) >= 2 /\ IsAscending(cc) /\ \A j \in 1..Len(cc) : cc[j] \in 1..(Len(codes) + 1)
  /\ line \in Seq(Int \X Int) /\ Len(line) = Len(cc)
  /\ \A j \in 1..Len(cc) : line[j][1] = S[cc[j]]
  /\ \A j \in 1..(Len(cc) - 1) : \A i \in cc[j]..(cc[j + 1] - 1) : line[j][2] = Class(codes[i])
  /\ \A i \in 1..Len(codes) : i < cc[1] \/ i >= cc[Len(cc)] => Class(codes[i]) = ext
  /\ \A j \in 1..(Len(cc) - 2) : line[j][2] # line[j + 1][2]
  /\ line[1][2] # ext /\ line[Len(cc) - 1][2] # ext

\* A run starts at code i.
ChangeAt(codes, ext, i) == Class(codes[i]) # IF i = 1 THEN ext ELSE Class(codes[i - 1])

\* Changes lists where the runs start.
LEMMA ChangesAre ==
  ASSUME NEW codes \in Seq(Int), NEW ext
  PROVE Lists(Changes(codes, ext), {i \in 1..Len(codes) : ChangeAt(codes, ext, i)})
<1> DEFINE C == {i \in 1..Len(codes) : ChangeAt(codes, ext, i)}
<1>1. Changes(codes, ext) = Ascending(C) BY DEF Changes, ChangeAt
<1>2. C \in SUBSET (1..Len(codes)) /\ 1 \in Int /\ Len(codes) \in Int OBVIOUS
<1> HIDE DEF C
<1> QED BY <1>1, <1>2, AscendingIs DEF C

\* Between two changes the class stays.
LEMMA ClassStays ==
  ASSUME NEW codes \in Seq(Int), NEW ext, NEW a \in 1..Len(codes), NEW b \in 1..Len(codes), a <= b,
         \A i \in (a + 1)..b : ~ChangeAt(codes, ext, i)
  PROVE Class(codes[b]) = Class(codes[a])
<1> DEFINE T == {i \in a..b : Class(codes[i]) = Class(codes[a])}
<1>1. a \in T OBVIOUS
<1>2. ASSUME NEW i \in a..(b - 1), i \in T PROVE i + 1 \in T
  <2>1. i + 1 \in (a + 1)..b /\ i + 1 \in a..b /\ i + 1 # 1 /\ (i + 1) - 1 = i OBVIOUS
  <2>2. Class(codes[i + 1]) = Class(codes[i]) BY <2>1 DEF ChangeAt
  <2> QED BY <1>2, <2>1, <2>2
<1> HIDE DEF T
<1>3. b \in T
  <2>0. a \in Int /\ b \in Int OBVIOUS
  <2>1. \A i \in a..b : i \in T BY <1>1, <1>2, <2>0, InductionFrom
  <2> QED BY <2>1
<1> QED BY <1>3 DEF T

\* Before the first change all is of the exterior region.
LEMMA ClassBefore ==
  ASSUME NEW codes \in Seq(Int), NEW ext, NEW b \in 1..Len(codes), \A i \in 1..b : ~ChangeAt(codes, ext, i)
  PROVE Class(codes[b]) = ext
<1>1. 1 \in 1..Len(codes) /\ 1 \in 1..b /\ 1 <= b OBVIOUS
<1>2. \A i \in (1 + 1)..b : ~ChangeAt(codes, ext, i) OBVIOUS
<1>3. Class(codes[b]) = Class(codes[1]) BY <1>1, <1>2, ClassStays
<1>4. Class(codes[1]) = ext BY <1>1 DEF ChangeAt
<1> QED BY <1>3, <1>4

\* A line without changes is empty.
LEMMA NoChanges ==
  ASSUME NEW codes \in Seq(Int), NEW ext, NEW starts, NEW end, Changes(codes, ext) = <<>>
  PROVE Coalesced(starts, codes, end, ext) = EmptyLine /\ \A i \in 1..Len(codes) : Class(codes[i]) = ext
<1>1. \A i \in 1..Len(codes) : ~ChangeAt(codes, ext, i) BY ChangesAre DEF Lists
<1>2. ASSUME NEW i \in 1..Len(codes) PROVE Class(codes[i]) = ext
  <2>1. \A k \in 1..i : ~ChangeAt(codes, ext, k) BY <1>1
  <2> QED BY <2>1, ClassBefore
<1> QED BY <1>2 DEF Coalesced, Joined

\* The changes, and the end if the last code is not that of the exterior.
EndsOf(c, codes, ext) == IF codes[Final(c)] # ext THEN Append(c, Len(codes) + 1) ELSE c

\* The line that Coalesced makes.
LEMMA JoinedIs ==
  ASSUME NEW codes, NEW ext \in Int, ext < 0, NEW starts, NEW end, NEW S, IsCut(S, starts, codes, end),
         NEW c, c = Changes(codes, ext), c # <<>>, NEW cc, cc = EndsOf(c, codes, ext)
  PROVE IsJoined(cc, Coalesced(starts, codes, end, ext), S, codes, ext)
<1>1. PICK m \in Nat : m = Len(codes) BY DEF IsCut
<1>2. codes \in Seq(Int) /\ \A i \in 1..m : codes[i] \in Int /\ Class(codes[i]) \in Int BY <1>1, ClassIs DEF IsCut
<1>3. Lists(c, {i \in 1..Len(codes) : ChangeAt(codes, ext, i)}) BY <1>2, ChangesAre
<1>4. PICK r \in Nat : r = Len(c) /\ r >= 1
  <2>1. c \in Seq(Int) BY <1>3 DEF Lists
  <2> QED BY <2>1
<1>5. c \in Seq(Int) /\ IsAscending(c) /\ \A j \in 1..r : c[j] \in 1..m /\ c[j] \in Int /\ ChangeAt(codes, ext, c[j])
  BY <1>1, <1>3, <1>4 DEF Lists
<1>6. \A i \in 1..m : ChangeAt(codes, ext, i) => \E j \in 1..r : c[j] = i BY <1>1, <1>3, <1>4 DEF Lists
<1>7. \A j, k \in 1..r : j < k => c[j] < c[k] BY <1>4, <1>5 DEF IsAscending
<1>8. PICK line : line = Coalesced(starts, codes, end, ext) OBVIOUS
<1>9. line = [j \in 1..r |-> <<starts[c[j]], Class(codes[c[j]])>>] \o IF codes[c[r]] # ext THEN <<<<end, -1>>>> ELSE <<>>
  BY <1>4, <1>8 DEF Coalesced, Joined
<1>10. PICK first : first = [j \in 1..r |-> <<starts[c[j]], Class(codes[c[j]])>>] OBVIOUS
<1>11. \A j \in 1..r : first[j] \in Int \X Int /\ first[j][1] = S[c[j]] /\ first[j][2] = Class(codes[c[j]])
  <2>1. SUFFICES ASSUME NEW j \in 1..r PROVE first[j] \in Int \X Int /\ first[j][1] = S[c[j]] /\ first[j][2] = Class(codes[c[j]]) OBVIOUS
  <2>2. c[j] \in 1..m BY <1>5
  <2>3. starts[c[j]] = S[c[j]] /\ S[c[j]] \in Int BY <1>1, <2>2 DEF IsCut
  <2>4. Class(codes[c[j]]) \in Int BY <1>2, <2>2
  <2> QED BY <1>10, <2>3, <2>4
<1>12. first \in Seq(Int \X Int) /\ Len(first) = r
  <2>1. first \in [1..r -> Int \X Int] BY <1>10, <1>11
  <2> QED BY <2>1
<1>13. PICK x \in 1..m : x = c[r] BY <1>4, <1>5
<1>14. codes[x] \in Int /\ Class(codes[x]) \in Int BY <1>2
<1>15. ASSUME NEW j \in 1..r, NEW i \in c[j]..m, j < r => i < c[j + 1] PROVE Class(codes[i]) = Class(codes[c[j]])
  <2>1. c[j] \in 1..m /\ i \in 1..m /\ c[j] <= i BY <1>5
  <2>2. ASSUME NEW k \in (c[j] + 1)..i, ChangeAt(codes, ext, k) PROVE FALSE
    <3>1. k \in 1..m BY <2>1
    <3>2. PICK l \in 1..r : c[l] = k BY <1>6, <2>2, <3>1
    <3>3. c[j] < c[l] /\ c[l] <= i BY <2>1, <3>2
    <3>4. j < l
      <4>1. SUFFICES ASSUME l <= j PROVE FALSE OBVIOUS
      <4>2. CASE l = j BY <2>1, <3>3, <4>2
      <4>3. CASE l < j
        <5>1. c[l] < c[j] BY <1>7, <4>3
        <5> QED BY <1>5, <3>3, <5>1
      <4> QED BY <4>1, <4>2, <4>3
    <3>5. j < r /\ j + 1 \in 1..r BY <3>4
    <3>6. CASE l = j + 1
      <4>1. i < c[l] /\ i \in Int /\ c[l] \in Int BY <1>5, <1>15, <3>5, <3>6
      <4> QED BY <3>3, <4>1
    <3>7. CASE j + 1 < l
      <4>1. c[j + 1] < c[l] BY <1>7, <3>5, <3>7
      <4>2. i < c[j + 1] /\ i \in Int /\ c[j + 1] \in Int /\ c[l] \in Int BY <1>5, <1>15, <3>5
      <4> QED BY <3>3, <4>1, <4>2
    <3> QED BY <3>4, <3>6, <3>7
  <2>3. i \in 1..Len(codes) /\ c[j] \in 1..Len(codes) BY <1>1, <2>1
  <2> QED BY <1>2, <2>1, <2>2, <2>3, ClassStays
<1>16. ASSUME NEW i \in 1..m, i < c[1] PROVE Class(codes[i]) = ext
  <2>1. ASSUME NEW k \in 1..i, ChangeAt(codes, ext, k) PROVE FALSE
    <3>1. k \in 1..m OBVIOUS
    <3>2. PICK l \in 1..r : c[l] = k BY <1>6, <2>1, <3>1
    <3>3. 1 \in 1..r BY <1>4
    <3>4. c[1] <= c[l]
      <4>1. CASE l = 1 BY <1>5, <3>3, <4>1
      <4>2. CASE 1 < l
        <5>1. c[1] < c[l] BY <1>7, <3>3, <4>2
        <5> QED BY <1>5, <3>3, <5>1
      <4> QED BY <4>1, <4>2
    <3>5. c[1] \in Int BY <1>5, <3>3
    <3> QED BY <1>16, <3>2, <3>4, <3>5
  <2>2. i \in 1..Len(codes) BY <1>1
  <2> QED BY <1>2, <2>1, <2>2, ClassBefore
<1>17. ASSUME NEW j \in 1..r, j < r PROVE Class(codes[c[j + 1]]) # Class(codes[c[j]])
  <2>1. j + 1 \in 1..r /\ c[j] < c[j + 1] /\ c[j] \in 1..m /\ c[j + 1] \in 1..m
    <3>1. j + 1 \in 1..r BY <1>17
    <3> QED BY <1>5, <1>7, <1>17, <3>1
  <2>2. c[j + 1] - 1 \in c[j]..m /\ c[j + 1] - 1 < c[j + 1] /\ c[j + 1] # 1 BY <2>1
  <2>3. Class(codes[c[j + 1] - 1]) = Class(codes[c[j]]) BY <1>15, <2>2
  <2>4. ChangeAt(codes, ext, c[j + 1]) BY <1>5, <2>1
  <2> QED BY <2>2, <2>3, <2>4 DEF ChangeAt
<1>18. Class(codes[c[1]]) # ext
  <2>1. 1 \in 1..r BY <1>4
  <2>2. c[1] \in 1..m /\ ChangeAt(codes, ext, c[1]) BY <1>5, <2>1
  <2>3. CASE c[1] = 1 BY <2>2, <2>3 DEF ChangeAt
  <2>4. CASE c[1] # 1
    <3>1. c[1] - 1 \in 1..m /\ c[1] - 1 < c[1] BY <2>2, <2>4
    <3>2. Class(codes[c[1] - 1]) = ext BY <1>16, <3>1
    <3> QED BY <2>2, <2>4, <3>2 DEF ChangeAt
  <2> QED BY <2>3, <2>4
<1>19. CASE codes[c[r]] # ext
  <2>1. cc = Append(c, m + 1) BY <1>1, <1>4, <1>19 DEF EndsOf
  <2>2. Len(cc) = r + 1 /\ cc \in Seq(Int) /\ cc[r + 1] = m + 1 /\ \A j \in 1..r : cc[j] = c[j] BY <1>4, <1>5, <2>1
  <2>3. line = first \o <<<<end, -1>>>> BY <1>9, <1>10, <1>19
  <2>4. end \in Int /\ S[m + 1] = end
    <3>1. m + 1 \in 1..(m + 1) OBVIOUS
    <3> QED BY <1>1, <3>1 DEF IsCut
  <2>5. line \in Seq(Int \X Int) /\ Len(line) = r + 1 /\ line[r + 1] = <<end, -1>> /\ \A j \in 1..r : line[j] = first[j]
    <3>0. PICK X : X = Int \X Int OBVIOUS
    <3>1. PICK e \in X : e = <<end, -1>>
      <4>1. -1 \in Int OBVIOUS
      <4>2. <<end, -1>> \in Int \X Int BY <2>4, <4>1
      <4> QED BY <3>0, <4>2
    <3>2. line = Append(first, e) BY <1>12, <2>3, <3>0, <3>1
    <3>3. first \in Seq(X) /\ Len(first) = r BY <1>12, <3>0
    <3>4. line \in Seq(X) /\ Len(line) = r + 1 BY <3>2, <3>3
    <3>5. line[r + 1] = e /\ \A j \in 1..r : line[j] = first[j] BY <3>2, <3>3
    <3> QED BY <3>0, <3>1, <3>4, <3>5
  <2>6. ASSUME NEW j \in 1..(r + 1) PROVE cc[j] \in 1..(m + 1) /\ line[j][1] = S[cc[j]]
    <3>1. CASE j = r + 1 BY <2>2, <2>4, <2>5, <3>1
    <3>2. CASE j \in 1..r
      <4>1. cc[j] = c[j] /\ c[j] \in 1..m /\ line[j] = first[j] /\ first[j][1] = S[c[j]] BY <1>5, <1>11, <2>2, <2>5, <3>2
      <4> QED BY <4>1
    <3> QED BY <3>1, <3>2
  <2>7. IsAscending(cc)
    <3>1. SUFFICES ASSUME NEW i \in 1..(r + 1), NEW j \in 1..(r + 1), i < j PROVE cc[i] < cc[j] BY <2>2 DEF IsAscending
    <3>2. i \in 1..r /\ cc[i] = c[i] /\ c[i] \in 1..m BY <1>5, <2>2, <3>1
    <3>3. CASE j = r + 1 BY <2>2, <3>2, <3>3
    <3>4. CASE j \in 1..r BY <1>7, <2>2, <3>1, <3>2, <3>4
    <3> QED BY <3>3, <3>4
  <2>8. ASSUME NEW j \in 1..r, NEW i \in cc[j]..(cc[j + 1] - 1) PROVE line[j][2] = Class(codes[i])
    <3>1. cc[j] = c[j] /\ line[j][2] = Class(codes[c[j]]) /\ c[j] \in 1..m BY <1>5, <1>11, <2>2, <2>5
    <3>2. j + 1 \in 1..(r + 1) /\ cc[j + 1] \in 1..(m + 1) BY <2>6
    <3>3. i \in c[j]..m BY <3>1, <3>2
    <3>4. ASSUME j < r PROVE i < c[j + 1]
      <4>1. j + 1 \in 1..r /\ cc[j + 1] = c[j + 1] BY <2>2, <3>4
      <4> QED BY <3>2, <4>1
    <3>5. Class(codes[i]) = Class(codes[c[j]]) BY <1>15, <3>3, <3>4
    <3> QED BY <3>1, <3>5
  <2>9. ASSUME NEW i \in 1..m, i < cc[1] \/ i >= cc[r + 1] PROVE Class(codes[i]) = ext
    <3>1. 1 \in 1..r /\ cc[1] = c[1] BY <1>4, <2>2
    <3>2. i < c[1] BY <2>2, <2>9, <3>1
    <3> QED BY <1>16, <3>2
  <2>10. ASSUME NEW j \in 1..(r - 1) PROVE line[j][2] # line[j + 1][2]
    <3>1. j \in 1..r /\ j + 1 \in 1..r /\ j < r OBVIOUS
    <3>2. line[j][2] = Class(codes[c[j]]) /\ line[j + 1][2] = Class(codes[c[j + 1]]) BY <1>11, <2>5, <3>1
    <3> QED BY <1>17, <3>1, <3>2
  <2>11. line[1][2] # ext /\ line[r][2] # ext
    <3>1. 1 \in 1..r /\ r \in 1..r BY <1>4
    <3>2. line[1][2] = Class(codes[c[1]]) /\ line[r][2] = Class(codes[x]) BY <1>11, <1>13, <2>5, <3>1
    <3>3. Class(codes[x]) # ext BY <1>13, <1>14, <1>19 DEF Class
    <3> QED BY <1>18, <3>2, <3>3
  <2>12. Len(cc) >= 2 /\ Len(line) = Len(cc) /\ Len(cc) - 1 = r /\ Len(cc) - 2 = r - 1 BY <1>4, <2>2, <2>5
  <2>13. IsJoined(cc, line, S, codes, ext)
    BY <1>1, <2>2, <2>5, <2>6, <2>7, <2>8, <2>9, <2>10, <2>11, <2>12 DEF IsJoined
  <2> QED BY <1>8, <2>13
<1>20. CASE codes[c[r]] = ext
  <2>1. cc = c /\ Len(cc) = r BY <1>4, <1>20 DEF EndsOf
  <2>2. line = first BY <1>9, <1>10, <1>12, <1>20
  <2>3. Class(codes[c[r]]) = ext BY <1>20 DEF Class
  <2>4. r >= 2
    <3>1. r # 1 BY <1>18, <2>3
    <3> QED BY <1>4, <3>1
  <2>5. ASSUME NEW j \in 1..r PROVE cc[j] \in 1..(m + 1) /\ line[j][1] = S[cc[j]] /\ line[j][2] = Class(codes[c[j]])
    <3>1. c[j] \in 1..m BY <1>5
    <3>2. c[j] \in 1..(m + 1) BY <3>1
    <3> QED BY <1>11, <2>1, <2>2, <3>2
  <2>6. ASSUME NEW j \in 1..(r - 1), NEW i \in cc[j]..(cc[j + 1] - 1) PROVE line[j][2] = Class(codes[i])
    <3>1. j \in 1..r /\ j + 1 \in 1..r OBVIOUS
    <3>2. cc[j] = c[j] /\ cc[j + 1] = c[j + 1] /\ c[j] \in 1..m /\ c[j + 1] \in 1..m BY <1>5, <2>1, <3>1
    <3>3. i \in c[j]..m /\ i < c[j + 1] BY <3>2
    <3>4. Class(codes[i]) = Class(codes[c[j]]) BY <1>15, <3>1, <3>3
    <3> QED BY <2>5, <3>1, <3>4
  <2>7. ASSUME NEW i \in 1..m, i < cc[1] \/ i >= cc[r] PROVE Class(codes[i]) = ext
    <3>1. CASE i < cc[1] BY <1>16, <2>1, <3>1
    <3>2. CASE i >= cc[r]
      <4>1. r \in 1..r /\ c[r] \in 1..m BY <1>4, <1>5
      <4>2. i \in c[r]..m BY <2>1, <3>2, <4>1
      <4>3. Class(codes[i]) = Class(codes[c[r]]) BY <1>15, <4>1, <4>2
      <4> QED BY <2>3, <4>3
    <3> QED BY <2>7, <3>1, <3>2
  <2>8. ASSUME NEW j \in 1..(r - 2) PROVE line[j][2] # line[j + 1][2]
    <3>1. j \in 1..r /\ j + 1 \in 1..r /\ j < r OBVIOUS
    <3>2. line[j][2] = Class(codes[c[j]]) /\ line[j + 1][2] = Class(codes[c[j + 1]]) BY <2>5, <3>1
    <3> QED BY <1>17, <3>1, <3>2
  <2>9. line[1][2] # ext /\ line[r - 1][2] # ext
    <3>1. 1 \in 1..r /\ r - 1 \in 1..r /\ r - 1 < r /\ (r - 1) + 1 = r BY <2>4
    <3>2. line[1][2] = Class(codes[c[1]]) /\ line[r - 1][2] = Class(codes[c[r - 1]]) BY <2>5, <3>1
    <3>3. Class(codes[c[(r - 1) + 1]]) # Class(codes[c[r - 1]]) BY <1>17, <3>1
    <3> QED BY <1>18, <2>3, <3>1, <3>2, <3>3
  <2>10. IsJoined(cc, line, S, codes, ext)
    BY <1>1, <1>5, <1>12, <2>1, <2>2, <2>4, <2>5, <2>6, <2>7, <2>8, <2>9 DEF IsJoined
  <2> QED BY <1>8, <2>10
<1> QED BY <1>19, <1>20

\* the codes of a run
\* the codes before the first run
\* the class changes from one run to the next
\* The starts of cuts grow.
LEMMA CutGrows ==
  ASSUME NEW codes, NEW starts, NEW end, NEW S, IsCut(S, starts, codes, end),
         NEW i, i \in 1..(Len(codes) + 1), NEW j, j \in 1..(Len(codes) + 1)
  PROVE (i < j => S[i] < S[j]) /\ (i <= j => S[i] <= S[j]) /\ S[i] \in Int /\ S[j] \in Int
<1>1. PICK m \in Nat : m = Len(codes) BY DEF IsCut
<1>2. (\A k \in 1..(m + 1) : S[k] \in Int) /\ \A k \in 1..((m + 1) - 1) : S[k] < S[k + 1] BY <1>1 DEF IsCut
<1>3. i \in 1..(m + 1) /\ j \in 1..(m + 1) /\ 1 \in Int /\ m + 1 \in Int BY <1>1
<1>4. S[i] \in Int /\ S[j] \in Int BY <1>2, <1>3
<1>5. ASSUME i < j PROVE S[i] < S[j] BY <1>2, <1>3, <1>5, GrowsFar
<1>6. ASSUME i <= j PROVE S[i] <= S[j]
  <2>1. CASE i = j BY <1>4, <2>1
  <2>2. CASE i < j BY <1>4, <1>5, <2>2
  <2> QED BY <1>3, <1>6, <2>1, <2>2
<1> QED BY <1>4, <1>5, <1>6

\* The parts of IsJoined, for a run.
IsJoinedRun(cc, line, S, codes, j) ==
  /\ j \in 1..Len(line) /\ j + 1 \in 1..Len(line)
  /\ cc[j] \in 1..Len(codes) /\ cc[j + 1] \in 1..(Len(codes) + 1) /\ cc[j] < cc[j + 1]
  /\ line[j][1] = S[cc[j]] /\ line[j + 1][1] = S[cc[j + 1]]
  /\ line[j][2] = Class(codes[cc[j]]) /\ line[j][2] = Class(codes[cc[j + 1] - 1])

\* A run of that line.
LEMMA JoinedRun ==
  ASSUME NEW cc, NEW line, NEW S, NEW codes, codes \in Seq(Int), NEW ext, IsJoined(cc, line, S, codes, ext),
         NEW j, j \in 1..(Len(line) - 1)
  PROVE IsJoinedRun(cc, line, S, codes, j)
<1>1. Len(line) \in Nat /\ Len(line) = Len(cc) BY DEF IsJoined
<1>2. j \in 1..Len(cc) /\ j + 1 \in 1..Len(cc) /\ j < j + 1 /\ j \in 1..(Len(cc) - 1) BY <1>1
<1>3. cc[j] < cc[j + 1] BY <1>2 DEF IsJoined, IsAscending
<1>4. cc[j] \in 1..(Len(codes) + 1) /\ cc[j + 1] \in 1..(Len(codes) + 1) BY <1>2 DEF IsJoined
<1>5. line[j][1] = S[cc[j]] /\ line[j + 1][1] = S[cc[j + 1]] BY <1>2 DEF IsJoined
<1>6. cc[j] \in 1..Len(codes)
  <2>1. Len(codes) \in Nat OBVIOUS
  <2> QED BY <1>3, <1>4, <2>1
<1>7. cc[j] \in cc[j]..(cc[j + 1] - 1) /\ cc[j + 1] - 1 \in cc[j]..(cc[j + 1] - 1) BY <1>3, <1>4
<1>8. line[j][2] = Class(codes[cc[j]]) /\ line[j][2] = Class(codes[cc[j + 1] - 1]) BY <1>2, <1>7 DEF IsJoined
<1> QED BY <1>1, <1>2, <1>3, <1>4, <1>5, <1>6, <1>8 DEF IsJoinedRun

\* What a line of joined codes is: runs that grow and differ, from a code that is not the exterior to one that is not.
RunsGrow(line) == \A k \in Runs(line) : line[k][1] < line[k + 1][1]

\* No run with data follows another.
RunsApart(line) == \A k \in 1..(Len(line) - 2) : ~(line[k][2] >= 0 /\ line[k + 1][2] >= 0)

\* The scanline starts with a code other than that of the exterior.
StartsIn(line, codes, S, ext) == \E i \in 1..Len(codes) : Class(codes[i]) # ext /\ line[1][1] = S[i]

\* And stops behind one.
StopsIn(line, codes, S, ext) == \E i \in 1..Len(codes) : Class(codes[i]) # ext /\ line[Len(line)][1] = S[i + 1]

\* Its runs grow, alternate, and neither start nor stop with the exterior region.
LEMMA JoinedLine ==
  ASSUME NEW codes, NEW ext \in Int, ext < 0, NEW starts, NEW end, NEW S, IsCut(S, starts, codes, end),
         NEW cc, NEW line, IsJoined(cc, line, S, codes, ext)
  PROVE  /\ IsLine(line) /\ RunsGrow(line) /\ RunsApart(line) /\ Ascends(line)
         /\ StartsIn(line, codes, S, ext) /\ StopsIn(line, codes, S, ext)
<1>1. codes \in Seq(Int) BY DEF IsCut
<1>2. IsLine(line) BY DEF IsJoined, IsLine
<1>3. RunsGrow(line)
  <2>1. SUFFICES ASSUME NEW k \in 1..(Len(line) - 1) PROVE line[k][1] < line[k + 1][1] BY DEF RunsGrow
  <2>2. cc[k] < cc[k + 1] /\ cc[k] \in 1..Len(codes) /\ cc[k + 1] \in 1..(Len(codes) + 1) /\ line[k][1] = S[cc[k]] /\ line[k + 1][1] = S[cc[k + 1]]
    <3>1. IsJoinedRun(cc, line, S, codes, k) BY <1>1, JoinedRun
    <3> QED BY <3>1 DEF IsJoinedRun
  <2>3. cc[k] \in 1..(Len(codes) + 1) BY <1>1, <2>2
  <2> QED BY <2>2, <2>3, CutGrows
<1>4. RunsApart(line)
  <2>1. SUFFICES ASSUME NEW k \in 1..(Len(line) - 2), line[k][2] >= 0, line[k + 1][2] >= 0 PROVE FALSE BY DEF RunsApart
  <2>2. k \in 1..(Len(line) - 1) /\ k + 1 \in 1..(Len(line) - 1) BY <1>2, LineTypes
  <2>3. line[k][2] = Class(codes[cc[k]]) /\ cc[k] \in 1..Len(codes)
    <3>1. IsJoinedRun(cc, line, S, codes, k) BY <1>1, <2>2, JoinedRun
    <3> QED BY <3>1 DEF IsJoinedRun
  <2>4. line[k + 1][2] = Class(codes[cc[k + 1]]) /\ cc[k + 1] \in 1..Len(codes)
    <3>1. IsJoinedRun(cc, line, S, codes, k + 1) BY <1>1, <2>2, JoinedRun
    <3> QED BY <3>1 DEF IsJoinedRun
  <2>5. line[k][2] # line[k + 1][2]
    <3>1. Len(line) = Len(cc) BY DEF IsJoined
    <3> QED BY <3>1 DEF IsJoined
  <2>6. codes[cc[k]] \in Int /\ codes[cc[k + 1]] \in Int BY <1>1, <2>3, <2>4
  <2>7. Class(codes[cc[k]]) = 0 /\ Class(codes[cc[k + 1]]) = 0 BY <2>1, <2>3, <2>4, <2>6, ClassIs
  <2> QED BY <2>3, <2>4, <2>5, <2>7
<1>5. Ascends(line)
  <2>1. SUFFICES ASSUME NEW k \in 1..(Len(line) - 1) PROVE line[k][1] <= line[k + 1][1] BY DEF Ascends
  <2>2. line[k][1] < line[k + 1][1] BY <1>3 DEF RunsGrow
  <2>3. line[k][1] \in Int /\ line[k + 1][1] \in Int BY <1>2, LineTypes
  <2> QED BY <2>2, <2>3
<1>6. 1 \in 1..(Len(line) - 1) /\ Len(line) - 1 \in 1..(Len(line) - 1) /\ (Len(line) - 1) + 1 = Len(line) /\ Len(line) = Len(cc)
  <2>1. Len(line) = Len(cc) BY DEF IsJoined
  <2> QED BY <1>2, <2>1, LineTypes
<1>7. \E i \in 1..Len(codes) : Class(codes[i]) # ext /\ line[1][1] = S[i]
  <2>1. cc[1] \in 1..Len(codes) /\ line[1][1] = S[cc[1]] /\ line[1][2] = Class(codes[cc[1]])
    <3>1. IsJoinedRun(cc, line, S, codes, 1) BY <1>1, <1>6, JoinedRun
    <3> QED BY <3>1 DEF IsJoinedRun
  <2>2. line[1][2] # ext BY DEF IsJoined
  <2> QED BY <2>1, <2>2
<1>8. \E i \in 1..Len(codes) : Class(codes[i]) # ext /\ line[Len(line)][1] = S[i + 1]
  <2>1. PICK l : l = Len(line) - 1 OBVIOUS
  <2>2. l \in 1..(Len(line) - 1) /\ l + 1 = Len(line) BY <1>6, <2>1
  <2>3. cc[l] < cc[l + 1] /\ cc[l] \in 1..Len(codes) /\ cc[l + 1] \in 1..(Len(codes) + 1) /\ line[l + 1][1] = S[cc[l + 1]]
        /\ line[l][2] = Class(codes[cc[l + 1] - 1])
    <3>1. IsJoinedRun(cc, line, S, codes, l) BY <1>1, <2>2, JoinedRun
    <3> QED BY <3>1 DEF IsJoinedRun
  <2>4. line[l][2] # ext BY <1>6, <2>1 DEF IsJoined
  <2>5. cc[l + 1] - 1 \in 1..Len(codes) /\ cc[l + 1] = (cc[l + 1] - 1) + 1
    <3>1. Len(codes) \in Nat BY <1>1
    <3> QED BY <2>3, <3>1
  <2>6. line[Len(line)][1] = S[(cc[l + 1] - 1) + 1] BY <2>2, <2>3, <2>5
  <2> QED BY <2>3, <2>4, <2>5, <2>6
<1> QED BY <1>2, <1>3, <1>4, <1>5, <1>7, <1>8 DEF StartsIn, StopsIn

\* A lookup in it finds the class of the code that the voxel is in.
LEMMA JoinedLookup ==
  ASSUME NEW codes, NEW ext \in Int, ext < 0, NEW starts, NEW end, NEW S, IsCut(S, starts, codes, end),
         NEW cc, NEW line, IsJoined(cc, line, S, codes, ext),
         NEW i, i \in 1..Len(codes), NEW x \in Int, S[i] <= x, x < S[i + 1]
  PROVE Class(InLine(line, x, ext)) = Class(codes[i])
<1>1. codes \in Seq(Int) /\ Len(codes) \in Nat BY DEF IsCut
<1>2. IsLine(line) /\ Ascends(line) BY JoinedLine
<1>3. PICK r \in Nat : r = Len(line) /\ r >= 2 /\ r = Len(cc) BY <1>2, LineTypes DEF IsJoined
<1>4. \A j \in 1..r : cc[j] \in Int /\ cc[j] \in 1..(Len(codes) + 1) /\ line[j][1] = S[cc[j]] BY <1>3 DEF IsJoined
<1>5. 1 \in 1..r /\ r \in 1..r BY <1>3
<1>6. i \in 1..(Len(codes) + 1) /\ i + 1 \in 1..(Len(codes) + 1) /\ i \in Int BY <1>1
<1>7. S[i] \in Int /\ S[i + 1] \in Int BY <1>6, CutGrows
<1>8. CASE cc[1] <= i /\ i < cc[r]
  <2>1. PICK k \in (1 + 1)..r : cc[k - 1] <= i /\ i < cc[k]
    <3>1. 1 \in Int /\ r \in Int /\ 1 <= r BY <1>3
    <3>2. \A j \in 1..r : cc[j] \in Int BY <1>4
    <3> QED BY <1>6, <1>8, <3>1, <3>2, Crossing
  <2>2. PICK j \in 1..(r - 1) : k = j + 1 /\ k - 1 = j
    <3>1. k - 1 \in 1..(r - 1) /\ k = (k - 1) + 1 BY <2>1
    <3> QED BY <3>1
  <2>3. cc[j] <= i /\ i < cc[j + 1] BY <2>1, <2>2
  <2>4. j \in 1..r /\ j + 1 \in 1..r OBVIOUS
  <2>5. i + 1 <= cc[j + 1] BY <1>4, <1>6, <2>3, <2>4
  <2>6. S[cc[j]] <= S[i] /\ S[i + 1] <= S[cc[j + 1]] /\ S[cc[j]] \in Int /\ S[cc[j + 1]] \in Int BY <1>4, <1>6, <2>3, <2>4, <2>5, CutGrows
  <2>7. Holds(line, j, x)
    <3>1. line[j][1] = S[cc[j]] /\ line[j + 1][1] = S[cc[j + 1]] BY <1>4, <2>4
    <3>2. S[cc[j]] <= x /\ x < S[cc[j + 1]] BY <1>7, <2>6
    <3> QED BY <1>3, <3>1, <3>2 DEF Holds
  <2>8. InLine(line, x, ext) = Says(line[j], x) BY <1>2, <2>7, InLineOfRun
  <2>9. line[j][2] = Class(codes[i])
    <3>1. i \in cc[j]..(cc[j + 1] - 1) BY <1>4, <1>6, <2>3, <2>4
    <3>2. j \in 1..(Len(cc) - 1) BY <1>3
    <3> QED BY <3>1, <3>2 DEF IsJoined
  <2>10. PICK c \in Int : c = codes[i] BY <1>1
  <2>11. PICK s \in Int : s = line[j][1] /\ s <= x
    <3>1. line[j][1] = S[cc[j]] BY <1>4, <2>4
    <3>2. S[cc[j]] <= x BY <1>7, <2>6
    <3> QED BY <2>6, <3>1, <3>2
  <2>12. InLine(line, x, ext) = IF Class(c) >= 0 THEN Class(c) + (x - s) ELSE Class(c) BY Zenon, <2>8, <2>9, <2>10, <2>11 DEF Says
  <2>13. CASE c >= 0
    <3>1. Class(c) = 0 BY <2>13, ClassIs
    <3>2. InLine(line, x, ext) = x - s BY <2>12, <3>1
    <3>3. Class(x - s) = 0 BY <2>11 DEF Class
    <3> QED BY <2>10, <3>1, <3>2, <3>3
  <2>14. CASE c < 0
    <3>1. Class(c) = c BY <2>14, ClassIs
    <3>2. InLine(line, x, ext) = c BY <2>12, <2>14, <3>1
    <3> QED BY <2>10, <3>2
  <2> QED BY <2>13, <2>14
<1>9. CASE i < cc[1] \/ i >= cc[r]
  <2>1. Class(codes[i]) = ext BY <1>3, <1>9 DEF IsJoined
  <2>2. \A k : ~Holds(line, k, x)
    <3>1. SUFFICES ASSUME NEW k, Holds(line, k, x) PROVE FALSE OBVIOUS
    <3>2. k \in 1..r /\ k + 1 \in 1..r /\ line[k][1] \in Int /\ line[k + 1][1] \in Int /\ line[k][1] <= x /\ x < line[k + 1][1]
      BY <1>2, <1>3, <3>1, RunTypes
    <3>3. CASE i < cc[1]
      <4>1. i + 1 <= cc[1] BY <1>4, <1>5, <1>6, <3>3
      <4>2. S[i + 1] <= S[cc[1]] /\ S[cc[1]] \in Int BY <1>4, <1>5, <1>6, <4>1, CutGrows
      <4>3. line[1][1] <= line[k][1]
        <5>1. 1 \in 1..Len(line) /\ k \in 1..Len(line) /\ 1 <= k BY <1>3, <1>5, <3>2
        <5> QED BY <1>2, <5>1, AscendsFar
      <4>4. line[1][1] = S[cc[1]] BY <1>4, <1>5
      <4> QED BY <1>7, <3>2, <4>2, <4>3, <4>4
    <3>4. CASE i >= cc[r]
      <4>1. S[cc[r]] <= S[i] /\ S[cc[r]] \in Int
        <5>1. cc[r] <= i BY <1>4, <1>5, <1>6, <3>4
        <5> QED BY <1>4, <1>5, <1>6, <5>1, CutGrows
      <4>2. line[k + 1][1] <= line[r][1]
        <5>1. k + 1 \in 1..Len(line) /\ r \in 1..Len(line) /\ k + 1 <= r BY <1>3, <1>5, <3>2
        <5> QED BY <1>2, <5>1, AscendsFar
      <4>3. line[r][1] = S[cc[r]] BY <1>4, <1>5
      <4> QED BY <1>7, <3>2, <4>1, <4>2, <4>3
    <3> QED BY <1>9, <3>3, <3>4
  <2>3. InLine(line, x, ext) = ext BY <1>2, <2>2, InLineOfNone
  <2>4. Class(ext) = ext BY DEF Class
  <2> QED BY <2>1, <2>3, <2>4
<1> QED BY <1>4, <1>5, <1>6, <1>8, <1>9

\* Beside all of them it finds the exterior.
LEMMA JoinedBeside ==
  ASSUME NEW codes, NEW ext \in Int, ext < 0, NEW starts, NEW end, NEW S, IsCut(S, starts, codes, end),
         NEW cc, NEW line, IsJoined(cc, line, S, codes, ext),
         NEW x \in Int, x < S[1] \/ x >= S[Len(codes) + 1]
  PROVE InLine(line, x, ext) = ext
<1>1. Len(codes) \in Nat BY DEF IsCut
<1>2. IsLine(line) /\ Ascends(line) BY JoinedLine
<1>3. PICK r \in Nat : r = Len(line) /\ r >= 2 /\ r = Len(cc) BY <1>2, LineTypes DEF IsJoined
<1>4. 1 \in 1..r /\ r \in 1..r BY <1>3
<1>5. \A j \in 1..r : cc[j] \in 1..(Len(codes) + 1) /\ line[j][1] = S[cc[j]] BY <1>3 DEF IsJoined
<1>6. S[1] <= line[1][1] /\ line[r][1] <= S[Len(codes) + 1] /\ S[1] \in Int /\ S[Len(codes) + 1] \in Int
      /\ line[1][1] \in Int /\ line[r][1] \in Int
  <2>1. 1 \in 1..(Len(codes) + 1) /\ Len(codes) + 1 \in 1..(Len(codes) + 1) BY <1>1
  <2>2. cc[1] \in 1..(Len(codes) + 1) /\ cc[r] \in 1..(Len(codes) + 1) /\ 1 <= cc[1] /\ cc[r] <= Len(codes) + 1 BY <1>1, <1>4, <1>5
  <2>3. S[1] <= S[cc[1]] /\ S[1] \in Int /\ S[cc[1]] \in Int BY <2>1, <2>2, CutGrows
  <2>4. S[cc[r]] <= S[Len(codes) + 1] /\ S[cc[r]] \in Int /\ S[Len(codes) + 1] \in Int BY <2>1, <2>2, CutGrows
  <2>5. line[1][1] = S[cc[1]] /\ line[r][1] = S[cc[r]] BY <1>4, <1>5
  <2> QED BY <2>3, <2>4, <2>5
<1>7. \A k : ~Holds(line, k, x)
  <2>1. SUFFICES ASSUME NEW k, Holds(line, k, x) PROVE FALSE OBVIOUS
  <2>2. k \in 1..r /\ k + 1 \in 1..r /\ line[k][1] \in Int /\ line[k + 1][1] \in Int /\ line[k][1] <= x /\ x < line[k + 1][1]
    BY <1>2, <1>3, <2>1, RunTypes
  <2>3. 1 \in 1..Len(line) /\ k \in 1..Len(line) /\ k + 1 \in 1..Len(line) /\ r \in 1..Len(line) /\ 1 <= k /\ k + 1 <= r BY <1>3, <1>4, <2>2
  <2>4. line[1][1] <= line[k][1] BY <1>2, <2>3, AscendsFar
  <2>5. line[k + 1][1] <= line[r][1] BY <1>2, <2>3, AscendsFar
  <2> QED BY SMTT(20), <1>6, <2>2, <2>4, <2>5
<1> QED BY <1>2, <1>7, InLineOfNone

\* What joining codes makes: it fits where the codes other than the exterior are, and a lookup finds the class of the code.
Inside1(codes, S, ext, lo, hi) == \A i \in 1..Len(codes) : Class(codes[i]) # ext => S[i] >= lo /\ S[i + 1] <= hi

\* A scanline that says of each voxel what the code of its part says, and fits where the codes do.
IsCoalesced(line, S, codes, ext) ==
  /\ IsLine(line) /\ Ascends(line)
  /\ \A lo \in Int, hi \in Int : Inside1(codes, S, ext, lo, hi) => Fits(line, lo, hi)
  /\ \A i \in 1..Len(codes) : \A x \in Int : S[i] <= x /\ x < S[i + 1] => Class(InLine(line, x, ext)) = Class(codes[i])
  /\ \A x \in Int : x < S[1] \/ x >= S[Len(codes) + 1] => InLine(line, x, ext) = ext

\* Coalesced makes such a scanline.
LEMMA CoalescedIs ==
  ASSUME NEW codes, NEW ext \in Int, ext < 0, NEW starts, NEW end, NEW S, IsCut(S, starts, codes, end),
         NEW line, line = Coalesced(starts, codes, end, ext)
  PROVE IsCoalesced(line, S, codes, ext)
<1>1. codes \in Seq(Int) BY DEF IsCut
<1>2. CASE Changes(codes, ext) = <<>>
  <2>1. line = EmptyLine /\ \A i \in 1..Len(codes) : Class(codes[i]) = ext BY <1>1, <1>2, NoChanges
  <2>2. \A x \in Int : InLine(line, x, ext) = ext BY <2>1, EmptyLineIs
  <2>3. Class(ext) = ext BY DEF Class
  <2>4. \A i \in 1..Len(codes) : \A x \in Int : Class(InLine(line, x, ext)) = Class(codes[i]) BY <2>1, <2>2, <2>3
  <2>5. IsLine(line) /\ Ascends(line) /\ \A lo, hi : Fits(line, lo, hi) BY <2>1, EmptyLineIs
  <2> QED BY <2>2, <2>4, <2>5 DEF IsCoalesced
<1>3. CASE Changes(codes, ext) # <<>>
  <2>1. PICK cc : IsJoined(cc, line, S, codes, ext)
    <3>1. IsJoined(EndsOf(Changes(codes, ext), codes, ext), Coalesced(starts, codes, end, ext), S, codes, ext)
      BY <1>3, JoinedIs
    <3> QED BY <3>1
  <2>2. IsLine(line) /\ RunsGrow(line) /\ RunsApart(line) /\ Ascends(line) BY <2>1, JoinedLine
  <2>3. PICK i \in 1..Len(codes) : Class(codes[i]) # ext /\ line[1][1] = S[i]
    <3>1. StartsIn(line, codes, S, ext) BY <2>1, JoinedLine
    <3> QED BY <3>1 DEF StartsIn
  <2>4. PICK j \in 1..Len(codes) : Class(codes[j]) # ext /\ line[Len(line)][1] = S[j + 1]
    <3>1. StopsIn(line, codes, S, ext) BY <2>1, JoinedLine
    <3> QED BY <3>1 DEF StopsIn
  <2>5. ASSUME NEW lo \in Int, NEW hi \in Int, Inside1(codes, S, ext, lo, hi) PROVE Fits(line, lo, hi)
    <3>1. line[1][1] >= lo /\ line[Len(line)][1] <= hi BY <2>3, <2>4, <2>5 DEF Inside1
    <3> QED BY <2>2, <3>1 DEF Fits, RunsGrow, RunsApart
  <2>6. \A k \in 1..Len(codes) : \A x \in Int : S[k] <= x /\ x < S[k + 1] => Class(InLine(line, x, ext)) = Class(codes[k])
    BY <2>1, JoinedLookup
  <2>7. \A x \in Int : x < S[1] \/ x >= S[Len(codes) + 1] => InLine(line, x, ext) = ext
    BY <2>1, JoinedBeside
  <2> QED BY <2>2, <2>5, <2>6, <2>7 DEF IsCoalesced
<1> QED BY <1>2, <1>3

\* The run starts that are counted beforehand are those that are built.
LEMMA CountedIsBuilt ==
  ASSUME NEW codes, NEW ext \in Int, ext < 0, NEW starts, NEW end, NEW S, IsCut(S, starts, codes, end)
  PROVE CountedStarts(codes, ext, Changes(codes, ext)) = Len(Coalesced(starts, codes, end, ext))
<1>1. codes \in Seq(Int) /\ Len(codes) \in Nat BY DEF IsCut
<1>2. PICK c : c = Changes(codes, ext) OBVIOUS
<1>3. c \in Seq(Int) BY <1>1, <1>2, ChangesAre DEF Lists
<1>4. PICK r \in Nat : r = Len(c) BY <1>3
<1>5. PICK counted : counted = {i \in 1..r : i < r \/ codes[c[r]] # ext} OBVIOUS
<1>6. CountedStarts(codes, ext, c) = IF counted = {} THEN 2 ELSE 1 + Cardinality(counted)
  <2>1. counted = {i \in 1..Len(c) : i < Len(c) \/ codes[c[i]] # ext}
    <3>1. \A i \in 1..r : (i < r \/ codes[c[r]] # ext) <=> (i < r \/ codes[c[i]] # ext)
      <4>1. SUFFICES ASSUME NEW i \in 1..r PROVE (i < r \/ codes[c[r]] # ext) <=> (i < r \/ codes[c[i]] # ext) OBVIOUS
      <4>2. CASE i = r BY <4>2
      <4>3. CASE i < r BY <4>3
      <4> QED BY <4>2, <4>3
    <3> QED BY <1>4, <1>5, <3>1
  <2> QED BY <2>1 DEF CountedStarts
<1>7. CASE c = <<>>
  <2>1. counted = {} BY <1>4, <1>5, <1>7
  <2>2. Coalesced(starts, codes, end, ext) = EmptyLine BY <1>1, <1>2, <1>7, NoChanges
  <2> QED BY <1>2, <1>6, <2>1, <2>2, EmptyLineIs
<1>8. CASE c # <<>>
  <2>1. PICK cc : cc = EndsOf(c, codes, ext) /\ IsJoined(cc, Coalesced(starts, codes, end, ext), S, codes, ext)
    BY <1>2, <1>8, JoinedIs
  <2>2. Len(Coalesced(starts, codes, end, ext)) = Len(cc) /\ Len(cc) >= 2 BY <2>1 DEF IsJoined
  <2>3. r >= 1 BY <1>3, <1>4, <1>8
  <2>4. CASE codes[c[r]] # ext
    <3>1. Len(cc) = r + 1 BY <1>3, <1>4, <2>1, <2>4 DEF EndsOf
    <3>2. counted = 1..r BY <1>5, <2>4
    <3>3. Cardinality(counted) = r /\ counted # {}
      <4>1. 1 \in Int /\ r \in Int /\ 1 \in 1..r BY <2>3
      <4>2. Cardinality(1..r) = IF 1 > r THEN 0 ELSE r - 1 + 1 BY <4>1, FS_Interval
      <4> QED BY <2>3, <3>2, <4>1, <4>2
    <3> QED BY <1>2, <1>6, <2>2, <3>1, <3>3
  <2>5. CASE codes[c[r]] = ext
    <3>1. Len(cc) = r BY <1>4, <2>1, <2>5 DEF EndsOf
    <3>2. r >= 2 BY <2>2, <3>1
    <3>3. counted = 1..(r - 1) BY <1>5, <2>5
    <3>4. Cardinality(counted) = r - 1 /\ counted # {}
      <4>1. r - 1 \in Nat /\ 1 \in 1..(r - 1) BY <3>2
      <4>2. Cardinality(1..(r - 1)) = r - 1
        <5>1. 1 \in Int /\ r - 1 \in Int BY <4>1
        <5>2. Cardinality(1..(r - 1)) = IF 1 > r - 1 THEN 0 ELSE (r - 1) - 1 + 1 BY <5>1, FS_Interval
        <5> QED BY <3>2, <5>2
      <4> QED BY <3>3, <4>1, <4>2
    <3> QED BY <1>2, <1>6, <2>2, <3>1, <3>2, <3>4
  <2> QED BY <2>4, <2>5
<1> QED BY <1>7, <1>8

\* The Y and the Z of a scanline.
LEMMA LineYZ ==
  ASSUME NEW org \in Int \X Int \X Int, NEW size \in Nat \X Nat \X Nat, NEW k, k \in Lines(size)
  PROVE LineY(org, size, k) \in Int /\ LineZ(org, size, k) \in Int
<1>1. PICK b \in Nat, c \in Nat, o \in Int, u \in Int : b = size[2] /\ c = size[3] /\ o = org[2] /\ u = org[3] OBVIOUS
<1>2. k \in 1..(b * c) /\ b * c \in Nat BY <1>1 DEF Lines
<1>3. PICK m \in Nat : m = k - 1 /\ m \in 0..(b * c - 1)
  <2>1. k - 1 \in Nat /\ k - 1 \in 0..(b * c - 1) BY <1>2
  <2> QED BY <2>1
<1>4. m % b \in 0..(b - 1) /\ m \div b \in 0..(c - 1) BY <1>3, PlaceOf
<1>5. m % b \in Int /\ m \div b \in Int BY <1>4
<1>6. o + (m % b) \in Int /\ u + (m \div b) \in Int BY <1>5
<1> QED BY <1>1, <1>3, <1>6 DEF LineY, LineZ

\* The scanlines of a box are numbered from 1.
LEMMA LinesOfSize ==
  ASSUME NEW size \in Nat \X Nat \X Nat PROVE size[2] * size[3] \in Nat /\ Lines(size) = 1..(size[2] * size[3])
<1>1. \A b, c \in Nat : b * c \in Nat OBVIOUS
<1> QED BY <1>1 DEF Lines

\* The permutations of the axes.
IsPermutation(p) == p \in [1..3 -> 0..2] /\ \A i \in 0..2 : \E j \in 1..3 : p[j] = i

\* The permutations that the dilation takes are permutations.
LEMMA TheAxes == IsPermutation(Identity) /\ IsPermutation(NextAxis) /\ IsPermutation(PreviousAxis)
<1>1. \A i \in 0..2 : i = 0 \/ i = 1 \/ i = 2 OBVIOUS
<1>2. 1 \in 1..3 /\ 2 \in 1..3 /\ 3 \in 1..3 OBVIOUS
<1>3. IsPermutation(Identity) BY <1>1, <1>2 DEF IsPermutation, Identity
<1>4. IsPermutation(NextAxis) BY <1>1, <1>2 DEF IsPermutation, NextAxis
<1>5. IsPermutation(PreviousAxis) BY <1>1, <1>2 DEF IsPermutation, PreviousAxis
<1> QED BY <1>3, <1>4, <1>5

\* Permuted triples are triples.
LEMMA AlongIs ==
  ASSUME NEW p, IsPermutation(p)
  PROVE  /\ \A v \in Int \X Int \X Int : Along(v, p) \in Int \X Int \X Int
         /\ \A v \in Nat \X Nat \X Nat : Along(v, p) \in Nat \X Nat \X Nat
         /\ \A v : p[1] = 0 => Along(v, p)[1] = v[1]
<1>1. p[1] \in 0..2 /\ p[2] \in 0..2 /\ p[3] \in 0..2 BY DEF IsPermutation
<1>2. p[1] + 1 \in 1..3 /\ p[2] + 1 \in 1..3 /\ p[3] + 1 \in 1..3 BY <1>1
<1>3. \A v \in Int \X Int \X Int : \A j \in 1..3 : v[j] \in Int OBVIOUS
<1>4. \A v \in Nat \X Nat \X Nat : \A j \in 1..3 : v[j] \in Nat OBVIOUS
<1>5. \A v \in Int \X Int \X Int : Along(v, p) \in Int \X Int \X Int BY <1>2, <1>3 DEF Along
<1>6. \A v \in Nat \X Nat \X Nat : Along(v, p) \in Nat \X Nat \X Nat BY <1>2, <1>4 DEF Along
<1>7. \A v : p[1] = 0 => Along(v, p)[1] = v[1] BY DEF Along
<1> QED BY <1>5, <1>6, <1>7

\* And so are those permuted back.
LEMMA BackIs ==
  ASSUME NEW p, IsPermutation(p), NEW x \in Int, NEW y \in Int, NEW z \in Int
  PROVE \E s \in Int, t \in Int, u \in Int : Back(<<x, y, z>>, p) = <<s, t, u>>
<1>1. \A i \in 0..2 : Place(p, i) \in 1..3
  <2>1. SUFFICES ASSUME NEW i \in 0..2 PROVE Place(p, i) \in 1..3 OBVIOUS
  <2>2. \E j \in 1..3 : p[j] = i BY DEF IsPermutation
  <2> QED BY Zenon, <2>2 DEF Place
<1>2. \A j \in 1..3 : <<x, y, z>>[j] \in Int OBVIOUS
<1>3. <<x, y, z>>[Place(p, 0)] \in Int /\ <<x, y, z>>[Place(p, 1)] \in Int /\ <<x, y, z>>[Place(p, 2)] \in Int BY <1>1, <1>2
<1> QED BY <1>3 DEF Back

\* The numbers from a on.
LEMMA IntervalIs ==
  ASSUME NEW a \in Int, NEW n \in Nat, NEW xs, xs = Interval(a, a + n - 1)
  PROVE xs \in Seq(Int) /\ Len(xs) = n /\ \A i \in 1..n : xs[i] = a + i - 1
<1>1. (a + n - 1) - a + 1 = n OBVIOUS
<1>2. xs = [i \in 1..n |-> a + i - 1] BY <1>1 DEF Interval
<1>3. xs \in [1..n -> Int] BY <1>2
<1> QED BY <1>2, <1>3

\* A column of the level set.
LEMMA ColumnIs ==
  ASSUME NEW ix, Sound(ix), NEW p, IsPermutation(p), NEW org \in Int \X Int \X Int, NEW size \in Nat \X Nat \X Nat,
         NEW k, k \in Lines(size), NEW codes, codes = Column(ix, p, org, size, k)
  PROVE codes \in Seq(Int) /\ Len(codes) = size[1]
<1>1. PICK a \in Nat, o \in Int, y \in Int, z \in Int : a = size[1] /\ o = org[1] /\ y = LineY(org, size, k) /\ z = LineZ(org, size, k)
  BY LineYZ
<1>2. PICK f : f = [t \in 1..a |-> DataIndex(ix, Back(<<o + t - 1, y, z>>, p))] OBVIOUS
<1>3. codes = Listed(f, a) BY <1>1, <1>2 DEF Column
<1>4. codes = f
  <2>1. f = [i \in 1..a |-> f[i]] BY <1>2
  <2> QED BY <1>3, <2>1, ListedSame
<1>5. \A t \in 1..a : f[t] \in Int
  <2>1. SUFFICES ASSUME NEW t \in 1..a PROVE f[t] \in Int OBVIOUS
  <2>2. o + t - 1 \in Int OBVIOUS
  <2>3. PICK s \in Int, u \in Int, w \in Int : Back(<<o + t - 1, y, z>>, p) = <<s, u, w>> BY <2>2, BackIs
  <2>4. f[t] = DataIndex(ix, <<s, u, w>>) BY <1>2, <2>3
  <2> QED BY <2>4, LookupRange
<1>6. codes \in [1..a -> Int] BY <1>2, <1>4, <1>5
<1> QED BY <1>1, <1>6

\* A column is cut at every voxel.
LEMMA ColumnCut ==
  ASSUME NEW codes \in Seq(Int), NEW o \in Int, NEW a \in Nat, Len(codes) = a
  PROVE  \E S : /\ IsCut(S, Interval(o, o + a - 1), codes, o + a)
                /\ \A i \in 1..(a + 1) : S[i] = o + i - 1
<1>1. PICK S : S = [i \in 1..(a + 1) |-> o + i - 1] OBVIOUS
<1>2. PICK xs : xs = Interval(o, o + a - 1) OBVIOUS
<1>3. \A i \in 1..a : xs[i] = o + i - 1 BY <1>2, IntervalIs
<1>4. \A i \in 1..(a + 1) : S[i] \in Int /\ S[i] = o + i - 1 BY <1>1
<1>5. \A i \in 1..a : S[i] = xs[i] /\ S[i] < S[i + 1]
  <2>1. SUFFICES ASSUME NEW i \in 1..a PROVE S[i] = xs[i] /\ S[i] < S[i + 1] OBVIOUS
  <2>2. i \in 1..(a + 1) /\ i + 1 \in 1..(a + 1) OBVIOUS
  <2>3. S[i] = o + i - 1 /\ S[i + 1] = o + (i + 1) - 1 /\ xs[i] = o + i - 1 BY <1>3, <1>4, <2>2
  <2> QED BY <2>3
<1>6. S[a + 1] = o + a
  <2>1. a + 1 \in 1..(a + 1) /\ o + (a + 1) - 1 = o + a OBVIOUS
  <2> QED BY <1>4, <2>1
<1>7. IsCut(S, xs, codes, o + a) BY <1>4, <1>5, <1>6 DEF IsCut
<1> QED BY <1>2, <1>4, <1>7

\* A recompressed scanline fits, and has as many run starts as were counted.
LEMMA RecompressedIs ==
  ASSUME NEW ix, Sound(ix), NEW p, IsPermutation(p), NEW org \in Int \X Int \X Int, NEW size \in Nat \X Nat \X Nat,
         NEW k, k \in Lines(size), NEW codes, codes = Column(ix, p, org, size, k),
         NEW line, line = RecompressedLine(codes, org, size, ix.ext)
  PROVE  /\ Fits(line, org[1], org[1] + size[1])
         /\ CountedStarts(codes, ix.ext, Changes(codes, ix.ext)) = Len(line)
<1>1. PICK o \in Int, a \in Nat, ext \in Int : o = org[1] /\ a = size[1] /\ ext = ix.ext /\ ext < 0 BY IndexTypes DEF Sound
<1>2. codes \in Seq(Int) /\ Len(codes) = a BY <1>1, ColumnIs
<1>3. PICK S : IsCut(S, Interval(o, o + a - 1), codes, o + a) /\ \A i \in 1..(a + 1) : S[i] = o + i - 1 BY <1>2, ColumnCut
<1>4. line = Coalesced(Interval(o, o + a - 1), codes, o + a, ext) BY <1>1 DEF RecompressedLine
<1>5. IsCoalesced(line, S, codes, ext) BY <1>1, <1>3, <1>4, CoalescedIs
<1>6. Inside1(codes, S, ext, o, o + a)
  <2>1. SUFFICES ASSUME NEW i \in 1..a PROVE S[i] >= o /\ S[i + 1] <= o + a BY <1>2 DEF Inside1
  <2>2. i \in 1..(a + 1) /\ i + 1 \in 1..(a + 1) OBVIOUS
  <2>3. S[i] = o + i - 1 /\ S[i + 1] = o + (i + 1) - 1 BY <1>3, <2>2
  <2> QED BY <2>3
<1>7. Fits(line, o, o + a)
  <2>1. o + a \in Int OBVIOUS
  <2> QED BY <1>5, <1>6, <2>1 DEF IsCoalesced
<1>8. CountedStarts(codes, ext, Changes(codes, ext)) = Len(line)
  <2>1. CountedStarts(codes, ext, Changes(codes, ext)) = Len(Coalesced(Interval(o, o + a - 1), codes, o + a, ext))
    <3>1. PICK xs, e : xs = Interval(o, o + a - 1) /\ e = o + a OBVIOUS
    <3>2. IsCut(S, xs, codes, e) BY <1>3, <3>1
    <3>3. CountedStarts(codes, ext, Changes(codes, ext)) = Len(Coalesced(xs, codes, e, ext)) BY Zenon, <1>1, <3>2, CountedIsBuilt
    <3> QED BY Zenon, <3>1, <3>3
  <2> QED BY <1>4, <2>1
<1> QED BY <1>1, <1>7, <1>8

\* An index spec without voxels.
LEMMA ClearedSound == ASSUME NEW ext \in {-1, -2} PROVE Sound(Cleared(ext)) /\ Cleared(ext).ext = ext /\ Cleared(ext).n = 0
<1>1. PICK org \in Int \X Int \X Int, size \in Nat \X Nat \X Nat : org = <<0, 0, 0>> /\ size = <<0, 0, 0>>
  <2>1. <<0, 0, 0>> \in Int \X Int \X Int /\ <<0, 0, 0>> \in Nat \X Nat \X Nat OBVIOUS
  <2> QED BY Zenon, <2>1
<1>2. PICK b : b = Numbered(<<>>, 0) OBVIOUS
<1>3. GoodLines(<<>>, 0) BY DEF GoodLines
<1>4. PICK N : b.lines \in Seq(LineSeqs) /\ Len(b.lines) = 0 /\ IsNumbering(N, <<>>, 0) /\ b.n = N[0]
  <2>1. 0 \in Nat OBVIOUS
  <2>2. b \in Builders /\ Len(b.lines) = 0 /\ \E N : IsNumbering(N, <<>>, 0) /\ b.n = N[0] BY <1>2, <1>3, <2>1, NumberedResult
  <2>3. b.lines \in Seq(LineSeqs) BY <2>2 DEF Builders
  <2> QED BY <2>2, <2>3
<1>5. b.lines = <<>> /\ b.n = 0 BY <1>4 DEF IsNumbering
<1>6. size[2] * size[3] = 0 BY <1>1
<1>7. Sound(Index(org, size, ext, Numbered(<<>>, size[2] * size[3])))
  <2>1. PICK c : c = size[2] * size[3] OBVIOUS
  <2>2. PICK e : e = <<>> OBVIOUS
  <2>3. \A k \in 1..c : Fits(e[k], org[1], org[1] + size[1]) BY <1>6, <2>1
  <2>4. Sound(Index(org, size, ext, Numbered(e, size[2] * size[3]))) BY <2>1, <2>3, SoundFromLines
  <2> QED BY <2>2, <2>4
<1>8. Cleared(ext) = Index(org, size, ext, b) BY <1>1, <1>5 DEF Cleared, Index
<1> QED BY <1>2, <1>6, <1>7, <1>8 DEF Cleared

\* build_from_axis_permutation makes a sound index spec, and builds as many run starts as it counts.
THEOREM PermutationSound ==
  ASSUME NEW ix, Sound(ix), NEW p, IsPermutation(p), NEW r, r = BuildFromAxisPermutation(ix, p)
  PROVE Sound(r) /\ r.ext = ix.ext /\ CountsMatch(ix, p, r)
<1>0. ix \in Indexes /\ ix.ext \in {-1, -2} BY DEF Sound, Indexes
<1>1. CASE Volume(ix) = 0
  <2>1. r = Cleared(ix.ext) BY <1>1 DEF BuildFromAxisPermutation
  <2> QED BY <1>0, <1>1, <2>1, ClearedSound DEF CountsMatch
<1>2. CASE Volume(ix) # 0 /\ p = Identity
  <2>1. r = ix BY <1>2 DEF BuildFromAxisPermutation
  <2>2. p[1] = 0 BY <1>2 DEF Identity
  <2> QED BY <2>1, <2>2 DEF CountsMatch
<1>3. CASE Volume(ix) # 0 /\ p # Identity
  <2>1. PICK org \in Int \X Int \X Int, size \in Nat \X Nat \X Nat, ext \in {-1, -2} :
          org = Along(ix.org, p) /\ size = Along(ix.size, p) /\ ext = ix.ext
    <3>1. ix.org \in Int \X Int \X Int /\ ix.size \in Nat \X Nat \X Nat BY <1>0 DEF Indexes
    <3>2. Along(ix.org, p) \in Int \X Int \X Int BY <3>1, AlongIs
    <3>3. Along(ix.size, p) \in Nat \X Nat \X Nat BY <3>1, AlongIs
    <3> QED BY Zenon, <1>0, <3>2, <3>3
  <2>2. r = PermutedTo(ix, p, org, size) BY Zenon, <1>3, <2>1 DEF BuildFromAxisPermutation
  <2>3. Lines(size) = 1..(size[2] * size[3]) BY LinesOfSize
  <2>4. CASE p[1] = 0
    <3>1. PICK lines : lines = SwappedLines(ix, org, size) OBVIOUS
    <3>2. r = Index(org, size, ext, Numbered(lines, size[2] * size[3])) BY <2>1, <2>2, <2>4, <3>1 DEF PermutedTo
    <3>3. org[1] = ix.org[1] /\ size[1] = ix.size[1] BY <2>1, <2>4, AlongIs
    <3>4. ASSUME NEW k \in 1..(size[2] * size[3]) PROVE Fits(lines[k], org[1], org[1] + size[1])
      <4>1. k \in Lines(size) BY <2>3
      <4>2. LineY(org, size, k) \in Int /\ LineZ(org, size, k) \in Int BY <4>1, LineYZ
      <4>3. lines[k] = LineAt(ix, LineZ(org, size, k), LineY(org, size, k)) BY <3>1, <4>1 DEF SwappedLines
      <4>4. Fits(LineAt(ix, LineZ(org, size, k), LineY(org, size, k)), ix.org[1], ix.org[1] + ix.size[1]) BY <4>2, LineAtIs
      <4> QED BY <3>3, <4>3, <4>4
    <3>5. Sound(r) /\ r.ext = ext BY <3>2, <3>4, SoundFromLines
    <3> QED BY <2>1, <2>4, <3>5 DEF CountsMatch
  <2>5. CASE p[1] # 0
    <3>1. PICK lines : lines = Recompressed(ix, p, org, size) OBVIOUS
    <3>2. r = Index(org, size, ext, Numbered(lines, size[2] * size[3])) BY <2>1, <2>2, <2>5, <3>1 DEF PermutedTo
    <3>3. ASSUME NEW k \in 1..(size[2] * size[3])
          PROVE  /\ Fits(lines[k], org[1], org[1] + size[1])
                 /\ \A codes : codes = Column(ix, p, org, size, k) => CountedStarts(codes, ix.ext, Changes(codes, ix.ext)) = Len(lines[k])
      <4>1. k \in Lines(size) BY <2>3
      <4>2. PICK codes : codes = Column(ix, p, org, size, k) OBVIOUS
      <4>3. lines[k] = RecompressedLine(codes, org, size, ix.ext) BY <3>1, <4>1, <4>2 DEF Recompressed
      <4>4. Fits(lines[k], org[1], org[1] + size[1]) /\ CountedStarts(codes, ix.ext, Changes(codes, ix.ext)) = Len(lines[k])
        BY <4>1, <4>2, <4>3, RecompressedIs
      <4> QED BY <4>2, <4>4
    <3>4. Sound(r) /\ r.ext = ext /\ r.org = org /\ r.size = size /\ \A k \in 1..(size[2] * size[3]) : Alike(lines[k], r.lines[k])
      <4>1. \A k \in 1..(size[2] * size[3]) : Fits(lines[k], org[1], org[1] + size[1]) BY <3>3
      <4> QED BY <3>2, <4>1, SoundFromLines
    <3>5. CountsMatch(ix, p, r)
      <4>1. SUFFICES ASSUME NEW k \in Lines(size), NEW codes, codes = Column(ix, p, org, size, k)
                     PROVE  CountedStarts(codes, ix.ext, Changes(codes, ix.ext)) = Len(r.lines[k])
        BY <3>4 DEF CountsMatch
      <4>2. k \in 1..(size[2] * size[3]) BY <2>3
      <4>3. CountedStarts(codes, ix.ext, Changes(codes, ix.ext)) = Len(lines[k]) BY <3>3, <4>1, <4>2
      <4>4. Len(r.lines[k]) = Len(lines[k]) BY <3>4, <4>2 DEF Alike
      <4> QED BY <4>3, <4>4
    <3> QED BY <2>1, <3>4, <3>5
  <2> QED BY <2>4, <2>5
<1> QED BY <1>1, <1>2, <1>3

\* Runs and the entry that ends the last one.
IsEnded(line, first, n, e) == IsLine(line) /\ Len(line) = n + 1 /\ line[n + 1] = e /\ \A j \in 1..n : line[j] = first[j]

\* A line of pairs and its terminator.
LEMMA EndedLine ==
  ASSUME NEW n \in Nat, n >= 1, NEW first, first = [j \in 1..n |-> first[j]], \A j \in 1..n : first[j] \in Int \X Int,
         NEW e, e \in Int \X Int, NEW line, line = first \o <<e>>
  PROVE IsEnded(line, first, n, e)
<1>1. PICK X : X = Int \X Int OBVIOUS
<1>2. first \in [1..n -> X] BY <1>1
<1>3. first \in Seq(X) /\ Len(first) = n BY <1>2
<1>4. e \in X BY <1>1
<1>5. line = Append(first, e) BY <1>3, <1>4
<1>6. line \in Seq(X) /\ Len(line) = n + 1 BY <1>3, <1>4, <1>5
<1>7. line[n + 1] = e /\ \A j \in 1..n : line[j] = first[j] BY <1>3, <1>4, <1>5
<1>8. IsLine(line) BY <1>1, <1>6 DEF IsLine
<1> QED BY <1>6, <1>7, <1>8 DEF IsEnded

\* The lower and the upper of two numbers.
LEMMA LowerUpper ==
  ASSUME NEW a, a \in Int, NEW b, b \in Int
  PROVE  /\ Lower(a, b) \in Int /\ Lower(a, b) <= a /\ Lower(a, b) <= b /\ (Lower(a, b) = a \/ Lower(a, b) = b)
         /\ Upper(a, b) \in Int /\ Upper(a, b) >= a /\ Upper(a, b) >= b /\ (Upper(a, b) = a \/ Upper(a, b) = b)
BY DEF Lower, Upper

\* A line that fits has no voxels or runs that grow.
LEMMA FitsCases ==
  ASSUME NEW line, NEW lo, NEW hi, Fits(line, lo, hi)
  PROVE  /\ IsLine(line) /\ Ascends(line)
         /\ IsEmptyLine(line) => Len(line) = 2 /\ line[1][1] = line[2][1] /\ ~(line[1][2] >= 0)
         /\ ~IsEmptyLine(line) => RunsGrow(line) /\ RunsApart(line) /\ line[1][1] >= lo /\ line[Len(line)][1] <= hi
<1>1. IsLine(line) /\ Ascends(line) BY FitsAscends
<1>2. CASE Len(line) = 2 /\ line[1][1] = line[2][1] /\ ~(line[1][2] >= 0) BY <1>1, <1>2 DEF IsEmptyLine
<1>3. CASE /\ \A k \in Runs(line) : line[k][1] < line[k + 1][1]
           /\ line[1][1] >= lo /\ line[Len(line)][1] <= hi
           /\ \A k \in 1..(Len(line) - 2) : ~(line[k][2] >= 0 /\ line[k + 1][2] >= 0)
  <2>1. ~IsEmptyLine(line)
    <3>1. 1 \in 1..(Len(line) - 1) BY <1>1, LineTypes
    <3>2. line[1][1] < line[1 + 1][1] BY <1>3, <3>1
    <3>3. 1 + 1 = 2 /\ 1 \in 1..Len(line) /\ 2 \in 1..Len(line) BY <1>1, LineTypes
    <3>4. line[1][1] \in Int /\ line[2][1] \in Int BY <1>1, <3>3, LineTypes
    <3> QED BY <3>2, <3>3, <3>4 DEF IsEmptyLine
  <2> QED BY <1>1, <1>3, <2>1 DEF RunsGrow, RunsApart
<1> QED BY <1>2, <1>3 DEF Fits

(* Trimming. *)

\* What is known of a run.
LEMMA RunOf ==
  ASSUME NEW line, IsLine(line), NEW k, k \in Runs(line)
  PROVE  /\ k \in Int /\ k \in 1..Len(line) /\ k + 1 \in 1..Len(line) /\ line[k] \in Int \X Int
         /\ line[k][1] \in Int /\ line[k][2] \in Int /\ line[k + 1][1] \in Int /\ line[Len(line)][1] \in Int
<1>1. Len(line) \in 1..Len(line) /\ k \in 1..Len(line) /\ k + 1 \in 1..Len(line) /\ k \in Int BY LineTypes
<1>2. line[k] \in Int \X Int /\ line[k][1] \in Int /\ line[k][2] \in Int /\ line[k + 1][1] \in Int /\ line[Len(line)][1] \in Int
  BY <1>1, LineTypes
<1> QED BY <1>1, <1>2

\* A trimmed scanline fits the trimmed box.
LEMMA TrimmedFits ==
  ASSUME NEW l, NEW h, NEW line, Fits(line, l, h), NEW lo \in Int, NEW hi \in Int
  PROVE Fits(TrimmedLine(line, lo, hi), lo, hi)
<1>1. IsLine(line) /\ Ascends(line) BY FitsCases
<1>2. CASE IsEmptyLine(line)
  <2>1. TrimmedLine(line, lo, hi) = EmptyLine BY <1>2 DEF TrimmedLine
  <2> QED BY <2>1, EmptyLineIs
<1>3. CASE ~IsEmptyLine(line)
  <2>1. RunsGrow(line) /\ RunsApart(line) BY <1>3, FitsCases
  <2> DEFINE A(k) == Upper(line[k][1], lo)
             B(k) == Lower(line[k + 1][1], hi)
             S == {k \in Runs(line) : A(k) < B(k)}
  <2>2. PICK kept : kept = Kept(line, lo, hi) /\ Lists(kept, S)
    <3>1. S \in SUBSET (1..(Len(line) - 1)) /\ 1 \in Int /\ Len(line) - 1 \in Int BY <1>1, LineTypes
    <3>2. Kept(line, lo, hi) = Ascending(S) BY DEF Kept, ClippedStart, ClippedEnd
    <3> HIDE DEF S
    <3> QED BY <3>1, <3>2, AscendingIs
  <2>3. PICK n \in Nat : n = Len(kept) /\ kept \in Seq(Int) BY <2>2 DEF Lists
  <2>4. CASE kept = <<>>
    <3>1. TrimmedLine(line, lo, hi) = EmptyLine BY <1>3, <2>2, <2>4 DEF TrimmedLine, KeptRuns
    <3> QED BY <3>1, EmptyLineIs
  <2>5. CASE kept # <<>>
    <3>1. n >= 1 BY <2>3, <2>5
    <3>2. \A k \in S : k \in Runs(line) /\ A(k) \in Int /\ B(k) \in Int /\ A(k) < B(k) /\ A(k) >= lo /\ A(k) >= line[k][1] /\ B(k) <= hi
                       /\ B(k) <= line[k + 1][1] /\ line[k][1] \in Int /\ line[k + 1][1] \in Int /\ line[k][2] \in Int /\ k \in Int
      <4>1. SUFFICES ASSUME NEW k \in S
                     PROVE  k \in Runs(line) /\ A(k) \in Int /\ B(k) \in Int /\ A(k) < B(k) /\ A(k) >= lo /\ A(k) >= line[k][1] /\ B(k) <= hi
                            /\ B(k) <= line[k + 1][1] /\ line[k][1] \in Int /\ line[k + 1][1] \in Int /\ line[k][2] \in Int /\ k \in Int
        OBVIOUS
      <4>2. k \in Runs(line) /\ A(k) < B(k) OBVIOUS
      <4>3. line[k][1] \in Int /\ line[k + 1][1] \in Int /\ line[k][2] \in Int /\ k \in Int BY <1>1, <4>2, RunOf
      <4>4. A(k) \in Int /\ A(k) >= lo /\ A(k) >= line[k][1] BY <4>3, LowerUpper
      <4>5. B(k) \in Int /\ B(k) <= hi /\ B(k) <= line[k + 1][1] BY <4>3, LowerUpper
      <4> HIDE DEF A, B, S
      <4> QED BY <4>2, <4>3, <4>4, <4>5
    <3>3. PICK first : first = [j \in 1..n |-> <<A(kept[j]), line[kept[j]][2]>>] OBVIOUS
    <3>4. PICK z \in Int : z = Lower(line[Len(line)][1], hi) /\ z <= hi
      <4>1. Len(line) \in 1..Len(line) BY <1>1, LineTypes
      <4>2. line[Len(line)][1] \in Int BY <1>1, <4>1, LineTypes
      <4> QED BY <4>2, LowerUpper
    <3>5. PICK t : t = TrimmedLine(line, lo, hi) OBVIOUS
    <3>6. t = first \o <<<<z, -1>>>>
      <4>1. t = KeptRuns(line, lo, hi, kept) BY <1>3, <2>2, <3>5 DEF TrimmedLine
      <4> QED BY <2>3, <2>5, <3>3, <3>4, <4>1 DEF KeptRuns, ClippedStart
    <3> HIDE DEF A, B, S
    <3>7. \A j \in 1..n : kept[j] \in S /\ kept[j] \in Int BY <2>2, <2>3, ListedNext
    <3>8. \A j \in 1..n : first[j] \in Int \X Int /\ first[j] = <<A(kept[j]), line[kept[j]][2]>> BY <3>2, <3>3, <3>7
    <3>9. IsLine(t) /\ Len(t) = n + 1 /\ t[n + 1] = <<z, -1>> /\ \A j \in 1..n : t[j] = first[j]
      <4>1. <<z, -1>> \in Int \X Int /\ first = [j \in 1..n |-> first[j]]
        <5>1. -1 \in Int OBVIOUS
        <5> QED BY <3>3, <5>1
      <4>2. PICK e : e = <<z, -1>> OBVIOUS
      <4>3. IsEnded(t, first, n, e) BY <3>1, <3>6, <3>8, <4>1, <4>2, EndedLine
      <4> QED BY <4>2, <4>3 DEF IsEnded
    <3>10. \A j \in 1..n : t[j][1] = A(kept[j]) /\ t[j][2] = line[kept[j]][2] /\ A(kept[j]) \in Int BY SMTT(20), <3>2, <3>7, <3>8, <3>9
    <3>11. ASSUME NEW j \in 1..n PROVE t[j][1] < t[j + 1][1]
      <4>1. PICK k \in S : k = kept[j] BY <3>7
      <4>2. CASE j = n
        <5>1. t[j + 1][1] = z BY <3>9, <4>2
        <5>2. B(k) <= z
          <6>1. k \in Runs(line) BY <3>2
          <6>2. k + 1 \in 1..Len(line) /\ Len(line) \in 1..Len(line) /\ k + 1 <= Len(line) BY <1>1, <6>1, LineTypes
          <6>3. line[k + 1][1] <= line[Len(line)][1] BY <1>1, <6>2, AscendsFar
          <6>4. line[k + 1][1] \in Int /\ line[Len(line)][1] \in Int BY <1>1, <6>1, RunOf
          <6> QED BY <3>4, <6>3, <6>4 DEF B, Lower
        <5>3. t[j][1] = A(k) /\ A(k) < B(k) /\ A(k) \in Int /\ B(k) \in Int BY <3>2, <3>10, <4>1
        <5> QED BY <5>1, <5>2, <5>3
      <4>3. CASE j < n
        <5>1. j + 1 \in 1..n BY <4>3
        <5>2. PICK m \in S : m = kept[j + 1] BY <3>7, <5>1
        <5>3. k < m BY <2>2, <2>3, <4>1, <5>1, <5>2, ListedNext
        <5>4. line[k + 1][1] <= line[m][1]
          <6>1. k \in Runs(line) /\ m \in Runs(line) BY <3>2
          <6>2. k + 1 \in 1..Len(line) /\ m \in 1..Len(line) /\ k + 1 <= m BY <1>1, <5>3, <6>1, LineTypes
          <6> QED BY <1>1, <6>2, AscendsFar
        <5>5. t[j][1] = A(k) /\ t[j + 1][1] = A(m) BY <3>10, <4>1, <5>1, <5>2
        <5>6. A(k) < B(k) /\ B(k) <= line[k + 1][1] /\ line[m][1] <= A(m) /\ A(k) \in Int /\ B(k) \in Int /\ A(m) \in Int
              /\ line[k + 1][1] \in Int /\ line[m][1] \in Int
          BY <3>2
        <5> QED BY <5>4, <5>5, <5>6
      <4> QED BY <4>2, <4>3
    <3>12. ASSUME NEW j \in 1..(n - 1), t[j][2] >= 0, t[j + 1][2] >= 0 PROVE FALSE
      <4>1. j \in 1..n /\ j + 1 \in 1..n OBVIOUS
      <4>2. PICK k \in S, m \in S : k = kept[j] /\ m = kept[j + 1] BY <3>7, <4>1
      <4>3. k < m /\ \A x \in S : x <= k \/ x >= m BY <2>2, <2>3, <4>1, <4>2, ListedNext
      <4>4. line[k][2] >= 0 /\ line[m][2] >= 0 BY <3>10, <3>12, <4>1, <4>2
      <4>5. k \in Runs(line) /\ m \in Runs(line) /\ k \in Int /\ m \in Int BY <3>2
      <4>6. CASE m = k + 1
        <5>1. k \in 1..(Len(line) - 2) BY <1>1, <4>5, <4>6, LineTypes
        <5> QED BY <2>1, <4>4, <4>6, <5>1 DEF RunsApart
      <4>7. CASE k + 1 < m
        <5>1. k + 1 \in Runs(line) /\ (k + 1) + 1 \in 1..Len(line) /\ k + 1 \in 1..Len(line) /\ m \in 1..Len(line) /\ (k + 1) + 1 <= m
          BY <1>1, <4>5, <4>7, LineTypes
        <5>2. PICK p \in Int, q \in Int, r \in Int : p = line[k + 1][1] /\ q = line[(k + 1) + 1][1] /\ r = line[m][1]
          BY <1>1, <5>1, LineTypes
        <5>3. p < q BY <2>1, <5>1, <5>2 DEF RunsGrow
        <5>4. q <= r BY <1>1, <5>1, <5>2, AscendsFar
        <5>5. lo < p
          <6>1. lo <= A(k) /\ A(k) < B(k) /\ B(k) <= line[k + 1][1] /\ A(k) \in Int /\ B(k) \in Int BY <3>2
          <6> QED BY <5>2, <6>1
        <5>6. r < hi
          <6>1. line[m][1] <= A(m) /\ A(m) < B(m) /\ B(m) <= hi /\ A(m) \in Int /\ B(m) \in Int BY <3>2
          <6> QED BY <5>2, <6>1
        <5>7. A(k + 1) = p /\ B(k + 1) = q BY <5>2, <5>3, <5>4, <5>5, <5>6 DEF A, B, Upper, Lower
        <5>8. k + 1 \in S BY <5>1, <5>3, <5>7 DEF S
        <5>9. k + 1 <= k \/ k + 1 >= m BY <4>3, <5>8
        <5> QED BY <4>5, <4>7, <5>9
      <4> QED BY <4>3, <4>5, <4>6, <4>7
    <3>13. t[1][1] >= lo
      <4>1. 1 \in 1..n BY <3>1
      <4>2. t[1][1] = A(kept[1]) /\ kept[1] \in S BY <3>7, <3>10, <4>1
      <4> QED BY <3>2, <4>2
    <3>14. t[Len(t)][1] <= hi BY <3>4, <3>9
    <3>15. Len(t) - 1 = n /\ Len(t) - 2 = n - 1 BY <3>9
    <3>16. Fits(t, lo, hi) BY <3>9, <3>11, <3>12, <3>13, <3>14, <3>15 DEF Fits
    <3> QED BY <3>5, <3>16
  <2> QED BY <2>4, <2>5
<1> QED BY <1>2, <1>3

\* The operations of triples return triples.
LEMMA TripleOps ==
  ASSUME NEW u, u \in Int \X Int \X Int, NEW v, v \in Int \X Int \X Int
  PROVE  /\ Sum3(u, v) \in Int \X Int \X Int /\ Difference3(u, v) \in Int \X Int \X Int
         /\ Lower3(u, v) \in Int \X Int \X Int /\ Upper3(u, v) \in Int \X Int \X Int
<1>1. u[1] \in Int /\ u[2] \in Int /\ u[3] \in Int /\ v[1] \in Int /\ v[2] \in Int /\ v[3] \in Int OBVIOUS
<1>2. Sum3(u, v) \in Int \X Int \X Int /\ Difference3(u, v) \in Int \X Int \X Int BY <1>1 DEF Sum3, Difference3
<1>3. \A i \in 1..3 : Lower(u[i], v[i]) \in Int /\ Upper(u[i], v[i]) \in Int
  <2>1. \A a, b \in Int : Lower(a, b) \in Int /\ Upper(a, b) \in Int BY LowerUpper
  <2>2. \A i \in 1..3 : u[i] \in Int /\ v[i] \in Int OBVIOUS
  <2> QED BY <2>1, <2>2
<1>4. Lower3(u, v) \in Int \X Int \X Int BY <1>3 DEF Lower3
<1>5. Upper3(u, v) \in Int \X Int \X Int BY <1>3 DEF Upper3
<1> QED BY <1>2, <1>4, <1>5

\* The types of a sound index spec.
LEMMA SoundTypes ==
  ASSUME NEW ix, Sound(ix)
  PROVE  /\ ix \in Indexes /\ ix.org \in Int \X Int \X Int /\ ix.size \in Nat \X Nat \X Nat /\ ix.ext \in {-1, -2} /\ ix.ext \in Int /\ ix.ext < 0
         /\ End(ix) \in Int \X Int \X Int /\ ix.n \in Nat
<1>1. ix \in Indexes BY DEF Sound
<1>2. ix.org \in Int \X Int \X Int /\ ix.size \in Nat \X Nat \X Nat /\ ix.ext \in {-1, -2} /\ ix.n \in Nat BY <1>1 DEF Indexes
<1>3. ix.size \in Int \X Int \X Int BY <1>2
<1>4. End(ix) \in Int \X Int \X Int BY <1>2, <1>3, TripleOps DEF End
<1> QED BY <1>1, <1>2, <1>4

\* build_with_trim_bounds makes a sound index spec.
THEOREM TrimSound ==
  ASSUME NEW ix, Sound(ix), NEW lo, lo \in Int \X Int \X Int, NEW hi, hi \in Int \X Int \X Int,
         NEW r, r = BuildWithTrimBounds(ix, lo, hi)
  PROVE Sound(r) /\ r.ext = ix.ext
<1>0. PICK ext \in {-1, -2} : ext = ix.ext BY SoundTypes
<1>1. CASE Encloses(lo, hi, ix)
  <2>1. r = ix BY <1>1 DEF BuildWithTrimBounds
  <2> QED BY <2>1
<1>2. CASE ~Encloses(lo, hi, ix)
  <2>1. PICK a \in Int \X Int \X Int, b \in Int \X Int \X Int :
          a = Upper3(lo, ix.org) /\ b = Lower3(hi, Difference3(End(ix), <<1, 1, 1>>))
    <3>1. Upper3(lo, ix.org) \in Int \X Int \X Int BY SoundTypes, TripleOps
    <3>2. <<1, 1, 1>> \in Int \X Int \X Int OBVIOUS
    <3>3. Difference3(End(ix), <<1, 1, 1>>) \in Int \X Int \X Int BY <3>2, SoundTypes, TripleOps
    <3>4. Lower3(hi, Difference3(End(ix), <<1, 1, 1>>)) \in Int \X Int \X Int BY <3>3, TripleOps
    <3> QED BY Zenon, <3>1, <3>4
  <2>2. PICK size : size = SizeOf(a, b) OBVIOUS
  <2>3. r = TrimmedTo(ix, a, b, size) BY <1>2, <2>1, <2>2 DEF BuildWithTrimBounds, TrimmedWithin
  <2>4. CASE \E i \in 1..3 : size[i] <= 0
    <3>1. r = Cleared(ext) BY <1>0, <2>3, <2>4 DEF TrimmedTo
    <3> QED BY <1>0, <3>1, ClearedSound
  <2>5. CASE ~ \E i \in 1..3 : size[i] <= 0
    <3>1. size \in Nat \X Nat \X Nat /\ a[1] + size[1] = b[1] + 1 /\ a[1] \in Int /\ b[1] + 1 \in Int
      <4>1. PICK a1 \in Int, a2 \in Int, a3 \in Int, b1 \in Int, b2 \in Int, b3 \in Int :
              a1 = a[1] /\ a2 = a[2] /\ a3 = a[3] /\ b1 = b[1] /\ b2 = b[2] /\ b3 = b[3] OBVIOUS
      <4>2. size = <<b1 - a1 + 1, b2 - a2 + 1, b3 - a3 + 1>> BY <2>2, <4>1 DEF SizeOf, Sum3, Difference3
      <4>3. 1 \in 1..3 /\ 2 \in 1..3 /\ 3 \in 1..3 OBVIOUS
      <4>4. ~(size[1] <= 0) /\ ~(size[2] <= 0) /\ ~(size[3] <= 0) BY <2>5, <4>3
      <4>5. b1 - a1 + 1 \in Nat /\ b2 - a2 + 1 \in Nat /\ b3 - a3 + 1 \in Nat BY <4>2, <4>4
      <4> QED BY <4>1, <4>2, <4>5
    <3>2. PICK lines : lines = [k \in Lines(size) |-> TrimmedLine(LineAt(ix, LineY(a, size, k), LineZ(a, size, k)), a[1], b[1] + 1)] OBVIOUS
    <3>3. r = Index(a, size, ext, Numbered(lines, size[2] * size[3])) BY <1>0, <2>3, <2>5, <3>2 DEF TrimmedTo
    <3>4. ASSUME NEW k \in 1..(size[2] * size[3]) PROVE Fits(lines[k], a[1], a[1] + size[1])
      <4>1. k \in Lines(size) BY <3>1, LinesOfSize
      <4>2. PICK y \in Int, z \in Int : y = LineY(a, size, k) /\ z = LineZ(a, size, k) BY <3>1, <4>1, LineYZ
      <4>3. PICK line : line = LineAt(ix, y, z) /\ Fits(line, ix.org[1], ix.org[1] + ix.size[1]) BY LineAtIs
      <4>4. lines[k] = TrimmedLine(line, a[1], b[1] + 1) BY <3>2, <4>1, <4>2, <4>3
      <4>5. Fits(TrimmedLine(line, a[1], b[1] + 1), a[1], b[1] + 1) BY <3>1, <4>3, TrimmedFits
      <4> QED BY <3>1, <4>4, <4>5
    <3>5. Sound(r) /\ r.ext = ext BY <3>1, <3>3, <3>4, SoundFromLines
    <3> QED BY <1>0, <3>5
  <2> QED BY <2>4, <2>5
<1> QED BY <1>1, <1>2

(* Filling. *)

\* A filled scanline fits where the scanline does.
LEMMA FilledFits ==
  ASSUME NEW lo \in Int, NEW hi \in Int, NEW line, Fits(line, lo, hi), NEW ext \in Int, ext < 0
  PROVE Fits(FilledLine(line, ext), lo, hi)
<1>1. IsLine(line) /\ Ascends(line) BY FitsCases
<1>2. Len(line) \in Nat /\ Len(line) >= 2 BY <1>1, LineTypes
<1>3. CASE Len(line) = 2 /\ (IsEmptyLine(line) \/ ~Filled(line[1], ext))
  <2>1. FilledLine(line, ext) = EmptyLine BY <1>3 DEF FilledLine
  <2> QED BY <2>1, EmptyLineIs
<1>4. CASE Len(line) = 2 /\ ~(IsEmptyLine(line) \/ ~Filled(line[1], ext))
  <2>1. FilledLine(line, ext) = <<<<line[1][1], 0>>, line[2]>> BY <1>4 DEF FilledLine
  <2>2. 1 \in 1..Len(line) /\ 2 \in 1..Len(line) /\ 1 \in 1..(Len(line) - 1) BY <1>4
  <2>3. PICK p \in Int, q \in Int, c \in Int : p = line[1][1] /\ q = line[2][1] /\ c = line[2][2] /\ line[2] = <<q, c>>
    <3>1. line[1][1] \in Int /\ line[2][1] \in Int /\ line[2][2] \in Int BY <1>1, <2>2, LineTypes
    <3>2. line[2] = <<line[2][1], line[2][2]>> BY <1>1, <2>2, LineTypes
    <3> QED BY Zenon, <3>1, <3>2
  <2>4. p >= lo /\ q <= hi /\ p < q
    <3>1. line[1][1] >= lo /\ line[Len(line)][1] <= hi /\ RunsGrow(line) BY <1>4, FitsCases
    <3>2. line[1][1] < line[1 + 1][1] BY <2>2, <3>1 DEF RunsGrow
    <3> QED BY <1>4, <2>3, <3>1, <3>2
  <2>5. PICK t : t = <<<<p, 0>>, <<q, c>>>> OBVIOUS
  <2>6. t \in Seq(Int \X Int) /\ Len(t) = 2 /\ t[1][1] = p /\ t[2][1] = q /\ t[1][2] = 0 BY <2>5
  <2>7. Fits(t, lo, hi) BY <2>4, <2>6 DEF Fits, IsLine
  <2> QED BY <2>1, <2>3, <2>5, <2>7
<1>5. CASE Len(line) # 2
  <2>1. RunsGrow(line) /\ RunsApart(line) /\ line[1][1] >= lo /\ line[Len(line)][1] <= hi
    <3>1. ~IsEmptyLine(line) BY <1>5, FitsCases
    <3> QED BY <3>1, FitsCases
  <2> DEFINE F(k) == Filled(line[k], ext)
             S == {k \in Runs(line) : ~(F(k) /\ k > 1 /\ F(k - 1))}
  <2>2. PICK kept : kept = Ascending(S) /\ Lists(kept, S)
    <3>1. S \in SUBSET (1..(Len(line) - 1)) /\ 1 \in Int /\ Len(line) - 1 \in Int BY <1>1, LineTypes
    <3> HIDE DEF S
    <3> QED BY <3>1, AscendingIs
  <2>3. PICK n \in Nat : n = Len(kept) /\ kept \in Seq(Int)
    <3> HIDE DEF S
    <3>1. kept \in Seq(Int) BY <2>2 DEF Lists
    <3> QED BY <3>1
  <2>4. n >= 1
    <3>1. 1 \in Runs(line) BY <1>2
    <3>2. 1 \in S BY <3>1
    <3> HIDE DEF S
    <3>3. \E i \in 1..Len(kept) : kept[i] = 1 BY <2>2, <3>2 DEF Lists
    <3> QED BY <2>3, <3>3
  <2>5. PICK first : first = [j \in 1..n |-> <<line[kept[j]][1], IF F(kept[j]) THEN 0 ELSE ext>>] OBVIOUS
  <2>6. PICK t : t = FilledLine(line, ext) OBVIOUS
  <2>7. t = first \o <<line[Len(line)]>>
    <3>1. t = FilledRuns(line, ext, kept) BY <1>5, <2>2, <2>6 DEF FilledLine
    <3> QED BY <2>3, <2>5, <3>1 DEF FilledRuns
  <2>8. \A k \in S : k \in Runs(line) /\ k \in Int /\ ~(F(k) /\ k > 1 /\ F(k - 1)) /\ line[k][1] \in Int /\ line[k + 1][1] \in Int
    <3>1. SUFFICES ASSUME NEW k \in S PROVE k \in Runs(line) /\ k \in Int /\ ~(F(k) /\ k > 1 /\ F(k - 1)) /\ line[k][1] \in Int /\ line[k + 1][1] \in Int OBVIOUS
    <3>2. k \in Runs(line) /\ ~(F(k) /\ k > 1 /\ F(k - 1)) OBVIOUS
    <3>3. k \in Int /\ line[k][1] \in Int /\ line[k + 1][1] \in Int BY <1>1, <3>2, RunOf
    <3> HIDE DEF F, S
    <3> QED BY <3>2, <3>3
  <2>9. \A k \in Runs(line) : F(k) \/ k \in S OBVIOUS
  <2> HIDE DEF F, S
  <2>10. \A j \in 1..n : kept[j] \in S /\ kept[j] \in Int BY <2>2, <2>3, ListedNext
  <2>11. ASSUME NEW j \in 1..n PROVE first[j] \in Int \X Int /\ first[j][1] = line[kept[j]][1] /\ (first[j][2] >= 0 => F(kept[j]))
    <3>1. first[j] = <<line[kept[j]][1], IF F(kept[j]) THEN 0 ELSE ext>> /\ line[kept[j]][1] \in Int BY <2>5, <2>8, <2>10
    <3>2. CASE F(kept[j]) BY <3>1, <3>2
    <3>3. CASE ~F(kept[j]) BY <3>1, <3>3
    <3> QED BY <3>2, <3>3
  <2>12. IsLine(t) /\ Len(t) = n + 1 /\ t[n + 1] = line[Len(line)] /\ \A j \in 1..n : t[j] = first[j]
    <3>1. PICK e : e = line[Len(line)] /\ e \in Int \X Int
      <4>1. Len(line) \in 1..Len(line) BY <1>2
      <4> QED BY <1>1, <4>1, LineTypes
    <3>2. first = [j \in 1..n |-> first[j]] BY <2>5
    <3>3. IsEnded(t, first, n, e) BY <2>4, <2>7, <2>11, <3>1, <3>2, EndedLine
    <3> QED BY <3>1, <3>3 DEF IsEnded
  <2>13. \A j \in 1..n : t[j][1] = line[kept[j]][1] /\ (t[j][2] >= 0 => F(kept[j])) BY <2>11, <2>12
  <2>14. \A k \in S : \A m \in 1..Len(line) : k < m => line[k][1] < line[m][1]
    <3>1. SUFFICES ASSUME NEW k \in S, NEW m \in 1..Len(line), k < m PROVE line[k][1] < line[m][1] OBVIOUS
    <3>2. k \in Runs(line) /\ k \in Int /\ k + 1 \in 1..Len(line) /\ k + 1 <= m /\ line[k][1] \in Int /\ line[k + 1][1] \in Int
      <4>1. k \in Runs(line) /\ k \in Int /\ line[k][1] \in Int /\ line[k + 1][1] \in Int BY <2>8
      <4>2. k + 1 \in 1..Len(line) /\ k + 1 <= m BY <1>2, <3>1, <4>1
      <4> QED BY <4>1, <4>2
    <3>3. line[k][1] < line[k + 1][1] BY <2>1, <3>2 DEF RunsGrow
    <3>4. line[k + 1][1] <= line[m][1] /\ line[m][1] \in Int BY <1>1, <3>2, AscendsFar, LineTypes
    <3> QED BY <3>2, <3>3, <3>4
  <2>15. ASSUME NEW j \in 1..n PROVE t[j][1] < t[j + 1][1]
    <3>1. PICK k \in S : k = kept[j] BY <2>10
    <3>2. CASE j = n
      <4>1. Len(line) \in 1..Len(line) /\ k < Len(line) BY <1>2, <2>8
      <4>2. line[k][1] < line[Len(line)][1] BY <2>14, <4>1
      <4> QED BY <2>12, <2>13, <3>1, <3>2, <4>2
    <3>3. CASE j < n
      <4>1. j + 1 \in 1..n BY <3>3
      <4>2. PICK m \in S : m = kept[j + 1] BY <2>10, <4>1
      <4>3. k < m BY <2>2, <2>3, <3>1, <4>1, <4>2, ListedNext
      <4>4. m \in 1..Len(line) BY <1>2, <2>8
      <4>5. line[k][1] < line[m][1] BY <2>14, <4>3, <4>4
      <4> QED BY <2>13, <3>1, <4>1, <4>2, <4>5
    <3> QED BY <3>2, <3>3
  <2>16. ASSUME NEW j \in 1..(n - 1), t[j][2] >= 0, t[j + 1][2] >= 0 PROVE FALSE
    <3>1. j \in 1..n /\ j + 1 \in 1..n OBVIOUS
    <3>2. PICK k \in S, m \in S : k = kept[j] /\ m = kept[j + 1] BY <2>10, <3>1
    <3>3. k < m /\ \A x \in S : x <= k \/ x >= m BY <2>2, <2>3, <3>1, <3>2, ListedNext
    <3>4. F(k) /\ F(m) BY <2>13, <2>16, <3>1, <3>2
    <3>5. k \in Runs(line) /\ m \in Runs(line) /\ k \in Int /\ m \in Int /\ ~(F(m) /\ m > 1 /\ F(m - 1)) BY <2>8
    <3>6. m > 1 /\ m - 1 \in Runs(line) BY <1>2, <3>3, <3>5
    <3>7. ~F(m - 1) BY <3>4, <3>5, <3>6
    <3>8. m - 1 \in S BY <2>9, <3>6, <3>7
    <3>9. m - 1 <= k \/ m - 1 >= m BY <3>3, <3>8
    <3>10. m - 1 = k BY <3>3, <3>5, <3>9
    <3> QED BY <3>4, <3>7, <3>10
  <2>17. t[1][1] >= lo
    <3>1. 1 \in 1..n BY <2>4
    <3>2. t[1][1] = line[kept[1]][1] /\ kept[1] \in S BY <2>10, <2>13, <3>1
    <3>3. kept[1] \in 1..Len(line) /\ 1 \in 1..Len(line) /\ 1 <= kept[1] BY <1>2, <2>8, <3>2
    <3>4. line[1][1] <= line[kept[1]][1] /\ line[1][1] \in Int /\ line[kept[1]][1] \in Int BY <1>1, <3>3, AscendsFar, LineTypes
    <3> QED BY <2>1, <3>2, <3>4
  <2>18. t[Len(t)][1] <= hi BY <2>1, <2>12
  <2>19. Len(t) - 1 = n /\ Len(t) - 2 = n - 1 BY <2>12
  <2>20. Fits(t, lo, hi) BY <2>12, <2>15, <2>16, <2>17, <2>18, <2>19 DEF Fits
  <2> QED BY <2>6, <2>20
<1> QED BY <1>3, <1>4, <1>5

\* build_by_filling makes a sound index spec.
LEMMA FillingSound ==
  ASSUME NEW ix, Sound(ix), NEW r, r = BuildByFilling(ix)
  PROVE Sound(r) /\ r.ext = ix.ext
<1>1. PICK org \in Int \X Int \X Int, size \in Nat \X Nat \X Nat, ext \in {-1, -2} : org = ix.org /\ size = ix.size /\ ext = ix.ext BY SoundTypes
<1>2. Len(ix.lines) = size[2] * size[3] /\ size[2] * size[3] \in Nat BY <1>1, LinesOfSize DEF Sound
<1>3. PICK lines : lines = [k \in 1..Len(ix.lines) |-> FilledLine(ix.lines[k], ext)] OBVIOUS
<1>4. r = Index(org, size, ext, Numbered(lines, size[2] * size[3])) BY <1>1, <1>2, <1>3 DEF BuildByFilling
<1>5. ASSUME NEW k \in 1..(size[2] * size[3]) PROVE Fits(lines[k], org[1], org[1] + size[1])
  <2>1. k \in 1..Len(ix.lines) BY <1>2
  <2>2. Fits(ix.lines[k], org[1], org[1] + size[1]) BY <1>1, <2>1 DEF Sound
  <2>3. org[1] \in Int /\ org[1] + size[1] \in Int /\ ext \in Int /\ ext < 0
    <3>1. org[1] \in Int /\ size[1] \in Int OBVIOUS
    <3> QED BY <3>1
  <2>4. Fits(FilledLine(ix.lines[k], ext), org[1], org[1] + size[1]) BY <2>2, <2>3, FilledFits
  <2> QED BY <1>3, <2>1, <2>4
<1>6. Sound(r) /\ r.ext = ext BY <1>4, <1>5, SoundFromLines
<1> QED BY <1>1, <1>6

(* Index specs of voxels. *)

\* The voxels are in a cube from a to b.
Bounded(T, a, b) == \A v \in T : \A i \in 1..3 : v[i] \in Int /\ a <= v[i] /\ v[i] <= b

\* A finite set of voxels is bounded.
LEMMA VoxelsBounded ==
  ASSUME NEW V, IsFiniteSet(V), V \subseteq Int \X Int \X Int
  PROVE \E a \in Int, b \in Int : Bounded(V, a, b)
<1> DEFINE T == {n \in Nat : \A U \in SUBSET V : Cardinality(U) = n => \E a \in Int, b \in Int : Bounded(U, a, b)}
<1>1. 0 \in T
  <2>1. SUFFICES ASSUME NEW U \in SUBSET V, Cardinality(U) = 0 PROVE \E a \in Int, b \in Int : Bounded(U, a, b) OBVIOUS
  <2>2. IsFiniteSet(U) BY FS_Subset
  <2>3. U = {} BY <2>1, <2>2, FS_EmptySet
  <2>4. Bounded(U, 0, 0) BY <2>3 DEF Bounded
  <2> QED BY <2>4
<1>2. ASSUME NEW n \in Nat, n \in T PROVE n + 1 \in T
  <2>1. SUFFICES ASSUME NEW U \in SUBSET V, Cardinality(U) = n + 1 PROVE \E a \in Int, b \in Int : Bounded(U, a, b) OBVIOUS
  <2>2. IsFiniteSet(U) BY FS_Subset
  <2>3. PICK v : v \in U BY <2>1, <2>2, FS_EmptySet
  <2>4. PICK W : W = U \ {v} OBVIOUS
  <2>5. Cardinality(W) = n
    <3>1. Cardinality(W) = IF v \in U THEN Cardinality(U) - 1 ELSE Cardinality(U) BY <2>2, <2>4, FS_RemoveElement
    <3> QED BY <2>1, <2>3, <3>1
  <2>6. W \in SUBSET V BY <2>4
  <2>7. PICK a \in Int, b \in Int : Bounded(W, a, b) BY <1>2, <2>5, <2>6
  <2>8. PICK x \in Int, y \in Int, z \in Int : v = <<x, y, z>>
    <3>1. v \in Int \X Int \X Int BY <2>3
    <3> QED BY <3>1
  <2>9. PICK c \in Int : c <= a /\ c <= x /\ c <= y /\ c <= z
    <3>1. \A s, t \in Int : \E u \in Int : u <= s /\ u <= t
      <4>1. SUFFICES ASSUME NEW s \in Int, NEW t \in Int PROVE \E u \in Int : u <= s /\ u <= t OBVIOUS
      <4>2. CASE s <= t BY <4>2
      <4>3. CASE t <= s BY <4>3
      <4> QED BY <4>2, <4>3
    <3>2. PICK u \in Int : u <= a /\ u <= x BY <3>1
    <3>3. PICK w \in Int : w <= y /\ w <= z BY <3>1
    <3>4. PICK q \in Int : q <= u /\ q <= w BY <3>1
    <3> QED BY <3>2, <3>3, <3>4
  <2>10. PICK d \in Int : b <= d /\ x <= d /\ y <= d /\ z <= d
    <3>1. \A s, t \in Int : \E u \in Int : s <= u /\ t <= u
      <4>1. SUFFICES ASSUME NEW s \in Int, NEW t \in Int PROVE \E u \in Int : s <= u /\ t <= u OBVIOUS
      <4>2. CASE s <= t BY <4>2
      <4>3. CASE t <= s BY <4>3
      <4> QED BY <4>2, <4>3
    <3>2. PICK u \in Int : b <= u /\ x <= u BY <3>1
    <3>3. PICK w \in Int : y <= w /\ z <= w BY <3>1
    <3>4. PICK q \in Int : u <= q /\ w <= q BY <3>1
    <3> QED BY <3>2, <3>3, <3>4
  <2>11. Bounded(U, c, d)
    <3>1. SUFFICES ASSUME NEW u \in U, NEW i \in 1..3 PROVE u[i] \in Int /\ c <= u[i] /\ u[i] <= d BY DEF Bounded
    <3>2. CASE u = v
      <4>1. i = 1 \/ i = 2 \/ i = 3 OBVIOUS
      <4>2. u[1] = x /\ u[2] = y /\ u[3] = z BY <2>8, <3>2
      <4> QED BY <2>9, <2>10, <4>1, <4>2
    <3>3. CASE u # v
      <4>1. u \in W BY <2>4, <3>3
      <4>2. u[i] \in Int /\ a <= u[i] /\ u[i] <= b BY <2>7, <4>1 DEF Bounded
      <4> QED BY <2>9, <2>10, <4>2
    <3> QED BY <3>2, <3>3
  <2> QED BY <2>11
<1> HIDE DEF T
<1>3. \A n \in Nat : n \in T BY <1>1, <1>2, InductionOnSet
<1>4. Cardinality(V) \in Nat BY FS_CardinalityType
<1> QED BY <1>3, <1>4 DEF T

\* The box around voxels.
LEMMA HullIs ==
  ASSUME NEW V, IsFiniteSet(V), V \subseteq Int \X Int \X Int, V # {}, NEW h, h = Hull(V)
  PROVE  /\ h.lo \in Int \X Int \X Int /\ h.hi \in Int \X Int \X Int
         /\ \A v \in V : \A i \in 1..3 : v[i] \in Int /\ h.lo[i] <= v[i] /\ v[i] <= h.hi[i]
<1>1. PICK a \in Int, b \in Int : Bounded(V, a, b) BY VoxelsBounded
<1> DEFINE P(i) == {v[i] : v \in V}
<1>2. ASSUME NEW i \in 1..3 PROVE /\ Min(P(i)) \in Int /\ Max(P(i)) \in Int
                                  /\ \A v \in V : v[i] \in Int /\ Min(P(i)) <= v[i] /\ v[i] <= Max(P(i))
  <2>1. P(i) \in SUBSET (a..b) BY <1>1 DEF Bounded
  <2>2. P(i) # {} OBVIOUS
  <2>3. \A v \in V : v[i] \in P(i) OBVIOUS
  <2> HIDE DEF P
  <2>4. Min(P(i)) \in P(i) /\ \A x \in P(i) : Min(P(i)) <= x BY <2>1, <2>2, MinIs
  <2>5. Max(P(i)) \in P(i) /\ \A x \in P(i) : x <= Max(P(i)) BY <2>1, <2>2, MaxIs
  <2> QED BY <2>1, <2>3, <2>4, <2>5
<1>3. h = [lo |-> <<Min(P(1)), Min(P(2)), Min(P(3))>>, hi |-> <<Max(P(1)), Max(P(2)), Max(P(3))>>] BY DEF Hull
<1> HIDE DEF P
<1>4. 1 \in 1..3 /\ 2 \in 1..3 /\ 3 \in 1..3 /\ \A i \in 1..3 : i = 1 \/ i = 2 \/ i = 3 OBVIOUS
<1>5. h.lo \in Int \X Int \X Int /\ h.hi \in Int \X Int \X Int BY <1>2, <1>3, <1>4
<1>6. \A i \in 1..3 : h.lo[i] = Min(P(i)) /\ h.hi[i] = Max(P(i)) BY <1>3, <1>4
<1> QED BY <1>2, <1>5, <1>6

\* The runs of the voxels of a scanline.
LEMMA VoxelLineFits ==
  ASSUME NEW lo \in Int, NEW hi \in Int, NEW xs, xs \in SUBSET (lo..hi)
  PROVE Fits(VoxelLine(xs, lo, hi), lo, hi + 1)
<1>1. CASE xs = {}
  <2>1. VoxelLine(xs, lo, hi) = EmptyLine BY <1>1 DEF VoxelLine
  <2> QED BY <2>1, EmptyLineIs
<1>2. CASE xs # {}
  <2> DEFINE S == {x \in lo..(hi + 1) : (x \in xs) # (x - 1 \in xs)}
  <2>1. PICK ends : ends = EndsIn(xs, lo, hi) /\ Lists(ends, S)
    <3>1. S \in SUBSET (lo..(hi + 1)) /\ lo \in Int /\ hi + 1 \in Int OBVIOUS
    <3>2. EndsIn(xs, lo, hi) = Ascending(S) BY DEF EndsIn
    <3> HIDE DEF S
    <3> QED BY <3>1, <3>2, AscendingIs
  <2>2. PICK p \in xs : \A x \in xs : p <= x BY <1>2, LeastIn
  <2>3. PICK q \in xs : \A x \in xs : x <= q BY <1>2, GreatestIn
  <2>4. p \in lo..(hi + 1) /\ p - 1 \notin xs
    <3>1. p \in Int /\ p \in lo..hi OBVIOUS
    <3>2. ~(p <= p - 1) BY <3>1
    <3> QED BY <2>2, <3>1, <3>2
  <2>5. q + 1 \in lo..(hi + 1) /\ q + 1 \notin xs /\ (q + 1) - 1 = q
    <3>1. q \in Int /\ q \in lo..hi OBVIOUS
    <3>2. ~(q + 1 <= q) BY <3>1
    <3> QED BY <2>3, <3>1, <3>2
  <2>6. p \in S /\ q + 1 \in S /\ p < q + 1
    <3>1. p \in Int /\ q \in Int /\ p <= q BY <2>2
    <3> QED BY <2>4, <2>5, <3>1
  <2>7. \A x \in S : x \in Int /\ lo <= x /\ x <= hi + 1 OBVIOUS
  <2> HIDE DEF S
  <2>8. PICK n \in Nat : n = Len(ends) /\ ends \in Seq(Int) BY <2>1 DEF Lists
  <2>9. n >= 2
    <3>1. PICK i \in 1..n : ends[i] = p BY <2>1, <2>6, <2>8 DEF Lists
    <3>2. PICK j \in 1..n : ends[j] = q + 1 BY <2>1, <2>6, <2>8 DEF Lists
    <3>3. i # j BY <2>6, <2>7, <3>1, <3>2
    <3> QED BY <3>3
  <2>10. PICK t : t = [k \in 1..n |-> <<ends[k], IF k % 2 = 1 THEN 0 ELSE -1>>] OBVIOUS
  <2>11. VoxelLine(xs, lo, hi) = t
    <3>1. t = [k \in 1..n |-> t[k]] BY <2>10
    <3>2. Listed(t, n) = t BY <3>1, ListedSame
    <3>3. VoxelLine(xs, lo, hi) = Listed(t, n) BY <1>2, <2>1, <2>8, <2>10 DEF VoxelLine, Alternating
    <3> QED BY <3>2, <3>3
  <2>12. \A k \in 1..n : ends[k] \in S /\ ends[k] \in Int BY <2>1, <2>8, ListedNext
  <2>13. ASSUME NEW k \in 1..n PROVE t[k] \in Int \X Int /\ t[k][1] = ends[k] /\ (t[k][2] >= 0 <=> k % 2 = 1)
    <3>1. t[k] = <<ends[k], IF k % 2 = 1 THEN 0 ELSE -1>> /\ ends[k] \in Int BY <2>10, <2>12
    <3>2. CASE k % 2 = 1 BY <3>1, <3>2
    <3>3. CASE k % 2 # 1 BY <3>1, <3>3
    <3> QED BY <3>2, <3>3
  <2>14. IsLine(t) /\ Len(t) = n
    <3>1. t \in [1..n -> Int \X Int] BY <2>10, <2>13
    <3> QED BY <2>9, <3>1 DEF IsLine
  <2>15. ASSUME NEW k \in 1..(n - 1) PROVE t[k][1] < t[k + 1][1]
    <3>1. k \in 1..n /\ k + 1 \in 1..n OBVIOUS
    <3>2. ends[k] < ends[k + 1] BY <2>1, <2>8, <3>1, ListedNext
    <3> QED BY <2>13, <3>1, <3>2
  <2>16. ASSUME NEW k \in 1..(n - 2), t[k][2] >= 0, t[k + 1][2] >= 0 PROVE FALSE
    <3>1. k \in 1..n /\ k + 1 \in 1..n /\ k \in Nat OBVIOUS
    <3>2. k % 2 = 1 /\ (k + 1) % 2 = 1 BY <2>13, <2>16, <3>1
    <3> QED BY <3>1, <3>2, Parity
  <2>17. t[1][1] >= lo /\ t[n][1] <= hi + 1
    <3>1. 1 \in 1..n /\ n \in 1..n BY <2>9
    <3> QED BY <2>7, <2>12, <2>13, <3>1
  <2>18. Fits(t, lo, hi + 1) BY <2>14, <2>15, <2>16, <2>17 DEF Fits
  <2> QED BY <2>11, <2>18
<1> QED BY <1>1, <1>2

\* build_from_voxel_array makes a sound index spec.
LEMMA FromVoxelsSound ==
  ASSUME NEW V, IsFiniteSet(V), V \subseteq Int \X Int \X Int, V # {}, NEW r, r = BuildFromVoxelArray(V)
  PROVE Sound(r) /\ r.ext = -1
<1>1. PICK h : h = Hull(V) OBVIOUS
<1>2. PICK lo \in Int \X Int \X Int, hi \in Int \X Int \X Int : lo = h.lo /\ hi = h.hi BY <1>1, HullIs
<1>3. \A v \in V : \A i \in 1..3 : v[i] \in Int /\ lo[i] <= v[i] /\ v[i] <= hi[i] BY <1>1, <1>2, HullIs
<1>4. PICK a1 \in Int, a2 \in Int, a3 \in Int, b1 \in Int, b2 \in Int, b3 \in Int :
        a1 = lo[1] /\ a2 = lo[2] /\ a3 = lo[3] /\ b1 = hi[1] /\ b2 = hi[2] /\ b3 = hi[3] OBVIOUS
<1>5. a1 <= b1 /\ a2 <= b2 /\ a3 <= b3
  <2>1. PICK v \in V : TRUE OBVIOUS
  <2>2. 1 \in 1..3 /\ 2 \in 1..3 /\ 3 \in 1..3 OBVIOUS
  <2>3. v[1] \in Int /\ a1 <= v[1] /\ v[1] <= b1 BY <1>3, <1>4, <2>2
  <2>4. v[2] \in Int /\ a2 <= v[2] /\ v[2] <= b2 BY <1>3, <1>4, <2>2
  <2>5. v[3] \in Int /\ a3 <= v[3] /\ v[3] <= b3 BY <1>3, <1>4, <2>2
  <2> QED BY <2>3, <2>4, <2>5
<1>6. PICK size \in Nat \X Nat \X Nat : size = SizeOf(lo, hi) /\ size[1] = b1 - a1 + 1
  <2>1. SizeOf(lo, hi) = <<b1 - a1 + 1, b2 - a2 + 1, b3 - a3 + 1>> BY <1>4 DEF SizeOf, Sum3, Difference3
  <2>2. b1 - a1 + 1 \in Nat /\ b2 - a2 + 1 \in Nat /\ b3 - a3 + 1 \in Nat BY <1>5
  <2> QED BY <2>1, <2>2
<1> DEFINE X(k) == {v[1] : v \in {w \in V : w[2] = LineY(lo, size, k) /\ w[3] = LineZ(lo, size, k)}}
<1>7. PICK lines : lines = [k \in Lines(size) |-> VoxelLine(X(k), a1, b1)] OBVIOUS
<1>8. r = Index(lo, size, -1, Numbered(lines, size[2] * size[3]))
  <2>1. r = FromVoxelsIn(V, lo, hi, size) BY <1>1, <1>2, <1>6 DEF BuildFromVoxelArray, FromHull
  <2> QED BY <1>4, <1>7, <2>1 DEF FromVoxelsIn
<1>9. ASSUME NEW k \in 1..(size[2] * size[3]) PROVE Fits(lines[k], lo[1], lo[1] + size[1])
  <2>1. k \in Lines(size) BY LinesOfSize
  <2>2. X(k) \in SUBSET (a1..b1)
    <3>1. SUFFICES ASSUME NEW v \in V PROVE v[1] \in a1..b1 OBVIOUS
    <3>2. 1 \in 1..3 OBVIOUS
    <3> QED BY <1>3, <1>4, <3>2
  <2>3. lines[k] = VoxelLine(X(k), a1, b1) BY <1>7, <2>1
  <2> HIDE DEF X
  <2>4. Fits(VoxelLine(X(k), a1, b1), a1, b1 + 1) BY <2>2, VoxelLineFits
  <2>5. lo[1] = a1 /\ lo[1] + size[1] = b1 + 1 BY <1>4, <1>6
  <2> QED BY <2>3, <2>4, <2>5
<1> HIDE DEF X
<1>10. -1 \in {-1, -2} OBVIOUS
<1> QED BY <1>8, <1>9, <1>10, SoundFromLines

(* The complement. *)

\* The complement of a scanline has its runs at the same places, and the same data.
LEMMA ComplementedLineIs ==
  ASSUME NEW line, IsLine(line), NEW t, t = ComplementedLine(line)
  PROVE  /\ IsLine(t) /\ Alike(line, t)
         /\ \A k \in Runs(line) : line[k][2] >= 0 => t[k] = line[k]
<1>1. PICK n \in Nat : n = Len(line) - 1 /\ n >= 1 /\ Len(line) = n + 1
  <2>1. Len(line) \in Nat /\ Len(line) >= 2 BY LineTypes
  <2>2. Len(line) - 1 \in Nat /\ Len(line) - 1 >= 1 /\ Len(line) = (Len(line) - 1) + 1 BY <2>1
  <2> QED BY Zenon, <2>2
<1>2. PICK first : first = [k \in 1..n |-> IF line[k][2] >= 0 THEN line[k] ELSE <<line[k][1], Complemented(line[k][2])>>] OBVIOUS
<1>3. t = first \o <<line[Len(line)]>> BY <1>1, <1>2 DEF ComplementedLine
<1>4. ASSUME NEW k \in 1..n
      PROVE  first[k] \in Int \X Int /\ first[k][1] = line[k][1] /\ (first[k][2] >= 0 <=> line[k][2] >= 0) /\ (line[k][2] >= 0 => first[k] = line[k])
  <2>1. line[k] \in Int \X Int /\ line[k][1] \in Int /\ line[k][2] \in Int
    <3>1. k \in Runs(line) BY <1>1
    <3> QED BY <3>1, RunOf
  <2>2. CASE line[k][2] >= 0 BY <1>2, <2>1, <2>2
  <2>3. CASE ~(line[k][2] >= 0)
    <3>1. PICK c \in {-1, -2} : c = Complemented(line[k][2]) BY DEF Complemented
    <3>2. first[k] = <<line[k][1], c>> /\ c \in Int /\ ~(c >= 0) BY <1>2, <2>3, <3>1
    <3> QED BY <2>1, <2>3, <3>2
  <2> QED BY <2>2, <2>3
<1>5. IsEnded(t, first, n, line[Len(line)])
  <2>1. PICK e : e = line[Len(line)] /\ e \in Int \X Int
    <3>1. Len(line) \in 1..Len(line) BY <1>1
    <3> QED BY <3>1, LineTypes
  <2>2. first = [k \in 1..n |-> first[k]] BY SMTT(20), <1>2
  <2>3. IsEnded(t, first, n, e) BY <1>1, <1>3, <1>4, <2>1, <2>2, EndedLine
  <2> QED BY Zenon, <2>1, <2>3
<1>6. IsLine(t) /\ Len(t) = n + 1 /\ t[n + 1] = line[n + 1] /\ \A j \in 1..n : t[j] = first[j] BY <1>1, <1>5 DEF IsEnded
<1>7. \A k \in 1..(n + 1) : t[k][1] = line[k][1]
  <2>1. SUFFICES ASSUME NEW k \in 1..(n + 1) PROVE t[k][1] = line[k][1] OBVIOUS
  <2>2. k \in 1..n \/ k = n + 1 OBVIOUS
  <2> QED BY <1>4, <1>6, <2>2
<1>8. Alike(line, t) BY <1>1, <1>4, <1>6, <1>7 DEF Alike
<1>9. \A k \in Runs(line) : line[k][2] >= 0 => t[k] = line[k] BY <1>1, <1>4, <1>6
<1> QED BY Zenon, <1>6, <1>8, <1>9

\* A scanline with runs of the same kinds at the same places fits where the scanline does.
LEMMA AlikeFits ==
  ASSUME NEW line, NEW lo, NEW hi, Fits(line, lo, hi), NEW t, IsLine(t), Alike(line, t)
  PROVE Fits(t, lo, hi)
<1>1. IsLine(line) BY FitsCases
<1>2. Len(t) = Len(line) /\ Len(line) \in Nat /\ Len(line) >= 2 BY <1>1, LineTypes DEF Alike
<1>3. \A k \in 1..Len(line) : t[k][1] = line[k][1] BY DEF Alike
<1>4. \A k \in 1..(Len(line) - 1) : t[k][2] >= 0 <=> line[k][2] >= 0 BY DEF Alike
<1>5. 1 \in 1..Len(line) /\ 2 \in 1..Len(line) /\ Len(line) \in 1..Len(line) /\ 1 \in 1..(Len(line) - 1) BY <1>2
<1>6. \A k \in 1..(Len(line) - 1) : k \in 1..Len(line) /\ k + 1 \in 1..Len(line) BY <1>2
<1>7. \A k \in 1..(Len(line) - 2) : k \in 1..(Len(line) - 1) /\ k + 1 \in 1..(Len(line) - 1) BY <1>2
<1>8. CASE Len(line) = 2 /\ line[1][1] = line[2][1] /\ ~(line[1][2] >= 0) BY <1>2, <1>3, <1>4, <1>5, <1>8 DEF Fits
<1>9. CASE /\ \A k \in Runs(line) : line[k][1] < line[k + 1][1]
           /\ line[1][1] >= lo /\ line[Len(line)][1] <= hi
           /\ \A k \in 1..(Len(line) - 2) : ~(line[k][2] >= 0 /\ line[k + 1][2] >= 0)
  <2>1. \A k \in 1..(Len(t) - 1) : t[k][1] < t[k + 1][1] BY <1>2, <1>3, <1>6, <1>9
  <2>2. t[1][1] >= lo /\ t[Len(t)][1] <= hi BY <1>2, <1>3, <1>5, <1>9
  <2>3. \A k \in 1..(Len(t) - 2) : ~(t[k][2] >= 0 /\ t[k + 1][2] >= 0) BY <1>2, <1>4, <1>7, <1>9
  <2> QED BY <2>1, <2>2, <2>3 DEF Fits
<1> QED BY <1>8, <1>9 DEF Fits

\* The complement keeps an index spec sound.
LEMMA ComplementSound ==
  ASSUME NEW ix, Sound(ix), NEW r,
         r = [ix EXCEPT !.lines = Listed([k \in DOMAIN ix.lines |-> ComplementedLine(ix.lines[k])], Len(ix.lines)), !.ext = Complemented(ix.ext)]
  PROVE Sound(r) /\ r.n = ix.n
<1>1. ix \in Indexes /\ ix.lines \in Seq(LineSeqs) BY IndexTypes DEF Sound
<1>2. PICK c \in Nat : c = Len(ix.lines) BY <1>1
<1>3. PICK f : f = [k \in 1..c |-> ComplementedLine(ix.lines[k])] OBVIOUS
<1>4. Listed([k \in DOMAIN ix.lines |-> ComplementedLine(ix.lines[k])], Len(ix.lines)) = f
  <2>1. f = [k \in 1..c |-> f[k]] BY <1>3
  <2>2. Listed(f, c) = f BY <2>1, ListedSame
  <2>3. DOMAIN ix.lines = 1..c BY <1>1, <1>2
  <2> QED BY <1>2, <1>3, <2>2, <2>3
<1>5. PICK e \in {-1, -2} : e = Complemented(ix.ext) BY DEF Complemented
<1>6. r = [org |-> ix.org, size |-> ix.size, ext |-> e, lines |-> f, n |-> ix.n] BY <1>1, <1>4, <1>5 DEF Indexes
<1>7. \A k \in 1..c : IsLine(ix.lines[k]) /\ Ascends(ix.lines[k]) /\ Fits(ix.lines[k], ix.org[1], ix.org[1] + ix.size[1]) BY <1>2, SoundLine
<1>8. ASSUME NEW k \in 1..c
      PROVE  IsLine(f[k]) /\ Alike(ix.lines[k], f[k]) /\ \A j \in Runs(ix.lines[k]) : ix.lines[k][j][2] >= 0 => f[k][j] = ix.lines[k][j]
  BY <1>3, <1>7, ComplementedLineIs
<1>9. f \in Seq(LineSeqs) /\ Len(f) = c
  <2>1. \A k \in 1..c : f[k] \in LineSeqs BY <1>8 DEF IsLine, LineSeqs
  <2>2. f \in [1..c -> LineSeqs] BY <1>3, <2>1
  <2> QED BY <2>2
<1>10. PICK N : AreNumbered(ix.lines, ix.n, N) BY DEF Sound
<1>11. \A k \in 1..c : DefinedBefore(f[k]) = DefinedBefore(ix.lines[k]) /\ DefinedIn(f[k]) = DefinedIn(ix.lines[k])
  <2>1. SUFFICES ASSUME NEW k \in 1..c PROVE DefinedBefore(f[k]) = DefinedBefore(ix.lines[k]) /\ DefinedIn(f[k]) = DefinedIn(ix.lines[k]) OBVIOUS
  <2>2. DefinedBefore(f[k]) = DefinedBefore(ix.lines[k]) BY <1>7, <1>8, CountsUnique
  <2>3. Len(f[k]) = Len(ix.lines[k]) BY <1>8 DEF Alike
  <2> QED BY <2>2, <2>3 DEF DefinedIn
<1>12. AreNumbered(f, ix.n, N)
  <2>1. IsNumbering(N, f, c) /\ ix.n = N[c] BY <1>2, <1>10, <1>11 DEF AreNumbered, IsNumbering
  <2>2. ASSUME NEW k \in 1..c, NEW j \in Runs(f[k]), f[k][j][2] >= 0 PROVE f[k][j][2] = N[k - 1] + DefinedBefore(f[k])[j]
    <3>1. Len(f[k]) = Len(ix.lines[k]) BY <1>8 DEF Alike
    <3>2. j \in Runs(ix.lines[k]) BY <3>1
    <3>3. ix.lines[k][j][2] >= 0 BY <1>8, <2>2, <3>2 DEF Alike
    <3>4. f[k][j] = ix.lines[k][j] BY <1>8, <3>2, <3>3
    <3>5. ix.lines[k][j][2] = N[k - 1] + DefinedBefore(ix.lines[k])[j] BY <1>2, <1>10, <3>2, <3>3 DEF AreNumbered
    <3> QED BY <1>11, <3>4, <3>5
  <2> QED BY <1>9, <2>1, <2>2 DEF AreNumbered
<1>13. \A k \in 1..c : Fits(f[k], ix.org[1], ix.org[1] + ix.size[1]) BY <1>7, <1>8, AlikeFits
<1>14. r \in Indexes
  <2>1. f \in Seq(Seq(Int \X Int)) BY <1>9 DEF LineSeqs
  <2> QED BY <1>1, <1>6, <2>1 DEF Indexes
<1>15. Len(ix.lines) = ix.size[2] * ix.size[3] BY DEF Sound
<1>16. Sound(r)
  <2>1. r.lines = f /\ r.org = ix.org /\ r.size = ix.size /\ r.n = ix.n
    <3>1. PICK R : R = [org |-> ix.org, size |-> ix.size, ext |-> e, lines |-> f, n |-> ix.n] OBVIOUS
    <3>2. R.lines = f /\ R.org = ix.org /\ R.size = ix.size /\ R.n = ix.n BY <3>1
    <3>3. r = R BY Zenon, <1>6, <3>1
    <3> QED BY Zenon, <3>2, <3>3
  <2>2. Len(r.lines) = r.size[2] * r.size[3] BY <1>2, <1>9, <1>15, <2>1
  <2>3. \A k \in 1..Len(r.lines) : Fits(r.lines[k], r.org[1], r.org[1] + r.size[1]) BY <1>9, <1>13, <2>1
  <2>4. AreNumbered(r.lines, r.n, N) BY <1>12, <2>1
  <2> QED BY <1>14, <2>2, <2>3, <2>4 DEF Sound
<1> QED BY <1>6, <1>16

(* Two scanlines cut where either changes. *)

\* A scanline changes within its box.
LEMMA BreaksIn ==
  ASSUME NEW lo \in Int, NEW hi \in Int, NEW line, Fits(line, lo, hi)
  PROVE Breaks(line) \in SUBSET (lo..hi)
<1>1. CASE IsEmptyLine(line) BY <1>1 DEF Breaks
<1>2. CASE ~IsEmptyLine(line)
  <2>1. IsLine(line) /\ Ascends(line) /\ line[1][1] >= lo /\ line[Len(line)][1] <= hi BY <1>2, FitsCases
  <2>2. PICK n \in Nat : n = Len(line) /\ n >= 2 BY <2>1, LineTypes
  <2>3. ASSUME NEW k \in 1..n PROVE line[k][1] \in lo..hi
    <3>1. line[1][1] \in Int /\ line[n][1] \in Int /\ line[k][1] \in Int BY <2>1, <2>2, LineTypes
    <3>2. 1 \in 1..Len(line) /\ k \in 1..Len(line) /\ n \in 1..Len(line) /\ 1 <= k /\ k <= n BY <2>2
    <3>3. line[1][1] <= line[k][1] /\ line[k][1] <= line[n][1] BY <2>1, <3>2, AscendsFar
    <3> QED BY <2>1, <2>2, <3>1, <3>3
  <2>4. Breaks(line) = {line[k][1] : k \in 1..n} BY <1>2, <2>2 DEF Breaks
  <2> QED BY <2>3, <2>4
<1> QED BY <1>1, <1>2

\* The places where two scanlines change, in ascending order.
LEMMA BreaksListed ==
  ASSUME NEW a \in Int, NEW b \in Int, NEW l, Fits(l, a, b), NEW c \in Int, NEW d \in Int, NEW m, Fits(m, c, d),
         NEW xs, xs = Ascending(Breaks(l) \cup Breaks(m))
  PROVE Lists(xs, Breaks(l) \cup Breaks(m))
<1>1. PICK lo \in Int, hi \in Int : lo <= a /\ lo <= c /\ b <= hi /\ d <= hi
  <2>1. Lower(a, c) \in Int /\ Lower(a, c) <= a /\ Lower(a, c) <= c BY LowerUpper
  <2>2. Upper(b, d) \in Int /\ b <= Upper(b, d) /\ d <= Upper(b, d) BY LowerUpper
  <2> QED BY <2>1, <2>2
<1>2. Breaks(l) \in SUBSET (a..b) /\ Breaks(m) \in SUBSET (c..d) BY BreaksIn
<1>3. a..b \subseteq lo..hi /\ c..d \subseteq lo..hi BY <1>1
<1>4. PICK T : T = Breaks(l) \cup Breaks(m) OBVIOUS
<1>5. T \in SUBSET (lo..hi) BY <1>2, <1>3, <1>4
<1> QED BY <1>4, <1>5, AscendingIs

\* No break of a line lies between x and y.
Unbroken(line, x, y) == \A b \in Breaks(line) : b <= x \/ b >= y

\* The ends of the run that holds a voxel are among them.
LEMMA BreakOf ==
  ASSUME NEW lo, NEW hi, NEW line, Fits(line, lo, hi), NEW x \in Int, NEW k, Holds(line, k, x)
  PROVE  /\ ~IsEmptyLine(line) /\ line[k][1] \in Breaks(line) /\ line[k + 1][1] \in Breaks(line)
         /\ line[1][1] >= lo /\ line[Len(line)][1] <= hi
<1>1. IsLine(line) BY FitsCases
<1>2. k \in 1..Len(line) /\ k + 1 \in 1..Len(line) /\ line[k][1] \in Int /\ line[k + 1][1] \in Int /\ line[k][1] <= x /\ x < line[k + 1][1]
  BY <1>1, RunTypes
<1>3. ~IsEmptyLine(line)
  <2>1. SUFFICES ASSUME IsEmptyLine(line) PROVE FALSE OBVIOUS
  <2>2. Len(line) = 2 /\ line[1][1] = line[2][1] BY <2>1, FitsCases
  <2>3. k = 1 BY <1>2, <2>2
  <2> QED BY <1>2, <2>2, <2>3
<1>4. Breaks(line) = {line[j][1] : j \in 1..Len(line)} BY <1>3 DEF Breaks
<1>5. line[1][1] >= lo /\ line[Len(line)][1] <= hi BY <1>3, FitsCases
<1> QED BY <1>2, <1>3, <1>4, <1>5

\* Where neither changes and one end is outside the box, all is exterior.
LEMMA LineBeside ==
  ASSUME NEW lo \in Int, NEW hi \in Int, NEW line, Fits(line, lo, hi), NEW x \in Int, NEW y \in Int, x < y, Unbroken(line, x, y),
         x < lo \/ y > hi, NEW ext
  PROVE InLine(line, x, ext) = ext
<1>1. IsLine(line) /\ Ascends(line) BY FitsCases
<1>2. ASSUME NEW k, Holds(line, k, x) PROVE FALSE
  <2>1. line[k + 1][1] \in Breaks(line) /\ line[1][1] >= lo /\ line[Len(line)][1] <= hi BY <1>2, BreakOf
  <2>2. k \in 1..Len(line) /\ k + 1 \in 1..Len(line) /\ line[k][1] \in Int /\ line[k + 1][1] \in Int /\ line[k][1] <= x /\ x < line[k + 1][1]
    BY <1>1, <1>2, RunTypes
  <2>3. line[k + 1][1] >= y BY <2>1, <2>2 DEF Unbroken
  <2>4. PICK n \in Nat : n = Len(line) /\ n >= 2 BY <1>1, LineTypes
  <2>5. 1 \in 1..Len(line) /\ n \in 1..Len(line) /\ 1 <= k /\ k + 1 <= n BY <2>2, <2>4
  <2>6. line[1][1] <= line[k][1] /\ line[k + 1][1] <= line[n][1] BY <1>1, <2>2, <2>5, AscendsFar
  <2>7. line[1][1] \in Int /\ line[n][1] \in Int BY <1>1, <2>5, LineTypes
  <2> QED BY <2>1, <2>2, <2>3, <2>4, <2>6, <2>7
<1> QED BY <1>1, <1>2, InLineOfNone

\* Between two changes all voxels are alike.
LEMMA SameBetween ==
  ASSUME NEW lo, NEW hi, NEW line, Fits(line, lo, hi), NEW x \in Int, NEW y \in Int, Unbroken(line, x, y),
         NEW z \in Int, x <= z, z < y, NEW ext \in Int, ext < 0
  PROVE Class(InLine(line, z, ext)) = Class(InLine(line, x, ext))
<1>1. IsLine(line) /\ Ascends(line) BY FitsCases
<1>2. CASE \E k : Holds(line, k, x)
  <2>1. PICK k : Holds(line, k, x) BY <1>2
  <2>2. line[k + 1][1] \in Breaks(line) BY <2>1, BreakOf
  <2>3. k \in Runs(line) /\ line[k][1] \in Int /\ line[k + 1][1] \in Int /\ line[k][2] \in Int /\ line[k][1] <= x /\ x < line[k + 1][1]
    BY <1>1, <2>1, RunTypes
  <2>4. line[k + 1][1] >= y BY <2>2, <2>3 DEF Unbroken
  <2>5. Holds(line, k, z) BY <2>3, <2>4 DEF Holds
  <2>6. InLine(line, x, ext) = Says(line[k], x) /\ InLine(line, z, ext) = Says(line[k], z) BY <1>1, <2>1, <2>5, InLineOfRun
  <2>7. Class(Says(line[k], x)) = Class(Says(line[k], z))
    <3>1. PICK s \in Int, v \in Int : s = line[k][1] /\ v = line[k][2] /\ s <= x BY <2>3
    <3> QED BY <3>1 DEF Says, Class
  <2> QED BY <2>6, <2>7
<1>3. CASE ~ \E k : Holds(line, k, x)
  <2>1. ASSUME NEW k, Holds(line, k, z) PROVE FALSE
    <3>1. line[k][1] \in Breaks(line) BY <2>1, BreakOf
    <3>2. k \in Runs(line) /\ line[k][1] \in Int /\ line[k + 1][1] \in Int /\ line[k][1] <= z /\ z < line[k + 1][1] BY <1>1, <2>1, RunTypes
    <3>3. line[k][1] <= x BY <3>1, <3>2 DEF Unbroken
    <3>4. Holds(line, k, x) BY <3>2, <3>3 DEF Holds
    <3> QED BY <1>3, <3>4
  <2>2. InLine(line, x, ext) = ext /\ InLine(line, z, ext) = ext BY <1>1, <1>3, <2>1, InLineOfNone
  <2> QED BY <2>2
<1> QED BY <1>2, <1>3

\* The cut of two scanlines, and what is to be joined between its breaks.
IsCutAt(xs, codes, l, m) ==
  /\ xs \in Seq(Int) /\ codes \in Seq(Int) /\ Len(xs) = Len(codes) + 1 /\ IsCut(xs, xs, codes, Final(xs))
  /\ \A i \in 1..Len(codes) : xs[i] \in Int /\ xs[i + 1] \in Int /\ xs[i] < xs[i + 1] /\ Unbroken(l, xs[i], xs[i + 1]) /\ Unbroken(m, xs[i], xs[i + 1])
  /\ \A i \in 1..(Len(codes) + 1) : xs[i] \in Breaks(l) \/ xs[i] \in Breaks(m)

\* The changes cut the scanline.
LEMMA BreaksCut ==
  ASSUME NEW l, NEW m, NEW xs, Lists(xs, Breaks(l) \cup Breaks(m)), xs # <<>>,
         NEW codes, codes = [i \in 1..(Len(xs) - 1) |-> codes[i]], \A i \in 1..(Len(xs) - 1) : codes[i] \in Int
  PROVE IsCutAt(xs, codes, l, m)
<1>1. xs \in Seq(Int) BY DEF Lists
<1>2. PICK n \in Nat : Len(xs) = n + 1 /\ n = Len(xs) - 1 BY <1>1
<1>3. codes \in [1..n -> Int] BY <1>2
<1>4. codes \in Seq(Int) /\ Len(codes) = n BY <1>3
<1>5. ASSUME NEW i \in 1..n PROVE xs[i] \in Int /\ xs[i + 1] \in Int /\ xs[i] < xs[i + 1] /\ Unbroken(l, xs[i], xs[i + 1]) /\ Unbroken(m, xs[i], xs[i + 1])
  <2>1. i \in 1..Len(xs) /\ i + 1 \in 1..Len(xs) BY <1>2
  <2>2. xs[i] < xs[i + 1] /\ \A x \in Breaks(l) \cup Breaks(m) : x <= xs[i] \/ x >= xs[i + 1] BY <2>1, ListedNext
  <2>3. xs[i] \in Int /\ xs[i + 1] \in Int BY <2>1, ListedNext
  <2> QED BY <2>2, <2>3 DEF Unbroken
<1>6. \A i \in 1..(n + 1) : xs[i] \in Int BY <1>1, <1>2
<1>7. IsCut(xs, xs, codes, Final(xs)) BY <1>2, <1>4, <1>5, <1>6 DEF IsCut
<1>8. \A i \in 1..(n + 1) : xs[i] \in Breaks(l) \/ xs[i] \in Breaks(m) BY <1>2 DEF Lists
<1> QED BY <1>1, <1>2, <1>4, <1>5, <1>7, <1>8 DEF IsCutAt

(* Blending. *)

\* combine_for_blend: a blended scanline fits the box of both.
LEMMA BlendedFits ==
  ASSUME NEW a \in Int, NEW b \in Int, NEW l, Fits(l, a, b), NEW c \in Int, NEW d \in Int, NEW m, Fits(m, c, d),
         NEW lo \in Int, NEW hi \in Int, lo <= a, lo <= c, b <= hi, d <= hi, NEW ext \in Int, ext < 0
  PROVE Fits(BlendedLine(l, m, ext), lo, hi)
<1>1. PICK xs : xs = Ascending(Breaks(l) \cup Breaks(m)) OBVIOUS
<1>2. Lists(xs, Breaks(l) \cup Breaks(m)) BY <1>1, BreaksListed
<1>3. CASE xs = <<>>
  <2>1. BlendedLine(l, m, ext) = EmptyLine BY <1>1, <1>3 DEF BlendedLine, BlendedAt
  <2> QED BY <2>1, EmptyLineIs
<1>4. CASE xs # <<>>
  <2>1. PICK codes : codes = [i \in 1..(Len(xs) - 1) |-> Blended(InLine(l, xs[i], ext), InLine(m, xs[i], ext))] OBVIOUS
  <2>2. PICK line : line = Coalesced(xs, codes, Final(xs), ext) OBVIOUS
  <2>3. BlendedLine(l, m, ext) = line BY <1>1, <1>4, <2>1, <2>2 DEF BlendedLine, BlendedAt
  <2>4. ASSUME NEW i \in 1..(Len(xs) - 1) PROVE codes[i] \in Int
    <3>1. xs[i] \in Int
      <4>1. xs \in Seq(Int) BY <1>2 DEF Lists
      <4>2. i \in 1..Len(xs) BY <4>1
      <4> QED BY <4>1, <4>2
    <3>2. IsLine(l) /\ Ascends(l) /\ IsLine(m) /\ Ascends(m) BY FitsCases
    <3>3. InLine(l, xs[i], ext) \in Int /\ InLine(m, xs[i], ext) \in Int BY <3>1, <3>2, InLineInt
    <3> QED BY <2>1, <3>3 DEF Blended
  <2>5. IsCutAt(xs, codes, l, m)
    <3>1. codes = [i \in 1..(Len(xs) - 1) |-> codes[i]] BY <2>1
    <3> QED BY <1>2, <1>4, <2>4, <3>1, BreaksCut
  <2>6. IsCut(xs, xs, codes, Final(xs)) BY <2>5 DEF IsCutAt
  <2>7. IsCoalesced(line, xs, codes, ext) BY <2>2, <2>6, CoalescedIs
  <2>8. Inside1(codes, xs, ext, lo, hi)
    <3>1. ASSUME NEW i \in 1..(Len(codes) + 1) PROVE xs[i] >= lo /\ xs[i] <= hi
      <4>1. Breaks(l) \in SUBSET (a..b) /\ Breaks(m) \in SUBSET (c..d) BY BreaksIn
      <4>2. xs[i] \in Breaks(l) \/ xs[i] \in Breaks(m) BY <2>5, <3>1 DEF IsCutAt
      <4>3. xs[i] \in a..b \/ xs[i] \in c..d BY <4>1, <4>2
      <4> QED BY <4>3
    <3>2. \A i \in 1..Len(codes) : i \in 1..(Len(codes) + 1) /\ i + 1 \in 1..(Len(codes) + 1)
      <4>1. Len(codes) \in Nat BY <2>5 DEF IsCutAt
      <4> QED BY <4>1
    <3> QED BY <3>1, <3>2 DEF Inside1
  <2>9. Fits(line, lo, hi) BY <2>7, <2>8 DEF IsCoalesced
  <2> QED BY <2>3, <2>9
<1> QED BY <1>3, <1>4

\* Two index specs with the same exterior are combined into one.
LEMMA BlendSound ==
  ASSUME NEW ix, Sound(ix), NEW jx, Sound(jx), NEW r, r = CombineForBlend(ix, jx)
  PROVE Sound(r) /\ r.ext = ix.ext
<1>1. PICK ext \in {-1, -2} : ext = ix.ext /\ ext \in Int /\ ext < 0 BY SoundTypes
<1>2. PICK o \in Int \X Int \X Int, e \in Int \X Int \X Int, p \in Int \X Int \X Int, f \in Int \X Int \X Int :
        o = ix.org /\ e = End(ix) /\ p = jx.org /\ f = End(jx) BY SoundTypes
<1>3. PICK org : org = Lower3(o, p) OBVIOUS
<1>4. PICK size : size = Difference3(Upper3(e, f), org) OBVIOUS
<1>5. r = BlendedTo(ix, jx, org, size) BY <1>2, <1>3, <1>4 DEF CombineForBlend
<1>6. org \in Int \X Int \X Int BY <1>3, TripleOps
<1>7. \A i \in 1..3 : o[i] <= e[i] /\ p[i] <= f[i]
  <2>1. ix.size \in Nat \X Nat \X Nat /\ jx.size \in Nat \X Nat \X Nat BY SoundTypes
  <2>2. e = Sum3(o, ix.size) /\ f = Sum3(p, jx.size) BY <1>2 DEF End
  <2> QED BY <2>1, <2>2 DEF Sum3
<1>8. size \in Nat \X Nat \X Nat /\ \A i \in 1..3 : org[i] <= o[i] /\ org[i] <= p[i] /\ e[i] <= org[i] + size[i] /\ f[i] <= org[i] + size[i]
  BY <1>3, <1>4, <1>7 DEF Difference3, Upper3, Upper, Lower3, Lower
<1>9. PICK lines : lines = [k \in Lines(size) |-> BlendedLine(LineAt(ix, LineY(org, size, k), LineZ(org, size, k)),
                                                             LineAt(jx, LineY(org, size, k), LineZ(org, size, k)), ext)] OBVIOUS
<1>10. r = Index(org, size, ext, Numbered(lines, size[2] * size[3])) BY <1>1, <1>5, <1>9 DEF BlendedTo
<1>11. ASSUME NEW k \in 1..(size[2] * size[3]) PROVE Fits(lines[k], org[1], org[1] + size[1])
  <2>1. k \in Lines(size) BY <1>8, LinesOfSize
  <2>2. PICK y \in Int, z \in Int : y = LineY(org, size, k) /\ z = LineZ(org, size, k) BY <1>6, <1>8, <2>1, LineYZ
  <2>3. PICK l, m : l = LineAt(ix, y, z) /\ m = LineAt(jx, y, z) OBVIOUS
  <2>4. Fits(l, o[1], e[1]) /\ Fits(m, p[1], f[1])
    <3>1. Fits(l, ix.org[1], ix.org[1] + ix.size[1]) BY <2>3, LineAtIs
    <3>2. Fits(m, jx.org[1], jx.org[1] + jx.size[1]) BY <2>3, LineAtIs
    <3> QED BY <1>2, <3>1, <3>2, EndIs
  <2>5. PICK a \in Int, b \in Int, c \in Int, d \in Int, lo \in Int, hi \in Int :
          a = o[1] /\ b = e[1] /\ c = p[1] /\ d = f[1] /\ lo = org[1] /\ hi = org[1] + size[1]
    <3>1. o[1] \in Int /\ e[1] \in Int /\ p[1] \in Int /\ f[1] \in Int /\ org[1] \in Int /\ org[1] + size[1] \in Int BY <1>6, <1>8
    <3> QED BY Zenon, <3>1
  <2>6. lo <= a /\ lo <= c /\ b <= hi /\ d <= hi
    <3>1. 1 \in 1..3 OBVIOUS
    <3> QED BY <1>8, <2>5, <3>1
  <2>7. Fits(BlendedLine(l, m, ext), lo, hi) BY <1>1, <2>4, <2>5, <2>6, BlendedFits
  <2>8. lines[k] = BlendedLine(l, m, ext) BY <1>9, <2>1, <2>2, <2>3
  <2> QED BY <2>5, <2>7, <2>8
<1>12. Sound(r) /\ r.ext = ext BY <1>6, <1>8, <1>10, <1>11, SoundFromLines
<1> QED BY <1>1, <1>12

(* The set operations. *)

\* There are three set operations.
LEMMA OperationsAre == ASSUME NEW op, op \in CsgOperations PROVE op = "union" \/ op = "intersect" \/ op = "subtract"
BY DEF CsgOperations

\* The code of a voxel says data or a region, whatever the data indices.
IsCode(op, d, e) ==
  /\ CsgCode(op, d, e) \in Int /\ (CsgCode(op, d, e) >= 0 <=> CsgCode(op, d, e) = 0)
  /\ CsgCode(op, d, e) = 0 => d >= 0 \/ e >= 0

\* CsgCode is such a code.
LEMMA CodeIs ==
  ASSUME NEW op, op \in CsgOperations, NEW d, d \in Int, NEW e, e \in Int
  PROVE IsCode(op, d, e)
<1>1. CombinedRegions(op, d, e) \in {-1, -2}
  <2>1. op = "union" => CombinedRegions(op, d, e) \in {-1, -2} BY DEF CombinedRegions
  <2>2. op = "intersect" => CombinedRegions(op, d, e) \in {-1, -2} BY DEF CombinedRegions
  <2>3. op = "subtract" => CombinedRegions(op, d, e) \in {-1, -2} BY DEF CombinedRegions
  <2> QED BY <2>1, <2>2, <2>3, OperationsAre
<1>2. e < 0 => SecondTaken(op, e) \in Int /\ SecondTaken(op, e) < 0 BY DEF SecondTaken, Complemented
<1>3. PICK c : c = CsgCode(op, d, e) OBVIOUS
<1>4. CASE d >= 0 /\ e >= 0
  <2>1. c = 0 BY <1>3, <1>4 DEF CsgCode
  <2> QED BY <1>3, <1>4, <2>1 DEF IsCode
<1>5. CASE d >= 0 /\ e < 0
  <2>1. c = IF SecondDominates(op, e) THEN SecondTaken(op, e) ELSE 0 BY <1>3, <1>5 DEF CsgCode
  <2>2. c \in Int /\ (c >= 0 <=> c = 0) BY <1>2, <1>5, <2>1
  <2> QED BY <1>3, <1>5, <2>2 DEF IsCode
<1>6. CASE d < 0 /\ e >= 0
  <2>1. c = IF FirstDominates(op, d) THEN d ELSE 0 BY <1>3, <1>6 DEF CsgCode
  <2>2. c \in Int /\ (c >= 0 <=> c = 0) BY <1>6, <2>1
  <2> QED BY <1>3, <1>6, <2>2 DEF IsCode
<1>7. CASE d < 0 /\ e < 0
  <2>1. c = CombinedRegions(op, d, e) BY <1>3, <1>7 DEF CsgCode
  <2>2. c \in Int /\ c < 0 BY <1>1, <2>1
  <2> QED BY <1>3, <1>7, <2>2 DEF IsCode
<1> QED BY <1>4, <1>5, <1>6, <1>7

\* The code depends on whether there are data, not on which.
LEMMA CodeOfClass ==
  ASSUME NEW op, NEW d, d \in Int, NEW e, e \in Int, NEW d2, d2 \in Int, NEW e2, e2 \in Int, Class(d2) = Class(d), Class(e2) = Class(e)
  PROVE CsgCode(op, d2, e2) = CsgCode(op, d, e)
<1>1. (d2 >= 0 <=> d >= 0) /\ (d < 0 => d2 = d) BY DEF Class
<1>2. (e2 >= 0 <=> e >= 0) /\ (e < 0 => e2 = e) BY DEF Class
<1>3. CASE d >= 0 /\ e >= 0 BY <1>1, <1>2, <1>3 DEF CsgCode
<1>4. CASE d >= 0 /\ e < 0
  <2>1. d2 >= 0 /\ e2 = e /\ ~(e >= 0) BY <1>1, <1>2, <1>4
  <2> QED BY <1>4, <2>1 DEF CsgCode
<1>5. CASE d < 0 /\ e >= 0
  <2>1. e2 >= 0 /\ d2 = d /\ ~(d >= 0) BY <1>1, <1>2, <1>5
  <2> QED BY <1>5, <2>1 DEF CsgCode
<1>6. CASE d < 0 /\ e < 0
  <2>1. d2 = d /\ e2 = e BY <1>1, <1>2, <1>6
  <2> QED BY <2>1
<1> QED BY <1>3, <1>4, <1>5, <1>6

\* Around the box of a dominating operand the result is its exterior.
LEMMA RegionsAre ==
  ASSUME NEW op, op \in CsgOperations, NEW c, c \in {-1, -2}, NEW d, d \in {-1, -2}
  PROVE  /\ CombinedRegions(op, c, d) \in {-1, -2}
         /\ CsgCode(op, c, d) = CombinedRegions(op, c, d)
         /\ FirstDominates(op, c) => \A e \in Int : CsgCode(op, c, e) = CombinedRegions(op, c, d)
         /\ SecondDominates(op, d) => \A e \in Int : CsgCode(op, e, d) = CombinedRegions(op, c, d)
<1>1. CASE op = "union"
  <2>1. CombinedRegions(op, c, d) = IF c = -1 /\ d = -1 THEN -1 ELSE -2 BY <1>1 DEF CombinedRegions
  <2>2. \A e : CombinedRegions(op, c, e) = IF c = -1 /\ e = -1 THEN -1 ELSE -2 BY <1>1 DEF CombinedRegions
  <2>3. \A e : CombinedRegions(op, e, d) = IF e = -1 /\ d = -1 THEN -1 ELSE -2 BY <1>1 DEF CombinedRegions
  <2>4. (FirstDominates(op, c) <=> c < -1) /\ (SecondDominates(op, d) <=> d < -1) /\ SecondTaken(op, d) = d
    BY <1>1 DEF FirstDominates, SecondDominates, SecondTaken
  <2> QED BY <2>1, <2>2, <2>3, <2>4 DEF CsgCode
<1>2. CASE op = "intersect"
  <2>1. CombinedRegions(op, c, d) = IF c < -1 /\ d < -1 THEN -2 ELSE -1 BY <1>2 DEF CombinedRegions
  <2>2. \A e : CombinedRegions(op, c, e) = IF c < -1 /\ e < -1 THEN -2 ELSE -1 BY <1>2 DEF CombinedRegions
  <2>3. \A e : CombinedRegions(op, e, d) = IF e < -1 /\ d < -1 THEN -2 ELSE -1 BY <1>2 DEF CombinedRegions
  <2>4. (FirstDominates(op, c) <=> c = -1) /\ (SecondDominates(op, d) <=> d = -1) /\ SecondTaken(op, d) = d
    BY <1>2 DEF FirstDominates, SecondDominates, SecondTaken
  <2> QED BY <2>1, <2>2, <2>3, <2>4 DEF CsgCode
<1>3. CASE op = "subtract"
  <2>1. CombinedRegions(op, c, d) = IF c < -1 /\ d = -1 THEN -2 ELSE -1 BY <1>3 DEF CombinedRegions
  <2>2. \A e : CombinedRegions(op, c, e) = IF c < -1 /\ e = -1 THEN -2 ELSE -1 BY <1>3 DEF CombinedRegions
  <2>3. \A e : CombinedRegions(op, e, d) = IF e < -1 /\ d = -1 THEN -2 ELSE -1 BY <1>3 DEF CombinedRegions
  <2>4. (FirstDominates(op, c) <=> c = -1) /\ (SecondDominates(op, d) <=> d < -1) /\ SecondTaken(op, d) = Complemented(d)
    BY <1>3 DEF FirstDominates, SecondDominates, SecondTaken
  <2>5. d < -1 => Complemented(d) = -1 BY DEF Complemented
  <2> QED BY <2>1, <2>2, <2>3, <2>4, <2>5 DEF CsgCode
<1> QED BY <1>1, <1>2, <1>3, OperationsAre

\* Beyond the bounds lo and hi an interval lies outside the boxes that matter.
Beside(x, y, a, b) == x < a \/ y > b

\* Outside the box from lo to hi, at least one operand is exterior, and dominates unless both are.
Covers(op, c, d, lo, hi, a, b, a2, b2) ==
  \A x \in Int, y \in Int : Beside(x, y, lo, hi) =>
    \/ FirstDominates(op, c) /\ Beside(x, y, a, b)
    \/ SecondDominates(op, d) /\ Beside(x, y, a2, b2)
    \/ Beside(x, y, a, b) /\ Beside(x, y, a2, b2)

\* The scanlines l, cut at xs, of operands whose boxes go from a to b and from a2 to b2.
IsPair(l, a, b, a2, b2) == Fits(l.fst, a, b) /\ Fits(l.snd, a2, b2) /\ l.fext \in {-1, -2} /\ l.sext \in {-1, -2}

\* The types of what is looked up in a pair.
LEMMA PairTypes ==
  ASSUME NEW op, op \in CsgOperations, NEW l, NEW a, NEW b, NEW a2, NEW b2, IsPair(l, a, b, a2, b2), NEW x \in Int
  PROVE  /\ InLine(l.fst, x, l.fext) \in Int /\ InLine(l.snd, x, l.sext) \in Int
         /\ CodeAt(op, l, x) = CsgCode(op, InLine(l.fst, x, l.fext), InLine(l.snd, x, l.sext))
         /\ CodeAt(op, l, x) \in Int /\ (CodeAt(op, l, x) >= 0 <=> CodeAt(op, l, x) = 0)
<1>1. IsLine(l.fst) /\ Ascends(l.fst) /\ IsLine(l.snd) /\ Ascends(l.snd)
  <2>1. Fits(l.fst, a, b) /\ Fits(l.snd, a2, b2) BY DEF IsPair
  <2> QED BY <2>1, FitsCases
<1>2. l.fext \in Int /\ l.sext \in Int BY DEF IsPair
<1>3. InLine(l.fst, x, l.fext) \in Int /\ InLine(l.snd, x, l.sext) \in Int BY <1>1, <1>2, InLineInt
<1>4. CodeAt(op, l, x) = CsgCode(op, InLine(l.fst, x, l.fext), InLine(l.snd, x, l.sext)) BY DEF CodeAt, PairAt
<1>5. IsCode(op, InLine(l.fst, x, l.fext), InLine(l.snd, x, l.sext)) BY <1>3, CodeIs
<1> QED BY <1>3, <1>4, <1>5 DEF IsCode

\* Outside the box of the result the code is that of the exterior of the result.
LEMMA CodeBeside ==
  ASSUME NEW op, op \in CsgOperations, NEW l, NEW a \in Int, NEW b \in Int, NEW a2 \in Int, NEW b2 \in Int, IsPair(l, a, b, a2, b2),
         NEW lo, NEW hi, Covers(op, l.fext, l.sext, lo, hi, a, b, a2, b2),
         NEW x \in Int, NEW y \in Int, x < y, Unbroken(l.fst, x, y), Unbroken(l.snd, x, y), Beside(x, y, lo, hi)
  PROVE CodeAt(op, l, x) = CombinedRegions(op, l.fext, l.sext)
<1>1. PICK d \in Int, e \in Int : d = InLine(l.fst, x, l.fext) /\ e = InLine(l.snd, x, l.sext) BY PairTypes
<1>2. CodeAt(op, l, x) = CsgCode(op, d, e) BY <1>1, PairTypes
<1>3. PICK c \in {-1, -2}, f \in {-1, -2} : c = l.fext /\ f = l.sext BY DEF IsPair
<1>4. Beside(x, y, a, b) => d = c
  <2>1. Fits(l.fst, a, b) BY DEF IsPair
  <2> QED BY <1>1, <1>3, <2>1, LineBeside DEF Beside
<1>5. Beside(x, y, a2, b2) => e = f
  <2>1. Fits(l.snd, a2, b2) BY DEF IsPair
  <2> QED BY <1>1, <1>3, <2>1, LineBeside DEF Beside
<1>6. \/ FirstDominates(op, c) /\ d = c
      \/ SecondDominates(op, f) /\ e = f
      \/ d = c /\ e = f
  BY <1>3, <1>4, <1>5 DEF Covers
<1>7. CsgCode(op, d, e) = CombinedRegions(op, c, f) BY <1>6, RegionsAre
<1> QED BY <1>2, <1>3, <1>7

\* A scanline of the result.
IsCsgLine(line, op, l, xs, ext, lo, hi) ==
  /\ Fits(line, lo, hi)
  /\ \A x \in Int : InLine(line, x, ext) >= 0 <=> xs # <<>> /\ xs[1] <= x /\ x < xs[Len(xs)] /\ CodeAt(op, l, x) = 0

\* A scanline of the result of a set operation.
LEMMA CsgLineIs ==
  ASSUME NEW op, op \in CsgOperations, NEW l, NEW a \in Int, NEW b \in Int, NEW a2 \in Int, NEW b2 \in Int, IsPair(l, a, b, a2, b2),
         NEW lo \in Int, NEW hi \in Int, Covers(op, l.fext, l.sext, lo, hi, a, b, a2, b2),
         NEW ext, ext = CombinedRegions(op, l.fext, l.sext),
         NEW xs, xs = Ascending(Breaks(l.fst) \cup Breaks(l.snd)),
         NEW line, line = CsgLine(op, l, ext)
  PROVE IsCsgLine(line, op, l, xs, ext, lo, hi)
<1>1. Fits(l.fst, a, b) /\ Fits(l.snd, a2, b2) /\ l.fext \in {-1, -2} /\ l.sext \in {-1, -2} BY DEF IsPair
<1>2. Lists(xs, Breaks(l.fst) \cup Breaks(l.snd)) BY <1>1, BreaksListed
<1>3. ext \in {-1, -2} /\ ext \in Int /\ ext < 0 BY <1>1, RegionsAre
<1>4. CASE xs = <<>>
  <2>1. line = EmptyLine BY <1>4 DEF CsgLine, CsgLineAt
  <2>2. Fits(line, lo, hi) /\ \A x \in Int : InLine(line, x, ext) = ext BY <2>1, EmptyLineIs
  <2> QED BY <1>3, <1>4, <2>2 DEF IsCsgLine
<1>5. CASE xs # <<>>
  <2>1. PICK codes : codes = [i \in 1..(Len(xs) - 1) |-> CodeAt(op, l, xs[i])] OBVIOUS
  <2>2. line = Coalesced(xs, codes, Final(xs), ext) BY <1>5, <2>1 DEF CsgLine, CsgLineAt
  <2>3. ASSUME NEW i \in 1..(Len(xs) - 1) PROVE codes[i] \in Int /\ codes[i] = CodeAt(op, l, xs[i])
    <3>1. xs[i] \in Int
      <4>1. xs \in Seq(Int) BY <1>2 DEF Lists
      <4>2. i \in 1..Len(xs) BY <4>1
      <4> QED BY <4>1, <4>2
    <3>2. CodeAt(op, l, xs[i]) \in Int BY <3>1, PairTypes
    <3> QED BY <2>1, <3>2
  <2>4. IsCutAt(xs, codes, l.fst, l.snd)
    <3>1. codes = [i \in 1..(Len(xs) - 1) |-> codes[i]] BY <2>1
    <3> QED BY <1>2, <1>5, <2>3, <3>1, BreaksCut
  <2>5. PICK n \in Nat : n = Len(codes) /\ Len(xs) = n + 1 BY <2>4 DEF IsCutAt
  <2>6. \A i \in 1..n : codes[i] = CodeAt(op, l, xs[i]) /\ codes[i] \in Int
    <3>1. Len(xs) - 1 = n BY <2>5
    <3> QED BY Zenon, <2>3, <3>1
  <2>7. IsCoalesced(line, xs, codes, ext)
    <3>1. IsCut(xs, xs, codes, Final(xs)) BY <2>4 DEF IsCutAt
    <3> QED BY <1>3, <2>2, <3>1, CoalescedIs
  <2>8. \A i \in 1..n : xs[i] \in Int /\ xs[i + 1] \in Int /\ xs[i] < xs[i + 1] /\ Unbroken(l.fst, xs[i], xs[i + 1]) /\ Unbroken(l.snd, xs[i], xs[i + 1])
    BY <2>4, <2>5 DEF IsCutAt
  <2>9. Inside1(codes, xs, ext, lo, hi)
    <3>1. SUFFICES ASSUME NEW i \in 1..n, ~(xs[i] >= lo /\ xs[i + 1] <= hi) PROVE Class(codes[i]) = ext BY <2>5 DEF Inside1
    <3>3. PICK x \in Int, y \in Int : x = xs[i] /\ y = xs[i + 1] /\ x < y /\ Unbroken(l.fst, x, y) /\ Unbroken(l.snd, x, y) BY <2>8
    <3>2. Beside(x, y, lo, hi) BY <3>1, <3>3 DEF Beside
    <3>4. x < y /\ Unbroken(l.fst, x, y) /\ Unbroken(l.snd, x, y) /\ Beside(x, y, lo, hi) BY Zenon, <3>2, <3>3
    <3>5. CodeAt(op, l, x) = CombinedRegions(op, l.fext, l.sext) BY <3>4, CodeBeside
    <3>6. codes[i] = ext BY Zenon, <2>6, <3>3, <3>5
    <3> QED BY <1>3, <3>6, ClassIs
  <2>10. Fits(line, lo, hi) BY <2>7, <2>9 DEF IsCoalesced
  <2>11. ASSUME NEW x \in Int PROVE InLine(line, x, ext) >= 0 <=> xs[1] <= x /\ x < xs[n + 1] /\ CodeAt(op, l, x) = 0
    <3>1. xs[1] \in Int /\ xs[n + 1] \in Int
      <4>1. xs \in Seq(Int) /\ 1 \in 1..Len(xs) /\ n + 1 \in 1..Len(xs) BY <2>4, <2>5 DEF IsCutAt
      <4> QED BY <4>1
    <3>2. CASE x < xs[1] \/ x >= xs[n + 1]
      <4>1. InLine(line, x, ext) = ext BY <2>5, <2>7, <3>2 DEF IsCoalesced
      <4> QED BY <1>3, <3>1, <3>2, <4>1
    <3>3. CASE xs[1] <= x /\ x < xs[n + 1]
      <4>1. PICK i \in 1..n : xs[i] <= x /\ x < xs[i + 1]
        <5>1. \A k \in 1..(n + 1) : xs[k] \in Int
          <6>1. xs \in Seq(Int) BY <2>4 DEF IsCutAt
          <6> QED BY <2>5, <6>1
        <5>2. PICK k \in (1 + 1)..(n + 1) : xs[k - 1] <= x /\ x < xs[k]
          <6>1. 1 <= n + 1 /\ 1 \in Int /\ n + 1 \in Int OBVIOUS
          <6> QED BY <3>3, <5>1, <6>1, Crossing
        <5>3. k - 1 \in 1..n /\ (k - 1) + 1 = k BY <5>2
        <5> QED BY <5>2, <5>3
      <4>2. Class(InLine(line, x, ext)) = Class(codes[i]) BY <2>5, <2>7, <4>1 DEF IsCoalesced
      <4>3. PICK p \in Int, q \in Int : p = xs[i] /\ q = xs[i + 1] /\ p <= x /\ x < q /\ Unbroken(l.fst, p, q) /\ Unbroken(l.snd, p, q)
        BY <2>8, <4>1
      <4>4. Class(InLine(l.fst, x, l.fext)) = Class(InLine(l.fst, p, l.fext)) BY <1>1, <4>3, SameBetween
      <4>5. Class(InLine(l.snd, x, l.sext)) = Class(InLine(l.snd, p, l.sext)) BY <1>1, <4>3, SameBetween
      <4>6. CodeAt(op, l, x) = CodeAt(op, l, p)
        <5>1. /\ InLine(l.fst, x, l.fext) \in Int /\ InLine(l.snd, x, l.sext) \in Int
              /\ CodeAt(op, l, x) = CsgCode(op, InLine(l.fst, x, l.fext), InLine(l.snd, x, l.sext)) BY PairTypes
        <5>2. /\ InLine(l.fst, p, l.fext) \in Int /\ InLine(l.snd, p, l.sext) \in Int
              /\ CodeAt(op, l, p) = CsgCode(op, InLine(l.fst, p, l.fext), InLine(l.snd, p, l.sext)) BY PairTypes
        <5> QED BY <4>4, <4>5, <5>1, <5>2, CodeOfClass
      <4>7. codes[i] \in Int /\ codes[i] = CodeAt(op, l, x) BY <2>6, <4>3, <4>6
      <4>8. CodeAt(op, l, x) >= 0 <=> CodeAt(op, l, x) = 0 BY PairTypes
      <4>9. InLine(line, x, ext) \in Int
        <5>1. IsLine(line) /\ Ascends(line) BY <2>10, FitsCases
        <5> QED BY <1>3, <5>1, InLineInt
      <4>10. InLine(line, x, ext) >= 0 <=> codes[i] >= 0
        <5>1. (Class(codes[i]) >= 0 <=> codes[i] >= 0) BY <4>7, ClassIs
        <5>2. (Class(InLine(line, x, ext)) >= 0 <=> InLine(line, x, ext) >= 0) BY <4>9, ClassIs
        <5> QED BY <4>2, <5>1, <5>2
      <4> QED BY <3>3, <4>7, <4>8, <4>10
    <3> QED BY <3>1, <3>2, <3>3
  <2> QED BY <1>5, <2>5, <2>10, <2>11 DEF IsCsgLine
<1> QED BY <1>4, <1>5

\* Scanlines of the same shape have data at the same voxels.
LEMMA AlikeData ==
  ASSUME NEW line, IsLine(line), Ascends(line), NEW other, IsLine(other), Alike(line, other), NEW x \in Int, NEW ext \in Int, ext < 0
  PROVE InLine(other, x, ext) >= 0 <=> InLine(line, x, ext) >= 0
<1>1. PICK n \in Nat : n = Len(line) BY LineTypes
<1>2. Ascends(other) BY <1>1, AlikeAscends
<1>3. Len(other) = n /\ (\A k \in 1..n : other[k][1] = line[k][1]) /\ \A k \in 1..(n - 1) : other[k][2] >= 0 <=> line[k][2] >= 0
  BY <1>1 DEF Alike
<1>4. ASSUME NEW k PROVE Holds(other, k, x) /\ other[k][2] >= 0 <=> Holds(line, k, x) /\ line[k][2] >= 0
  <2>1. CASE k \in 1..(n - 1)
    <3>1. k \in 1..n /\ k + 1 \in 1..n BY <2>1
    <3>2. other[k][1] = line[k][1] /\ other[k + 1][1] = line[k + 1][1] /\ (other[k][2] >= 0 <=> line[k][2] >= 0) BY <1>3, <2>1, <3>1
    <3> QED BY <1>1, <1>3, <3>2 DEF Holds
  <2>2. CASE k \notin 1..(n - 1) BY <1>1, <1>3, <2>2 DEF Holds
  <2> QED BY <2>1, <2>2
<1>5. InLine(other, x, ext) >= 0 <=> \E k : Holds(other, k, x) /\ other[k][2] >= 0 BY <1>2, HasData
<1>6. InLine(line, x, ext) >= 0 <=> \E k : Holds(line, k, x) /\ line[k][2] >= 0 BY HasData
<1> QED BY <1>4, <1>5, <1>6

\* The pairs of a scanline are as many as its voxels with data.
LEMMA PairsCount ==
  ASSUME NEW op, op \in CsgOperations, NEW l, NEW a \in Int, NEW b \in Int, NEW a2 \in Int, NEW b2 \in Int, IsPair(l, a, b, a2, b2),
         NEW ext \in Int, ext < 0, NEW line, NEW lo, NEW hi,
         NEW xs, xs = Ascending(Breaks(l.fst) \cup Breaks(l.snd)), IsCsgLine(line, op, l, xs, ext, lo, hi),
         NEW n \in Nat, NEW other, NumberedFrom(other, n), Alike(line, other)
  PROVE PairsOf(op, l) \in Seq(Int \X Int) /\ Len(PairsOf(op, l)) = DefinedIn(other)
<1>1. IsLine(line) /\ Ascends(line)
  <2>1. Fits(line, lo, hi) BY DEF IsCsgLine
  <2> QED BY <2>1, FitsAscends
<1>2. IsLine(other) BY DEF NumberedFrom
<1>3. \A x \in Int : InLine(other, x, ext) >= 0 <=> xs # <<>> /\ xs[1] <= x /\ x < xs[Len(xs)] /\ CodeAt(op, l, x) = 0
  <2>1. \A x \in Int : InLine(other, x, ext) >= 0 <=> InLine(line, x, ext) >= 0 BY <1>1, <1>2, AlikeData
  <2> QED BY <2>1 DEF IsCsgLine
<1>4. Lists(xs, Breaks(l.fst) \cup Breaks(l.snd))
  <2>1. Fits(l.fst, a, b) /\ Fits(l.snd, a2, b2) BY DEF IsPair
  <2> QED BY <2>1, BreaksListed
<1>5. CASE xs = <<>>
  <2>1. PairsOf(op, l) = <<>> BY <1>5 DEF PairsOf, PairsIn
  <2>2. Lists(<<>>, {}) /\ {} \in SUBSET Int BY EmptyLists
  <2>3. \A x \in Int : x \in {} <=> InLine(other, x, ext) >= 0 BY <1>3, <1>5
  <2>4. PICK s, S : s = <<>> /\ S = {} OBVIOUS
  <2>5. Len(s) = DefinedIn(other) BY <2>2, <2>3, <2>4, DataListed
  <2> QED BY <2>1, <2>4, <2>5
<1>6. CASE xs # <<>>
  <2>1. PICK p \in Int, q \in Int : p = xs[1] /\ q = xs[Len(xs)]
    <3>1. xs \in Seq(Int) BY <1>4 DEF Lists
    <3>2. 1 \in 1..Len(xs) /\ Len(xs) \in 1..Len(xs) BY <1>6, <3>1
    <3> QED BY <3>1, <3>2
  <2>2. PICK S : S = {x \in p..(q - 1) : CodeAt(op, l, x) = 0} OBVIOUS
  <2>3. S \in SUBSET (p..(q - 1)) /\ S \in SUBSET Int BY <2>2
  <2>4. PICK s : s = Ascending(S) /\ Lists(s, S)
    <3>1. q - 1 \in Int OBVIOUS
    <3>2. Lists(Ascending(S), S) BY <2>3, <3>1, AscendingIs
    <3> QED BY <3>2
  <2>5. PairsOf(op, l) = PairsAt(l, s) BY <1>6, <2>1, <2>2, <2>4 DEF PairsOf, PairsIn
  <2>6. ASSUME NEW x \in Int PROVE x \in S <=> InLine(other, x, ext) >= 0
    <3>1. x \in p..(q - 1) <=> p <= x /\ x < q OBVIOUS
    <3>2. InLine(other, x, ext) >= 0 <=> p <= x /\ x < q /\ CodeAt(op, l, x) = 0 BY Zenon, <1>3, <1>6, <2>1
    <3>3. x \in S <=> x \in p..(q - 1) /\ CodeAt(op, l, x) = 0 BY <2>2
    <3> QED BY Zenon, <3>1, <3>2, <3>3
  <2>7. Len(s) = DefinedIn(other) BY <2>3, <2>4, <2>6, DataListed
  <2>8. PICK m \in Nat : m = Len(s) /\ s \in Seq(Int) BY <2>4 DEF Lists
  <2>9. ASSUME NEW i \in 1..m PROVE PairAt(l, s[i]) \in Int \X Int
    <3>1. PICK x \in Int : x = s[i] BY <2>8
    <3>2. InLine(l.fst, x, l.fext) \in Int /\ InLine(l.snd, x, l.sext) \in Int BY PairTypes
    <3> QED BY <3>1, <3>2 DEF PairAt
  <2>10. PairsAt(l, s) \in Seq(Int \X Int) /\ Len(PairsAt(l, s)) = m
    <3>1. PairsAt(l, s) = [i \in 1..m |-> PairAt(l, s[i])] BY <2>8 DEF PairsAt
    <3>2. PICK X : X = Int \X Int OBVIOUS
    <3>3. PairsAt(l, s) \in [1..m -> X] BY <2>9, <3>1, <3>2
    <3>4. PairsAt(l, s) \in Seq(X) /\ Len(PairsAt(l, s)) = m BY <3>3
    <3> QED BY <3>2, <3>4
  <2> QED BY <2>5, <2>7, <2>8, <2>10
<1> QED BY <1>5, <1>6

\* The result of a set operation.
IsCsg(op, ix, jx, r) ==
  /\ Sound(r) /\ r.ext \in {-1, -2}
  /\ \A k \in 1..Len(r.lines) : \E line, lo, hi, l :
       /\ l = Pair(ix, jx, r.org, r.size, k)
       /\ IsPair(l, ix.org[1], End(ix)[1], jx.org[1], End(jx)[1])
       /\ IsCsgLine(line, op, l, Ascending(Breaks(l.fst) \cup Breaks(l.snd)), r.ext, lo, hi)
       /\ Alike(line, r.lines[k])

\* The box of the result covers what it has to.
LEMMA CsgBounds ==
  ASSUME NEW op, NEW ix, NEW jx, NEW c, c = ix.ext, NEW d, d = jx.ext,
         NEW o, o \in Int \X Int \X Int, o = ix.org, NEW e, e \in Int \X Int \X Int, e = End(ix),
         NEW p, p \in Int \X Int \X Int, p = jx.org, NEW f, f \in Int \X Int \X Int, f = End(jx),
         NEW org, org = CsgOrigin(op, ix, jx), NEW end, end = CsgEnd(op, ix, jx)
  PROVE  /\ org \in Int \X Int \X Int /\ end \in Int \X Int \X Int
         /\ Covers(op, c, d, org[1], end[1], o[1], e[1], p[1], f[1])
<1>1. Upper3(o, p) \in Int \X Int \X Int /\ Lower3(o, p) \in Int \X Int \X Int /\ Upper3(e, f) \in Int \X Int \X Int /\ Lower3(e, f) \in Int \X Int \X Int
  BY TripleOps
<1>2. o[1] \in Int /\ p[1] \in Int /\ e[1] \in Int /\ f[1] \in Int OBVIOUS
<1>3. Upper3(o, p)[1] = Upper(o[1], p[1]) /\ Lower3(o, p)[1] = Lower(o[1], p[1]) /\ Upper3(e, f)[1] = Upper(e[1], f[1]) /\ Lower3(e, f)[1] = Lower(e[1], f[1])
  BY DEF Upper3, Lower3
<1>4. CASE FirstDominates(op, c) /\ SecondDominates(op, d)
  <2>1. org = Upper3(o, p) /\ end = Lower3(e, f) BY <1>4 DEF CsgOrigin, CsgEnd
  <2>2. org[1] = Upper(o[1], p[1]) /\ end[1] = Lower(e[1], f[1]) BY <1>3, <2>1
  <2>3. Covers(op, c, d, org[1], end[1], o[1], e[1], p[1], f[1]) BY <1>2, <1>4, <2>2 DEF Covers, Beside, Upper, Lower
  <2> QED BY <1>1, <2>1, <2>3
<1>5. CASE FirstDominates(op, c) /\ ~SecondDominates(op, d)
  <2>1. org = o /\ end = e BY <1>5 DEF CsgOrigin, CsgEnd
  <2> QED BY <1>5, <2>1 DEF Covers
<1>6. CASE ~FirstDominates(op, c) /\ SecondDominates(op, d)
  <2>1. org = p /\ end = f BY <1>6 DEF CsgOrigin, CsgEnd
  <2> QED BY <1>6, <2>1 DEF Covers
<1>7. CASE ~FirstDominates(op, c) /\ ~SecondDominates(op, d)
  <2>1. org = Lower3(o, p) /\ end = Upper3(e, f) BY <1>7 DEF CsgOrigin, CsgEnd
  <2>2. org[1] = Lower(o[1], p[1]) /\ end[1] = Upper(e[1], f[1]) BY <1>3, <2>1
  <2>3. Covers(op, c, d, org[1], end[1], o[1], e[1], p[1], f[1]) BY <1>2, <2>2 DEF Covers, Beside, Upper, Lower
  <2> QED BY <1>1, <2>1, <2>3
<1> QED BY <1>4, <1>5, <1>6, <1>7

\* csg_union, csg_intersect and csg_subtract make a sound index spec whose voxels are combined from those of the operands.
THEOREM CsgSound ==
  ASSUME NEW op, op \in CsgOperations, NEW ix, Sound(ix), NEW jx, Sound(jx), NEW r, r = CsgIndex(op, ix, jx)
  PROVE IsCsg(op, ix, jx, r)
<1>1. PICK c \in {-1, -2}, d \in {-1, -2} : c = ix.ext /\ d = jx.ext BY SoundTypes
<1>2. PICK o, e, p, f : /\ o \in Int \X Int \X Int /\ e \in Int \X Int \X Int /\ p \in Int \X Int \X Int /\ f \in Int \X Int \X Int
                        /\ o = ix.org /\ e = End(ix) /\ p = jx.org /\ f = End(jx) BY SoundTypes
<1>3. PICK org \in Int \X Int \X Int, end \in Int \X Int \X Int : org = CsgOrigin(op, ix, jx) /\ end = CsgEnd(op, ix, jx)
  <2>1. PICK s, t : s = CsgOrigin(op, ix, jx) /\ t = CsgEnd(op, ix, jx) OBVIOUS
  <2>2. s \in Int \X Int \X Int /\ t \in Int \X Int \X Int BY <1>2, <2>1, CsgBounds
  <2> QED BY Zenon, <2>1, <2>2
<1>4. org \in Int \X Int \X Int /\ end \in Int \X Int \X Int /\ Covers(op, c, d, org[1], end[1], o[1], e[1], p[1], f[1])
  BY <1>1, <1>2, <1>3, CsgBounds
<1>5. PICK dim : dim = SizeFrom(Difference3(end, org)) OBVIOUS
<1>6. PICK ext \in {-1, -2} : ext = CombinedRegions(op, c, d) BY RegionsAre
<1>8. PICK size \in Nat \X Nat \X Nat : size = dim /\ (size[2] * size[3] = 0 \/ org[1] + size[1] = end[1])
  <2>1. PICK a1 \in Int, a2 \in Int, a3 \in Int, b1 \in Int, b2 \in Int, b3 \in Int :
          a1 = org[1] /\ a2 = org[2] /\ a3 = org[3] /\ b1 = end[1] /\ b2 = end[2] /\ b3 = end[3] BY <1>4
  <2>2. PICK diff : diff = <<b1 - a1, b2 - a2, b3 - a3>> /\ diff = Difference3(end, org) BY <2>1 DEF Difference3
  <2>3. CASE \E i \in 1..3 : diff[i] < 0
    <3>1. dim = <<0, 0, 0>> BY <1>5, <2>2, <2>3 DEF SizeFrom
    <3>2. dim \in Nat \X Nat \X Nat /\ dim[2] * dim[3] = 0 BY <3>1
    <3> QED BY Zenon, <3>2
  <2>4. CASE ~ \E i \in 1..3 : diff[i] < 0
    <3>1. dim = diff BY <1>5, <2>2, <2>4 DEF SizeFrom
    <3>2. 1 \in 1..3 /\ 2 \in 1..3 /\ 3 \in 1..3 OBVIOUS
    <3>3. ~(diff[1] < 0) /\ ~(diff[2] < 0) /\ ~(diff[3] < 0) BY <2>4, <3>2
    <3>4. b1 - a1 \in Nat /\ b2 - a2 \in Nat /\ b3 - a3 \in Nat BY <2>2, <3>3
    <3>5. dim \in Nat \X Nat \X Nat BY <2>2, <3>1, <3>4
    <3>6. org[1] + dim[1] = end[1] BY <2>1, <2>2, <3>1
    <3> QED BY Zenon, <3>5, <3>6
  <2> QED BY <2>3, <2>4
<1>7. r = CsgTo(op, ix, jx, org, size, ext) BY <1>1, <1>3, <1>5, <1>6, <1>8 DEF CsgIndex
<1>9. PICK lines : lines = [k \in Lines(size) |-> CsgLine(op, Pair(ix, jx, org, size, k), ext)] OBVIOUS
<1>10. r = Index(org, size, ext, Numbered(lines, size[2] * size[3])) BY <1>7, <1>9 DEF CsgTo
<1>11. ASSUME NEW k \in 1..(size[2] * size[3])
       PROVE  \E l : /\ l = Pair(ix, jx, org, size, k) /\ IsPair(l, o[1], e[1], p[1], f[1])
                     /\ IsCsgLine(lines[k], op, l, Ascending(Breaks(l.fst) \cup Breaks(l.snd)), ext, org[1], org[1] + size[1])
  <2>1. k \in Lines(size) BY <1>8, LinesOfSize
  <2>2. PICK y \in Int, z \in Int : y = LineY(org, size, k) /\ z = LineZ(org, size, k) BY <1>4, <1>8, <2>1, LineYZ
  <2>3. PICK l : l = Pair(ix, jx, org, size, k) OBVIOUS
  <2>4. l.fst = LineAt(ix, y, z) /\ l.snd = LineAt(jx, y, z) /\ l.fext = c /\ l.sext = d BY <1>1, <2>2, <2>3 DEF Pair
  <2>5. Fits(l.fst, o[1], e[1]) /\ Fits(l.snd, p[1], f[1])
    <3>1. Fits(l.fst, ix.org[1], ix.org[1] + ix.size[1]) BY <2>4, LineAtIs
    <3>2. Fits(l.snd, jx.org[1], jx.org[1] + jx.size[1]) BY <2>4, LineAtIs
    <3> QED BY <1>2, <3>1, <3>2, EndIs
  <2>6. IsPair(l, o[1], e[1], p[1], f[1]) BY <2>4, <2>5 DEF IsPair
  <2>7. PICK lo \in Int, hi \in Int : lo = org[1] /\ hi = org[1] + size[1] /\ hi = end[1]
    <3>1. org[1] \in Int /\ end[1] \in Int /\ org[1] + size[1] = end[1]
      <4>1. size[2] * size[3] # 0 BY <2>1, <1>8
      <4> QED BY <1>4, <1>8, <4>1
    <3> QED BY Zenon, <3>1
  <2>8. PICK a \in Int, b \in Int, a2 \in Int, b2 \in Int : a = o[1] /\ b = e[1] /\ a2 = p[1] /\ b2 = f[1]
    <3>1. o[1] \in Int /\ e[1] \in Int /\ p[1] \in Int /\ f[1] \in Int BY <1>2
    <3> QED BY Zenon, <3>1
  <2>9. lines[k] = CsgLine(op, l, ext) BY <1>9, <2>1, <2>3
  <2>10. IsPair(l, a, b, a2, b2) /\ Covers(op, l.fext, l.sext, lo, hi, a, b, a2, b2) /\ ext = CombinedRegions(op, l.fext, l.sext)
    BY Zenon, <1>4, <1>6, <2>4, <2>6, <2>7, <2>8
  <2>11. PICK xs : xs = Ascending(Breaks(l.fst) \cup Breaks(l.snd)) OBVIOUS
  <2>12. IsCsgLine(lines[k], op, l, xs, ext, lo, hi) BY <2>9, <2>10, <2>11, CsgLineIs
  <2> QED BY Zenon, <2>3, <2>6, <2>7, <2>11, <2>12
<1>12. Sound(r) /\ r.ext = ext /\ r.org = org /\ r.size = size /\ \A k \in 1..(size[2] * size[3]) : Alike(lines[k], r.lines[k])
  <2>1. \A k \in 1..(size[2] * size[3]) : Fits(lines[k], org[1], org[1] + size[1]) BY <1>11 DEF IsCsgLine
  <2> QED BY <1>10, <2>1, SoundFromLines
<1>13. Len(r.lines) = size[2] * size[3] BY <1>12 DEF Sound
<1> QED
  <2>1. SUFFICES ASSUME NEW k \in 1..(size[2] * size[3])
                 PROVE  \E line, lo, hi, l :
                          /\ l = Pair(ix, jx, org, size, k) /\ IsPair(l, o[1], e[1], p[1], f[1])
                          /\ IsCsgLine(line, op, l, Ascending(Breaks(l.fst) \cup Breaks(l.snd)), ext, lo, hi)
                          /\ Alike(line, r.lines[k])
    BY Zenon, <1>2, <1>12, <1>13 DEF IsCsg
  <2>2. Alike(lines[k], r.lines[k]) BY <1>12
  <2> QED BY Zenon, <1>11, <2>2

\* As many pairs as voxels with data in the result.
LEMMA CsgPairsAre ==
  ASSUME NEW op, op \in CsgOperations, NEW ix, Sound(ix), NEW jx, Sound(jx), NEW r, IsCsg(op, ix, jx, r)
  PROVE CsgPairs(op, ix, jx, r) \in Seq(Int \X Int) /\ Len(CsgPairs(op, ix, jx, r)) = r.n
<1>1. PICK count \in Nat : count = Len(r.lines) /\ count = r.size[2] * r.size[3]
  <2>1. Sound(r) BY DEF IsCsg
  <2>2. Len(r.lines) = r.size[2] * r.size[3] /\ Len(r.lines) \in Nat BY <2>1, IndexTypes DEF Sound
  <2> QED BY <2>2
<1>2. PICK N : /\ IsNumbering(N, r.lines, count) /\ r.n = N[count]
               /\ \A k \in 1..count : NumberedFrom(r.lines[k], N[k - 1])
  <2>1. Sound(r) BY DEF IsCsg
  <2> QED BY <1>1, <2>1, SoundNumbers
<1> DEFINE P(k) == PairsOf(op, Pair(ix, jx, r.org, r.size, k))
           X == Seq(Int \X Int)
<1>3. ASSUME NEW k \in 1..count PROVE P(k) \in X /\ Len(P(k)) = DefinedIn(r.lines[k])
  <2>1. PICK line, lo, hi, l : /\ l = Pair(ix, jx, r.org, r.size, k)
                               /\ IsPair(l, ix.org[1], End(ix)[1], jx.org[1], End(jx)[1])
                               /\ IsCsgLine(line, op, l, Ascending(Breaks(l.fst) \cup Breaks(l.snd)), r.ext, lo, hi)
                               /\ Alike(line, r.lines[k])
    BY <1>1 DEF IsCsg
  <2>2. PICK xs : xs = Ascending(Breaks(l.fst) \cup Breaks(l.snd)) OBVIOUS
  <2>3. PICK ext \in Int : ext = r.ext /\ ext < 0 BY DEF IsCsg
  <2>4. PICK a \in Int, b \in Int, a2 \in Int, b2 \in Int : a = ix.org[1] /\ b = End(ix)[1] /\ a2 = jx.org[1] /\ b2 = End(jx)[1]
    <3>1. ix.org \in Int \X Int \X Int /\ jx.org \in Int \X Int \X Int /\ End(ix) \in Int \X Int \X Int /\ End(jx) \in Int \X Int \X Int BY SoundTypes
    <3>2. ix.org[1] \in Int /\ End(ix)[1] \in Int /\ jx.org[1] \in Int /\ End(jx)[1] \in Int BY <3>1
    <3> QED BY Zenon, <3>2
  <2>5. PICK n \in Nat : n = N[k - 1]
    <3>1. k - 1 \in 0..count OBVIOUS
    <3> QED BY <1>2, <3>1 DEF IsNumbering
  <2>6. NumberedFrom(r.lines[k], n) BY <1>2, <2>5
  <2>7. IsPair(l, a, b, a2, b2) /\ IsCsgLine(line, op, l, xs, ext, lo, hi) BY Zenon, <2>1, <2>2, <2>3, <2>4
  <2>8. PairsOf(op, l) \in Seq(Int \X Int) /\ Len(PairsOf(op, l)) = DefinedIn(r.lines[k]) BY <2>1, <2>2, <2>3, <2>6, <2>7, PairsCount
  <2> QED BY <2>1, <2>8
<1> HIDE DEF P
<1> DEFINE Eq(upTo) == upTo = [k \in 0..count |-> IF k = 0 THEN <<>> ELSE upTo[k - 1] \o P(k)]
           step == [q \in (1..count) \X X |-> q[2] \o P(q[1])]
<1>4. \A k \in 1..count : \A x \in X : step[<<k, x>>] = x \o P(k) OBVIOUS
<1> HIDE DEF step
<1>5. \A k \in 1..count : \A x \in X : x \o P(k) \in X /\ Len(x \o P(k)) = Len(x) + Len(P(k))
  <2>1. SUFFICES ASSUME NEW k \in 1..count, NEW x \in X PROVE x \o P(k) \in X /\ Len(x \o P(k)) = Len(x) + Len(P(k)) OBVIOUS
  <2>2. PICK Y : Y = Int \X Int OBVIOUS
  <2>3. x \in Seq(Y) /\ P(k) \in Seq(Y) BY <1>3, <2>2
  <2>4. x \o P(k) \in Seq(Y) /\ Len(x \o P(k)) = Len(x) + Len(P(k)) BY <2>3
  <2> QED BY <2>2, <2>4
<1>6. <<>> \in X /\ \A x \in X : Len(x) \in Nat OBVIOUS
<1> HIDE DEF X
<1>7. Closed(step, X, 0, count)
  <2>1. (0 + 1)..count = 1..count OBVIOUS
  <2> QED BY <1>4, <1>5, <2>1 DEF Closed
<1>8. PICK w : BuiltUp(w, X, <<>>, 0, count, step)
  <2>1. 0 \in Int /\ count \in Int /\ 0 <= count OBVIOUS
  <2> QED BY <1>6, <1>7, <2>1, StepsExist
<1>9. w \in [0..count -> X] /\ w[0] = <<>> /\ \A k \in 1..count : w[k] = w[k - 1] \o P(k)
  <2>1. (0 + 1)..count = 1..count /\ \A k \in 1..count : k - 1 \in 0..count OBVIOUS
  <2>2. w \in [0..count -> X] /\ w[0] = <<>> /\ \A k \in 1..count : w[k] = step[<<k, w[k - 1]>>] BY <1>8, <2>1 DEF BuiltUp
  <2>3. \A k \in 1..count : w[k - 1] \in X BY <2>1, <2>2
  <2> QED BY <1>4, <2>2, <2>3
<1>10. Eq(w)
  <2> DEFINE again == [k \in 0..count |-> IF k = 0 THEN <<>> ELSE w[k - 1] \o P(k)]
  <2>1. \A k \in 0..count : w[k] = again[k]
    <3>1. SUFFICES ASSUME NEW k \in 0..count PROVE w[k] = again[k] OBVIOUS
    <3>2. CASE k = 0 BY <1>9, <3>2
    <3>3. CASE k # 0
      <4>1. k \in 1..count BY <3>3
      <4> QED BY <1>9, <3>3, <4>1
    <3> QED BY <3>2, <3>3
  <2>2. w = again BY Zenon, <1>9, <2>1
  <2> QED BY <2>2
<1> DEFINE upTo == CHOOSE upTo : Eq(upTo)
<1>11. Eq(upTo) BY Zenon, <1>10
<1>12. CsgPairs(op, ix, jx, r) = upTo[count]
  <2>1. count = r.size[2] * r.size[3] BY <1>1
  <2> QED BY Zenon, <2>1 DEF CsgPairs, CsgPairsTo, P
<1> HIDE DEF upTo
<1>13. upTo[0] = <<>> BY <1>11
<1>14. \A k \in 1..count : upTo[k] = upTo[k - 1] \o P(k)
  <2>1. SUFFICES ASSUME NEW k \in 1..count PROVE upTo[k] = upTo[k - 1] \o P(k) OBVIOUS
  <2>2. k \in 0..count /\ k # 0 OBVIOUS
  <2> QED BY <1>11, <2>2
<1>15. upTo[count] \in X /\ Len(upTo[count]) = N[count]
  <2> DEFINE T == {k \in 0..count : upTo[k] \in X /\ Len(upTo[k]) = N[k]}
  <2>1. 0 \in T BY <1>6, <1>13, <1>2 DEF IsNumbering
  <2>2. ASSUME NEW k \in 0..(count - 1), k \in T PROVE k + 1 \in T
    <3>1. k + 1 \in 1..count /\ (k + 1) - 1 = k OBVIOUS
    <3>2. upTo[k + 1] = upTo[k] \o P(k + 1) BY <1>14, <3>1
    <3>6. upTo[k] \in X /\ Len(upTo[k]) = N[k] BY <2>2
    <3>3. upTo[k + 1] \in X /\ Len(upTo[k + 1]) = Len(upTo[k]) + Len(P(k + 1)) BY <1>5, <3>1, <3>2, <3>6
    <3>4. N[k + 1] = N[k] + DefinedIn(r.lines[k + 1]) BY <1>2, <3>1 DEF IsNumbering
    <3>5. Len(P(k + 1)) = DefinedIn(r.lines[k + 1]) BY <1>3, <3>1
    <3>7. Len(upTo[k + 1]) = N[k + 1] BY <3>3, <3>4, <3>5, <3>6
    <3>8. k + 1 \in 0..count OBVIOUS
    <3> QED BY <3>3, <3>7, <3>8
  <2>3. count \in T
    <3>1. 0 \in Int /\ count \in Int /\ count \in 0..count OBVIOUS
    <3> HIDE DEF T
    <3>2. \A k \in 0..count : k \in T BY <2>1, <2>2, <3>1, InductionFrom
    <3> QED BY <3>1, <3>2
  <2> QED BY <2>3
<1> QED BY <1>2, <1>12, <1>15 DEF X

\* The neighbours of every voxel with data.
IsAdjacency(adj, n) == \A i \in 1..n : \A j \in 1..6 : adj[i][j] \in Int /\ adj[i][j] < n

\* ris_adjacency of a sound index spec is one.
LEMMA AdjacencyIs ==
  ASSUME NEW ix, Sound(ix) PROVE IsAdjacency(Adjacency(ix), ix.n)
<1>1. PICK coords : coords = Coords(ix) /\ Len(coords) = ix.n /\ coords \in Seq(Voxels3) BY CoordsAre
<1>2. PICK n \in Nat : n = ix.n BY SoundTypes
<1>3. Adjacency(ix) = [i \in 1..n |-> Neighbours(ix, coords[i])]
  <2>1. Adjacency(ix) = Listed([i \in 1..n |-> Neighbours(ix, coords[i])], n) BY <1>1, <1>2 DEF Adjacency, AdjacencyOf
  <2>2. PICK f : f = [i \in 1..n |-> Neighbours(ix, coords[i])] OBVIOUS
  <2>3. f = [i \in 1..n |-> f[i]] BY <2>2
  <2>4. Listed(f, n) = f BY <2>3, ListedSame
  <2> QED BY Zenon, <2>1, <2>2, <2>4
<1>4. ASSUME NEW i \in 1..n, NEW j \in 1..6 PROVE Neighbours(ix, coords[i])[j] \in Int /\ Neighbours(ix, coords[i])[j] < n
  <2>1. PICK v \in Int \X Int \X Int : v = coords[i] BY SMTT(20), <1>1, <1>2 DEF Voxels3
  <2>2. Neighbours(ix, v) = [k \in 1..6 |-> DataIndex(ix, Sum3(v, Directions[k]))]
    <3>1. PICK f : f = [k \in 1..6 |-> DataIndex(ix, Sum3(v, Directions[k]))] OBVIOUS
    <3>2. f = [k \in 1..6 |-> f[k]] BY <3>1
    <3>3. Listed(f, 6) = f BY <3>2, ListedSame
    <3>4. Neighbours(ix, v) = Listed(f, 6) BY <3>1 DEF Neighbours
    <3> QED BY Zenon, <3>1, <3>3, <3>4
  <2>3. Directions[j] \in Int \X Int \X Int
    <3>1. j = 1 \/ j = 2 \/ j = 3 \/ j = 4 \/ j = 5 \/ j = 6 OBVIOUS
    <3> QED BY <3>1 DEF Directions
  <2>4. PICK d \in Int \X Int \X Int : d = Directions[j] BY <2>3
  <2>5. PICK x \in Int, y \in Int, z \in Int : Sum3(v, d) = <<x, y, z>> BY DEF Sum3
  <2>6. DataIndex(ix, <<x, y, z>>) \in Int /\ DataIndex(ix, <<x, y, z>>) < n BY <1>2, LookupRange
  <2>7. Neighbours(ix, v)[j] = DataIndex(ix, <<x, y, z>>) BY <2>2, <2>4, <2>5
  <2> QED BY <2>1, <2>6, <2>7
<1>5. ASSUME NEW i \in 1..n, NEW j \in 1..6 PROVE Adjacency(ix)[i][j] \in Int /\ Adjacency(ix)[i][j] < n
  <2>1. Adjacency(ix)[i] = Neighbours(ix, coords[i]) BY <1>3
  <2> QED BY <1>4, <2>1
<1> QED BY <1>2, <1>5 DEF IsAdjacency

\* A code for every voxel with data.
CodeSeqs(n) == {c \in Seq(Int) : Len(c) = n}

\* Listed codes are codes.
LEMMA ListedCodes ==
  ASSUME NEW n, n \in Nat, NEW f, f = [i \in 1..n |-> f[i]], \A i \in 1..n : f[i] \in Int
  PROVE Listed(f, n) \in CodeSeqs(n)
<1>1. Listed(f, n) = f BY ListedSame
<1>2. f \in [1..n -> Int] OBVIOUS
<1>3. f \in Seq(Int) /\ Len(f) = n BY <1>2
<1> QED BY <1>1, <1>3 DEF CodeSeqs

\* The first pass gives every voxel a code.
LEMMA FirstPassIs ==
  ASSUME NEW ix, NEW coords, NEW adj, NEW dist, NEW pop, ix.n \in Nat, IsAdjacency(adj, ix.n)
  PROVE FirstPass(ix, coords, adj, dist, pop) \in CodeSeqs(ix.n)
<1>1. PICK n \in Nat : n = ix.n OBVIOUS
<1>2. ASSUME NEW i \in 1..n PROVE FirstCode(ix, coords[i], adj[i], dist, pop) \in Int
  <2>1. PICK regions : regions = RegionSources(ix, coords[i], adj[i]) OBVIOUS
  <2>2. PICK populated : populated = PopulatedSources(adj[i], pop) OBVIOUS
  <2>3. regions \in SUBSET (1..6) BY <2>1 DEF RegionSources
  <2>4. FirstCode(ix, coords[i], adj[i], dist, pop) = FirstFrom(adj[i], dist, regions, populated) BY <2>1, <2>2 DEF FirstCode
  <2>5. CASE regions # {}
    <3>1. Max(regions) \in 1..6
      <4>1. 1 \in Int /\ 6 \in Int OBVIOUS
      <4>2. Max(regions) \in regions BY <2>3, <2>5, <4>1, MaxIs
      <4> QED BY <2>3, <4>2
    <3>2. adj[i][Max(regions)] \in Int BY <1>1, <3>1 DEF IsAdjacency
    <3>3. FirstFrom(adj[i], dist, regions, populated) = adj[i][Max(regions)] BY <2>5 DEF FirstFrom
    <3> QED BY <2>4, <3>2, <3>3
  <2>6. CASE regions = {}
    <3>1. PICK late : late = (dist[adj[i][Max(populated)] + 1] >= 0) OBVIOUS
    <3>2. FirstFrom(adj[i], dist, regions, populated) = IF populated # {} THEN IF late THEN -1 ELSE -2 ELSE 0 BY <2>6, <3>1 DEF FirstFrom
    <3>3. FirstFrom(adj[i], dist, regions, populated) \in Int BY <3>1, <3>2
    <3> QED BY <2>4, <3>3
  <2> QED BY <2>5, <2>6
<1>3. PICK f : f = [i \in 1..n |-> IF pop[i] # 0 THEN 1 ELSE FirstCode(ix, coords[i], adj[i], dist, pop)] OBVIOUS
<1>4. f = [i \in 1..n |-> f[i]] BY <1>3
<1>5. \A i \in 1..n : f[i] \in Int BY <1>2, <1>3
<1>6. Listed(f, n) \in CodeSeqs(n) BY <1>4, <1>5, ListedCodes
<1>7. FirstPass(ix, coords, adj, dist, pop) = Listed(f, n) BY <1>1, <1>3 DEF FirstPass
<1> QED BY <1>1, <1>6, <1>7

\* What the flood fill holds.
Floods(n) == [codes : CodeSeqs(n), queue : Seq(1..n)]

\* Visiting a neighbour keeps that.
LEMMA VisitIs ==
  ASSUME NEW n \in Nat, NEW adj, IsAdjacency(adj, n), NEW f \in Floods(n), NEW i \in 1..n
  PROVE Visit(f, adj, i) \in Floods(n)
<1>1. f.codes \in Seq(Int) /\ Len(f.codes) = n /\ f.queue \in Seq(1..n) BY DEF Floods, CodeSeqs
<1>2. PICK reached : reached = {j \in 1..6 : adj[i][j] >= 0 /\ f.codes[adj[i][j] + 1] = 0} OBVIOUS
<1>3. PICK codes : codes = [d \in 1..n |-> IF \E j \in reached : adj[i][j] + 1 = d THEN f.codes[i] ELSE f.codes[d]] OBVIOUS
<1>4. Listed(codes, n) \in CodeSeqs(n)
  <2>1. codes = [d \in 1..n |-> codes[d]] BY <1>3
  <2>2. \A d \in 1..n : codes[d] \in Int BY <1>1, <1>3
  <2> QED BY <2>1, <2>2, ListedCodes
<1>5. PICK s, m : s = Ascending(reached) /\ m = Cardinality(reached) /\ Lists(s, reached) /\ m = Len(s)
  <2>1. reached \in SUBSET (1..6) /\ 1 \in Int /\ 6 \in Int BY <1>2
  <2>2. Lists(Ascending(reached), reached) BY <2>1, AscendingIs
  <2> QED BY <2>2, ListsCount
<1>6. PICK more : more = [k \in 1..m |-> adj[i][s[k]] + 1] OBVIOUS
<1>7. m \in Nat BY <1>5 DEF Lists
<1>8. ASSUME NEW k \in 1..m PROVE adj[i][s[k]] + 1 \in 1..n
  <2>1. PICK j \in reached : j = s[k] BY <1>5 DEF Lists
  <2>2. adj[i][j] >= 0 /\ j \in 1..6 BY <1>2
  <2>3. adj[i][j] \in Int /\ adj[i][j] < n BY <2>2 DEF IsAdjacency
  <2> QED BY <2>1, <2>2, <2>3
<1>9. more \in Seq(1..n)
  <2>1. more \in [1..m -> 1..n] BY <1>6, <1>8
  <2> QED BY <1>7, <2>1
<1>10. f.queue \o more \in Seq(1..n) BY <1>1, <1>9
<1>11. Visit(f, adj, i) = [codes |-> Listed(codes, n), queue |-> f.queue \o more]
  BY Zenon, <1>1, <1>2, <1>3, <1>5, <1>6 DEF Visit
<1> QED BY <1>4, <1>10, <1>11 DEF Floods

\* The flood fill returns a code for every voxel.
LEMMA FloodedIs ==
  ASSUME NEW n \in Nat, NEW adj, IsAdjacency(adj, n), NEW codes \in CodeSeqs(n)
  PROVE Flooded(codes, adj, n) \in CodeSeqs(n)
<1> DEFINE first == [codes |-> codes, queue |-> Ascending({i \in 1..n : codes[i] < 0})]
           Eq(after) == after = [k \in 0..n |-> IF k = 0 THEN first ELSE VisitNext(after[k - 1], adj, k)]
           X == Floods(n)
           step == [p \in (1..n) \X X |-> VisitNext(p[2], adj, p[1])]
<1>1. \A k \in 1..n : \A x \in X : step[<<k, x>>] = VisitNext(x, adj, k) OBVIOUS
<1> HIDE DEF step
<1>2. first \in X
  <2>1. PICK S : S = {i \in 1..n : codes[i] < 0} OBVIOUS
  <2>2. S \in SUBSET (1..n) /\ 1 \in Int /\ n \in Int BY <2>1
  <2>3. PICK s : s = Ascending(S) /\ Lists(s, S) BY <2>2, AscendingIs
  <2>4. s \in Seq(1..n)
    <3>1. s \in Seq(Int) /\ \A k \in 1..Len(s) : s[k] \in 1..n BY <2>2, <2>3 DEF Lists
    <3>2. PICK m \in Nat : m = Len(s) BY <3>1
    <3>3. s \in [1..m -> 1..n] BY <3>1, <3>2
    <3> QED BY <3>2, <3>3
  <2> QED BY <2>1, <2>3, <2>4 DEF Floods
<1>3. \A k \in 1..n : \A x \in X : VisitNext(x, adj, k) \in X
  <2>1. SUFFICES ASSUME NEW k \in 1..n, NEW x \in X PROVE VisitNext(x, adj, k) \in X OBVIOUS
  <2>2. x.queue \in Seq(1..n) BY DEF Floods
  <2>3. CASE k > Len(x.queue) BY <2>3 DEF VisitNext
  <2>4. CASE ~(k > Len(x.queue))
    <3>1. x.queue[k] \in 1..n BY <2>2, <2>4
    <3>2. PICK i \in 1..n : i = x.queue[k] BY <3>1
    <3>3. Visit(x, adj, i) \in X BY VisitIs
    <3>4. VisitNext(x, adj, k) = Visit(x, adj, i) BY <2>4, <3>2 DEF VisitNext
    <3> QED BY <3>3, <3>4
  <2> QED BY <2>3, <2>4
<1> HIDE DEF first, X
<1>4. PICK w : BuiltUp(w, X, first, 0, n, step)
  <2>1. 0 \in Int /\ n \in Int /\ 0 <= n OBVIOUS
  <2>2. (0 + 1)..n = 1..n OBVIOUS
  <2>3. Closed(step, X, 0, n) BY <1>1, <1>3, <2>2 DEF Closed
  <2> QED BY <1>2, <2>1, <2>3, StepsExist
<1>5. w \in [0..n -> X] /\ w[0] = first /\ \A k \in 1..n : w[k] = VisitNext(w[k - 1], adj, k)
  <2>1. (0 + 1)..n = 1..n /\ \A k \in 1..n : k - 1 \in 0..n OBVIOUS
  <2>2. w \in [0..n -> X] /\ w[0] = first /\ \A k \in 1..n : w[k] = step[<<k, w[k - 1]>>] BY <1>4, <2>1 DEF BuiltUp
  <2>3. \A k \in 1..n : w[k - 1] \in X BY <2>1, <2>2
  <2> QED BY <1>1, <2>2, <2>3
<1>6. Eq(w)
  <2> DEFINE again == [k \in 0..n |-> IF k = 0 THEN first ELSE VisitNext(w[k - 1], adj, k)]
  <2>1. \A k \in 0..n : w[k] = again[k]
    <3>1. SUFFICES ASSUME NEW k \in 0..n PROVE w[k] = again[k] OBVIOUS
    <3>2. CASE k = 0 BY <1>5, <3>2
    <3>3. CASE k # 0
      <4>1. k \in 1..n BY <3>3
      <4> QED BY <1>5, <3>3, <4>1
    <3> QED BY <3>2, <3>3
  <2>2. w = again BY <1>5, <2>1
  <2> QED BY <2>2
<1> DEFINE after == CHOOSE after : Eq(after)
<1>7. Eq(after) BY <1>6
<1>8. Flooded(codes, adj, n) = after[n].codes BY Zenon DEF Flooded, first
<1> HIDE DEF after
<1>9. \A k \in 0..n : after[k] = IF k = 0 THEN first ELSE VisitNext(after[k - 1], adj, k) BY <1>7
<1>10. after[n] \in X
  <2> DEFINE T == {k \in 0..n : after[k] \in X}
  <2>1. 0 \in T
    <3>1. 0 \in 0..n OBVIOUS
    <3>2. after[0] = first BY <1>9, <3>1
    <3> QED BY <1>2, <3>1, <3>2
  <2>2. ASSUME NEW k \in 0..(n - 1), k \in T PROVE k + 1 \in T
    <3>1. k + 1 \in 1..n /\ (k + 1) - 1 = k /\ k + 1 \in 0..n /\ k + 1 # 0 OBVIOUS
    <3>2. after[k] \in X BY <2>2
    <3>3. after[k + 1] = VisitNext(after[k], adj, k + 1) BY <1>9, <3>1
    <3>4. VisitNext(after[k], adj, k + 1) \in X BY <1>3, <3>1, <3>2
    <3> QED BY <3>1, <3>3, <3>4
  <2>3. 0 \in Int /\ n \in Int /\ n \in 0..n OBVIOUS
  <2> HIDE DEF T
  <2>4. \A k \in 0..n : k \in T BY <2>1, <2>2, <2>3, InductionFrom
  <2>5. n \in T BY <2>3, <2>4
  <2> QED BY <2>5 DEF T
<1> QED BY <1>8, <1>10 DEF X, Floods

(* Rebuilding the scanlines. *)

\* The lookup of a sound index spec returns a region or the index of a voxel.
LEMMA LineRange ==
  ASSUME NEW ix, Sound(ix), NEW k, k \in 1..Len(ix.lines), NEW x, x \in Int
  PROVE InLine(ix.lines[k], x, ix.ext) \in Int /\ InLine(ix.lines[k], x, ix.ext) < ix.n
<1>1. PICK count \in Nat : count = Len(ix.lines)
  <2>1. ix \in Indexes BY DEF Sound
  <2> QED BY <2>1, IndexTypes
<1>2. PICK N : IsNumbering(N, ix.lines, count) /\ ix.n = N[count] /\ \A j \in 1..count : NumberedFrom(ix.lines[j], N[j - 1])
  BY <1>1, SoundNumbers
<1>3. k - 1 \in 0..count /\ k \in 0..count /\ count \in 0..count /\ k <= count /\ k \in 1..count BY <1>1
<1>0. PICK line : line = ix.lines[k] OBVIOUS
<1>4. PICK ext \in Int, n \in Nat : line = ix.lines[k] /\ ext = ix.ext /\ ext < 0 /\ n = N[k - 1]
  <2>1. N[k - 1] \in Nat BY <1>2, <1>3 DEF IsNumbering
  <2>2. ix.ext \in Int /\ ix.ext < 0 BY SoundTypes
  <2> QED BY Zenon, <1>0, <2>1, <2>2
<1>5. NumberedFrom(line, n) BY <1>2, <1>3, <1>4
<1>6. IsLine(line) /\ Ascends(line) BY <1>5 DEF NumberedFrom
<1>7. InLine(line, x, ext) \in Int BY <1>4, <1>6, InLineInt
<1>8. GoodLines(ix.lines, count)
  <2>1. \A j \in 1..count : IsLine(ix.lines[j]) /\ Ascends(ix.lines[j]) BY <1>1, SoundLine
  <2> QED BY <2>1 DEF GoodLines
<1>9. N[k] <= N[count] /\ N[k] = n + DefinedIn(line) /\ N[k] \in Nat /\ N[count] \in Nat
  <2>1. N[k] <= N[count] BY <1>2, <1>3, <1>8, NumberingGrows
  <2>2. N[k] = n + DefinedIn(line) /\ N[k] \in Nat /\ N[count] \in Nat BY <1>2, <1>3, <1>4 DEF IsNumbering
  <2> QED BY <2>1, <2>2
<1>10. CASE InLine(line, x, ext) >= 0
  <2>1. InLine(line, x, ext) \in n..(n + DefinedIn(line) - 1) BY <1>4, <1>5, <1>10, DataRange
  <2>2. DefinedIn(line) \in Nat BY <1>6, DefinedInNat
  <2> QED BY <1>2, <1>4, <1>7, <1>9, <2>1, <2>2
<1>11. CASE InLine(line, x, ext) < 0 BY <1>2, <1>4, <1>7, <1>9, <1>11
<1> QED BY <1>7, <1>10, <1>11

\* A scanline rebuilt from the codes fits where the scanline did.
LEMMA PopulatedFits ==
  ASSUME NEW lo \in Int, NEW hi \in Int, NEW line, Fits(line, lo, hi), NEW ext \in Int, ext < 0,
         NEW n \in Nat, NEW codes \in CodeSeqs(n), \A x \in Int : InLine(line, x, ext) \in Int /\ InLine(line, x, ext) < n
  PROVE Fits(PopulatedLine(line, codes, ext), lo, hi)
<1>1. CASE IsEmptyLine(line)
  <2>1. PopulatedLine(line, codes, ext) = EmptyLine BY <1>1 DEF PopulatedLine
  <2> QED BY <2>1, EmptyLineIs
<1>2. CASE ~IsEmptyLine(line)
  <2>1. IsLine(line) /\ Ascends(line) /\ line[1][1] >= lo /\ line[Len(line)][1] <= hi BY <1>2, FitsCases
  <2>2. PICK a \in Int, b \in Int : a = line[1][1] /\ b = line[Len(line)][1] /\ a <= b
    <3>1. 1 \in 1..Len(line) /\ Len(line) \in 1..Len(line) /\ 1 <= Len(line) BY <2>1, LineTypes
    <3>2. line[1][1] \in Int /\ line[Len(line)][1] \in Int BY <2>1, <3>1, LineTypes
    <3>3. line[1][1] <= line[Len(line)][1] BY <2>1, <3>1, AscendsFar
    <3> QED BY <3>2, <3>3
  <2>3. PICK m \in Nat : b = a + m
    <3>1. a <= b BY <2>2
    <3>2. b - a \in Nat /\ b = a + (b - a) BY <3>1
    <3> QED BY Zenon, <3>2
  <2>4. PICK xs : xs = Interval(a, a + m - 1) /\ xs \in Seq(Int) /\ Len(xs) = m /\ \A i \in 1..m : xs[i] = a + i - 1
    <3>1. PICK xs : xs = Interval(a, a + m - 1) OBVIOUS
    <3>2. xs \in Seq(Int) BY <3>1, IntervalIs
    <3>3. Len(xs) = m BY <3>1, IntervalIs
    <3>4. ASSUME NEW i \in 1..m PROVE xs[i] = a + i - 1
      <4>1. i \in 1..((a + m - 1) - a + 1) OBVIOUS
      <4> QED BY <3>1, <4>1 DEF Interval
    <3> QED BY Zenon, <3>1, <3>2, <3>3, <3>4
  <2>5. PICK f : f = [i \in 1..m |-> Trimmed(InLine(line, xs[i], ext), codes, ext)] OBVIOUS
  <2>6. ASSUME NEW i \in 1..m PROVE f[i] \in Int
    <3>1. PICK x \in Int : x = xs[i]
      <4>1. a + i - 1 \in Int OBVIOUS
      <4>2. xs[i] = a + i - 1 BY <2>4
      <4> QED BY Zenon, <4>1, <4>2
    <3>2. PICK d \in Int : d = InLine(line, x, ext) /\ d < n OBVIOUS
    <3>3. Trimmed(d, codes, ext) \in Int
      <4>1. CASE d < 0 BY <4>1 DEF Trimmed
      <4>2. CASE d >= 0
        <5>1. d + 1 \in 1..n BY <3>2, <4>2
        <5>2. codes[d + 1] \in Int BY <5>1 DEF CodeSeqs
        <5>3. RegionOf(codes[d + 1], ext) \in Int BY <5>2 DEF RegionOf
        <5> QED BY <4>2, <5>3 DEF Trimmed
      <4> QED BY <4>1, <4>2
    <3> QED BY <2>5, <3>1, <3>2, <3>3
  <2>7. Listed(f, m) \in CodeSeqs(m)
    <3>1. f = [i \in 1..m |-> f[i]] BY <2>5
    <3> QED BY <2>6, <3>1, ListedCodes
  <2>8. PICK cc : cc = Listed(f, m) /\ cc \in Seq(Int) /\ Len(cc) = m BY <2>7 DEF CodeSeqs
  <2>9. PICK t : t = Coalesced(xs, cc, b, ext) OBVIOUS
  <2>10. PopulatedLine(line, codes, ext) = t
    <3>1. xs = Interval(line[1][1], Final(line)[1] - 1)
      <4>1. Final(line)[1] - 1 = a + m - 1 BY <2>2, <2>3
      <4> QED BY Zenon, <2>2, <2>4, <4>1
    <3>2. cc = Listed([i \in 1..Len(xs) |-> Trimmed(InLine(line, xs[i], ext), codes, ext)], Len(xs)) BY Zenon, <2>4, <2>5, <2>8
    <3>3. TrimmedRuns(line, codes, ext, xs) = t BY Zenon, <2>2, <2>9, <3>2 DEF TrimmedRuns
    <3> QED BY Zenon, <1>2, <3>1, <3>3 DEF PopulatedLine
  <2>11. PICK S : IsCut(S, xs, cc, b) /\ \A i \in 1..(m + 1) : S[i] = a + i - 1
    <3>1. PICK S : IsCut(S, Interval(a, a + m - 1), cc, a + m) /\ \A i \in 1..(m + 1) : S[i] = a + i - 1 BY <2>8, ColumnCut
    <3> QED BY Zenon, <2>3, <2>4, <3>1
  <2>12. IsCoalesced(t, S, cc, ext) BY <2>9, <2>11, CoalescedIs
  <2>13. Inside1(cc, S, ext, lo, hi)
    <3>1. SUFFICES ASSUME NEW i \in 1..m PROVE S[i] >= lo /\ S[i + 1] <= hi BY <2>8 DEF Inside1
    <3>2. i \in 1..(m + 1) /\ i + 1 \in 1..(m + 1) OBVIOUS
    <3>3. S[i] = a + i - 1 /\ S[i + 1] = a + (i + 1) - 1 BY <2>11, <3>2
    <3> QED BY <2>1, <2>2, <2>3, <3>3
  <2>14. Fits(t, lo, hi) BY <2>12, <2>13 DEF IsCoalesced
  <2> QED BY <2>10, <2>14
<1> QED BY <1>1, <1>2

\* build_from_populated makes a sound index spec.
THEOREM PopulatedSound ==
  ASSUME NEW ix, Sound(ix), NEW adj, IsAdjacency(adj, ix.n), NEW coords, NEW dist, NEW pop,
         NEW r, r = BuildFromPopulated(ix, coords, adj, dist, pop)
  PROVE Sound(r) /\ r.ext = ix.ext
<1>1. PICK n \in Nat : n = ix.n BY SoundTypes
<1>2. PICK codes \in CodeSeqs(n) : codes = FloodFill(ix, coords, adj, dist, pop)
  <2>1. ix.n \in Nat BY <1>1
  <2>2. PICK c : c = FirstPass(ix, coords, adj, dist, pop) OBVIOUS
  <2>3. c \in CodeSeqs(n) BY <1>1, <2>1, <2>2, FirstPassIs
  <2>4. Flooded(c, adj, n) \in CodeSeqs(n) BY <1>1, <2>3, FloodedIs
  <2> QED BY Zenon, <1>1, <2>2, <2>4 DEF FloodFill
<1>3. PICK org \in Int \X Int \X Int, size \in Nat \X Nat \X Nat, ext \in {-1, -2} : org = ix.org /\ size = ix.size /\ ext = ix.ext BY SoundTypes
<1>4. Len(ix.lines) = size[2] * size[3] BY <1>3 DEF Sound
<1>5. PICK lines : lines = [k \in 1..Len(ix.lines) |-> PopulatedLine(ix.lines[k], codes, ix.ext)] OBVIOUS
<1>6. r = Index(org, size, ext, Numbered(lines, size[2] * size[3])) BY Zenon, <1>2, <1>3, <1>4, <1>5 DEF BuildFromPopulated, RebuiltWith
<1>7. ASSUME NEW k \in 1..(size[2] * size[3]) PROVE Fits(lines[k], org[1], org[1] + size[1])
  <2>1. k \in 1..Len(ix.lines) BY <1>4
  <2>2. PICK line : line = ix.lines[k] OBVIOUS
  <2>3. PICK lo \in Int, hi \in Int : lo = org[1] /\ hi = org[1] + size[1] OBVIOUS
  <2>4. Fits(line, lo, hi) BY <1>3, <2>1, <2>2, <2>3, SoundLine
  <2>5. ASSUME NEW x \in Int PROVE InLine(line, x, ext) \in Int /\ InLine(line, x, ext) < n BY <1>1, <1>3, <2>1, <2>2, LineRange
  <2>6. Fits(PopulatedLine(line, codes, ext), lo, hi)
    <3>1. ext \in Int /\ ext < 0 OBVIOUS
    <3> QED BY <2>4, <2>5, <3>1, PopulatedFits
  <2>7. lines[k] = PopulatedLine(line, codes, ext) BY <1>3, <1>5, <2>1, <2>2
  <2> QED BY <2>3, <2>6, <2>7
<1>8. Sound(r) /\ r.ext = ext BY <1>6, <1>7, SoundFromLines
<1> QED BY <1>3, <1>8

(* A dilated scanline while it is made: the runs so far, which end at F, and the counts c before each of them. *)

\* Where run j starts or, behind the last, where the scanline is.
StartOr(runs, F, j) == IF j <= Len(runs) THEN runs[j][1] ELSE F

\* Run j grows and goes on counting.
GrowsOn(runs, F, c, j) ==
  /\ runs[j][1] < StartOr(runs, F, j + 1)
  /\ c[j + 1] = c[j] + IF runs[j][2] >= 0 THEN StartOr(runs, F, j + 1) - runs[j][1] ELSE 0
  /\ runs[j][2] >= 0 => runs[j][2] = c[j]

\* The runs that end at F: they grow, do not follow each other with data, and are numbered from n0 to n, counted by c.
IsPartWith(c, runs, F, n0, n) ==
  /\ runs \in Seq(Int \X Int) /\ F \in Int
  /\ c \in [1..(Len(runs) + 1) -> Nat] /\ c[1] = n0 /\ c[Len(runs) + 1] = n
  /\ \A j \in 1..Len(runs) : GrowsOn(runs, F, c, j)
  /\ \A j \in 1..(Len(runs) - 1) : ~(runs[j][2] >= 0 /\ runs[j + 1][2] >= 0)

\* There are such counts.
IsPart(runs, F, n0, n) == \E c : IsPartWith(c, runs, F, n0, n)

\* No runs.
LEMMA PartBegins ==
  ASSUME NEW F \in Int, NEW n0 \in Nat PROVE IsPart(<<>>, F, n0, n0)
<1>1. PICK c : c = [j \in 1..1 |-> n0] OBVIOUS
<1>2. PICK runs : runs = <<>> OBVIOUS
<1>3. runs \in Seq(Int \X Int) /\ Len(runs) = 0 BY <1>2
<1>4. c \in [1..(0 + 1) -> Nat] /\ c[1] = n0 /\ c[0 + 1] = n0 BY <1>1
<1>5. IsPartWith(c, runs, F, n0, n0) BY <1>3, <1>4 DEF IsPartWith
<1> QED BY <1>2, <1>5 DEF IsPart

\* The types of what is made.
LEMMA PartTypes ==
  ASSUME NEW runs, NEW F, NEW n0, NEW n, IsPart(runs, F, n0, n)
  PROVE  /\ runs \in Seq(Int \X Int) /\ Len(runs) \in Nat /\ F \in Int /\ n \in Nat /\ n0 \in Nat
         /\ \A j \in 1..Len(runs) : runs[j] \in Int \X Int /\ runs[j][1] \in Int /\ runs[j][2] \in Int
<1>1. PICK c : IsPartWith(c, runs, F, n0, n) BY DEF IsPart
<1>2. PICK X : X = Int \X Int OBVIOUS
<1>3. runs \in Seq(X) /\ F \in Int BY <1>1, <1>2 DEF IsPartWith
<1>4. PICK m \in Nat : m = Len(runs) BY <1>3
<1>5. \A j \in 1..m : runs[j] \in X BY <1>3, <1>4
<1>6. \A j \in 1..m : runs[j] \in Int \X Int /\ runs[j][1] \in Int /\ runs[j][2] \in Int BY <1>2, <1>5
<1>7. c \in [1..(m + 1) -> Nat] /\ c[1] = n0 /\ c[m + 1] = n BY <1>1, <1>4 DEF IsPartWith
<1>8. n \in Nat /\ n0 \in Nat BY <1>7
<1> QED BY <1>2, <1>3, <1>4, <1>6, <1>8

\* Sequences of runs put one behind the other.
IsJoin(t, a, b) ==
  /\ t \in Seq(Int \X Int) /\ Len(t) = Len(a) + Len(b)
  /\ \A j \in 1..Len(a) : t[j] = a[j]
  /\ \A j \in 1..Len(b) : t[Len(a) + j] = b[j]

\* Two sequences of runs, one behind the other.
LEMMA JoinIs ==
  ASSUME NEW a, a \in Seq(Int \X Int), NEW b, b \in Seq(Int \X Int), NEW t, t = a \o b
  PROVE IsJoin(t, a, b)
<1>1. PICK X : X = Int \X Int OBVIOUS
<1>2. a \in Seq(X) /\ b \in Seq(X) BY <1>1
<1>3. PICK m \in Nat, k \in Nat : m = Len(a) /\ k = Len(b) BY <1>2
<1>4. t \in Seq(X) /\ Len(t) = m + k BY <1>2, <1>3
<1>5. \A j \in 1..m : t[j] = a[j] BY <1>2, <1>3
<1>6. \A j \in 1..k : t[m + j] = b[j] BY <1>2, <1>3
<1> QED BY <1>1, <1>3, <1>4, <1>5, <1>6 DEF IsJoin

\* More undefined runs that begin where the others end.
IsMore(cs, F, F2) ==
  /\ cs \in Seq(Int \X Int) /\ Len(cs) >= 1
  /\ \A j \in 1..Len(cs) : cs[j][1] \in Int /\ cs[j][2] \in Int /\ cs[j][2] < 0
  /\ \A j \in 1..(Len(cs) - 1) : cs[j][1] < cs[j + 1][1]
  /\ cs[1][1] = F /\ cs[Len(cs)][1] < F2

\* Undefined runs are put behind what is made.
LEMMA PartMore ==
  ASSUME NEW runs, NEW F, NEW n0, NEW n, IsPart(runs, F, n0, n), NEW F2 \in Int, NEW cs, IsMore(cs, F, F2)
  PROVE IsPart(runs \o cs, F2, n0, n)
<1>1. PICK m \in Nat : m = Len(runs) /\ n \in Nat /\ F \in Int /\ runs \in Seq(Int \X Int) BY PartTypes
<1>3. PICK c : IsPartWith(c, runs, F, n0, n) BY DEF IsPart
<1>4. PICK k \in Nat : k = Len(cs) /\ k >= 1 /\ cs \in Seq(Int \X Int) BY DEF IsMore
<1>5. \A j \in 1..k : cs[j][1] \in Int /\ cs[j][2] \in Int /\ cs[j][2] < 0 BY <1>4 DEF IsMore
<1>6. (\A j \in 1..(k - 1) : cs[j][1] < cs[j + 1][1]) /\ cs[1][1] = F /\ cs[k][1] < F2 BY <1>4 DEF IsMore
<1>7. PICK t : t = runs \o cs /\ IsJoin(t, runs, cs) BY <1>1, <1>4, JoinIs
<1>8. t \in Seq(Int \X Int) /\ Len(t) = m + k /\ (\A j \in 1..m : t[j] = runs[j]) /\ \A j \in 1..k : t[m + j] = cs[j]
  BY <1>1, <1>4, <1>7 DEF IsJoin
<1>9. PICK b : b = [j \in 1..((m + k) + 1) |-> IF j <= m THEN c[j] ELSE n] OBVIOUS
<1>10. c \in [1..(m + 1) -> Nat] /\ c[1] = n0 /\ c[m + 1] = n BY <1>1, <1>3 DEF IsPartWith
<1>11. \A j \in 1..(m + 1) : b[j] = c[j]
  <2>1. SUFFICES ASSUME NEW j \in 1..(m + 1) PROVE b[j] = c[j] OBVIOUS
  <2>2. j \in 1..((m + k) + 1) BY <1>4
  <2>3. CASE j <= m BY <1>9, <2>2, <2>3
  <2>4. CASE j = m + 1 BY <1>9, <1>10, <2>2, <2>4
  <2> QED BY <2>3, <2>4
<1>12. \A j \in 1..(k + 1) : b[m + j] = n
  <2>1. SUFFICES ASSUME NEW j \in 1..(k + 1) PROVE b[m + j] = n OBVIOUS
  <2>2. m + j \in 1..((m + k) + 1) /\ ~(m + j <= m) OBVIOUS
  <2> QED BY <1>9, <2>2
<1>13. b \in [1..((m + k) + 1) -> Nat] /\ b[1] = n0 /\ b[(m + k) + 1] = n
  <2>1. \A j \in 1..((m + k) + 1) : b[j] \in Nat BY SMTT(20), <1>1, <1>9, <1>10
  <2>2. b = [j \in 1..((m + k) + 1) |-> b[j]] BY <1>9
  <2>3. b[1] = n0
    <3>1. 1 \in 1..(m + 1) OBVIOUS
    <3> QED BY <1>10, <1>11, <3>1
  <2>4. k + 1 \in 1..(k + 1) /\ m + (k + 1) = (m + k) + 1 OBVIOUS
  <2>5. b[m + (k + 1)] = n BY <1>12, <2>4
  <2>6. b[(m + k) + 1] = n BY Zenon, <2>4, <2>5
  <2>7. b \in [1..((m + k) + 1) -> Nat] BY Zenon, <2>1, <2>2
  <2> QED BY Zenon, <2>3, <2>6, <2>7
<1>14. ASSUME NEW j \in 1..(m + k) PROVE GrowsOn(t, F2, b, j)
  <2>1. CASE j \in 1..m
    <3>1. StartOr(t, F2, j + 1) = StartOr(runs, F, j + 1)
      <4>1. CASE j + 1 <= m
        <5>1. j + 1 \in 1..m BY <4>1
        <5> QED BY SMTT(20), <1>1, <1>8, <4>1, <5>1 DEF StartOr
      <4>2. CASE j = m
        <5>1. m + 1 <= m + k /\ 1 \in 1..k BY <1>4
        <5>2. t[m + 1] = cs[1] BY <1>8, <5>1
        <5>3. StartOr(t, F2, m + 1) = t[m + 1][1] BY <1>8, <5>1 DEF StartOr
        <5>4. StartOr(runs, F, m + 1) = F BY <1>1 DEF StartOr
        <5> QED BY Zenon, <1>6, <4>2, <5>2, <5>3, <5>4
      <4> QED BY <2>1, <4>1, <4>2
    <3>2. j \in 1..(m + 1) /\ j + 1 \in 1..(m + 1) BY <2>1
    <3>3. b[j] = c[j] /\ b[j + 1] = c[j + 1] /\ t[j] = runs[j] BY <1>8, <1>11, <2>1, <3>2
    <3>4. GrowsOn(runs, F, c, j) BY <1>1, <1>3, <2>1 DEF IsPartWith
    <3> QED BY <3>1, <3>3, <3>4 DEF GrowsOn
  <2>2. CASE j \notin 1..m
    <3>1. PICK i \in 1..k : j = m + i
      <4>1. j - m \in 1..k /\ j = m + (j - m) BY <2>2
      <4> QED BY <4>1
    <3>2. t[j] = cs[i] /\ cs[i][2] < 0 /\ cs[i][2] \in Int BY <1>5, <1>8, <3>1
    <3>3. b[j] = n /\ b[j + 1] = n
      <4>1. i \in 1..(k + 1) /\ i + 1 \in 1..(k + 1) /\ j + 1 = m + (i + 1) BY <3>1
      <4> QED BY <1>12, <3>1, <4>1
    <3>4. cs[i][1] < StartOr(t, F2, j + 1)
      <4>1. CASE i = k
        <5>1. ~(j + 1 <= m + k) BY <3>1, <4>1
        <5> QED BY <1>6, <1>8, <4>1, <5>1 DEF StartOr
      <4>2. CASE i # k
        <5>1. i \in 1..(k - 1) /\ i + 1 \in 1..k /\ j + 1 <= m + k /\ j + 1 = m + (i + 1) BY <3>1, <4>2
        <5>3. t[m + (i + 1)] = cs[i + 1] BY <1>8, <5>1
        <5>2. t[j + 1] = cs[i + 1] BY Zenon, <5>1, <5>3
        <5> QED BY <1>6, <1>8, <5>1, <5>2 DEF StartOr
      <4> QED BY <4>1, <4>2
    <3> QED BY <1>1, <3>2, <3>3, <3>4 DEF GrowsOn
  <2> QED BY <2>1, <2>2
<1>15. ASSUME NEW j \in 1..((m + k) - 1) PROVE ~(t[j][2] >= 0 /\ t[j + 1][2] >= 0)
  <2>1. CASE j + 1 <= m
    <3>1. j \in 1..m /\ j + 1 \in 1..m /\ j \in 1..(m - 1) BY <2>1
    <3>2. t[j] = runs[j] /\ t[j + 1] = runs[j + 1] BY <1>8, <3>1
    <3>3. ~(runs[j][2] >= 0 /\ runs[j + 1][2] >= 0) BY <1>1, <1>3, <3>1 DEF IsPartWith
    <3> QED BY <3>2, <3>3
  <2>2. CASE ~(j + 1 <= m)
    <3>1. (j + 1) - m \in 1..k /\ m + ((j + 1) - m) = j + 1 BY <2>2
    <3>2. t[j + 1] = cs[(j + 1) - m] BY <1>8, <3>1
    <3>3. cs[(j + 1) - m][2] \in Int /\ cs[(j + 1) - m][2] < 0 BY <1>5, <3>1
    <3> QED BY <3>2, <3>3
  <2> QED BY <2>1, <2>2
<1>16. IsPartWith(b, t, F2, n0, n) BY <1>8, <1>13, <1>14, <1>15 DEF IsPartWith
<1> QED BY <1>7, <1>16 DEF IsPart

\* A run with data that begins where the others end.
LEMMA PartData ==
  ASSUME NEW runs, NEW F, NEW n0, NEW n, IsPart(runs, F, n0, n), runs # <<>> => runs[Len(runs)][2] < 0, NEW F2 \in Int, F < F2,
         NEW n2, n2 = n + (F2 - F)
  PROVE IsPart(runs \o <<<<F, n>>>>, F2, n0, n2)
<1>1. PICK m \in Nat : m = Len(runs) /\ n \in Nat /\ F \in Int /\ runs \in Seq(Int \X Int) BY PartTypes
<1>2. \A j \in 1..m : runs[j][1] \in Int /\ runs[j][2] \in Int BY <1>1, PartTypes
<1>3. PICK c : IsPartWith(c, runs, F, n0, n) BY DEF IsPart
<1>4. PICK cs : cs = <<<<F, n>>>> OBVIOUS
<1>5. cs \in Seq(Int \X Int) /\ Len(cs) = 1 /\ cs[1] = <<F, n>> BY <1>1, <1>4
<1>6. PICK t : t = runs \o cs /\ IsJoin(t, runs, cs) BY <1>1, <1>5, JoinIs
<1>7. t \in Seq(Int \X Int) /\ Len(t) = m + 1 /\ (\A j \in 1..m : t[j] = runs[j]) /\ t[m + 1] = <<F, n>>
  <2>1. 1 \in 1..1 OBVIOUS
  <2> QED BY <1>1, <1>5, <1>6, <2>1 DEF IsJoin
<1>8. PICK b : b = [j \in 1..((m + 1) + 1) |-> IF j <= m + 1 THEN c[j] ELSE n2] OBVIOUS
<1>9. c \in [1..(m + 1) -> Nat] /\ c[1] = n0 /\ c[m + 1] = n BY <1>1, <1>3 DEF IsPartWith
<1>10. n2 \in Nat BY <1>1
<1>11. b \in [1..((m + 1) + 1) -> Nat] /\ b[1] = n0 /\ b[(m + 1) + 1] = n2 /\ \A j \in 1..(m + 1) : b[j] = c[j]
  BY <1>8, <1>9, <1>10
<1>12. ASSUME NEW j \in 1..(m + 1) PROVE GrowsOn(t, F2, b, j)
  <2>1. CASE j \in 1..m
    <3>1. StartOr(t, F2, j + 1) = StartOr(runs, F, j + 1)
      <4>1. CASE j + 1 <= m
        <5>1. j + 1 \in 1..m BY <4>1
        <5> QED BY <1>1, <1>7, <4>1, <5>1 DEF StartOr
      <4>2. CASE j = m BY <1>1, <1>7, <4>2 DEF StartOr
      <4> QED BY <2>1, <4>1, <4>2
    <3>2. j \in 1..(m + 1) /\ j + 1 \in 1..(m + 1) BY <2>1
    <3>3. b[j] = c[j] /\ b[j + 1] = c[j + 1] /\ t[j] = runs[j] BY <1>7, <1>11, <2>1, <3>2
    <3>4. GrowsOn(runs, F, c, j) BY <1>1, <1>3, <2>1 DEF IsPartWith
    <3> QED BY <3>1, <3>3, <3>4 DEF GrowsOn
  <2>2. CASE j = m + 1
    <3>1. StartOr(t, F2, j + 1) = F2 BY <1>7, <2>2 DEF StartOr
    <3>2. t[j][1] = F /\ t[j][2] = n /\ b[j + 1] = n2 BY <1>7, <1>11, <2>2
    <3>3. b[j] = n
      <4>1. m + 1 \in 1..(m + 1) OBVIOUS
      <4> QED BY <1>9, <1>11, <2>2, <4>1
    <3> QED BY <1>1, <3>1, <3>2, <3>3 DEF GrowsOn
  <2> QED BY <2>1, <2>2
<1>13. ASSUME NEW j \in 1..((m + 1) - 1) PROVE ~(t[j][2] >= 0 /\ t[j + 1][2] >= 0)
  <2>1. CASE j + 1 <= m
    <3>1. j \in 1..m /\ j + 1 \in 1..m /\ j \in 1..(m - 1) BY <2>1
    <3>2. t[j] = runs[j] /\ t[j + 1] = runs[j + 1] BY <1>7, <3>1
    <3>3. ~(runs[j][2] >= 0 /\ runs[j + 1][2] >= 0) BY <1>1, <1>3, <3>1 DEF IsPartWith
    <3> QED BY <3>2, <3>3
  <2>2. CASE j = m
    <3>1. m \in 1..m /\ runs # <<>> BY <1>1, <2>2
    <3>2. runs[m][2] < 0 /\ runs[m][2] \in Int /\ t[j] = runs[m] BY <1>1, <1>2, <1>7, <2>2, <3>1
    <3> QED BY <3>2
  <2> QED BY <2>1, <2>2
<1>14. IsPartWith(b, t, F2, n0, n2) BY <1>7, <1>11, <1>12, <1>13 DEF IsPartWith
<1> QED BY <1>4, <1>6, <1>14 DEF IsPart

\* The last run goes on.
LEMMA PartLonger ==
  ASSUME NEW runs, NEW F, NEW n0, NEW n, IsPart(runs, F, n0, n), runs # <<>>, NEW F2 \in Int, F <= F2,
         NEW n2, n2 = IF runs[Len(runs)][2] >= 0 THEN n + (F2 - F) ELSE n
  PROVE IsPart(runs, F2, n0, n2)
<1>1. PICK m \in Nat : m = Len(runs) /\ n \in Nat /\ F \in Int /\ runs \in Seq(Int \X Int) BY PartTypes
<1>2. \A j \in 1..m : runs[j][1] \in Int /\ runs[j][2] \in Int BY <1>1, PartTypes
<1>3. PICK c : IsPartWith(c, runs, F, n0, n) BY DEF IsPart
<1>4. m >= 1 BY <1>1
<1>5. PICK b : b = [j \in 1..(m + 1) |-> IF j <= m THEN c[j] ELSE n2] OBVIOUS
<1>6. c \in [1..(m + 1) -> Nat] /\ c[1] = n0 /\ c[m + 1] = n BY <1>1, <1>3 DEF IsPartWith
<1>7. n2 \in Nat BY <1>1
<1>8. b \in [1..(m + 1) -> Nat] /\ b[1] = n0 /\ b[m + 1] = n2 /\ \A j \in 1..m : b[j] = c[j]
  BY <1>4, <1>5, <1>6, <1>7
<1>9. ASSUME NEW j \in 1..m PROVE GrowsOn(runs, F2, b, j)
  <2>1. GrowsOn(runs, F, c, j) BY <1>1, <1>3 DEF IsPartWith
  <2>2. CASE j + 1 <= m
    <3>1. j + 1 \in 1..m BY <2>2
    <3>2. StartOr(runs, F2, j + 1) = StartOr(runs, F, j + 1) BY <1>1, <2>2 DEF StartOr
    <3> QED BY <1>8, <2>1, <3>1, <3>2 DEF GrowsOn
  <2>3. CASE j = m
    <3>1. StartOr(runs, F2, j + 1) = F2 /\ StartOr(runs, F, j + 1) = F BY <1>1, <2>3 DEF StartOr
    <3>2. PICK s \in Int, d \in Int, v \in Nat : s = runs[m][1] /\ d = runs[m][2] /\ v = c[m]
      <4>1. m \in 1..m /\ m \in 1..(m + 1) BY <1>4
      <4> QED BY <1>2, <1>6, <4>1
    <3>3. s < F /\ n = v + (IF d >= 0 THEN F - s ELSE 0) /\ (d >= 0 => d = v) BY <1>6, <2>1, <2>3, <3>1, <3>2 DEF GrowsOn
    <3>4. b[j] = v /\ b[j + 1] = n2 BY <1>8, <2>3, <3>2
    <3>5. n2 = IF d >= 0 THEN n + (F2 - F) ELSE n BY <1>1, <3>2
    <3> QED BY SMTT(20), <1>1, <2>3, <3>1, <3>2, <3>3, <3>4, <3>5 DEF GrowsOn
  <2> QED BY <2>2, <2>3
<1>10. \A j \in 1..(m - 1) : ~(runs[j][2] >= 0 /\ runs[j + 1][2] >= 0) BY <1>1, <1>3 DEF IsPartWith
<1>11. IsPartWith(b, runs, F2, n0, n2) BY <1>1, <1>8, <1>9, <1>10 DEF IsPartWith
<1> QED BY <1>11 DEF IsPart

\* The counts of a scanline are those of DefinedBefore.
LEMMA CountsSame ==
  ASSUME NEW line, IsLine(line), NEW f, Counts(f, line) PROVE f = DefinedBefore(line)
<1>1. PICK g : g = DefinedBefore(line) /\ Counts(g, line) BY DefinedBeforeIs
<1>2. PICK m \in Nat : m = Len(line) /\ m >= 2 BY LineTypes
<1> DEFINE T == {k \in 1..m : f[k] = g[k]}
<1>3. 1 \in T BY <1>1, <1>2 DEF Counts
<1>4. ASSUME NEW k \in 1..(m - 1), k \in T PROVE k + 1 \in T
  <2>1. k + 1 \in 2..m /\ k + 1 \in 1..m /\ (k + 1) - 1 = k BY <1>2
  <2>2. f[k + 1] = f[k] + Width(line, k) BY <1>2, <2>1 DEF Counts
  <2>3. g[k + 1] = g[k] + Width(line, k) BY <1>1, <1>2, <2>1 DEF Counts
  <2> QED BY <1>4, <2>1, <2>2, <2>3
<1>5. \A k \in 1..m : k \in T
  <2>1. 1 \in Int /\ m \in Int OBVIOUS
  <2> HIDE DEF T
  <2> QED BY <1>3, <1>4, <2>1, InductionFrom
<1>6. f \in [1..m -> Int] /\ g \in [1..m -> Int] BY <1>1, <1>2 DEF Counts
<1> QED BY <1>1, <1>5, <1>6

\* The runs are a scanline when their end is put behind them.
IsScanline(line, lo, hi, n0, n) == Fits(line, lo, hi) /\ NumberedFrom(line, n0) /\ n = n0 + DefinedIn(line) /\ n \in Nat

\* The runs with their terminator are a scanline.
LEMMA PartEnds ==
  ASSUME NEW runs, NEW F, NEW n0, NEW n, IsPart(runs, F, n0, n), runs # <<>>,
         NEW lo \in Int, NEW hi \in Int, runs[1][1] >= lo, F <= hi, NEW line, line = Append(runs, <<F, -1>>)
  PROVE IsScanline(line, lo, hi, n0, n)
<1>1. PICK m \in Nat : m = Len(runs) /\ m >= 1 /\ n \in Nat /\ F \in Int /\ runs \in Seq(Int \X Int) BY PartTypes
<1>3. PICK c : IsPartWith(c, runs, F, n0, n) BY DEF IsPart
<1>4. line \in Seq(Int \X Int) /\ Len(line) = m + 1 /\ (\A j \in 1..m : line[j] = runs[j]) /\ line[m + 1] = <<F, -1>>
  BY <1>1
<1>5. IsLine(line) BY <1>1, <1>4 DEF IsLine
<1>6. c \in [1..(m + 1) -> Nat] /\ c[1] = n0 /\ c[m + 1] = n BY <1>1, <1>3 DEF IsPartWith
<1>7. n0 \in Nat
  <2>1. 1 \in 1..(m + 1) OBVIOUS
  <2> QED BY <1>6, <2>1
<1>8. ASSUME NEW j \in 1..m
      PROVE  /\ line[j][1] < line[j + 1][1]
             /\ c[j + 1] = c[j] + Width(line, j)
             /\ line[j][2] >= 0 => line[j][2] = c[j]
  <2>1. GrowsOn(runs, F, c, j) BY <1>1, <1>3 DEF IsPartWith
  <2>2. StartOr(runs, F, j + 1) = line[j + 1][1]
    <3>1. CASE j + 1 <= m
      <4>1. j + 1 \in 1..m BY <3>1
      <4> QED BY <1>1, <1>4, <3>1, <4>1 DEF StartOr
    <3>2. CASE j = m BY <1>1, <1>4, <3>2 DEF StartOr
    <3>3. j + 1 <= m \/ j = m OBVIOUS
    <3> QED BY Zenon, <3>1, <3>2, <3>3
  <2>3. line[j] = runs[j] BY <1>4
  <2> QED BY <2>1, <2>2, <2>3 DEF Width, GrowsOn
<1>9. \A k \in Runs(line) : k \in 1..m BY <1>4
<1>10. \A k \in Runs(line) : line[k][1] < line[k + 1][1] BY <1>8, <1>9
<1>11. Ascends(line)
  <2>1. SUFFICES ASSUME NEW k \in Runs(line) PROVE line[k][1] <= line[k + 1][1] BY DEF Ascends
  <2>2. line[k][1] \in Int /\ line[k + 1][1] \in Int BY <1>5, RunOf
  <2> QED BY <1>10, <2>2
<1>12. \A k \in 1..(Len(line) - 2) : ~(line[k][2] >= 0 /\ line[k + 1][2] >= 0)
  <2>0. Len(line) - 2 = m - 1 BY <1>4
  <2>1. SUFFICES ASSUME NEW k \in 1..(m - 1) PROVE ~(line[k][2] >= 0 /\ line[k + 1][2] >= 0) BY <2>0
  <2>2. ~(runs[k][2] >= 0 /\ runs[k + 1][2] >= 0) BY <1>1, <1>3 DEF IsPartWith
  <2>3. k \in 1..m /\ k + 1 \in 1..m OBVIOUS
  <2> QED BY <1>4, <2>2, <2>3
<1>13. line[1][1] >= lo /\ line[Len(line)][1] <= hi
  <2>1. 1 \in 1..m BY <1>1
  <2> QED BY <1>4, <2>1
<1>14. Fits(line, lo, hi) BY <1>5, <1>10, <1>12, <1>13 DEF Fits
<1>15. PICK b : b = [k \in 1..(m + 1) |-> c[k] - n0] OBVIOUS
<1>16. Counts(b, line)
  <2>1. b \in [1..(m + 1) -> Int] /\ b[1] = 0 BY <1>6, <1>7, <1>15
  <2>2. ASSUME NEW k \in 2..(m + 1) PROVE b[k] = b[k - 1] + Width(line, k - 1)
    <3>1. PICK j \in 1..m : j = k - 1 /\ k = j + 1 BY <2>2
    <3>2. c[j + 1] = c[j] + Width(line, j) BY <1>8
    <3>3. j \in 1..(m + 1) /\ j + 1 \in 1..(m + 1) BY <3>1
    <3>4. b[j] = c[j] - n0 /\ b[j + 1] = c[j + 1] - n0 /\ c[j] \in Nat /\ c[j + 1] \in Nat BY <1>6, <1>15, <3>3
    <3>5. PICK w : w = Width(line, j) OBVIOUS
    <3>6. w \in Int
      <4>1. j \in Runs(line) BY <1>4
      <4> QED BY <1>5, <3>5, <4>1, WidthInt
    <3>7. b[j + 1] = b[j] + w BY <1>7, <3>2, <3>4, <3>5, <3>6
    <3> QED BY <3>1, <3>5, <3>7
  <2> QED BY <1>4, <2>1, <2>2 DEF Counts
<1>17. b = DefinedBefore(line) BY <1>5, <1>16, CountsSame
<1>18. \A k \in 1..(m + 1) : c[k] = n0 + b[k] BY <1>6, <1>7, <1>15
<1>19. NumberedFrom(line, n0)
  <2>1. SUFFICES ASSUME NEW j \in Runs(line), line[j][2] >= 0 PROVE line[j][2] = n0 + DefinedBefore(line)[j]
    BY <1>5, <1>11 DEF NumberedFrom
  <2>2. j \in 1..m /\ j \in 1..(m + 1) BY <1>9
  <2>3. line[j][2] = c[j] BY <1>8, <2>1, <2>2
  <2> QED BY <1>17, <1>18, <2>2, <2>3
<1>20. n = n0 + DefinedIn(line)
  <2>1. m + 1 \in 1..(m + 1) OBVIOUS
  <2>2. n = n0 + b[m + 1] BY <1>6, <1>18, <2>1
  <2> QED BY <1>4, <1>17, <2>2 DEF DefinedIn
<1> QED BY <1>1, <1>14, <1>19, <1>20 DEF IsScanline

\* Between the runs prev and cur of a scanline, which have data if they are runs, no run has.
IsGap(line, prev, cur) ==
  /\ IsLine(line) /\ RunsGrow(line)
  /\ prev \in 0..(Len(line) - 1) /\ cur \in 1..Len(line) /\ prev < cur
  /\ prev > 0 => line[prev][2] >= 0
  /\ cur < Len(line) => line[cur][2] >= 0
  /\ \A k \in (prev + 1)..(cur - 1) : line[k][2] < 0

\* A run of a gap is undefined, and not empty.
LEMMA GapRun ==
  ASSUME NEW line, NEW prev, NEW cur, IsGap(line, prev, cur), NEW k, k \in (prev + 1)..(cur - 1)
  PROVE  /\ k \in Int /\ k >= 1 /\ k \in Runs(line) /\ k \in 1..Len(line) /\ k + 1 \in 1..Len(line)
         /\ line[k][1] \in Int /\ line[k + 1][1] \in Int /\ line[k][1] < line[k + 1][1] /\ line[k][2] \in Int /\ line[k][2] < 0
<1>1. PICK m \in Nat : m = Len(line) /\ m >= 2 BY LineTypes DEF IsGap
<1>2. prev \in 0..(m - 1) /\ cur \in 1..m BY <1>1 DEF IsGap
<1>3. k \in 1..(m - 1) BY <1>1, <1>2
<1>4. k \in Runs(line) BY <1>1, <1>3
<1>5. line[k][1] \in Int /\ line[k + 1][1] \in Int /\ line[k][2] \in Int BY <1>4, RunOf DEF IsGap
<1>6. line[k][1] < line[k + 1][1] BY <1>4 DEF IsGap, RunsGrow
<1>7. line[k][2] < 0 BY DEF IsGap
<1> QED BY <1>1, <1>3, <1>4, <1>5, <1>6, <1>7

\* A sequence of runs is empty or not.
LEMMA SeqEmpty == ASSUME NEW s, s \in Seq(Int \X Int) PROVE Len(s) \in Nat /\ (s = <<>> <=> Len(s) = 0)
<1>1. PICK X : X = Int \X Int OBVIOUS
<1>2. s \in Seq(X) BY <1>1
<1> QED BY <1>2

\* A scanline with growing runs ascends.
LEMMA GrowsAscends == ASSUME NEW line, IsLine(line), RunsGrow(line) PROVE Ascends(line)
<1>1. SUFFICES ASSUME NEW k \in Runs(line) PROVE line[k][1] <= line[k + 1][1] BY DEF Ascends
<1>2. line[k][1] \in Int /\ line[k + 1][1] \in Int BY RunOf
<1>3. line[k][1] < line[k + 1][1] BY DEF RunsGrow
<1> QED BY <1>2, <1>3

\* Where the runs of the gap that are left begin.
IsLeftRun(line, prev, k, fD, old, lo) ==
  /\ CopiedStart(line, k, fD, old, lo) \in Int /\ fD + 1 <= CopiedStart(line, k, fD, old, lo)
  /\ CopiedStart(line, k, fD, old, lo) = fD + 1 \/ CopiedStart(line, k, fD, old, lo) <= line[k][1]
  /\ prev > 0 \/ k > 1 => CopiedStart(line, k, fD, old, lo) >= line[k][1]

\* What is left of a run.
LEMMA LeftRun ==
  ASSUME NEW line, NEW prev, NEW cur, IsGap(line, prev, cur), NEW fD \in Int, NEW old, NEW lo \in Int,
         prev = 0 => fD + 1 = lo, NEW k, k \in (prev + 1)..(cur - 1)
  PROVE IsLeftRun(line, prev, k, fD, old, lo)
<1>1. k \in Int /\ k >= 1 /\ line[k][1] \in Int BY GapRun
<1>2. prev \in Nat /\ k >= prev + 1 BY LineTypes DEF IsGap
<1>3. PICK u \in Int : u = Upper(fD + 1, line[k][1]) /\ u >= fD + 1 /\ u >= line[k][1] /\ (u = fD + 1 \/ u = line[k][1])
  BY <1>1, LowerUpper
<1>4. CASE k = 1 /\ line[1][1] = old
  <2>1. CopiedStart(line, k, fD, old, lo) = lo BY <1>4 DEF CopiedStart
  <2>2. prev = 0 BY <1>2, <1>4
  <2> QED BY <1>4, <2>1, <2>2 DEF IsLeftRun
<1>5. CASE ~(k = 1 /\ line[1][1] = old)
  <2>1. CopiedStart(line, k, fD, old, lo) = u BY <1>3, <1>5 DEF CopiedStart
  <2> QED BY <1>1, <1>3, <2>1 DEF IsLeftRun
<1> QED BY <1>4, <1>5

\* The runs of which anything is left.
Left(line, prev, cur, fD, bD, old, lo) ==
  {k \in (prev + 1)..(cur - 1) : line[k + 1][1] > fD + 1 /\ CopiedStart(line, k, fD, old, lo) < bD}

\* They are copied in order.
IsCopied(cs, left, line, fD, bD, old, lo) ==
  /\ cs \in Seq(Int \X Int) /\ Len(cs) = Len(left)
  /\ \A j \in 1..Len(cs) :
       /\ cs[j][1] = CopiedStart(line, left[j], fD, old, lo) /\ cs[j][2] = line[left[j]][2]
       /\ cs[j][1] \in Int /\ cs[j][2] \in Int /\ cs[j][2] < 0 /\ fD + 1 <= cs[j][1] /\ cs[j][1] < bD
  /\ \A j \in 1..(Len(cs) - 1) : cs[j][1] < cs[j + 1][1]

\* Copied copies what is left of a gap.
LEMMA CopiedIs ==
  ASSUME NEW line, NEW prev, NEW cur, IsGap(line, prev, cur), NEW fD \in Int, NEW bD \in Int, NEW old, NEW lo \in Int,
         prev = 0 => fD + 1 = lo, NEW left, left = Ascending(Left(line, prev, cur, fD, bD, old, lo))
  PROVE  /\ Lists(left, Left(line, prev, cur, fD, bD, old, lo))
         /\ IsCopied(Copied(line, prev, cur, fD, bD, old, lo), left, line, fD, bD, old, lo)
<1>1. PICK m \in Nat : m = Len(line) /\ m >= 2 /\ prev \in 0..(m - 1) /\ cur \in 1..m BY LineTypes DEF IsGap
<1>2. PICK S : S = Left(line, prev, cur, fD, bD, old, lo) OBVIOUS
<1>3. S \in SUBSET ((prev + 1)..(cur - 1)) BY <1>2 DEF Left
<1>4. prev + 1 \in Int /\ cur - 1 \in Int BY <1>1
<1>5. Lists(left, S) BY <1>2, <1>3, <1>4, AscendingIs
<1>6. PICK n \in Nat : n = Len(left) BY <1>5 DEF Lists
<1>7. PICK cs : cs = Copied(line, prev, cur, fD, bD, old, lo) OBVIOUS
<1>8. cs = [j \in 1..n |-> <<CopiedStart(line, left[j], fD, old, lo), line[left[j]][2]>>] BY <1>6, <1>7 DEF Copied, Left
<1>9. ASSUME NEW j \in 1..n
      PROVE  /\ left[j] \in (prev + 1)..(cur - 1)
             /\ cs[j][1] = CopiedStart(line, left[j], fD, old, lo) /\ cs[j][2] = line[left[j]][2]
             /\ cs[j] \in Int \X Int
             /\ cs[j][1] \in Int /\ cs[j][2] \in Int /\ cs[j][2] < 0 /\ fD + 1 <= cs[j][1] /\ cs[j][1] < bD
             /\ line[left[j] + 1][1] > fD + 1
             /\ cs[j][1] = fD + 1 \/ cs[j][1] <= line[left[j]][1]
             /\ left[j] > 1 => cs[j][1] >= line[left[j]][1]
  <2>1. left[j] \in S BY <1>5, <1>6, ListedNext
  <2>2. PICK k \in (prev + 1)..(cur - 1) : k = left[j] /\ line[k + 1][1] > fD + 1 /\ CopiedStart(line, k, fD, old, lo) < bD
    BY <1>2, <2>1 DEF Left
  <2>3. line[k][2] \in Int /\ line[k][2] < 0 BY GapRun
  <2>4. IsLeftRun(line, prev, k, fD, old, lo) BY LeftRun
  <2>5. PICK s : s = CopiedStart(line, k, fD, old, lo) OBVIOUS
  <2>6. s \in Int /\ fD + 1 <= s /\ (s = fD + 1 \/ s <= line[k][1]) /\ (k > 1 => s >= line[k][1]) BY <2>4, <2>5 DEF IsLeftRun
  <2>7. cs[j] = <<s, line[k][2]>> BY <1>8, <2>2, <2>5
  <2>8. cs[j][1] = s /\ cs[j][2] = line[k][2] /\ cs[j] \in Int \X Int BY <2>3, <2>6, <2>7
  <2> QED BY <2>2, <2>3, <2>5, <2>6, <2>8
<1>10. cs \in Seq(Int \X Int) /\ Len(cs) = n
  <2>1. PICK X : X = Int \X Int OBVIOUS
  <2>2. \A j \in 1..n : cs[j] \in X BY <1>9, <2>1
  <2>3. cs = [j \in 1..n |-> cs[j]] BY <1>8
  <2>4. cs \in [1..n -> X] BY <2>2, <2>3
  <2>5. cs \in Seq(X) /\ Len(cs) = n BY <2>3, <2>4
  <2> QED BY <2>1, <2>5
<1>11. ASSUME NEW j \in 1..(n - 1) PROVE cs[j][1] < cs[j + 1][1]
  <2>1. j \in 1..n /\ j + 1 \in 1..n OBVIOUS
  <2>2. left[j] < left[j + 1] BY <1>5, <1>6, <2>1, ListedNext
  <2>3. PICK k, l : k = left[j] /\ l = left[j + 1] OBVIOUS
  <2>4. k \in (prev + 1)..(cur - 1) /\ l \in (prev + 1)..(cur - 1) BY <1>9, <2>1, <2>3
  <2>5. k \in Int /\ k >= 1 /\ k + 1 \in 1..Len(line) /\ line[k][1] \in Int /\ line[k + 1][1] \in Int /\ line[k][1] < line[k + 1][1]
    BY <2>4, GapRun
  <2>6. l \in Int /\ l \in 1..Len(line) /\ line[l][1] \in Int BY <2>4, GapRun
  <2>7. k < l /\ k + 1 <= l /\ l > 1 BY SMTT(20), <2>2, <2>3, <2>5, <2>6
  <2>8. line[k + 1][1] <= line[l][1]
    <3>1. IsLine(line) /\ Ascends(line) BY GrowsAscends DEF IsGap
    <3> QED BY <2>5, <2>6, <2>7, <3>1, AscendsFar
  <2>9. cs[j + 1][1] \in Int /\ cs[j + 1][1] >= line[l][1] BY <1>9, <2>1, <2>3, <2>7
  <2>10. cs[j][1] \in Int /\ line[k + 1][1] > fD + 1 /\ (cs[j][1] = fD + 1 \/ cs[j][1] <= line[k][1]) BY <1>9, <2>1, <2>3
  <2>11. PICK u \in Int, v \in Int, w \in Int, y \in Int, z \in Int :
           u = cs[j][1] /\ v = cs[j + 1][1] /\ w = line[k][1] /\ y = line[k + 1][1] /\ z = line[l][1]
    BY <2>5, <2>6, <2>9, <2>10
  <2>12. w < y /\ y <= z /\ v >= z /\ y > fD + 1 /\ (u = fD + 1 \/ u <= w) BY <2>5, <2>8, <2>9, <2>10, <2>11
  <2>13. u < v BY <2>12
  <2> QED BY <2>11, <2>13
<1>12. IsCopied(cs, left, line, fD, bD, old, lo) BY <1>6, <1>9, <1>10, <1>11 DEF IsCopied
<1> QED BY <1>2, <1>5, <1>7, <1>12

\* All of a gap that is not empty: the runs begin where they may and the last is the last of the gap.
LEMMA CopiedMore ==
  ASSUME NEW line, NEW prev, NEW cur, IsGap(line, prev, cur), NEW fD \in Int, NEW bD \in Int, NEW old, NEW lo \in Int,
         prev = 0 => fD + 1 = lo, NEW cs, cs = Copied(line, prev, cur, fD, bD, old, lo), cs # <<>>,
         NEW F2 \in Int, \A k \in (prev + 1)..(cur - 1) : line[k][1] < F2 \/ bD <= F2, fD + 1 < F2
  PROVE cs[1][1] \in Int /\ cs[1][1] >= fD + 1 /\ IsMore(cs, cs[1][1], F2)
<1>1. PICK left : left = Ascending(Left(line, prev, cur, fD, bD, old, lo)) OBVIOUS
<1>2. Lists(left, Left(line, prev, cur, fD, bD, old, lo)) /\ IsCopied(cs, left, line, fD, bD, old, lo) BY <1>1, CopiedIs
<1>3. PICK n \in Nat : n = Len(cs) /\ n = Len(left) /\ cs \in Seq(Int \X Int) BY <1>2 DEF IsCopied
<1>4. n >= 1
  <2>1. cs = <<>> <=> Len(cs) = 0 BY Zenon, <1>3, SeqEmpty
  <2> QED BY <1>3, <2>1
<1>5. 1 \in 1..n /\ n \in 1..n BY <1>4
<1>6. \A j \in 1..n : cs[j][1] \in Int /\ cs[j][2] \in Int /\ cs[j][2] < 0 /\ fD + 1 <= cs[j][1] /\ cs[j][1] < bD
  BY <1>2, <1>3 DEF IsCopied
<1>7. \A j \in 1..(n - 1) : cs[j][1] < cs[j + 1][1] BY <1>2, <1>3 DEF IsCopied
<1>8. cs[n][1] < F2
  <2>1. left[n] \in Left(line, prev, cur, fD, bD, old, lo) BY <1>2, <1>3, <1>5, ListedNext
  <2>2. PICK k \in (prev + 1)..(cur - 1) : k = left[n] BY <2>1 DEF Left
  <2>3. cs[n][1] = CopiedStart(line, k, fD, old, lo) BY <1>2, <1>3, <1>5, <2>2 DEF IsCopied
  <2>4. IsLeftRun(line, prev, k, fD, old, lo) BY LeftRun
  <2>5. cs[n][1] \in Int /\ (cs[n][1] = fD + 1 \/ cs[n][1] <= line[k][1]) /\ cs[n][1] < bD
    BY <1>5, <1>6, <2>3, <2>4 DEF IsLeftRun
  <2>6. line[k][1] \in Int /\ (line[k][1] < F2 \/ bD <= F2) BY GapRun
  <2> QED BY <2>5, <2>6
<1>9. IsMore(cs, cs[1][1], F2) BY <1>3, <1>4, <1>6, <1>7, <1>8 DEF IsMore
<1> QED BY <1>5, <1>6, <1>9

\* After a run with data the first run that is left begins right behind what was reached.
LEMMA CopiedFirst ==
  ASSUME NEW line, NEW prev, NEW cur, IsGap(line, prev, cur), prev > 0, NEW fD \in Int, NEW bD \in Int, NEW old, NEW lo \in Int,
         NEW cs, cs = Copied(line, prev, cur, fD, bD, old, lo),
         line[prev + 1][1] <= fD + 1, fD + 1 < line[cur][1], fD + 1 < bD
  PROVE cs # <<>> /\ cs[1][1] = fD + 1
<1>1. PICK left : left = Ascending(Left(line, prev, cur, fD, bD, old, lo)) OBVIOUS
<1>2. prev # 0 BY LineTypes DEF IsGap
<1>3. Lists(left, Left(line, prev, cur, fD, bD, old, lo)) /\ IsCopied(cs, left, line, fD, bD, old, lo) BY <1>1, <1>2, CopiedIs
<1>4. PICK n \in Nat : n = Len(cs) /\ n = Len(left) /\ cs \in Seq(Int \X Int) BY <1>3 DEF IsCopied
<1>5. PICK m \in Nat : m = Len(line) /\ m >= 2 /\ prev \in 0..(m - 1) /\ cur \in 1..m /\ prev < cur /\ IsLine(line) BY LineTypes DEF IsGap
<1>6. PICK k \in (prev + 1)..(cur - 1) : line[k][1] <= fD + 1 /\ fD + 1 < line[k + 1][1]
  <2>1. PICK f : f = [i \in 1..m |-> line[i][1]] OBVIOUS
  <2>2. \A i \in 1..m : f[i] = line[i][1] /\ f[i] \in Int BY <1>5, <2>1, LineTypes
  <2>3. prev + 1 \in 1..m /\ cur \in 1..m /\ prev + 1 <= cur /\ prev + 1 \in Int /\ cur \in Int BY <1>5
  <2>4. \A i \in (prev + 1)..cur : i \in 1..m BY <1>5
  <2>5. f[prev + 1] <= fD + 1 /\ fD + 1 < f[cur] /\ fD + 1 \in Int BY <2>2, <2>3
  <2>6. \A i \in (prev + 1)..cur : f[i] \in Int BY <2>2, <2>4
  <2>7. \E i \in ((prev + 1) + 1)..cur : f[i - 1] <= fD + 1 /\ fD + 1 < f[i] BY <2>3, <2>5, <2>6, Crossing
  <2>8. PICK i \in ((prev + 1) + 1)..cur : f[i - 1] <= fD + 1 /\ fD + 1 < f[i] BY <2>7
  <2>9. i - 1 \in (prev + 1)..(cur - 1) /\ i - 1 \in 1..m /\ i \in 1..m /\ (i - 1) + 1 = i BY <1>5, <2>8
  <2>10. line[i - 1][1] <= fD + 1 /\ fD + 1 < line[(i - 1) + 1][1] BY <2>2, <2>8, <2>9
  <2> QED BY <2>9, <2>10
<1>7. CopiedStart(line, k, fD, old, lo) = fD + 1
  <2>1. IsLeftRun(line, prev, k, fD, old, lo) BY <1>2, LeftRun
  <2>2. line[k][1] \in Int BY GapRun
  <2> QED BY <1>6, <2>1, <2>2 DEF IsLeftRun
<1>8. k \in Left(line, prev, cur, fD, bD, old, lo) BY <1>6, <1>7 DEF Left
<1>9. PICK i \in 1..n : left[i] = k BY <1>3, <1>4, <1>8 DEF Lists
<1>10. 1 \in 1..n /\ n >= 1 OBVIOUS
<1>11. PICK j \in (prev + 1)..(cur - 1) : j = left[1] /\ line[j + 1][1] > fD + 1
  <2>1. left[1] \in Left(line, prev, cur, fD, bD, old, lo) BY <1>3, <1>4, <1>10, ListedNext
  <2> QED BY <2>1 DEF Left
<1>12. j <= k BY <1>3, <1>4, <1>9, <1>11, ListedNext
<1>13. j = k
  <2>1. SUFFICES ASSUME j < k PROVE FALSE BY <1>12, GapRun
  <2>2. j \in Int /\ j + 1 \in 1..Len(line) /\ line[j + 1][1] \in Int BY GapRun
  <2>3. k \in Int /\ k \in 1..Len(line) /\ line[k][1] \in Int BY GapRun
  <2>4. j + 1 <= k BY <2>1, <2>2, <2>3
  <2>5. Ascends(line) BY GrowsAscends DEF IsGap
  <2>6. line[j + 1][1] <= line[k][1] BY <1>5, <2>2, <2>3, <2>4, <2>5, AscendsFar
  <2>7. line[k][1] <= fD + 1 /\ line[j + 1][1] > fD + 1 BY <1>6, <1>11
  <2>8. fD \in Int OBVIOUS
  <2> QED BY <2>2, <2>3, <2>6, <2>7, <2>8
<1>14. cs[1][1] = CopiedStart(line, k, fD, old, lo)
  <2>1. \A h \in 1..n : cs[h][1] = CopiedStart(line, left[h], fD, old, lo) BY <1>3, <1>4 DEF IsCopied
  <2> QED BY <1>10, <1>11, <1>13, <2>1
<1>15. cs # <<>>
  <2>1. cs = <<>> <=> Len(cs) = 0 BY Zenon, <1>4, SeqEmpty
  <2>2. n # 0 BY <1>10
  <2> QED BY Zenon, <1>4, <2>1, <2>2
<1> QED BY <1>7, <1>14, <1>15

\* At the end of the scanline the last run that is left is its last one.
LEMMA CopiedLast ==
  ASSUME NEW line, NEW prev, NEW cur, IsGap(line, prev, cur), cur = Len(line), prev + 1 < cur,
         NEW fD \in Int, NEW bD \in Int, NEW old, NEW lo \in Int,
         prev = 0 => fD + 1 = lo, NEW cs, cs = Copied(line, prev, cur, fD, bD, old, lo),
         fD + 1 < line[cur][1], fD + 1 < bD, line[cur][1] <= bD
  PROVE cs # <<>> /\ cs[Len(cs)][2] = line[Len(line) - 1][2]
<1>1. PICK left : left = Ascending(Left(line, prev, cur, fD, bD, old, lo)) OBVIOUS
<1>3. Lists(left, Left(line, prev, cur, fD, bD, old, lo)) /\ IsCopied(cs, left, line, fD, bD, old, lo) BY <1>1, CopiedIs
<1>4. PICK n \in Nat : n = Len(cs) /\ n = Len(left) /\ cs \in Seq(Int \X Int) BY <1>3 DEF IsCopied
<1>5. PICK k : k = cur - 1 OBVIOUS
<1>6. k \in (prev + 1)..(cur - 1) /\ k + 1 = cur BY <1>5, LineTypes DEF IsGap
<1>7. line[k][1] \in Int /\ line[k + 1][1] \in Int /\ line[k][1] < line[k + 1][1] BY <1>6, GapRun
<1>8. IsLeftRun(line, prev, k, fD, old, lo) BY <1>6, LeftRun
<1>9. CopiedStart(line, k, fD, old, lo) < bD BY <1>6, <1>7, <1>8 DEF IsLeftRun
<1>10. k \in Left(line, prev, cur, fD, bD, old, lo) BY <1>6, <1>9 DEF Left
<1>11. PICK i \in 1..n : left[i] = k BY <1>3, <1>4, <1>10 DEF Lists
<1>12. n \in 1..n OBVIOUS
<1>13. left[n] \in (prev + 1)..(cur - 1)
  <2>1. left[n] \in Left(line, prev, cur, fD, bD, old, lo) BY <1>3, <1>4, <1>12, ListedNext
  <2> QED BY <2>1 DEF Left
<1>14. left[i] <= left[n] BY <1>3, <1>4, <1>11, ListedNext
<1>15. left[n] \in Int /\ k \in Int BY <1>6, <1>13, GapRun
<1>16. left[n] = k BY <1>5, <1>11, <1>13, <1>14, <1>15
<1>17. cs[n][2] = line[k][2] BY <1>3, <1>4, <1>12, <1>16 DEF IsCopied
<1>18. cs # <<>>
  <2>1. cs = <<>> <=> Len(cs) = 0 BY Zenon, <1>4, SeqEmpty
  <2>2. n # 0 BY <1>12
  <2> QED BY Zenon, <1>4, <2>1, <2>2
<1> QED BY <1>4, <1>5, <1>17, <1>18

\* The first and the last run of two sequences of runs.
LEMMA JoinEnds ==
  ASSUME NEW a, a \in Seq(Int \X Int), NEW b, b \in Seq(Int \X Int), b # <<>>, NEW t, t = a \o b
  PROVE  /\ t \in Seq(Int \X Int) /\ t # <<>> /\ t[Len(t)] = b[Len(b)]
         /\ a = <<>> => t[1] = b[1]
         /\ a # <<>> => t[1] = a[1]
<1>1. PICK X : X = Int \X Int OBVIOUS
<1>2. a \in Seq(X) /\ b \in Seq(X) BY <1>1
<1>3. PICK m \in Nat, k \in Nat : m = Len(a) /\ k = Len(b) /\ k # 0 BY <1>2
<1>4. t \in Seq(X) /\ Len(t) = m + k BY <1>2, <1>3
<1>5. \A j \in 1..m : t[j] = a[j] BY <1>2, <1>3
<1>6. \A j \in 1..k : t[m + j] = b[j] BY <1>2, <1>3
<1>7. t # <<>> BY <1>3, <1>4
<1>8. t[Len(t)] = b[Len(b)]
  <2>1. k \in 1..k BY <1>3
  <2> QED BY <1>3, <1>4, <1>6, <2>1
<1>9. a = <<>> => t[1] = b[1]
  <2>1. SUFFICES ASSUME a = <<>> PROVE t[1] = b[1] OBVIOUS
  <2>2. m = 0 /\ 1 \in 1..k BY <1>3, <2>1
  <2>3. t[m + 1] = b[1] BY <1>6, <2>2
  <2> QED BY <2>2, <2>3
<1>10. a # <<>> => t[1] = a[1]
  <2>1. SUFFICES ASSUME a # <<>> PROVE t[1] = a[1] OBVIOUS
  <2>2. m # 0 BY <1>2, <1>3, <2>1
  <2>3. 1 \in 1..m BY <2>2
  <2> QED BY <1>5, <2>3
<1> QED BY <1>1, <1>4, <1>7, <1>8, <1>9, <1>10

\* The runs so far and the first start; the last run has data or a code.
IsMade(runs, F, n0, n, lo) == IsPart(runs, F, n0, n) /\ runs # <<>> /\ runs[1][1] >= lo

\* Undefined runs behind what is made.
LEMMA MadeMore ==
  ASSUME NEW runs, NEW F, NEW n0, NEW n, IsPart(runs, F, n0, n), NEW lo \in Int, runs # <<>> => runs[1][1] >= lo, F >= lo,
         NEW F2 \in Int, NEW cs, IsMore(cs, F, F2)
  PROVE  /\ IsMade(runs \o cs, F2, n0, n, lo) /\ (runs \o cs)[Len(runs \o cs)] = cs[Len(cs)]
         /\ (runs \o cs)[Len(runs \o cs)][2] < 0
<1>1. IsPart(runs \o cs, F2, n0, n) BY PartMore
<1>2. runs \in Seq(Int \X Int) BY PartTypes
<1>3. PICK k \in Nat : k = Len(cs) /\ k >= 1 /\ cs \in Seq(Int \X Int) BY DEF IsMore
<1>4. cs[1][1] = F /\ \A j \in 1..k : cs[j][2] < 0 BY <1>3 DEF IsMore
<1>5. cs # <<>>
  <2>1. cs = <<>> <=> Len(cs) = 0 BY Zenon, <1>3, SeqEmpty
  <2>2. k # 0 BY <1>3
  <2> QED BY Zenon, <1>3, <2>1, <2>2
<1>6. PICK t : t = runs \o cs OBVIOUS
<1>7. t # <<>> /\ t[Len(t)] = cs[Len(cs)] BY <1>2, <1>3, <1>5, <1>6, JoinEnds
<1>8. (runs = <<>> => t[1] = cs[1]) /\ (runs # <<>> => t[1] = runs[1]) BY <1>2, <1>3, <1>5, <1>6, JoinEnds
<1>9. t[1][1] >= lo BY <1>4, <1>8
<1>10. t[Len(t)][2] < 0
  <2>1. k \in 1..k BY <1>3
  <2> QED BY <1>3, <1>4, <1>7, <2>1
<1> QED BY <1>1, <1>6, <1>7, <1>9, <1>10 DEF IsMade

\* A run with data behind an undefined one.
LEMMA MadeData ==
  ASSUME NEW runs, NEW F, NEW n0, NEW n, IsPart(runs, F, n0, n), runs # <<>> => runs[Len(runs)][2] < 0,
         NEW lo \in Int, runs # <<>> => runs[1][1] >= lo, F >= lo, NEW F2 \in Int, F < F2, NEW n2, n2 = n + (F2 - F)
  PROVE  /\ IsMade(runs \o <<<<F, n>>>>, F2, n0, n2, lo)
         /\ (runs \o <<<<F, n>>>>)[Len(runs \o <<<<F, n>>>>)][2] >= 0
<1>1. IsPart(runs \o <<<<F, n>>>>, F2, n0, n2) BY PartData
<1>2. runs \in Seq(Int \X Int) /\ F \in Int /\ n \in Nat BY PartTypes
<1>3. PICK cs : cs = <<<<F, n>>>> OBVIOUS
<1>4. cs \in Seq(Int \X Int) /\ cs # <<>> /\ Len(cs) = 1 /\ cs[1] = <<F, n>> BY <1>2, <1>3
<1>6. PICK t : t = runs \o cs OBVIOUS
<1>5. cs \in Seq(Int \X Int) /\ cs # <<>> /\ runs \in Seq(Int \X Int) BY <1>2, <1>4
<1>7. t # <<>> /\ t[Len(t)] = cs[Len(cs)] BY SMTT(20), <1>5, <1>6, JoinEnds
<1>8. (runs = <<>> => t[1] = cs[1]) /\ (runs # <<>> => t[1] = runs[1]) BY <1>5, <1>6, JoinEnds
<1>9. t[1][1] >= lo BY <1>4, <1>8
<1>10. t[Len(t)][2] >= 0 BY <1>2, <1>4, <1>7
<1> QED BY <1>1, <1>3, <1>6, <1>7, <1>9, <1>10 DEF IsMade

\* The last run goes on.
LEMMA MadeLonger ==
  ASSUME NEW runs, NEW F, NEW n0, NEW n, NEW lo, IsMade(runs, F, n0, n, lo), NEW F2 \in Int, F <= F2,
         NEW n2, n2 = IF runs[Len(runs)][2] >= 0 THEN n + (F2 - F) ELSE n
  PROVE IsMade(runs, F2, n0, n2, lo)
BY PartLonger DEF IsMade

(* One gap. *)

\* What one gap changes: d.n counts the voxels reached forwards, backwards and those of the next run; a run with data starts if an undefined run is open.
IsPassed(r, d, cs, fX, fD, bD, bX, w) ==
  /\ r.n = d.n + (fD - fX) + (bX - bD) + w /\ r.end = Upper(d.end, fD + 1)
  /\ w > 0 /\ (d.open \/ cs # <<>>) => r.runs = (d.runs \o cs) \o <<<<bD, d.n + (fD - fX)>>>> /\ ~r.open
  /\ w > 0 /\ ~d.open /\ cs = <<>> => r.runs = (d.runs \o cs) \o <<>> /\ ~r.open
  /\ ~(w > 0) => r.runs = (d.runs \o cs) \o <<>>

\* Passed does that.
LEMMA PassedIs ==
  ASSUME NEW d, NEW cs, NEW fX, NEW fD, NEW bD, NEW bX, NEW w, NEW r, r = Passed(d, cs, fX, fD, bD, bX, w)
  PROVE IsPassed(r, d, cs, fX, fD, bD, bX, w)
<1>1. PICK open : open = (d.open \/ cs # <<>>) OBVIOUS
<1>2. PICK starts : starts = (open /\ w > 0) OBVIOUS
<1>3. PICK more : more = IF starts THEN <<<<bD, d.n + (fD - fX)>>>> ELSE <<>> OBVIOUS
<1>4. PICK all, n, end, o : all = (d.runs \o cs) \o more /\ n = d.n + (fD - fX) + (bX - bD) + w
                           /\ end = Upper(d.end, fD + 1) /\ o = (open /\ ~starts)
  OBVIOUS
<1>5. r = [runs |-> all, n |-> n, end |-> end, open |-> o] BY Zenon, <1>1, <1>2, <1>3, <1>4 DEF Passed
<1>6. r.runs = all /\ r.n = n /\ r.end = end /\ r.open = o BY <1>5
<1>7. r.n = d.n + (fD - fX) + (bX - bD) + w /\ r.end = Upper(d.end, fD + 1) BY Zenon, <1>4, <1>6
<1>8. w > 0 /\ (d.open \/ cs # <<>>) => r.runs = (d.runs \o cs) \o <<<<bD, d.n + (fD - fX)>>>> /\ ~r.open
  BY Zenon, <1>1, <1>2, <1>3, <1>4, <1>6
<1>9. w > 0 /\ ~d.open /\ cs = <<>> => r.runs = (d.runs \o cs) \o <<>> /\ ~r.open BY Zenon, <1>1, <1>2, <1>3, <1>4, <1>6
<1>10. ~(w > 0) => r.runs = (d.runs \o cs) \o <<>> BY Zenon, <1>1, <1>2, <1>3, <1>4, <1>6
<1> QED BY Zenon, <1>7, <1>8, <1>9, <1>10 DEF IsPassed

\* The numbers of one gap: how far it is reached from each side, and what is copied.
IsReach(line, prev, cur, old, lo, hi, q, p, fX, bX, w, p2, q2, fD, bD, cs) ==
  /\ fX = IF prev > 0 THEN line[prev + 1][1] - 1 ELSE lo - 1
  /\ bX = IF cur < Len(line) THEN line[cur][1] ELSE hi
  /\ w = IF cur < Len(line) THEN line[cur + 1][1] - line[cur][1] ELSE 0
  /\ p2 = IF prev > 0 THEN p ELSE 0
  /\ q2 = IF cur < Len(line) THEN q ELSE 0
  /\ fD = Lower(fX + p2, bX - 1)
  /\ bD = Upper(Upper(bX - q2, fX + 1), fD + 1)
  /\ cs = IF fD + 1 < bD THEN Copied(line, prev, cur, fD, bD, old, lo) ELSE <<>>

\* PassGap is Passed with those numbers.
LEMMA PassGapIs ==
  ASSUME NEW d, NEW line, NEW prev, NEW cur, NEW old, NEW lo, NEW hi, NEW q, NEW p,
         NEW fX, NEW bX, NEW w, NEW p2, NEW q2, NEW fD, NEW bD, NEW cs,
         IsReach(line, prev, cur, old, lo, hi, q, p, fX, bX, w, p2, q2, fD, bD, cs),
         NEW r, r = PassGap(d, line, prev, cur, old, lo, hi, q, p)
  PROVE IsPassed(r, d, cs, fX, fD, bD, bX, w)
<1>1. r = PassForward(d, line, prev, cur, old, lo, q2, p2, fX, bX, w) BY Zenon DEF PassGap, IsReach
<1>2. r = PassBackward(d, line, prev, cur, old, lo, q2, fX, fD, bX, w) BY Zenon, <1>1 DEF PassForward, ForwardTo, IsReach
<1>3. r = PassBetween(d, line, prev, cur, old, lo, fX, fD, bD, bX, w) BY Zenon, <1>2 DEF PassBackward, BackwardTo, IsReach
<1>4. r = Passed(d, cs, fX, fD, bD, bX, w) BY Zenon, <1>3 DEF PassBetween, IsReach
<1> QED BY Zenon, <1>4, PassedIs

\* The new bounds contain the old ones, extended by q and p voxels.
IsFrame(line, old, lo, hi, q, p) ==
  /\ old \in Int /\ lo \in Int /\ hi \in Int /\ q \in Nat /\ p \in Nat
  /\ lo = old - q /\ old <= line[1][1] /\ line[Len(line)][1] + p <= hi

\* All runs are within them.
LEMMA FrameIs ==
  ASSUME NEW line, IsLine(line), RunsGrow(line), NEW old, NEW lo, NEW hi, NEW q, NEW p, IsFrame(line, old, lo, hi, q, p),
         NEW k, k \in 1..Len(line)
  PROVE line[k][1] \in Int /\ lo <= line[k][1] /\ old <= line[k][1] /\ line[k][1] <= line[Len(line)][1] /\ line[k][1] + p <= hi /\ line[k][1] <= hi
<1>1. PICK m \in Nat : m = Len(line) /\ m >= 2 BY LineTypes
<1>2. 1 \in 1..m /\ m \in 1..m /\ k \in 1..m BY <1>1
<1>3. line[1][1] \in Int /\ line[k][1] \in Int /\ line[m][1] \in Int BY <1>1, <1>2, LineTypes
<1>4. Ascends(line) BY GrowsAscends
<1>5. line[1][1] <= line[k][1] BY <1>1, <1>2, <1>4, AscendsFar
<1>6. line[k][1] <= line[m][1] BY <1>1, <1>2, <1>4, AscendsFar
<1>7. old \in Int /\ lo \in Int /\ hi \in Int /\ q \in Nat /\ p \in Nat
      /\ lo = old - q /\ old <= line[1][1] /\ line[m][1] + p <= hi BY <1>1 DEF IsFrame
<1> QED BY <1>1, <1>3, <1>5, <1>6, <1>7

\* The two sides of a gap do not pass each other.
LEMMA ReachNumbers ==
  ASSUME NEW fX \in Int, NEW bX \in Int, NEW p \in Nat, NEW q \in Nat, fX + 1 <= bX
  PROVE  \E fD \in Int, bD \in Int : /\ fD = Lower(fX + p, bX - 1) /\ bD = Upper(Upper(bX - q, fX + 1), fD + 1)
                                    /\ fX <= fD /\ fD + 1 <= bD /\ bD <= bX
<1>1. PICK fD \in Int : fD = Lower(fX + p, bX - 1) /\ fX <= fD /\ fD + 1 <= bX
  <2>1. CASE fX + p < bX - 1
    <3>1. Lower(fX + p, bX - 1) = fX + p BY <2>1 DEF Lower
    <3> QED BY <2>1, <3>1
  <2>2. CASE ~(fX + p < bX - 1)
    <3>1. Lower(fX + p, bX - 1) = bX - 1 BY <2>2 DEF Lower
    <3> QED BY <2>2, <3>1
  <2> QED BY <2>1, <2>2
<1>2. PICK u \in Int : u = Upper(bX - q, fX + 1) /\ u <= bX BY LowerUpper
<1>3. PICK bD \in Int : bD = Upper(u, fD + 1) /\ fD + 1 <= bD /\ bD <= bX BY <1>1, <1>2, LowerUpper
<1> QED BY Zenon, <1>1, <1>2, <1>3

\* Before a gap that begins with a run with data; behind the last gap.
HasReached(d, line, cur, lo, n0) ==
  /\ IsMade(d.runs, line[cur + 1][1], n0, d.n, lo) /\ d.runs[Len(d.runs)][2] >= 0
  /\ d.end = line[Len(line)][1] /\ ~d.open

\* A dilation that has not passed a gap.
IsBegun(d, line, n0) == n0 \in Nat /\ d.runs = <<>> /\ d.n = n0 /\ d.end = line[Len(line)][1] /\ d.open

\* And one that has passed all of them.
IsOver(d, line, lo, hi, n0) ==
  /\ IsMade(d.runs, d.end, n0, d.n, lo) /\ d.end \in Int /\ d.end <= hi
  /\ line[Len(line) - 1][2] < 0 => d.runs[Len(d.runs)][2] = line[Len(line) - 1][2] \/ d.runs[Len(d.runs)][2] >= 0

\* The gap before the first run with data.
LEMMA FirstData ==
  ASSUME NEW line, NEW cur, IsGap(line, 0, cur), cur < Len(line), NEW old, NEW lo, NEW hi, NEW q, NEW p, IsFrame(line, old, lo, hi, q, p),
         NEW n0, NEW d, IsBegun(d, line, n0), NEW r, r = PassGap(d, line, 0, cur, old, lo, hi, q, p)
  PROVE HasReached(r, line, cur, lo, n0)
<1>1. PICK m \in Nat : m = Len(line) /\ m >= 2 /\ cur \in 1..m /\ IsLine(line) /\ RunsGrow(line) BY LineTypes DEF IsGap
<1>2. lo \in Int /\ q \in Nat /\ lo = old - q /\ old \in Int BY DEF IsFrame
<1>3. cur \in 1..m /\ cur + 1 \in 1..m /\ m \in 1..m /\ cur \in Runs(line) BY <1>1
<1>4. PICK x \in Int, e \in Int, z \in Int : x = line[cur][1] /\ e = line[cur + 1][1] /\ z = line[m][1] BY <1>1, <1>3, LineTypes
<1>5. x < e BY <1>3, <1>4, <1>1 DEF RunsGrow
<1>6. lo <= x /\ old <= x BY <1>1, <1>3, <1>4, FrameIs
<1>7. lo <= z BY <1>1, <1>3, <1>4, FrameIs
<1>8. PICK fX \in Int : fX = lo - 1 BY <1>2
<1>9. PICK fD \in Int, b \in Int : fD = Lower(fX + 0, x - 1) /\ b = Upper(Upper(x - q, fX + 1), fD + 1) /\ fD + 1 <= b /\ b <= x
  <2>1. fX + 1 <= x /\ 0 \in Nat BY <1>2, <1>6, <1>8
  <2> QED BY Zenon, <1>2, <2>1, ReachNumbers
<1>11. b = Upper(Upper(x - q, fX + 1), fD + 1) BY <1>9
<1>10. fD = lo - 1
  <2>1. fD = Lower(fX + 0, x - 1) BY <1>9
  <2> QED BY <1>2, <1>6, <1>8, <2>1 DEF Lower
<1>12. b \in Int /\ b >= lo /\ b <= x /\ b < e
  <2>1. fD + 1 <= b /\ b <= x BY <1>9
  <2> QED BY <1>2, <1>5, <1>10, <2>1
<1>13. PICK cs : cs = IF fD + 1 < b THEN Copied(line, 0, cur, fD, b, old, lo) ELSE <<>> OBVIOUS
<1>14. IsPassed(r, d, cs, fX, fD, b, x, e - x)
  <2>0. PICK w, p2, prev : w = e - x /\ p2 = 0 /\ prev = 0 OBVIOUS
  <2>1. ~(prev > 0) BY <2>0
  <2>2. fX = (IF prev > 0 THEN line[prev + 1][1] - 1 ELSE lo - 1) /\ p2 = IF prev > 0 THEN p ELSE 0 BY Zenon, <1>8, <2>0, <2>1
  <2>3. x = (IF cur < Len(line) THEN line[cur][1] ELSE hi) /\ q = IF cur < Len(line) THEN q ELSE 0 BY Zenon, <1>4
  <2>4. w = IF cur < Len(line) THEN line[cur + 1][1] - line[cur][1] ELSE 0 BY Zenon, <1>4, <2>0
  <2>5. fD = Lower(fX + p2, x - 1) BY Zenon, <1>9, <2>0
  <2>6. cs = IF fD + 1 < b THEN Copied(line, prev, cur, fD, b, old, lo) ELSE <<>> BY Zenon, <1>13, <2>0
  <2>7. r = PassGap(d, line, prev, cur, old, lo, hi, q, p) BY Zenon, <2>0
  <2>9. IsReach(line, prev, cur, old, lo, hi, q, p, fX, x, w, p2, q, fD, b, cs)
    BY Zenon, <1>11, <2>2, <2>3, <2>4, <2>5, <2>6 DEF IsReach
  <2>8. IsPassed(r, d, cs, fX, fD, b, x, w) BY Zenon, <2>7, <2>9, PassGapIs
  <2> QED BY Zenon, <2>0, <2>8
<1>15. d.runs = <<>> /\ d.n = n0 /\ d.end = z /\ d.open /\ n0 \in Nat BY <1>1, <1>4 DEF IsBegun
<1>16. cs \in Seq(Int \X Int)
  <2>1. CASE fD + 1 < b
    <3>1. fD \in Int /\ fD + 1 = lo BY <1>2, <1>10
    <3>2. cs = Copied(line, 0, cur, fD, b, old, lo) BY <1>13, <2>1
    <3>3. PICK left : left = Ascending(Left(line, 0, cur, fD, b, old, lo)) OBVIOUS
    <3>4. IsCopied(cs, left, line, fD, b, old, lo) BY <1>2, <1>12, <3>1, <3>2, <3>3, CopiedIs
    <3> QED BY <3>4 DEF IsCopied
  <2>2. CASE ~(fD + 1 < b) BY <1>13, <2>2
  <2> QED BY <2>1, <2>2
<1>17. r.runs = cs \o <<<<b, n0>>>> /\ r.n = n0 + (e - b) /\ r.end = z /\ ~r.open
  <2>1. (d.open \/ cs # <<>>) /\ e - x > 0 BY <1>4, <1>5, <1>15
  <2>2. fD - fX = 0 /\ n0 + (fD - fX) = n0 BY <1>8, <1>10, <1>15
  <2>9. r.runs = (d.runs \o cs) \o <<<<b, d.n + (fD - fX)>>>> /\ ~r.open BY Zenon, <1>14, <2>1 DEF IsPassed
  <2>3. r.runs = (<<>> \o cs) \o <<<<b, n0>>>> BY Zenon, <1>15, <2>2, <2>9
  <2>4. <<>> \o cs = cs
    <3>1. PICK X : X = Int \X Int OBVIOUS
    <3>2. cs \in Seq(X) BY <1>16, <3>1
    <3> QED BY <3>2
  <2>10. r.n = d.n + (fD - fX) + (x - b) + (e - x) /\ r.end = Upper(d.end, fD + 1) BY Zenon, <1>14 DEF IsPassed
  <2>5. r.n = n0 + (fD - fX) + (x - b) + (e - x) /\ r.end = Upper(z, lo)
    <3>1. fD + 1 = lo BY <1>2, <1>10
    <3> QED BY Zenon, <1>15, <2>10, <3>1
  <2>6. r.n = n0 + (e - b)
    <3>1. r.n = n0 + 0 + (x - b) + (e - x) BY Zenon, <2>2, <2>5
    <3> QED BY <1>15, <3>1
  <2>7. r.end = z BY SMTT(20), <1>2, <1>4, <1>7, <2>5 DEF Upper
  <2> QED BY Zenon, <2>3, <2>4, <2>6, <2>7, <2>9
<1>18. IsPart(cs, b, n0, n0) /\ (cs # <<>> => cs[Len(cs)][2] < 0 /\ cs[1][1] >= lo)
  <2>1. CASE cs = <<>> BY <1>12, <1>15, <2>1, PartBegins
  <2>2. CASE cs # <<>>
    <3>1. fD + 1 < b /\ cs = Copied(line, 0, cur, fD, b, old, lo) BY <1>13, <2>2
    <3>2. fD \in Int /\ fD + 1 = lo BY <1>2, <1>10
    <3>3. cs[1][1] \in Int /\ cs[1][1] >= fD + 1 /\ IsMore(cs, cs[1][1], b) BY <1>2, <1>12, <2>2, <3>1, <3>2, CopiedMore
    <3>4. PICK F \in Int : F = cs[1][1] /\ F >= lo /\ IsMore(cs, F, b) BY <3>2, <3>3
    <3>5. IsPart(<<>>, F, n0, n0) BY <1>15, PartBegins
    <3>6. IsMade(<<>> \o cs, b, n0, n0, lo) /\ (<<>> \o cs)[Len(<<>> \o cs)][2] < 0 BY <1>2, <1>12, <3>4, <3>5, MadeMore
    <3>7. <<>> \o cs = cs
      <4>1. PICK X : X = Int \X Int OBVIOUS
      <4>2. cs \in Seq(X) BY <1>16, <4>1
      <4> QED BY <4>2
    <3>8. IsMade(cs, b, n0, n0, lo) /\ cs[Len(cs)][2] < 0 BY Zenon, <3>6, <3>7
    <3> QED BY <3>8 DEF IsMade
  <2> QED BY <2>1, <2>2
<1>19. IsMade(cs \o <<<<b, n0>>>>, e, n0, r.n, lo) /\ (cs \o <<<<b, n0>>>>)[Len(cs \o <<<<b, n0>>>>)][2] >= 0
  BY <1>2, <1>4, <1>12, <1>17, <1>18, MadeData
<1>20. IsMade(r.runs, e, n0, r.n, lo) /\ r.runs[Len(r.runs)][2] >= 0 BY Zenon, <1>17, <1>19
<1> QED BY <1>1, <1>4, <1>17, <1>20 DEF HasReached

\* A gap between two runs with data.
LEMMA NextData ==
  ASSUME NEW line, NEW prev, NEW cur, IsGap(line, prev, cur), prev > 0, cur < Len(line), line[prev + 1][1] < line[cur][1],
         NEW old, NEW lo, NEW hi, NEW q, NEW p, IsFrame(line, old, lo, hi, q, p),
         NEW n0, NEW d, HasReached(d, line, prev, lo, n0), NEW r, r = PassGap(d, line, prev, cur, old, lo, hi, q, p)
  PROVE HasReached(r, line, cur, lo, n0)
<1>1. PICK m \in Nat : m = Len(line) /\ m >= 2 /\ cur \in 1..m /\ prev \in 1..m /\ prev + 1 \in 1..m /\ prev < cur /\ IsLine(line) /\ RunsGrow(line)
  BY LineTypes DEF IsGap
<1>2. lo \in Int /\ q \in Nat /\ p \in Nat BY DEF IsFrame
<1>3. cur \in 1..m /\ cur + 1 \in 1..m /\ m \in 1..m /\ cur \in Runs(line) BY <1>1
<1>4. PICK x \in Int, e \in Int, z \in Int, s \in Int : x = line[cur][1] /\ e = line[cur + 1][1] /\ z = line[m][1] /\ s = line[prev + 1][1]
  BY <1>1, <1>3, LineTypes
<1>5. x < e /\ s < x BY <1>3, <1>4, <1>1 DEF RunsGrow
<1>6. lo <= s BY <1>1, <1>4, FrameIs
<1>7. x <= z BY <1>1, <1>3, <1>4, FrameIs
<1>8. PICK fX \in Int : fX = s - 1 BY <1>4
<1>9. PICK fD \in Int, b \in Int :
        fD = Lower(fX + p, x - 1) /\ b = Upper(Upper(x - q, fX + 1), fD + 1) /\ fX <= fD /\ fD + 1 <= b /\ b <= x
  <2>1. fX + 1 <= x BY <1>5, <1>8
  <2> QED BY Zenon, <1>2, <2>1, ReachNumbers
<1>10. fD \in Int /\ fX <= fD /\ fD <= x - 1 BY <1>9
<1>11. b = Upper(Upper(x - q, fX + 1), fD + 1) BY <1>9
<1>12. b \in Int /\ fD + 1 <= b /\ b <= x BY <1>9
<1>13. PICK cs : cs = IF fD + 1 < b THEN Copied(line, prev, cur, fD, b, old, lo) ELSE <<>> OBVIOUS
<1>14. IsPassed(r, d, cs, fX, fD, b, x, e - x)
  <2>0. PICK w : w = e - x OBVIOUS
  <2>2. fX = (IF prev > 0 THEN line[prev + 1][1] - 1 ELSE lo - 1) /\ p = IF prev > 0 THEN p ELSE 0 BY Zenon, <1>4, <1>8
  <2>3. x = (IF cur < Len(line) THEN line[cur][1] ELSE hi) /\ q = IF cur < Len(line) THEN q ELSE 0 BY Zenon, <1>4
  <2>4. w = IF cur < Len(line) THEN line[cur + 1][1] - line[cur][1] ELSE 0 BY Zenon, <1>4, <2>0
  <2>9. IsReach(line, prev, cur, old, lo, hi, q, p, fX, x, w, p, q, fD, b, cs)
    BY Zenon, <1>9, <1>11, <1>13, <2>2, <2>3, <2>4 DEF IsReach
  <2>8. IsPassed(r, d, cs, fX, fD, b, x, w) BY Zenon, <2>9, PassGapIs
  <2> QED BY Zenon, <2>0, <2>8
<1>15. PICK runs, n : runs = d.runs /\ n = d.n OBVIOUS
<1>16. IsMade(runs, s, n0, n, lo) /\ runs[Len(runs)][2] >= 0 /\ d.end = z /\ ~d.open
  BY Zenon, <1>1, <1>4, <1>15 DEF HasReached
<1>17. runs \in Seq(Int \X Int) /\ n \in Nat /\ runs # <<>> BY <1>16, PartTypes DEF IsMade
<1>18. PICK f \in Int : f = fD + 1 /\ s <= f /\ f <= b /\ f <= x BY <1>8, <1>10, <1>12
<1>19. PICK n1 \in Nat : n1 = n + (f - s) BY <1>17, <1>18
<1>20. IsMade(runs, f, n0, n1, lo) BY <1>16, <1>18, <1>19, MadeLonger
<1>21. IsPart(runs, f, n0, n1) /\ runs[1][1] >= lo BY <1>20 DEF IsMade
<1>22. fD - fX = f - s BY <1>8, <1>10, <1>18
<1>23. r.end = z
  <2>1. r.end = Upper(z, f) BY Zenon, <1>14, <1>16, <1>18 DEF IsPassed
  <2> QED BY <1>4, <1>7, <1>18, <2>1 DEF Upper
<1>24. r.n = n1 + ((x - b) + (e - x))
  <2>1. r.n = n + (f - s) + (x - b) + (e - x) BY Zenon, <1>14, <1>15, <1>22 DEF IsPassed
  <2> QED BY <1>15, <1>17, <1>19, <2>1
<1>25. CASE cs # <<>>
  <2>1. f < b /\ cs = Copied(line, prev, cur, fD, b, old, lo) /\ fD + 1 < b BY <1>13, <1>18, <1>25
  <2>2. cs[1][1] = f
    <3>1. line[prev + 1][1] <= fD + 1 /\ fD + 1 < line[cur][1] BY <1>4, <1>12, <1>18, <2>1
    <3>2. cs # <<>> /\ cs[1][1] = fD + 1 BY <1>10, <1>12, <1>2, <2>1, <3>1, CopiedFirst
    <3> QED BY <1>18, <3>2
  <2>3. IsMore(cs, f, b)
    <3>1. prev # 0 BY <1>1
    <3>2. IsMore(cs, cs[1][1], b) BY <1>2, <1>10, <1>12, <1>25, <2>1, <3>1, CopiedMore
    <3> QED BY Zenon, <2>2, <3>2
  <2>4. f >= lo BY <1>2, <1>4, <1>6, <1>18
  <2>5. PICK t : t = runs \o cs OBVIOUS
  <2>6. IsMade(t, b, n0, n1, lo) /\ t[Len(t)][2] < 0 BY <1>2, <1>12, <1>21, <2>3, <2>4, <2>5, MadeMore
  <2>7. IsPart(t, b, n0, n1) /\ t[1][1] >= lo BY <2>6 DEF IsMade
  <2>8. b >= lo /\ b < e BY <1>2, <1>5, <1>12, <1>18, <2>4
  <2>9. r.n = n1 + (e - b) BY <1>4, <1>12, <1>19, <1>24
  <2>10. IsMade(t \o <<<<b, n1>>>>, e, n0, r.n, lo) /\ (t \o <<<<b, n1>>>>)[Len(t \o <<<<b, n1>>>>)][2] >= 0
    BY <1>2, <1>4, <1>12, <2>6, <2>7, <2>8, <2>9, MadeData
  <2>11. r.runs = t \o <<<<b, n1>>>> /\ ~r.open
    <3>1. e - x > 0 BY <1>4, <1>5
    <3>2. r.runs = (d.runs \o cs) \o <<<<b, d.n + (fD - fX)>>>> /\ ~r.open BY Zenon, <1>14, <1>25, <3>1 DEF IsPassed
    <3> QED BY Zenon, <1>15, <1>19, <1>22, <2>5, <3>2
  <2>12. IsMade(r.runs, e, n0, r.n, lo) /\ r.runs[Len(r.runs)][2] >= 0 BY Zenon, <2>10, <2>11
  <2> QED BY Zenon, <1>1, <1>4, <1>23, <2>11, <2>12 DEF HasReached
<1>26. CASE cs = <<>>
  <2>1. f = b
    <3>1. SUFFICES ASSUME f # b PROVE FALSE OBVIOUS
    <3>2. fD + 1 < b BY <1>12, <1>18, <3>1
    <3>3. line[prev + 1][1] <= fD + 1 /\ fD + 1 < line[cur][1] BY <1>4, <1>12, <1>18, <3>2
    <3>4. cs = Copied(line, prev, cur, fD, b, old, lo) BY <1>13, <3>2
    <3>5. cs # <<>> BY <1>10, <1>12, <1>2, <3>2, <3>3, <3>4, CopiedFirst
    <3> QED BY <1>26, <3>5
  <2>2. f <= e BY <1>4, <1>5, <1>18
  <2>3. r.n = n1 + (e - f) BY <1>24, <2>1
  <2>4. IsMade(runs, e, n0, r.n, lo) BY <1>4, <1>16, <1>20, <2>2, <2>3, MadeLonger
  <2>5. r.runs = runs /\ ~r.open
    <3>1. e - x > 0 BY <1>4, <1>5
    <3>2. r.runs = (d.runs \o cs) \o <<>> /\ ~r.open BY Zenon, <1>14, <1>16, <1>26, <3>1 DEF IsPassed
    <3>3. r.runs = (runs \o <<>>) \o <<>> BY Zenon, <1>15, <1>26, <3>2
    <3>4. PICK X : X = Int \X Int OBVIOUS
    <3>5. runs \in Seq(X) BY <1>17, <3>4
    <3>6. (runs \o <<>>) \o <<>> = runs BY <3>5
    <3> QED BY Zenon, <3>2, <3>3, <3>6
  <2>6. IsMade(r.runs, e, n0, r.n, lo) /\ r.runs[Len(r.runs)][2] >= 0 BY Zenon, <1>16, <2>4, <2>5
  <2> QED BY Zenon, <1>1, <1>4, <1>23, <2>5, <2>6 DEF HasReached
<1> QED BY <1>25, <1>26

\* A scanline without data.
LEMMA NoData ==
  ASSUME NEW line, NEW cur, IsGap(line, 0, cur), cur = Len(line), NEW old, NEW lo, NEW hi, NEW q, NEW p, IsFrame(line, old, lo, hi, q, p),
         NEW n0, NEW d, IsBegun(d, line, n0), NEW r, r = PassGap(d, line, 0, cur, old, lo, hi, q, p)
  PROVE IsOver(r, line, lo, hi, n0)
<1>1. PICK m \in Nat : m = Len(line) /\ m >= 2 /\ cur = m /\ IsLine(line) /\ RunsGrow(line) BY LineTypes DEF IsGap
<1>2. lo \in Int /\ hi \in Int BY DEF IsFrame
<1>3. m \in 1..m /\ 1 \in 1..m /\ 1 \in Runs(line) BY <1>1
<1>4. PICK z \in Int, a \in Int : z = line[m][1] /\ a = line[1][1] BY <1>1, <1>3, LineTypes
<1>5. z <= hi /\ lo <= a BY <1>1, <1>3, <1>4, FrameIs
<1>6. a < z
  <2>1. line[1][1] < line[2][1] BY <1>1, <1>3 DEF RunsGrow
  <2>2. 2 \in 1..m BY <1>1
  <2>3. line[2][1] \in Int /\ line[2][1] <= z BY <1>1, <1>4, <2>2, FrameIs
  <2> QED BY <1>4, <2>1, <2>3
<1>7. PICK fX \in Int : fX = lo - 1 BY <1>2
<1>8. fX + 1 <= hi /\ lo < hi /\ lo < z BY <1>2, <1>5, <1>6, <1>7
<1>9. PICK fD \in Int, b \in Int :
        fD = Lower(fX + 0, hi - 1) /\ b = Upper(Upper(hi - 0, fX + 1), fD + 1) /\ fD + 1 <= b /\ b <= hi
  <2>1. 0 \in Nat OBVIOUS
  <2> QED BY Zenon, <1>2, <1>8, <2>1, ReachNumbers
<1>10. fD = lo - 1 /\ fD + 1 = lo BY <1>2, <1>7, <1>8, <1>9 DEF Lower
<1>11. b = hi BY <1>2, <1>7, <1>8, <1>9, <1>10 DEF Upper
<1>12. fD + 1 < b BY <1>8, <1>10, <1>11
<1>13. PICK cs : cs = Copied(line, 0, cur, fD, b, old, lo) OBVIOUS
<1>14. IsPassed(r, d, cs, fX, fD, b, hi, 0)
  <2>0. PICK w, p2, q2, prev : w = 0 /\ p2 = 0 /\ prev = 0 /\ q2 = 0 OBVIOUS
  <2>1. ~(prev > 0) BY <2>0
  <2>2. fX = (IF prev > 0 THEN line[prev + 1][1] - 1 ELSE lo - 1) /\ p2 = IF prev > 0 THEN p ELSE 0 BY Zenon, <1>7, <2>0, <2>1
  <2>10. ~(cur < Len(line)) BY <1>1
  <2>3. hi = (IF cur < Len(line) THEN line[cur][1] ELSE hi) /\ q2 = IF cur < Len(line) THEN q ELSE 0 BY Zenon, <2>0, <2>10
  <2>4. w = IF cur < Len(line) THEN line[cur + 1][1] - line[cur][1] ELSE 0 BY Zenon, <2>0, <2>10
  <2>5. fD = Lower(fX + p2, hi - 1) /\ b = Upper(Upper(hi - q2, fX + 1), fD + 1) BY Zenon, <1>9, <2>0
  <2>6. cs = IF fD + 1 < b THEN Copied(line, prev, cur, fD, b, old, lo) ELSE <<>> BY Zenon, <1>12, <1>13, <2>0
  <2>7. r = PassGap(d, line, prev, cur, old, lo, hi, q, p) BY Zenon, <2>0
  <2>9. IsReach(line, prev, cur, old, lo, hi, q, p, fX, hi, w, p2, q2, fD, b, cs)
    BY Zenon, <2>2, <2>3, <2>4, <2>5, <2>6 DEF IsReach
  <2>8. IsPassed(r, d, cs, fX, fD, b, hi, w) BY Zenon, <2>7, <2>9, PassGapIs
  <2> QED BY Zenon, <2>0, <2>8
<1>15. d.runs = <<>> /\ d.n = n0 /\ d.end = z /\ n0 \in Nat BY <1>1, <1>4 DEF IsBegun
<1>16. fD + 1 < line[cur][1] /\ line[cur][1] <= b BY <1>1, <1>4, <1>5, <1>8, <1>10, <1>11
<1>17. cs # <<>> /\ cs[Len(cs)][2] = line[Len(line) - 1][2]
  <2>1. 0 + 1 < cur BY <1>1
  <2> QED BY <1>2, <1>10, <1>12, <1>13, <1>16, <2>1, CopiedLast
<1>18. cs[1][1] \in Int /\ cs[1][1] >= fD + 1 /\ IsMore(cs, cs[1][1], z)
  <2>1. fD + 1 < z BY <1>8, <1>10
  <2>2. \A k \in (0 + 1)..(cur - 1) : line[k][1] < z \/ b <= z
    <3>1. SUFFICES ASSUME NEW k \in (0 + 1)..(cur - 1) PROVE line[k][1] < z OBVIOUS
    <3>2. k \in Runs(line) /\ line[k][1] \in Int /\ line[k + 1][1] \in Int /\ line[k][1] < line[k + 1][1] /\ k + 1 \in 1..Len(line) BY GapRun
    <3>3. line[k + 1][1] <= z BY <1>1, <1>4, <3>2, FrameIs
    <3> QED BY <3>2, <3>3
  <2> QED BY <1>2, <1>10, <1>13, <1>17, <2>1, <2>2, CopiedMore
<1>19. PICK F \in Int : F = cs[1][1] /\ F >= lo /\ IsMore(cs, F, z) BY <1>10, <1>18
<1>20. IsPart(<<>>, F, n0, n0) BY <1>15, PartBegins
<1>21. cs \in Seq(Int \X Int) BY <1>19 DEF IsMore
<1>22. <<>> \o cs = cs /\ (<<>> \o cs) \o <<>> = cs
  <2>1. PICK X : X = Int \X Int OBVIOUS
  <2>2. cs \in Seq(X) BY <1>21, <2>1
  <2> QED BY <2>2
<1>23. IsMade(cs, z, n0, n0, lo)
  <2>1. PICK s : s = <<>> OBVIOUS
  <2>2. IsPart(s, F, n0, n0) /\ ~(s # <<>>) BY Zenon, <1>20, <2>1
  <2>4. s # <<>> => s[1][1] >= lo BY Zenon, <2>2
  <2>5. lo \in Int /\ F >= lo /\ IsMore(cs, F, z) /\ z \in Int BY <1>2, <1>19
  <2>3. IsMade(s \o cs, z, n0, n0, lo) BY Zenon, <2>2, <2>4, <2>5, MadeMore
  <2> QED BY Zenon, <1>22, <2>1, <2>3
<1>24. r.n = n0
  <2>1. r.n = n0 + (fD - fX) + (b - b) + 0 BY Zenon, <1>11, <1>14, <1>15 DEF IsPassed
  <2>2. fD - fX = 0 /\ b - b = 0 BY <1>2, <1>7, <1>10
  <2>3. r.n = n0 + 0 + 0 + 0 BY Zenon, <2>1, <2>2
  <2> QED BY <1>15, <2>3
<1>25. r.end = z
  <2>1. r.end = Upper(z, lo) BY Zenon, <1>10, <1>14, <1>15 DEF IsPassed
  <2> QED BY <1>2, <1>8, <2>1 DEF Upper
<1>26. r.runs = cs
  <2>1. ~(0 > 0) OBVIOUS
  <2>2. r.runs = (d.runs \o cs) \o <<>> BY Zenon, <1>14, <2>1 DEF IsPassed
  <2> QED BY Zenon, <1>15, <1>22, <2>2
<1>27. IsMade(r.runs, r.end, n0, r.n, lo) BY Zenon, <1>23, <1>24, <1>25, <1>26
<1>28. r.runs[Len(r.runs)][2] = line[Len(line) - 1][2] BY Zenon, <1>17, <1>26
<1>29. r.end \in Int /\ r.end <= hi BY <1>5, <1>25
<1> QED BY Zenon, <1>27, <1>28, <1>29 DEF IsOver

\* Behind the last run with data.
LEMMA LastData ==
  ASSUME NEW line, NEW prev, NEW cur, IsGap(line, prev, cur), prev > 0, cur = Len(line),
         NEW old, NEW lo, NEW hi, NEW q, NEW p, IsFrame(line, old, lo, hi, q, p),
         NEW n0, NEW d, HasReached(d, line, prev, lo, n0), NEW r, r = PassGap(d, line, prev, cur, old, lo, hi, q, p)
  PROVE IsOver(r, line, lo, hi, n0)
<1>1. PICK m \in Nat : m = Len(line) /\ m >= 2 /\ cur = m /\ prev \in 1..m /\ prev + 1 \in 1..m /\ prev < cur /\ IsLine(line) /\ RunsGrow(line)
  <2>1. PICK m \in Nat : m = Len(line) /\ m >= 2 /\ cur = m /\ IsLine(line) /\ RunsGrow(line) BY LineTypes DEF IsGap
  <2>2. prev \in 0..(m - 1) /\ prev < cur BY <2>1 DEF IsGap
  <2>3. prev \in 1..m /\ prev + 1 \in 1..m BY <2>1, <2>2
  <2> QED BY <2>1, <2>2, <2>3
<1>2. lo \in Int /\ hi \in Int /\ p \in Nat BY DEF IsFrame
<1>3. m \in 1..m BY <1>1
<1>4. PICK z \in Int, s \in Int : z = line[m][1] /\ s = line[prev + 1][1] BY <1>1, <1>3, LineTypes
<1>5. z <= hi /\ lo <= s /\ s <= z /\ s + p <= hi
  <2>1. z <= hi BY <1>1, <1>3, <1>4, FrameIs
  <2>2. lo <= s /\ s <= line[Len(line)][1] /\ s + p <= hi BY <1>1, <1>4, FrameIs
  <2> QED BY <1>1, <1>4, <2>1, <2>2
<1>7. PICK fX \in Int : fX = s - 1 BY <1>4
<1>8. fX + 1 <= hi BY <1>2, <1>5, <1>7
<1>9. PICK fD \in Int, b \in Int :
        fD = Lower(fX + p, hi - 1) /\ b = Upper(Upper(hi - 0, fX + 1), fD + 1) /\ fX <= fD /\ fD + 1 <= b /\ b <= hi
  <2>1. 0 \in Nat OBVIOUS
  <2> QED BY Zenon, <1>2, <1>8, <2>1, ReachNumbers
<1>10. PICK f \in Int : f = fD + 1 /\ f = s + p
  <2>1. fD = fX + p BY <1>2, <1>5, <1>7, <1>9 DEF Lower
  <2> QED BY <1>2, <1>7, <1>9, <2>1
<1>11. b = hi BY <1>2, <1>5, <1>7, <1>9, <1>10 DEF Upper
<1>13. PICK cs : cs = IF fD + 1 < b THEN Copied(line, prev, cur, fD, b, old, lo) ELSE <<>> OBVIOUS
<1>14. IsPassed(r, d, cs, fX, fD, b, hi, 0)
  <2>0. PICK w, q2 : w = 0 /\ q2 = 0 OBVIOUS
  <2>2. fX = (IF prev > 0 THEN line[prev + 1][1] - 1 ELSE lo - 1) /\ p = IF prev > 0 THEN p ELSE 0 BY Zenon, <1>4, <1>7
  <2>10. ~(cur < Len(line)) BY <1>1
  <2>3. hi = (IF cur < Len(line) THEN line[cur][1] ELSE hi) /\ q2 = IF cur < Len(line) THEN q ELSE 0 BY Zenon, <2>0, <2>10
  <2>4. w = IF cur < Len(line) THEN line[cur + 1][1] - line[cur][1] ELSE 0 BY Zenon, <2>0, <2>10
  <2>5. fD = Lower(fX + p, hi - 1) /\ b = Upper(Upper(hi - q2, fX + 1), fD + 1) BY Zenon, <1>9, <2>0
  <2>9. IsReach(line, prev, cur, old, lo, hi, q, p, fX, hi, w, p, q2, fD, b, cs)
    BY Zenon, <1>13, <2>2, <2>3, <2>4, <2>5 DEF IsReach
  <2>8. IsPassed(r, d, cs, fX, fD, b, hi, w) BY Zenon, <2>9, PassGapIs
  <2> QED BY Zenon, <2>0, <2>8
<1>15. PICK runs, n : runs = d.runs /\ n = d.n OBVIOUS
<1>16. IsMade(runs, s, n0, n, lo) /\ runs[Len(runs)][2] >= 0 /\ d.end = z BY Zenon, <1>1, <1>4, <1>15 DEF HasReached
<1>17. runs \in Seq(Int \X Int) /\ n \in Nat /\ runs # <<>> BY <1>16, PartTypes DEF IsMade
<1>18. s <= f /\ f <= hi BY <1>2, <1>5, <1>10
<1>19. PICK n1 \in Nat : n1 = n + (f - s) BY <1>17, <1>18
<1>20. IsMade(runs, f, n0, n1, lo) BY <1>16, <1>18, <1>19, MadeLonger
<1>21. IsPart(runs, f, n0, n1) /\ runs[1][1] >= lo BY <1>20 DEF IsMade
<1>22. fD - fX = f - s BY <1>7, <1>9, <1>10
<1>23. r.end = Upper(z, f) BY Zenon, <1>10, <1>14, <1>16 DEF IsPassed
<1>24. r.n = n1
  <2>1. r.n = n + (f - s) + (b - b) + 0 BY Zenon, <1>11, <1>14, <1>15, <1>22 DEF IsPassed
  <2> QED BY <1>17, <1>19, <2>1
<1>25. r.runs = (runs \o cs) \o <<>>
  <2>1. ~(0 > 0) OBVIOUS
  <2>2. r.runs = (d.runs \o cs) \o <<>> BY Zenon, <1>14, <2>1 DEF IsPassed
  <2> QED BY Zenon, <1>15, <2>2
<1>26. CASE f < z
  <2>1. fD + 1 < b /\ cs = Copied(line, prev, cur, fD, b, old, lo) BY <1>2, <1>5, <1>10, <1>11, <1>13, <1>26
  <2>2. line[prev + 1][1] <= fD + 1 /\ fD + 1 < line[cur][1] /\ line[cur][1] <= b BY <1>1, <1>4, <1>5, <1>10, <1>11, <1>18, <1>26
  <2>3. cs # <<>> /\ cs[1][1] = f
    <3>1. cs # <<>> /\ cs[1][1] = fD + 1 BY SMTT(20), <1>2, <1>9, <2>1, <2>2, CopiedFirst
    <3> QED BY <1>10, <3>1
  <2>4. IsMore(cs, f, z)
    <3>1. fD + 1 < z BY <1>10, <1>26
    <3>2. \A k \in (prev + 1)..(cur - 1) : line[k][1] < z \/ b <= z
      <4>1. SUFFICES ASSUME NEW k \in (prev + 1)..(cur - 1) PROVE line[k][1] < z OBVIOUS
      <4>2. k \in Runs(line) /\ line[k][1] \in Int /\ line[k + 1][1] \in Int /\ line[k][1] < line[k + 1][1] /\ k + 1 \in 1..Len(line) BY GapRun
      <4>3. line[k + 1][1] <= line[m][1] BY <1>1, <4>2, FrameIs
      <4> QED BY <1>4, <4>2, <4>3
    <3>3. prev # 0 BY <1>1
    <3>4. IsMore(cs, cs[1][1], z) BY <1>2, <1>9, <2>1, <2>3, <3>1, <3>2, <3>3, CopiedMore
    <3> QED BY Zenon, <2>3, <3>4
  <2>5. f >= lo BY <1>2, <1>5, <1>18
  <2>6. PICK t : t = runs \o cs OBVIOUS
  <2>7. IsMade(t, z, n0, n1, lo) /\ t[Len(t)] = cs[Len(cs)]
    <3>1. IsMade(runs \o cs, z, n0, n1, lo) /\ (runs \o cs)[Len(runs \o cs)] = cs[Len(cs)]
      <4>1. runs # <<>> => runs[1][1] >= lo BY <1>21
      <4>2. IsPart(runs, f, n0, n1) /\ lo \in Int /\ z \in Int BY <1>2, <1>21
      <4>3. IsMade(runs \o cs, z, n0, n1, lo) BY <2>4, <2>5, <4>1, <4>2, MadeMore
      <4>4. (runs \o cs)[Len(runs \o cs)] = cs[Len(cs)]
        <5>1. cs \in Seq(Int \X Int) /\ runs \in Seq(Int \X Int) /\ cs # <<>> BY <1>17, <2>3, <2>4 DEF IsMore
        <5>2. t \in Seq(Int \X Int) /\ t # <<>> /\ t[Len(t)] = cs[Len(cs)] BY <2>6, <5>1, JoinEnds
        <5> QED BY Zenon, <2>6, <5>2
      <4> QED BY <4>3, <4>4
    <3> QED BY Zenon, <2>6, <3>1
  <2>8. cs[Len(cs)][2] = line[Len(line) - 1][2]
    <3>1. prev # 0 BY <1>1
    <3>2. prev + 1 < cur
      <4>1. SUFFICES ASSUME prev + 1 = cur PROVE FALSE BY <1>1
      <4>2. s = z BY <1>1, <1>4, <4>1
      <4> QED BY <1>18, <1>26, <4>2
    <3>3. prev = 0 => fD + 1 = lo BY <3>1
    <3>4. cs # <<>> /\ cs[Len(cs)][2] = line[Len(line) - 1][2]
      <4>1. fD \in Int /\ b \in Int /\ lo \in Int BY <1>2
      <4>2. cs = Copied(line, prev, cur, fD, b, old, lo) /\ fD + 1 < b /\ fD + 1 < line[cur][1] /\ line[cur][1] <= b BY <2>1, <2>2
      <4> QED BY <3>2, <3>3, <4>1, <4>2, CopiedLast
    <3> QED BY <3>4
  <2>9. r.runs = t
    <3>1. t \in Seq(Int \X Int) BY <2>7, PartTypes DEF IsMade
    <3>2. PICK X : X = Int \X Int OBVIOUS
    <3>3. t \in Seq(X) BY <3>1, <3>2
    <3>4. t \o <<>> = t BY <3>3
    <3> QED BY Zenon, <1>25, <2>6, <3>4
  <2>10. r.end = z BY <1>23, <1>26 DEF Upper
  <2>11. IsMade(r.runs, r.end, n0, r.n, lo) BY Zenon, <1>24, <2>7, <2>9, <2>10
  <2>12. r.runs[Len(r.runs)][2] = line[Len(line) - 1][2] BY Zenon, <2>7, <2>8, <2>9
  <2>13. r.end \in Int /\ r.end <= hi BY <1>5, <2>10
  <2> QED BY Zenon, <2>11, <2>12, <2>13 DEF IsOver
<1>27. CASE z <= f
  <2>1. cs = <<>>
    <3>1. SUFFICES ASSUME cs # <<>> PROVE FALSE OBVIOUS
    <3>2. fD + 1 < b /\ cs = Copied(line, prev, cur, fD, b, old, lo) BY <1>13, <3>1
    <3>3. PICK left : left = Ascending(Left(line, prev, cur, fD, b, old, lo)) OBVIOUS
    <3>4. prev # 0 BY <1>1
    <3>5. Lists(left, Left(line, prev, cur, fD, b, old, lo)) /\ IsCopied(cs, left, line, fD, b, old, lo)
      BY <1>2, <1>9, <3>2, <3>3, <3>4, CopiedIs
    <3>6. Len(cs) = Len(left) /\ cs \in Seq(Int \X Int) BY <3>5 DEF IsCopied
    <3>7. 1 \in 1..Len(left)
      <4>1. cs = <<>> <=> Len(cs) = 0 BY Zenon, <3>6, SeqEmpty
      <4>2. Len(cs) # 0 /\ Len(cs) \in Nat BY Zenon, <3>1, <3>6, <4>1, SeqEmpty
      <4> QED BY <3>6, <4>2
    <3>8. left[1] \in Left(line, prev, cur, fD, b, old, lo) BY <3>5, <3>7, ListedNext
    <3>9. PICK k \in (prev + 1)..(cur - 1) : line[k + 1][1] > fD + 1 BY <3>8 DEF Left
    <3>10. line[k + 1][1] \in Int /\ k + 1 \in 1..Len(line) BY GapRun
    <3>11. line[k + 1][1] <= line[Len(line)][1] BY <1>1, <3>10, FrameIs
    <3> QED BY <1>1, <1>4, <1>10, <1>27, <3>9, <3>10, <3>11
  <2>2. r.runs = runs
    <3>1. PICK X : X = Int \X Int OBVIOUS
    <3>2. runs \in Seq(X) BY <1>17, <3>1
    <3>3. (runs \o <<>>) \o <<>> = runs BY <3>2
    <3> QED BY Zenon, <1>25, <2>1, <3>3
  <2>3. r.end = f
    <3>1. CASE z < f BY <1>23, <3>1 DEF Upper
    <3>2. CASE z = f BY <1>23, <3>2 DEF Upper
    <3> QED BY <1>27, <3>1, <3>2
  <2>4. IsMade(r.runs, r.end, n0, r.n, lo) BY Zenon, <1>20, <1>24, <2>2, <2>3
  <2>5. r.runs[Len(r.runs)][2] >= 0 BY Zenon, <1>16, <2>2
  <2>6. r.end \in Int /\ r.end <= hi BY <1>18, <2>3
  <2> QED BY Zenon, <2>4, <2>5, <2>6 DEF IsOver
<1> QED BY <1>26, <1>27

\* Appending is joining a sequence of one.
LEMMA AppendJoin == ASSUME NEW s, s \in Seq(Int \X Int), NEW e, e \in Int \X Int PROVE s \o <<e>> = Append(s, e) /\ Append(s, e) \in Seq(Int \X Int)
<1>1. PICK X : X = Int \X Int OBVIOUS
<1>2. s \in Seq(X) /\ e \in X BY <1>1
<1> QED BY <1>1, <1>2

\* The dilated scanline, with its last undefined run and its terminator.
LEMMA FinishedIs ==
  ASSUME NEW line, IsLine(line), NEW lo \in Int, NEW hi \in Int, NEW n0, NEW d, IsOver(d, line, lo, hi, n0), NEW oldEnd
  PROVE IsScanline(Finished(d, line, oldEnd, hi), lo, hi, n0, d.n)
<1>0. PICK end \in Int : end = d.end BY DEF IsOver
<1>1. PICK runs, n, code : runs = d.runs /\ n = d.n /\ end = d.end /\ code = line[Len(line) - 1][2] BY <1>0
<1>2. IsMade(runs, end, n0, n, lo) /\ end <= hi BY Zenon, <1>1 DEF IsOver
<1>4. IsPart(runs, end, n0, n) /\ runs # <<>> /\ runs[1][1] >= lo BY <1>2 DEF IsMade
<1>5. runs \in Seq(Int \X Int) /\ n \in Nat /\ \A j \in 1..Len(runs) : runs[j][2] \in Int BY <1>4, PartTypes
<1>6. PICK m \in Nat : m = Len(runs) /\ m >= 1
  <2>1. runs = <<>> <=> Len(runs) = 0 BY Zenon, <1>5, SeqEmpty
  <2>2. Len(runs) \in Nat /\ Len(runs) # 0 BY Zenon, <1>4, <1>5, <2>1, SeqEmpty
  <2> QED BY <2>2
<1>7. code \in Int
  <2>1. Len(line) - 1 \in 1..Len(line) BY LineTypes
  <2> QED BY <1>1, <2>1, LineTypes
<1>8. CASE ReachesEnd(line, oldEnd) /\ end < hi
  <2>1. code < 0 BY <1>1, <1>7, <1>8 DEF ReachesEnd
  <2>2. Finished(d, line, oldEnd, hi) = Continued(runs, end, code, hi) BY Zenon, <1>1, <1>8 DEF Finished
  <2>3. <<hi, -1>> \in Int \X Int /\ <<end, code>> \in Int \X Int BY <1>7
  <2>4. CASE runs[m][2] = code
    <3>1. n = IF runs[Len(runs)][2] >= 0 THEN n + (hi - end) ELSE n BY <1>6, <1>7, <2>1, <2>4
    <3>2. IsMade(runs, hi, n0, n, lo) BY <1>2, <3>1, MadeLonger
    <3>3. Continued(runs, end, code, hi) = runs \o <<<<hi, -1>>>> BY <1>6, <2>4 DEF Continued
    <3>4. runs \o <<<<hi, -1>>>> = Append(runs, <<hi, -1>>) BY <1>5, <2>3, AppendJoin
    <3>5. IsPart(runs, hi, n0, n) BY <3>2 DEF IsMade
    <3>6. PICK t : t = Append(runs, <<hi, -1>>) OBVIOUS
    <3>8. hi <= hi OBVIOUS
    <3>7. IsScanline(t, lo, hi, n0, n) BY Zenon, <1>4, <3>5, <3>6, <3>8, PartEnds
    <3> QED BY Zenon, <1>1, <2>2, <3>3, <3>4, <3>6, <3>7
  <2>5. CASE runs[m][2] # code
    <3>1. PICK cs : cs = <<<<end, code>>>> OBVIOUS
    <3>2. IsMore(cs, end, hi)
      <4>1. Len(cs) = 1 /\ cs[1] = <<end, code>> /\ cs \in Seq(Int \X Int) BY <1>7, <3>1
      <4> QED BY <1>7, <1>8, <2>1, <4>1 DEF IsMore
    <3>3. end >= lo
      <4>1. runs[1][1] \in Int /\ runs[1][1] <= end
        <5>2. IsScanline(Append(runs, <<end, -1>>), lo, hi, n0, n) BY <1>2, <1>4, PartEnds
        <5>3. PICK t : t = Append(runs, <<end, -1>>) /\ Fits(t, lo, hi) BY <5>2 DEF IsScanline
        <5>4. Len(t) = m + 1 /\ t[1] = runs[1] /\ t[m + 1] = <<end, -1>>
          <6>1. PICK X : X = Int \X Int OBVIOUS
          <6>2. runs \in Seq(X) BY <1>5, <6>1
          <6> QED BY <1>6, <5>3, <6>2
        <5>5. IsLine(t) /\ Ascends(t) BY <5>3, FitsAscends
        <5>6. 1 \in 1..(m + 1) /\ m + 1 \in 1..(m + 1) /\ 1 <= m + 1 BY <1>6
        <5>7. t[1][1] <= t[m + 1][1] /\ t[1][1] \in Int BY <5>4, <5>5, <5>6, AscendsFar, LineTypes
        <5> QED BY <5>4, <5>7
      <4> QED BY <1>4, <4>1
    <3>4. PICK t : t = runs \o cs OBVIOUS
    <3>5. IsMade(runs \o cs, hi, n0, n, lo) BY <1>4, <3>2, <3>3, MadeMore
    <3>6. IsPart(t, hi, n0, n) /\ t # <<>> /\ t[1][1] >= lo BY Zenon, <3>4, <3>5 DEF IsMade
    <3>7. t = Append(runs, <<end, code>>) /\ t \in Seq(Int \X Int) BY Zenon, <1>5, <2>3, <3>1, <3>4, AppendJoin
    <3>8. Continued(runs, end, code, hi) = t \o <<<<hi, -1>>>> BY <1>6, <2>5, <3>7 DEF Continued
    <3>9. t \o <<<<hi, -1>>>> = Append(t, <<hi, -1>>) BY Zenon, <2>3, <3>7, AppendJoin
    <3>10. PICK u : u = Append(t, <<hi, -1>>) OBVIOUS
    <3>12. hi <= hi OBVIOUS
    <3>11. IsScanline(u, lo, hi, n0, n) BY Zenon, <3>6, <3>10, <3>12, PartEnds
    <3> QED BY Zenon, <1>1, <2>2, <3>8, <3>9, <3>10, <3>11
  <2> QED BY <2>4, <2>5
<1>9. CASE ~(ReachesEnd(line, oldEnd) /\ end < hi)
  <2>1. Finished(d, line, oldEnd, hi) = Append(runs, <<end, -1>>) BY Zenon, <1>1, <1>9 DEF Finished
  <2>2. IsScanline(Append(runs, <<end, -1>>), lo, hi, n0, n) BY <1>2, <1>4, PartEnds
  <2> QED BY Zenon, <1>1, <2>1, <2>2
<1> QED BY <1>8, <1>9

(* All the gaps of a scanline. *)

\* The scanline that is being made.
Dilating == [runs : Seq(Int \X Int), n : Int, end : Int, open : BOOLEAN]

\* The types of what is copied,
LEMMA CopiedTypes ==
  ASSUME NEW line, IsLine(line), NEW prev \in 0..(Len(line) - 1), NEW cur \in 1..Len(line), NEW fD \in Int, NEW bD, NEW old, NEW lo \in Int
  PROVE Copied(line, prev, cur, fD, bD, old, lo) \in Seq(Int \X Int)
<1>1. PICK m \in Nat : m = Len(line) /\ prev \in 0..(m - 1) /\ cur \in 1..m BY LineTypes
<1>2. PICK S : S = Left(line, prev, cur, fD, bD, old, lo) OBVIOUS
<1>3. S \in SUBSET ((prev + 1)..(cur - 1)) BY <1>2 DEF Left
<1>4. prev + 1 \in Int /\ cur - 1 \in Int BY <1>1
<1>5. PICK left : left = Ascending(S) /\ Lists(left, S) BY <1>3, <1>4, AscendingIs
<1>6. PICK n \in Nat : n = Len(left) BY <1>5 DEF Lists
<1>7. PICK cs : cs = Copied(line, prev, cur, fD, bD, old, lo) OBVIOUS
<1>8. cs = [j \in 1..n |-> <<CopiedStart(line, left[j], fD, old, lo), line[left[j]][2]>>]
  BY <1>2, <1>5, <1>6, <1>7 DEF Copied, Left
<1>9. ASSUME NEW j \in 1..n PROVE cs[j] \in Int \X Int
  <2>1. left[j] \in S BY <1>5, <1>6, ListedNext
  <2>6. \A i \in (prev + 1)..(cur - 1) : i \in 1..m BY <1>1
  <2>7. left[j] \in (prev + 1)..(cur - 1) BY <1>3, <2>1
  <2>2. PICK k : k = left[j] /\ k \in 1..m BY <2>6, <2>7
  <2>3. line[k][1] \in Int /\ line[k][2] \in Int BY <1>1, <2>2, LineTypes
  <2>4. Upper(fD + 1, line[k][1]) \in Int BY <2>3 DEF Upper
  <2>5. CopiedStart(line, k, fD, old, lo) \in Int BY <2>4 DEF CopiedStart
  <2> QED BY <1>8, <2>2, <2>3, <2>5
<1>10. PICK X : X = Int \X Int OBVIOUS
<1>11. cs = [j \in 1..n |-> cs[j]] /\ \A j \in 1..n : cs[j] \in X BY <1>8, <1>9, <1>10
<1>12. cs \in [1..n -> X] BY <1>11
<1>13. cs \in Seq(X) BY <1>12
<1> QED BY <1>7, <1>10, <1>13

\* of what a gap makes,
LEMMA PassedTypes ==
  ASSUME NEW d \in Dilating, NEW cs \in Seq(Int \X Int), NEW fX \in Int, NEW fD \in Int, NEW bD \in Int, NEW bX \in Int, NEW w \in Int
  PROVE Passed(d, cs, fX, fD, bD, bX, w) \in Dilating
<1>1. PICK X : X = Int \X Int OBVIOUS
<1>2. d.runs \in Seq(X) /\ d.n \in Int /\ d.end \in Int /\ d.open \in BOOLEAN /\ cs \in Seq(X) BY <1>1 DEF Dilating
<1>3. PICK open : open = (d.open \/ cs # <<>>) OBVIOUS
<1>4. PICK starts : starts = (open /\ w > 0) OBVIOUS
<1>5. PICK more : more = IF starts THEN <<<<bD, d.n + (fD - fX)>>>> ELSE <<>> OBVIOUS
<1>6. more \in Seq(X)
  <2>1. <<bD, d.n + (fD - fX)>> \in X BY <1>1, <1>2
  <2>2. <<<<bD, d.n + (fD - fX)>>>> \in Seq(X) BY <2>1
  <2> QED BY <1>5, <2>2
<1>7. PICK all, n, end, o : all = (d.runs \o cs) \o more /\ n = d.n + (fD - fX) + (bX - bD) + w
                           /\ end = Upper(d.end, fD + 1) /\ o = (open /\ ~starts)
  OBVIOUS
<1>8. Passed(d, cs, fX, fD, bD, bX, w) = [runs |-> all, n |-> n, end |-> end, open |-> o] BY Zenon, <1>3, <1>4, <1>5, <1>7 DEF Passed
<1>9. all \in Seq(X) BY <1>2, <1>6, <1>7
<1>10. n \in Int BY <1>2, <1>7
<1>11. end \in Int BY <1>2, <1>7, LowerUpper
<1>12. o \in BOOLEAN BY <1>3, <1>4, <1>7
<1> QED BY <1>1, <1>8, <1>9, <1>10, <1>11, <1>12 DEF Dilating

\* and of what passing it makes, whatever the gap.
LEMMA PassGapTypes ==
  ASSUME NEW line, IsLine(line), NEW prev \in 0..(Len(line) - 1), NEW cur \in 1..Len(line), NEW old, NEW lo \in Int, NEW hi \in Int,
         NEW q \in Nat, NEW p \in Nat, NEW d \in Dilating
  PROVE PassGap(d, line, prev, cur, old, lo, hi, q, p) \in Dilating
<1>1. PICK m \in Nat : m = Len(line) /\ m >= 2 /\ prev \in 0..(m - 1) /\ cur \in 1..m BY LineTypes
<1>2. \A k \in 1..m : line[k][1] \in Int BY <1>1, LineTypes
<1>3. PICK fX \in Int : fX = IF prev > 0 THEN line[prev + 1][1] - 1 ELSE lo - 1
  <2>1. prev + 1 \in 1..m BY <1>1
  <2> QED BY <1>2, <2>1
<1>4. PICK bX \in Int : bX = IF cur < Len(line) THEN line[cur][1] ELSE hi BY <1>1, <1>2
<1>5. PICK w \in Int : w = IF cur < Len(line) THEN line[cur + 1][1] - line[cur][1] ELSE 0
  <2>1. CASE cur < m
    <3>1. cur \in 1..m /\ cur + 1 \in 1..m BY <1>1, <2>1
    <3>2. line[cur + 1][1] - line[cur][1] \in Int BY <1>2, <3>1
    <3> QED BY <1>1, <2>1, <3>2
  <2>2. CASE ~(cur < m) BY <1>1, <2>2
  <2> QED BY <2>1, <2>2
<1>6. PICK p2 \in Int, q2 \in Int : p2 = (IF prev > 0 THEN p ELSE 0) /\ q2 = IF cur < Len(line) THEN q ELSE 0 OBVIOUS
<1>7. PICK fD \in Int : fD = Lower(fX + p2, bX - 1)
  <2>1. Lower(fX + p2, bX - 1) \in Int BY DEF Lower
  <2> QED BY <2>1
<1>8. PICK u \in Int : u = Upper(bX - q2, fX + 1)
  <2>1. Upper(bX - q2, fX + 1) \in Int BY DEF Upper
  <2> QED BY <2>1
<1>9. PICK bD \in Int : bD = Upper(u, fD + 1)
  <2>1. Upper(u, fD + 1) \in Int BY DEF Upper
  <2> QED BY <2>1
<1>10. PICK cs : cs = IF fD + 1 < bD THEN Copied(line, prev, cur, fD, bD, old, lo) ELSE <<>> OBVIOUS
<1>11. cs \in Seq(Int \X Int) BY <1>10, CopiedTypes
<1>12. PICK r : r = PassGap(d, line, prev, cur, old, lo, hi, q, p) OBVIOUS
<1>13. r = PassForward(d, line, prev, cur, old, lo, q2, p2, fX, bX, w) BY Zenon, <1>3, <1>4, <1>5, <1>6, <1>12 DEF PassGap
<1>14. r = PassBackward(d, line, prev, cur, old, lo, q2, fX, fD, bX, w) BY Zenon, <1>7, <1>13 DEF PassForward, ForwardTo
<1>15. r = PassBetween(d, line, prev, cur, old, lo, fX, fD, bD, bX, w) BY Zenon, <1>8, <1>9, <1>14 DEF PassBackward, BackwardTo
<1>16. r = Passed(d, cs, fX, fD, bD, bX, w) BY Zenon, <1>10, <1>15 DEF PassBetween
<1> QED BY <1>11, <1>12, <1>16, PassedTypes

\* The gaps are before, between and behind the runs with data.
IsBounds(line, s, bounds) ==
  /\ Len(bounds) = Len(s) + 2 /\ Len(s) \in Nat /\ bounds[1] = 0 /\ bounds[Len(s) + 2] = Len(line)
  /\ \A g \in 1..(Len(s) + 1) :
       /\ IsGap(line, bounds[g], bounds[g + 1])
       /\ g > 1 => bounds[g] > 0
       /\ g <= Len(s) => bounds[g + 1] < Len(line)
       /\ g > 1 /\ g <= Len(s) => line[bounds[g] + 1][1] < line[bounds[g + 1]][1]

\* The numbers n and m of the runs D with data and of the entries of the scanline.
HasBounds(line, s, bounds, D, n, m) ==
  /\ IsLine(line) /\ RunsGrow(line) /\ RunsApart(line)
  /\ m \in Nat /\ m = Len(line) /\ m >= 2
  /\ D = {k \in Runs(line) : line[k][2] >= 0} /\ D \in SUBSET (1..(m - 1))
  /\ Lists(s, D) /\ n \in Nat /\ n = Len(s)
  /\ Len(bounds) = n + 2 /\ bounds[1] = 0 /\ bounds[n + 2] = m /\ \A i \in 1..n : bounds[i + 1] = s[i]

\* Between the runs with data there are gaps.
LEMMA BoundsApart ==
  ASSUME NEW line, NEW s, NEW bounds, NEW D, NEW n \in Nat, NEW m \in Nat, HasBounds(line, s, bounds, D, n, m)
  PROVE IsBounds(line, s, bounds)
<1>0. IsLine(line) /\ RunsGrow(line) /\ RunsApart(line) BY DEF HasBounds
<1>1. m \in Nat /\ m = Len(line) /\ m >= 2 BY DEF HasBounds
<1>2. D = {k \in Runs(line) : line[k][2] >= 0} BY DEF HasBounds
<1>3. D \in SUBSET (1..(m - 1)) BY DEF HasBounds
<1>4. Lists(s, D) BY DEF HasBounds
<1>5. n \in Nat /\ n = Len(s) BY DEF HasBounds
<1>6. Len(bounds) = n + 2 /\ bounds[1] = 0 /\ bounds[n + 2] = m /\ \A i \in 1..n : bounds[i + 1] = s[i] BY DEF HasBounds
<1>7. \A i \in 1..n : s[i] \in D /\ s[i] \in Int /\ s[i] >= 1 /\ s[i] <= m - 1 /\ line[s[i]][2] >= 0
  <2>1. SUFFICES ASSUME NEW i \in 1..n PROVE s[i] \in D /\ s[i] \in Int /\ s[i] >= 1 /\ s[i] <= m - 1 /\ line[s[i]][2] >= 0 OBVIOUS
  <2>2. s[i] \in D BY <1>4, <1>5, ListedNext
  <2>3. s[i] \in 1..(m - 1) BY <1>3, <2>2
  <2>4. line[s[i]][2] >= 0 BY <1>2, <2>2
  <2> QED BY <2>2, <2>3, <2>4
<1>8. \A g \in 1..(n + 1) : bounds[g] \in Int /\ bounds[g + 1] \in Int /\ 0 <= bounds[g] /\ bounds[g] < bounds[g + 1] /\ bounds[g + 1] <= m
  <2>1. SUFFICES ASSUME NEW g \in 1..(n + 1)
                 PROVE  bounds[g] \in Int /\ bounds[g + 1] \in Int /\ 0 <= bounds[g] /\ bounds[g] < bounds[g + 1] /\ bounds[g + 1] <= m
    OBVIOUS
  <2>2. CASE g = 1 /\ n = 0 BY <1>1, <1>6, <2>2
  <2>3. CASE g = 1 /\ n > 0
    <3>1. 1 \in 1..n BY <2>3
    <3>2. bounds[1] = 0 /\ bounds[1 + 1] = s[1] BY <1>6, <3>1
    <3>3. s[1] \in Int /\ s[1] >= 1 /\ s[1] <= m - 1 BY <1>7, <3>1
    <3>4. bounds[g] = 0 /\ bounds[g + 1] = s[1] BY <2>3, <3>2
    <3> QED BY <1>1, <3>3, <3>4
  <2>4. CASE g > 1 /\ g = n + 1
    <3>1. n \in 1..n BY <2>4
    <3>2. bounds[n + 1] = s[n] /\ bounds[n + 2] = m /\ g + 1 = n + 2 BY <1>6, <2>4, <3>1
    <3>3. s[n] \in Int /\ s[n] >= 1 /\ s[n] <= m - 1 BY <1>7, <3>1
    <3>4. bounds[g] = s[n] /\ bounds[g + 1] = m BY <2>4, <3>2
    <3> QED BY <1>1, <3>3, <3>4
  <2>5. CASE g > 1 /\ g < n + 1
    <3>1. PICK i \in 1..n : g = i + 1 /\ i + 1 \in 1..n
      <4>1. g - 1 \in 1..n /\ g = (g - 1) + 1 /\ (g - 1) + 1 \in 1..n BY <2>5
      <4> QED BY <4>1
    <3>2. bounds[g] = s[i] /\ bounds[g + 1] = s[i + 1] BY <1>6, <3>1
    <3>3. s[i] < s[i + 1] BY <1>4, <1>5, <3>1, ListedNext
    <3>4. s[i] \in Int /\ s[i] >= 1 /\ s[i + 1] \in Int /\ s[i + 1] <= m - 1 BY <1>7, <3>1
    <3> QED BY <1>1, <3>2, <3>3, <3>4
  <2>6. (g = 1 /\ n = 0) \/ (g = 1 /\ n > 0) \/ (g > 1 /\ g = n + 1) \/ (g > 1 /\ g < n + 1) OBVIOUS
  <2> QED BY Zenon, <2>2, <2>3, <2>4, <2>5, <2>6
<1>9. \A g \in 1..(n + 1) : (g > 1 => bounds[g] \in D) /\ (g <= n => bounds[g + 1] \in D)
  <2>1. SUFFICES ASSUME NEW g \in 1..(n + 1) PROVE (g > 1 => bounds[g] \in D) /\ (g <= n => bounds[g + 1] \in D) OBVIOUS
  <2>2. g > 1 => bounds[g] \in D
    <3>1. SUFFICES ASSUME g > 1 PROVE bounds[g] \in D OBVIOUS
    <3>2. PICK i \in 1..n : g = i + 1
      <4>1. g - 1 \in 1..n /\ g = (g - 1) + 1 BY <3>1
      <4> QED BY <4>1
    <3>3. bounds[g] = s[i] BY <1>6, <3>2
    <3> QED BY <1>7, <3>2, <3>3
  <2>3. g <= n => bounds[g + 1] \in D
    <3>1. SUFFICES ASSUME g <= n PROVE bounds[g + 1] \in D OBVIOUS
    <3>2. g \in 1..n BY <3>1
    <3> QED BY <1>6, <1>7, <3>2
  <2> QED BY <2>2, <2>3
<1>10. ASSUME NEW g \in 1..(n + 1), NEW k \in (bounds[g] + 1)..(bounds[g + 1] - 1), k \in D PROVE FALSE
  <2>1. bounds[g] \in Int /\ bounds[g + 1] \in Int /\ 0 <= bounds[g] /\ bounds[g + 1] <= m BY <1>8
  <2>2. k \in Int /\ bounds[g] < k /\ k < bounds[g + 1] BY <2>1
  <2>3. PICK j \in 1..n : s[j] = k BY <1>4, <1>5, <1>10 DEF Lists
  <2>4. CASE g = 1
    <3>0. 1 \in 1..n BY <2>3
    <3>1. 1 \in 1..n /\ bounds[1 + 1] = s[1] BY <1>6, <3>0
    <3>2. s[1] <= s[j] BY <1>4, <1>5, <2>3, ListedNext
    <3>3. s[1] <= k /\ s[1] \in Int /\ bounds[g + 1] = s[1] BY <1>7, <2>3, <2>4, <3>1, <3>2
    <3> QED BY <2>2, <3>3
  <2>5. CASE g > 1 /\ g = n + 1
    <3>0. n \in 1..n BY <2>5
    <3>1. n \in 1..n /\ bounds[n + 1] = s[n] BY <1>6, <3>0
    <3>2. s[j] <= s[n] BY <1>4, <1>5, <2>3, ListedNext
    <3>3. k <= s[n] /\ s[n] \in Int /\ bounds[g] = s[n] BY <1>7, <2>3, <2>5, <3>1, <3>2
    <3> QED BY <2>2, <3>3
  <2>6. CASE g > 1 /\ g < n + 1
    <3>1. PICK i \in 1..n : g = i + 1 /\ i + 1 \in 1..n
      <4>1. g - 1 \in 1..n /\ g = (g - 1) + 1 /\ (g - 1) + 1 \in 1..n BY <2>6
      <4> QED BY <4>1
    <3>2. bounds[g] = s[i] /\ bounds[g + 1] = s[i + 1] BY <1>6, <3>1
    <3>3. k <= s[i] \/ k >= s[i + 1] BY <1>4, <1>5, <1>10, <3>1, ListedNext
    <3>4. s[i] \in Int /\ s[i + 1] \in Int BY <1>7, <3>1
    <3> QED BY <2>2, <3>2, <3>3, <3>4
  <2>7. g = 1 \/ (g > 1 /\ g = n + 1) \/ (g > 1 /\ g < n + 1) OBVIOUS
  <2> QED BY Zenon, <2>4, <2>5, <2>6, <2>7
<1>11. ASSUME NEW g \in 1..(n + 1) PROVE IsGap(line, bounds[g], bounds[g + 1])
  <2>0. bounds[g] \in Int /\ bounds[g + 1] \in Int /\ 0 <= bounds[g] /\ bounds[g] < bounds[g + 1] /\ bounds[g + 1] <= m BY <1>8, <1>11
  <2>1. PICK a \in Int, b \in Int : a = bounds[g] /\ b = bounds[g + 1] /\ 0 <= a /\ a < b /\ b <= m BY <2>0
  <2>2. a \in 0..(m - 1) /\ b \in 1..m BY <2>1
  <2>3. a > 0 => line[a][2] >= 0
    <3>1. SUFFICES ASSUME a > 0 PROVE line[a][2] >= 0 OBVIOUS
    <3>2. g > 1
      <4>1. SUFFICES ASSUME g = 1 PROVE FALSE OBVIOUS
      <4>2. a = 0 BY <1>6, <2>1, <4>1
      <4> QED BY <3>1, <4>2
    <3>3. a \in D BY <1>9, <2>1, <3>2
    <3> QED BY <1>2, <3>3
  <2>4. b < m => line[b][2] >= 0
    <3>1. SUFFICES ASSUME b < m PROVE line[b][2] >= 0 OBVIOUS
    <3>2. g <= n
      <4>1. SUFFICES ASSUME g = n + 1 PROVE FALSE OBVIOUS
      <4>2. b = m
        <5>1. g + 1 = n + 2 BY <4>1
        <5> QED BY <1>6, <2>1, <5>1
      <4> QED BY <3>1, <4>2
    <3>3. b \in D BY <1>9, <2>1, <3>2
    <3> QED BY <1>2, <3>3
  <2>5. ASSUME NEW k \in (a + 1)..(b - 1) PROVE line[k][2] < 0
    <3>1. k \notin D BY <1>10, <1>11, <2>1, <2>5
    <3>2. k \in 1..(m - 1) /\ k \in 1..m BY <2>1, <2>5
    <3>3. line[k][2] \in Int BY <1>0, <1>1, <3>2, LineTypes
    <3>4. k \in Runs(line) BY <1>1, <3>2
    <3>5. ~(line[k][2] >= 0) BY <1>2, <3>1, <3>4
    <3> QED BY <3>3, <3>5
  <2> QED BY <1>1, <2>1, <2>2, <2>3, <2>4, <2>5, <1>0 DEF IsGap
<1>12. ASSUME NEW g \in 1..(n + 1) PROVE (g > 1 => bounds[g] > 0) /\ (g <= n => bounds[g + 1] < m)
  <2>1. g > 1 => bounds[g] \in 1..(m - 1) BY <1>3, <1>9
  <2>2. g <= n => bounds[g + 1] \in 1..(m - 1) BY <1>3, <1>9
  <2> QED BY <2>1, <2>2
<1>13. ASSUME NEW g \in 1..(n + 1), g > 1, g <= n PROVE line[bounds[g] + 1][1] < line[bounds[g + 1]][1]
  <2>0. bounds[g] \in Int /\ bounds[g + 1] \in Int /\ bounds[g] < bounds[g + 1] /\ bounds[g + 1] <= m BY <1>8, <1>13
  <2>1. PICK a \in Int, b \in Int : a = bounds[g] /\ b = bounds[g + 1] /\ a < b /\ b <= m BY <2>0
  <2>2. a \in D /\ b \in D BY <1>9, <1>13, <2>1
  <2>3. a \in 1..(m - 1) /\ b \in 1..(m - 1) /\ line[a][2] >= 0 /\ line[b][2] >= 0 BY <1>2, <1>3, <2>2
  <2>4. a + 1 # b
    <3>1. SUFFICES ASSUME a + 1 = b PROVE FALSE OBVIOUS
    <3>2. a \in 1..(m - 2) BY <2>3, <3>1
    <3>3. ~(line[a][2] >= 0 /\ line[a + 1][2] >= 0) BY <1>1, <3>2, <1>0 DEF RunsApart
    <3> QED BY <2>3, <3>1, <3>3
  <2>5. a + 1 < b BY <2>1, <2>4
  <2>6. a + 1 \in Runs(line) /\ a + 1 \in 1..m /\ (a + 1) + 1 \in 1..m /\ (a + 1) + 1 <= b /\ b \in 1..m BY <1>1, <2>3, <2>5
  <2>7. line[a + 1][1] < line[(a + 1) + 1][1] BY <1>0, <2>6 DEF RunsGrow
  <2>8. Ascends(line) BY <1>0, GrowsAscends
  <2>9. line[(a + 1) + 1][1] <= line[b][1] BY <1>0, <1>1, <2>6, <2>8, AscendsFar
  <2>10. PICK u \in Int, v \in Int, w \in Int : u = line[a + 1][1] /\ v = line[(a + 1) + 1][1] /\ w = line[b][1] BY <1>0, <1>1, <2>6, LineTypes
  <2>11. u < w BY <2>7, <2>9, <2>10
  <2> QED BY Zenon, <2>1, <2>10, <2>11
<1> QED BY <1>1, <1>5, <1>6, <1>11, <1>12, <1>13 DEF IsBounds

\* The bounds of the gaps.
LEMMA BoundsAre ==
  ASSUME NEW line, IsLine(line), RunsGrow(line), RunsApart(line),
         NEW s, s = Ascending({k \in Runs(line) : line[k][2] >= 0}), NEW bounds, bounds = << 0 >> \o s \o <<Len(line)>>
  PROVE IsBounds(line, s, bounds)
<1>1. PICK m \in Nat : m = Len(line) /\ m >= 2 BY LineTypes
<1>2. PICK D : D = {k \in Runs(line) : line[k][2] >= 0} OBVIOUS
<1>3. D \in SUBSET (1..(m - 1)) BY <1>1, <1>2
<1>4. Lists(s, D)
  <2>1. 1 \in Int /\ m - 1 \in Int /\ s = Ascending(D) BY <1>1, <1>2
  <2> QED BY <1>3, <2>1, AscendingIs
<1>5. PICK n \in Nat : n = Len(s) /\ s \in Seq(Int)
  <2>1. s \in Seq(Int) BY <1>4 DEF Lists
  <2>2. Len(s) \in Nat BY <2>1
  <2> QED BY <2>1, <2>2
<1>6. Len(bounds) = n + 2 /\ bounds[1] = 0 /\ bounds[n + 2] = m /\ \A i \in 1..n : bounds[i + 1] = s[i] BY <1>1, <1>5
<1> QED BY <1>1, <1>2, <1>3, <1>4, <1>5, <1>6, BoundsApart DEF HasBounds

\* All the gaps, one after the other: the recursive function exists, and each gap leaves what the next one needs.
LEMMA PassGapsIs ==
  ASSUME NEW ix, NEW line, IsLine(line), RunsGrow(line), RunsApart(line), NEW lo, NEW hi, NEW q, NEW p,
         IsFrame(line, ix.org[1], lo, hi, q, p), NEW n0 \in Nat,
         NEW s, NEW bounds, IsBounds(line, s, bounds), NEW r, r = PassGaps(ix, line, bounds, n0, lo, hi, q, p)
  PROVE IsOver(r, line, lo, hi, n0)
<1>1. PICK n \in Nat : n = Len(s) /\ Len(bounds) = n + 2 BY DEF IsBounds
<1>2. bounds[1] = 0 /\ bounds[n + 2] = Len(line) BY <1>1 DEF IsBounds
<1>3. \A g \in 1..(n + 1) :
        /\ IsGap(line, bounds[g], bounds[g + 1])
        /\ g > 1 => bounds[g] > 0
        /\ g <= n => bounds[g + 1] < Len(line)
        /\ g > 1 /\ g <= n => line[bounds[g] + 1][1] < line[bounds[g + 1]][1]
  BY <1>1 DEF IsBounds
<1>4. lo \in Int /\ hi \in Int /\ q \in Nat /\ p \in Nat BY DEF IsFrame
<1>5. PICK base : base = [runs |-> <<>>, n |-> n0, end |-> Final(line)[1], open |-> TRUE] OBVIOUS
<1>6. line[Len(line)][1] \in Int
  <2>1. Len(line) \in 1..Len(line) BY LineTypes
  <2> QED BY <2>1, LineTypes
<1>7. base \in Dilating
  <2>1. <<>> \in Seq(Int \X Int) OBVIOUS
  <2> QED BY <1>5, <1>6, <2>1 DEF Dilating
<1>8. IsBegun(base, line, n0) BY <1>5 DEF IsBegun
<1>9. PICK step : step = [a \in (1..(n + 1)) \X Dilating |-> PassGap(a[2], line, bounds[a[1]], bounds[a[1] + 1], ix.org[1], lo, hi, q, p)] OBVIOUS
<1>10. \A g \in 1..(n + 1), d \in Dilating : step[<<g, d>>] = PassGap(d, line, bounds[g], bounds[g + 1], ix.org[1], lo, hi, q, p) BY <1>9
<1>11. Closed(step, Dilating, 0, n + 1)
  <2>1. SUFFICES ASSUME NEW g \in (0 + 1)..(n + 1), NEW d \in Dilating PROVE step[<<g, d>>] \in Dilating BY DEF Closed
  <2>2. g \in 1..(n + 1) OBVIOUS
  <2>3. IsGap(line, bounds[g], bounds[g + 1]) BY <1>3, <2>2
  <2>4. bounds[g] \in 0..(Len(line) - 1) /\ bounds[g + 1] \in 1..Len(line) BY <2>3 DEF IsGap
  <2>5. PassGap(d, line, bounds[g], bounds[g + 1], ix.org[1], lo, hi, q, p) \in Dilating BY <1>4, <2>4, PassGapTypes
  <2> QED BY <1>10, <2>2, <2>5
<1>12. PICK w : BuiltUp(w, Dilating, base, 0, n + 1, step)
  <2>1. 0 \in Int /\ n + 1 \in Int /\ 0 <= n + 1 OBVIOUS
  <2> QED BY <1>7, <1>11, <2>1, StepsExist
<1>13. w \in [0..(n + 1) -> Dilating] /\ w[0] = base /\ \A g \in 1..(n + 1) : w[g] = step[<<g, w[g - 1]>>] BY <1>12 DEF BuiltUp
<1>14. \A g \in 1..(n + 1) : w[g] = PassGap(w[g - 1], line, bounds[g], bounds[g + 1], ix.org[1], lo, hi, q, p)
  <2>1. SUFFICES ASSUME NEW g \in 1..(n + 1) PROVE w[g] = PassGap(w[g - 1], line, bounds[g], bounds[g + 1], ix.org[1], lo, hi, q, p) OBVIOUS
  <2>2. g - 1 \in 0..(n + 1) OBVIOUS
  <2>3. w[g - 1] \in Dilating BY <1>13, <2>2
  <2> QED BY <1>10, <1>13, <2>3
<1> DEFINE Eq(f) == f = [g \in 0..(Len(bounds) - 1) |->
                           IF g = 0 THEN [runs |-> <<>>, n |-> n0, end |-> Final(line)[1], open |-> TRUE]
                           ELSE PassGap(f[g - 1], line, bounds[g], bounds[g + 1], ix.org[1], lo, hi, q, p)]
           pass == CHOOSE f : Eq(f)
<1>15. Len(bounds) - 1 = n + 1 BY <1>1
<1>16. Eq(w)
  <2>1. \A g \in 0..(n + 1) : w[g] = IF g = 0 THEN [runs |-> <<>>, n |-> n0, end |-> Final(line)[1], open |-> TRUE]
                                     ELSE PassGap(w[g - 1], line, bounds[g], bounds[g + 1], ix.org[1], lo, hi, q, p)
    <3>1. SUFFICES ASSUME NEW g \in 0..(n + 1)
                   PROVE  w[g] = IF g = 0 THEN [runs |-> <<>>, n |-> n0, end |-> Final(line)[1], open |-> TRUE]
                                     ELSE PassGap(w[g - 1], line, bounds[g], bounds[g + 1], ix.org[1], lo, hi, q, p) OBVIOUS
    <3>2. CASE g = 0 BY <1>5, <1>13, <3>2
    <3>3. CASE g # 0
      <4>1. g \in 1..(n + 1) BY <3>3
      <4> QED BY <1>14, <3>3, <4>1
    <3> QED BY <3>2, <3>3
  <2>2. w = [g \in 0..(n + 1) |-> w[g]] BY <1>13
  <2> QED BY <1>15, <2>1, <2>2
<1>17. Eq(pass)
  <2> HIDE DEF Eq
  <2> QED BY <1>16
<1>18. r = pass[n + 1] BY <1>15 DEF PassGaps
<1>19. pass[0] = base /\ \A g \in 1..(n + 1) : pass[g] = PassGap(pass[g - 1], line, bounds[g], bounds[g + 1], ix.org[1], lo, hi, q, p)
  <2>1. 0 \in 0..(Len(bounds) - 1) /\ \A g \in 1..(n + 1) : g \in 0..(Len(bounds) - 1) /\ g # 0 BY <1>15
  <2> HIDE DEF pass
  <2> QED BY <1>5, <1>17, <2>1
<1> HIDE DEF pass, Eq
<1> DEFINE T == {g \in 0..n : (g = 0 => IsBegun(pass[g], line, n0)) /\ (g > 0 => HasReached(pass[g], line, bounds[g + 1], lo, n0))}
<1>20. 0 \in T BY <1>8, <1>19
<1>21. ASSUME NEW g \in 0..(n - 1), g \in T PROVE g + 1 \in T
  <2>1. g + 1 \in 1..(n + 1) /\ g + 1 \in 0..n /\ g + 1 <= n /\ (g + 1) - 1 = g OBVIOUS
  <2>2. PICK h : h = g + 1 OBVIOUS
  <2>3. h \in 1..(n + 1) /\ h <= n /\ h - 1 = g /\ h \in 0..n /\ h > 0 BY <2>1, <2>2
  <2>4. pass[h] = PassGap(pass[g], line, bounds[h], bounds[h + 1], ix.org[1], lo, hi, q, p) BY <1>19, <2>3
  <2>5. IsGap(line, bounds[h], bounds[h + 1]) /\ bounds[h + 1] < Len(line) BY <1>3, <2>3
  <2>6. CASE g = 0
    <3>1. IsBegun(pass[g], line, n0) BY <1>21, <2>6
    <3>2. bounds[h] = 0 BY <1>2, <2>2, <2>6
    <3>3. IsGap(line, 0, bounds[h + 1]) /\ pass[h] = PassGap(pass[g], line, 0, bounds[h + 1], ix.org[1], lo, hi, q, p)
      BY Zenon, <2>4, <2>5, <3>2
    <3>4. HasReached(pass[h], line, bounds[h + 1], lo, n0) BY Zenon, <2>5, <3>1, <3>3, FirstData
    <3> QED BY <2>2, <2>3, <3>4
  <2>7. CASE g # 0
    <3>1. g > 0 /\ h > 1 BY <2>2, <2>7
    <3>2. HasReached(pass[g], line, bounds[h], lo, n0) BY <1>21, <2>2, <3>1
    <3>3. bounds[h] > 0 /\ line[bounds[h] + 1][1] < line[bounds[h + 1]][1] BY <1>3, <2>3, <3>1
    <3>4. HasReached(pass[h], line, bounds[h + 1], lo, n0) BY Zenon, <2>4, <2>5, <3>2, <3>3, NextData
    <3> QED BY <2>2, <2>3, <3>4
  <2> QED BY <2>6, <2>7
<1>22. \A g \in 0..n : g \in T
  <2>1. 0 \in Int /\ n \in Int OBVIOUS
  <2> HIDE DEF T
  <2> QED BY <1>20, <1>21, <2>1, InductionFrom
<1>23. PICK h : h = n + 1 OBVIOUS
<1>24. h \in 1..(n + 1) /\ h - 1 = n /\ h + 1 = n + 2 BY <1>23
<1>25. pass[h] = PassGap(pass[n], line, bounds[h], bounds[h + 1], ix.org[1], lo, hi, q, p) BY <1>19, <1>24
<1>26. IsGap(line, bounds[h], bounds[h + 1]) /\ bounds[h + 1] = Len(line) BY <1>2, <1>3, <1>24
<1>27. CASE n = 0
  <2>1. IsBegun(pass[n], line, n0) BY <1>22, <1>27
  <2>2. bounds[h] = 0 BY <1>2, <1>23, <1>27
  <2>3. IsGap(line, 0, bounds[h + 1]) /\ pass[h] = PassGap(pass[n], line, 0, bounds[h + 1], ix.org[1], lo, hi, q, p)
    BY Zenon, <1>25, <1>26, <2>2
  <2>4. IsOver(pass[h], line, lo, hi, n0) BY Zenon, <1>26, <2>1, <2>3, NoData
  <2> QED BY Zenon, <1>18, <1>23, <2>4
<1>28. CASE n # 0
  <2>1. n > 0 /\ n \in 0..n BY <1>28
  <2>2. HasReached(pass[n], line, bounds[n + 1], lo, n0) BY <1>22, <2>1
  <2>3. bounds[h] > 0
    <3>1. h > 1 BY <1>23, <2>1
    <3> QED BY <1>3, <1>24, <3>1
  <2>4. HasReached(pass[n], line, bounds[h], lo, n0) BY Zenon, <1>23, <2>2
  <2>5. IsOver(pass[h], line, lo, hi, n0) BY Zenon, <1>25, <1>26, <2>3, <2>4, LastData
  <2> QED BY Zenon, <1>18, <1>23, <2>5
<1> QED BY <1>27, <1>28

\* A scanline l is put behind those of b, and its voxels are numbered on.
IsPut(r, b, lo, hi) == r \in Builders /\ \E l : r.lines = Append(b.lines, l) /\ IsScanline(l, lo, hi, b.n, r.n)

\* A scanline without voxels is made at once.
LEMMA EmptyScanline ==
  ASSUME NEW lo, NEW hi, NEW n \in Nat
  PROVE IsScanline(EmptyLine, lo, hi, n, n)
<1>1. PICK line : line = EmptyLine OBVIOUS
<1>2. IsLine(line) /\ Ascends(line) /\ Len(line) = 2 /\ line[1][2] = -1 /\ Fits(line, lo, hi) BY <1>1, EmptyLineIs
<1>3. PICK f : f = DefinedBefore(line) OBVIOUS
<1>4. f[1] = 0 /\ \A k \in Runs(line) : f[k + 1] = f[k] + Width(line, k) BY <1>2, <1>3, CountsGrow
<1>5. 1 \in Runs(line) /\ \A k \in Runs(line) : k = 1 BY <1>2
<1>6. Width(line, 1) = 0 BY <1>2 DEF Width
<1>7. f[1 + 1] = 0 BY <1>4, <1>5, <1>6
<1>8. DefinedIn(line) = 0 BY <1>2, <1>3, <1>7 DEF DefinedIn
<1>9. \A k \in Runs(line) : ~(line[k][2] >= 0) BY <1>2, <1>5
<1>10. NumberedFrom(line, n) BY <1>2, <1>9 DEF NumberedFrom
<1> QED BY <1>1, <1>2, <1>8, <1>10 DEF IsScanline

\* A scanline more in the builder of the dilation.
LEMMA ScanlinePut ==
  ASSUME NEW b \in Builders, NEW lo, NEW hi, NEW l, NEW n, IsScanline(l, lo, hi, b.n, n), NEW r, r = [lines |-> Append(b.lines, l), n |-> n]
  PROVE IsPut(r, b, lo, hi)
<1>1. IsLine(l) /\ n \in Nat BY DEF IsScanline, NumberedFrom
<1>2. l \in LineSeqs BY <1>1 DEF IsLine, LineSeqs
<1>3. Append(b.lines, l) \in Seq(LineSeqs) BY <1>2 DEF Builders
<1> QED BY <1>1, <1>3 DEF IsPut, Builders

\* One scanline of a dilation along X.
LEMMA PutDilatedIs ==
  ASSUME NEW b \in Builders, NEW ix, NEW line, NEW old \in Int, old = ix.org[1], NEW e \in Int, Fits(line, old, e),
         NEW q \in Nat, NEW p \in Nat, NEW lo \in Int, lo = old - q, NEW hi \in Int, e + p <= hi,
         NEW r, r = PutDilated(b, ix, line, lo, hi, q, p)
  PROVE IsPut(r, b, lo, hi)
<1>1. b.n \in Nat /\ b.lines \in Seq(LineSeqs) /\ b = [lines |-> b.lines, n |-> b.n] BY DEF Builders
<1>2. CASE IsEmptyLine(line)
  <2>1. r = [lines |-> Append(b.lines, EmptyLine), n |-> b.n] BY <1>1, <1>2 DEF PutDilated
  <2>2. IsScanline(EmptyLine, lo, hi, b.n, b.n) BY <1>1, EmptyScanline
  <2> QED BY <2>1, <2>2, ScanlinePut
<1>3. CASE ~IsEmptyLine(line)
  <2>1. IsLine(line) /\ RunsGrow(line) /\ RunsApart(line) /\ line[1][1] >= old /\ line[Len(line)][1] <= e BY <1>3, FitsCases
  <2>2. IsFrame(line, ix.org[1], lo, hi, q, p)
    <3>1. Len(line) \in 1..Len(line) BY <2>1, LineTypes
    <3>2. PICK x \in Int : x = line[Len(line)][1] BY <2>1, <3>1, LineTypes
    <3>3. x + p <= hi BY <2>1, <3>2
    <3>4. PICK y \in Int : y = line[1][1]
      <4>1. 1 \in 1..Len(line) BY <2>1, LineTypes
      <4> QED BY <2>1, <4>1, LineTypes
    <3>5. old <= y BY <2>1, <3>4
    <3> QED BY <3>2, <3>3, <3>4, <3>5 DEF IsFrame
  <2>3. PICK s : s = Ascending({k \in Runs(line) : line[k][2] >= 0}) OBVIOUS
  <2>4. PICK bounds : bounds = << 0 >> \o s \o <<Len(line)>> OBVIOUS
  <2>5. IsBounds(line, s, bounds) BY <2>1, <2>3, <2>4, BoundsAre
  <2>6. PICK n0 \in Nat : n0 = b.n BY <1>1
  <2>7. PICK d : d = PassGaps(ix, line, bounds, n0, lo, hi, q, p) OBVIOUS
  <2>8. IsOver(d, line, lo, hi, n0) BY <2>1, <2>2, <2>5, <2>7, PassGapsIs
  <2>9. r = DilatedWith(b, d, line, End(ix)[1], hi) BY <1>3, <2>3, <2>4, <2>6, <2>7 DEF PutDilated
  <2>10. IsScanline(Finished(d, line, End(ix)[1], hi), lo, hi, n0, d.n) BY <2>1, <2>8, FinishedIs
  <2>11. r = [lines |-> Append(b.lines, Finished(d, line, End(ix)[1], hi)), n |-> d.n] BY <2>9 DEF DilatedWith
  <2>12. IsScanline(Finished(d, line, End(ix)[1], hi), lo, hi, b.n, d.n) BY Zenon, <2>6, <2>10
  <2> QED BY <2>11, <2>12, ScanlinePut
<1> QED BY <1>2, <1>3

\* All scanlines.
IsGrown(upTo, count, lo, hi) ==
  upTo[0] = Nothing /\ \A k \in 1..count : IsPut(upTo[k], upTo[k - 1], lo, hi)

\* A builder with all its scanlines.
LEMMA GrownIs ==
  ASSUME NEW upTo, NEW count \in Nat, NEW lo, NEW hi, IsGrown(upTo, count, lo, hi), NEW b, b = upTo[count]
  PROVE  /\ b.lines \in Seq(LineSeqs) /\ Len(b.lines) = count /\ b.n \in Nat
         /\ \A k \in 1..count : Fits(b.lines[k], lo, hi)
         /\ \E N : AreNumbered(b.lines, b.n, N)
<1>1. upTo[0] = Nothing /\ \A k \in 1..count : IsPut(upTo[k], upTo[k - 1], lo, hi) BY DEF IsGrown
<1>2. \A k \in 0..count : upTo[k] \in Builders /\ upTo[k].n \in Nat /\ upTo[k].lines \in Seq(LineSeqs)
  <2>1. SUFFICES ASSUME NEW k \in 0..count PROVE upTo[k] \in Builders BY DEF Builders
  <2>2. CASE k = 0 BY <1>1, <2>2, NothingIs
  <2>3. CASE k # 0
    <3>1. k \in 1..count BY <2>3
    <3> QED BY <1>1, <3>1 DEF IsPut
  <2> QED BY <2>2, <2>3
<1>3. PICK N : N = [k \in 0..count |-> upTo[k].n] OBVIOUS
<1>4. N \in [0..count -> Nat] /\ \A k \in 0..count : N[k] = upTo[k].n BY <1>2, <1>3
<1> DEFINE T == {k \in 0..count : Len(upTo[k].lines) = k /\ \A j \in 1..k : IsScanline(upTo[k].lines[j], lo, hi, N[j - 1], N[j])}
<1>5. 0 \in T
  <2>1. upTo[0].lines = <<>> BY <1>1, NothingIs
  <2> QED BY <2>1
<1>6. ASSUME NEW k \in 0..(count - 1), k \in T PROVE k + 1 \in T
  <2>1. k + 1 \in 1..count /\ k + 1 \in 0..count /\ k \in 0..count /\ (k + 1) - 1 = k /\ k \in Nat OBVIOUS
  <2>2. PICK s \in Seq(LineSeqs) : s = upTo[k].lines BY <1>2, <2>1
  <2>3. IsPut(upTo[k + 1], upTo[k], lo, hi) BY <1>1, <2>1
  <2>4. PICK l : upTo[k + 1].lines = Append(s, l) /\ IsScanline(l, lo, hi, upTo[k].n, upTo[k + 1].n) BY <2>2, <2>3 DEF IsPut
  <2>5. PICK t : t = upTo[k + 1].lines /\ t = Append(s, l) BY <2>4
  <2>6. Len(s) = k /\ \A j \in 1..k : IsScanline(s[j], lo, hi, N[j - 1], N[j]) BY <1>6, <2>2
  <2>7. Len(t) = k + 1 /\ t[k + 1] = l /\ \A j \in 1..k : t[j] = s[j] BY <2>2, <2>5, <2>6
  <2>8. IsScanline(l, lo, hi, N[k], N[k + 1]) BY <1>4, <2>1, <2>4
  <2>9. \A j \in 1..(k + 1) : IsScanline(t[j], lo, hi, N[j - 1], N[j])
    <3>1. SUFFICES ASSUME NEW j \in 1..(k + 1) PROVE IsScanline(t[j], lo, hi, N[j - 1], N[j]) OBVIOUS
    <3>2. CASE j = k + 1 BY <2>1, <2>7, <2>8, <3>2
    <3>3. CASE j # k + 1
      <4>1. j \in 1..k BY <3>3
      <4> QED BY <2>6, <2>7, <4>1
    <3> QED BY <3>2, <3>3
  <2> QED BY <2>1, <2>5, <2>7, <2>9
<1>7. 0 \in Int /\ count \in Int /\ count \in 0..count OBVIOUS
<1>8. count \in T
  <2> HIDE DEF T
  <2>1. \A k \in 0..count : k \in T BY <1>5, <1>6, <1>7, InductionFrom
  <2> QED BY <1>7, <2>1
<1>9. Len(b.lines) = count /\ \A j \in 1..count : IsScanline(b.lines[j], lo, hi, N[j - 1], N[j]) BY <1>8
<1> HIDE DEF T
<1>10. b.n = N[count] /\ b.n \in Nat /\ b.lines \in Seq(LineSeqs) BY <1>2, <1>4, <1>7
<1>11. N[0] = 0 BY <1>1, <1>4, NothingIs
<1>12. \A k \in 1..count : N[k] = N[k - 1] + DefinedIn(b.lines[k]) BY <1>9 DEF IsScanline
<1>13. IsNumbering(N, b.lines, count) BY <1>4, <1>11, <1>12 DEF IsNumbering
<1>14. \A k \in 1..count : Fits(b.lines[k], lo, hi) BY <1>9 DEF IsScanline
<1>15. \A k \in 1..count : NumberedFrom(b.lines[k], N[k - 1]) BY <1>9 DEF IsScanline
<1>16. \A k \in 1..count : \A j \in Runs(b.lines[k]) : b.lines[k][j][2] >= 0 => b.lines[k][j][2] = N[k - 1] + DefinedBefore(b.lines[k])[j]
  BY <1>15 DEF NumberedFrom
<1>17. AreNumbered(b.lines, b.n, N) BY <1>9, <1>10, <1>13, <1>16 DEF AreNumbered
<1> QED BY <1>9, <1>10, <1>14, <1>17

\* A dilation along X makes an index spec.
LEMMA XDilationSound ==
  ASSUME NEW ix, Sound(ix), NEW q \in Nat, NEW p \in Nat, NEW r, r = BuildFromXDilation(ix, q, p)
  PROVE Sound(r) /\ r.ext = ix.ext
<1>1. PICK count \in Nat : count = Len(ix.lines) /\ count = ix.size[2] * ix.size[3]
  <2>1. ix.lines \in Seq(LineSeqs) /\ Len(ix.lines) \in Nat BY IndexTypes DEF Sound
  <2> QED BY <2>1 DEF Sound
<1>2. PICK old \in Int, a \in Nat : old = ix.org[1] /\ a = ix.size[1] BY IndexTypes DEF Sound
<1>3. PICK e \in Int : e = old + a OBVIOUS
<1>4. PICK lo \in Int, hi \in Int : lo = old - q /\ hi = e + p OBVIOUS
<1>5. lo = ix.org[1] - q /\ hi = End(ix)[1] + p BY <1>2, <1>3, <1>4, EndIs
<1>6. \A k \in 1..count : Fits(ix.lines[k], old, e) BY <1>1, <1>2, <1>3 DEF Sound
<1>7. ASSUME NEW b \in Builders, NEW k \in 1..count PROVE IsPut(PutDilated(b, ix, ix.lines[k], lo, hi, q, p), b, lo, hi)
  <2>1. PICK line : line = ix.lines[k] OBVIOUS
  <2>2. Fits(line, old, e) BY <1>6, <2>1
  <2>3. e + p <= hi BY <1>4
  <2>4. IsPut(PutDilated(b, ix, line, lo, hi, q, p), b, lo, hi) BY <1>2, <1>4, <2>2, <2>3, PutDilatedIs
  <2> QED BY <2>1, <2>4
<1>8. PICK step : step = [z \in (1..count) \X Builders |-> PutDilated(z[2], ix, ix.lines[z[1]], lo, hi, q, p)] OBVIOUS
<1>9. \A k \in 1..count, b \in Builders : step[<<k, b>>] = PutDilated(b, ix, ix.lines[k], lo, hi, q, p) BY <1>8
<1>10. Closed(step, Builders, 0, count)
  <2>1. SUFFICES ASSUME NEW k \in (0 + 1)..count, NEW b \in Builders PROVE step[<<k, b>>] \in Builders BY DEF Closed
  <2>2. k \in 1..count OBVIOUS
  <2>3. PutDilated(b, ix, ix.lines[k], lo, hi, q, p) \in Builders BY <1>7, <2>2 DEF IsPut
  <2> QED BY <1>9, <2>2, <2>3
<1>11. PICK w : BuiltUp(w, Builders, Nothing, 0, count, step)
  <2>1. 0 \in Int /\ count \in Int /\ 0 <= count /\ Nothing \in Builders BY NothingIs
  <2> QED BY <1>10, <2>1, StepsExist
<1>12. w \in [0..count -> Builders] /\ w[0] = Nothing /\ \A k \in 1..count : w[k] = step[<<k, w[k - 1]>>] BY <1>11 DEF BuiltUp
<1>13. \A k \in 1..count : w[k - 1] \in Builders /\ w[k] = PutDilated(w[k - 1], ix, ix.lines[k], lo, hi, q, p)
  <2>1. SUFFICES ASSUME NEW k \in 1..count PROVE w[k - 1] \in Builders /\ w[k] = PutDilated(w[k - 1], ix, ix.lines[k], lo, hi, q, p) OBVIOUS
  <2>2. k - 1 \in 0..count OBVIOUS
  <2>3. w[k - 1] \in Builders BY <1>12, <2>2
  <2> QED BY <1>9, <1>12, <2>3
<1> DEFINE Eq(f) == f = [k \in 0..Len(ix.lines) |->
                           IF k = 0 THEN Nothing ELSE PutDilated(f[k - 1], ix, ix.lines[k], ix.org[1] - q, End(ix)[1] + p, q, p)]
           upTo == CHOOSE f : Eq(f)
<1>14. Eq(w)
  <2>1. \A k \in 0..count : w[k] = IF k = 0 THEN Nothing ELSE PutDilated(w[k - 1], ix, ix.lines[k], lo, hi, q, p)
    <3>1. SUFFICES ASSUME NEW k \in 0..count PROVE w[k] = IF k = 0 THEN Nothing ELSE PutDilated(w[k - 1], ix, ix.lines[k], lo, hi, q, p) OBVIOUS
    <3>2. CASE k = 0 BY <1>12, <3>2
    <3>3. CASE k # 0
      <4>1. k \in 1..count BY <3>3
      <4> QED BY <1>13, <3>3, <4>1
    <3> QED BY <3>2, <3>3
  <2>2. w = [k \in 0..count |-> w[k]] BY <1>12
  <2>3. w = [k \in 0..count |-> IF k = 0 THEN Nothing ELSE PutDilated(w[k - 1], ix, ix.lines[k], lo, hi, q, p)] BY <2>1, <2>2
  <2> QED BY <1>1, <1>5, <2>3
<1>15. Eq(upTo)
  <2> HIDE DEF Eq
  <2> QED BY <1>14
<1>16. r = Index(Sum3(ix.org, <<-q, 0, 0>>), Sum3(ix.size, <<q + p, 0, 0>>), ix.ext, upTo[count]) BY Zenon, <1>1 DEF BuildFromXDilation
<1>17. upTo[0] = Nothing /\ \A k \in 1..count : upTo[k] = PutDilated(upTo[k - 1], ix, ix.lines[k], lo, hi, q, p)
  <2>1. 0 \in 0..Len(ix.lines) /\ \A k \in 1..count : k \in 0..Len(ix.lines) /\ k # 0 BY <1>1
  <2> HIDE DEF upTo
  <2> QED BY <1>5, <1>15, <2>1
<1> HIDE DEF upTo, Eq
<1> DEFINE T == {k \in 0..count : upTo[k] \in Builders}
<1>18. \A k \in 0..count : k \in T
  <2>1. 0 \in T BY <1>17, NothingIs
  <2>2. ASSUME NEW k \in 0..(count - 1), k \in T PROVE k + 1 \in T
    <3>1. k + 1 \in 1..count /\ k + 1 \in 0..count /\ (k + 1) - 1 = k OBVIOUS
    <3>2. upTo[k + 1] = PutDilated(upTo[k], ix, ix.lines[k + 1], lo, hi, q, p) BY <1>17, <3>1
    <3>3. upTo[k] \in Builders BY <2>2
    <3>4. upTo[k + 1] \in Builders BY <1>7, <3>1, <3>2, <3>3 DEF IsPut
    <3> QED BY <3>1, <3>4
  <2>3. 0 \in Int /\ count \in Int OBVIOUS
  <2> HIDE DEF T
  <2> QED BY <2>1, <2>2, <2>3, InductionFrom
<1>19. \A k \in 1..count : IsPut(upTo[k], upTo[k - 1], lo, hi)
  <2>1. SUFFICES ASSUME NEW k \in 1..count PROVE IsPut(upTo[k], upTo[k - 1], lo, hi) OBVIOUS
  <2>2. k - 1 \in 0..count OBVIOUS
  <2>3. upTo[k - 1] \in Builders BY <1>18, <2>2
  <2> QED BY <1>7, <1>17, <2>3
<1>20. PICK b : b = upTo[count] OBVIOUS
<1>21. /\ b.lines \in Seq(LineSeqs) /\ Len(b.lines) = count /\ b.n \in Nat
       /\ \A k \in 1..count : Fits(b.lines[k], lo, hi)
       /\ \E N : AreNumbered(b.lines, b.n, N)
  <2>1. IsGrown(upTo, count, lo, hi) BY <1>17, <1>19 DEF IsGrown
  <2> HIDE DEF T
  <2> QED BY Zenon, <1>20, <2>1, GrownIs
<1>22. PICK org \in Int \X Int \X Int, size \in Nat \X Nat \X Nat, ext \in {-1, -2} :
         /\ org = Sum3(ix.org, <<-q, 0, 0>>) /\ size = Sum3(ix.size, <<q + p, 0, 0>>) /\ ext = ix.ext
         /\ org[1] = lo /\ org[1] + size[1] = hi /\ size[2] * size[3] = count
  <2>1. ix.org \in Int \X Int \X Int /\ ix.size \in Nat \X Nat \X Nat /\ ix.ext \in {-1, -2} BY SoundTypes
  <2>2. PICK b2 \in Nat, b3 \in Nat, o2 \in Int, o3 \in Int : b2 = ix.size[2] /\ b3 = ix.size[3] /\ o2 = ix.org[2] /\ o3 = ix.org[3] BY <2>1
  <2>3. Sum3(ix.org, <<-q, 0, 0>>) = <<old + -q, o2 + 0, o3 + 0>> /\ Sum3(ix.size, <<q + p, 0, 0>>) = <<a + (q + p), b2 + 0, b3 + 0>>
    BY Zenon, <1>2, <2>2 DEF Sum3
  <2>4. old + -q = lo /\ o2 + 0 = o2 /\ o3 + 0 = o3 /\ b2 + 0 = b2 /\ b3 + 0 = b3 BY <1>4
  <2>5. PICK c \in Nat : c = a + (q + p) OBVIOUS
  <2>6. lo + c = hi BY <1>3, <1>4, <2>5
  <2>7. Sum3(ix.org, <<-q, 0, 0>>) = <<lo, o2, o3>> /\ Sum3(ix.size, <<q + p, 0, 0>>) = <<c, b2, b3>> BY Zenon, <2>3, <2>4, <2>5
  <2>8. <<lo, o2, o3>> \in Int \X Int \X Int /\ <<c, b2, b3>> \in Nat \X Nat \X Nat OBVIOUS
  <2>9. b2 * b3 = count BY Zenon, <1>1, <2>2
  <2> QED BY <2>1, <2>6, <2>7, <2>8, <2>9
<1>23. r = [org |-> org, size |-> size, ext |-> ext, lines |-> b.lines, n |-> b.n] BY <1>16, <1>20, <1>22 DEF Index
<1>24. r.org = org /\ r.size = size /\ r.ext = ext /\ r.lines = b.lines /\ r.n = b.n BY <1>23
<1>25. r \in Indexes
  <2>1. b.lines \in Seq(Seq(Int \X Int)) BY <1>21 DEF LineSeqs
  <2> QED BY <1>21, <1>23, <2>1 DEF Indexes
<1>26. \A k \in 1..Len(r.lines) : Fits(r.lines[k], r.org[1], r.org[1] + r.size[1])
  <2>1. SUFFICES ASSUME NEW k \in 1..count PROVE Fits(r.lines[k], r.org[1], r.org[1] + r.size[1]) BY <1>21, <1>24
  <2>2. Fits(b.lines[k], lo, hi) BY <1>21
  <2>3. org[1] = lo /\ org[1] + size[1] = hi BY <1>22
  <2> QED BY Zenon, <1>24, <2>2, <2>3
<1>27. Len(r.lines) = r.size[2] * r.size[3] BY <1>21, <1>22, <1>24
<1>28. \E N : AreNumbered(r.lines, r.n, N) BY <1>21, <1>24
<1> QED BY <1>22, <1>24, <1>25, <1>26, <1>27, <1>28 DEF Sound

\* What the dilation by a box checks of its input holds.
LEMMA SoundConsistent == ASSUME NEW ix, Sound(ix) PROVE CheckConsistency(ix)
<1>1. IsIndex(ix) BY SoundIsIndex
<1> QED BY <1>1 DEF IsIndex, CheckConsistency

\* A box that contains the voxel it dilates.
IsBox(d) == \A i \in 1..3 : d.lo[i] \in Int /\ d.hi[i] \in Int /\ d.lo[i] <= 0 /\ d.hi[i] >= 0

\* A sound index spec with the same exterior region.
IsLike(r, ix) == Sound(r) /\ r.ext = ix.ext

\* Dilating along one axis makes one,
LEMMA XDilatedLike ==
  ASSUME NEW ix, NEW jx, IsLike(jx, ix), NEW d, IsBox(d), NEW axis \in 1..3
  PROVE IsLike(XDilated(jx, d, axis), ix)
<1>1. CASE d.lo[axis] = d.hi[axis] BY <1>1 DEF XDilated
<1>2. CASE d.lo[axis] # d.hi[axis]
  <2>1. PICK u \in Int, v \in Int : u = d.lo[axis] /\ v = d.hi[axis] /\ u <= 0 /\ v >= 0 BY DEF IsBox
  <2>2. PICK q \in Nat, p \in Nat : q = -u /\ p = v BY <2>1
  <2>3. XDilated(jx, d, axis) = BuildFromXDilation(jx, q, p) BY Zenon, <1>2, <2>1, <2>2 DEF XDilated
  <2>4. Sound(jx) /\ jx.ext = ix.ext BY DEF IsLike
  <2>5. PICK r : r = BuildFromXDilation(jx, q, p) OBVIOUS
  <2>6. Sound(r) /\ r.ext = jx.ext BY <2>4, <2>5, XDilationSound
  <2> QED BY <2>3, <2>4, <2>5, <2>6 DEF IsLike
<1> QED BY <1>1, <1>2

\* and so does exchanging the axes.
LEMMA PermutedLike ==
  ASSUME NEW ix, NEW jx, IsLike(jx, ix), NEW p, IsPermutation(p)
  PROVE IsLike(BuildFromAxisPermutation(jx, p), ix)
<1>1. Sound(jx) /\ jx.ext = ix.ext BY DEF IsLike
<1>2. PICK r : r = BuildFromAxisPermutation(jx, p) OBVIOUS
<1>3. Sound(r) /\ r.ext = jx.ext BY <1>1, <1>2, PermutationSound
<1> QED BY <1>1, <1>2, <1>3 DEF IsLike

\* build_from_dilation makes a sound index spec, and no check in it throws.
THEOREM DilationSound ==
  ASSUME NEW ix, Sound(ix), NEW d, IsBox(d), NEW r, r = BuildFromDilation(ix, d)
  PROVE Sound(r) /\ r.ext = ix.ext /\ InputsFit(ix, d)
<1>1. 1 \in 1..3 /\ 2 \in 1..3 /\ 3 \in 1..3 OBVIOUS
<1>2. IsPermutation(NextAxis) /\ IsPermutation(PreviousAxis) BY TheAxes
<1>3. IsLike(ix, ix) BY DEF IsLike
<1>4. IsLike(BuildFromAxisPermutation(ix, NextAxis), ix) /\ IsLike(BuildFromAxisPermutation(ix, PreviousAxis), ix) BY <1>2, <1>3, PermutedLike
<1>5. IsLike(AlongY(ix, d), ix) BY <1>1, <1>4, XDilatedLike DEF AlongY
<1>6. IsLike(BuildFromAxisPermutation(AlongY(ix, d), NextAxis), ix) /\ IsLike(BuildFromAxisPermutation(AlongY(ix, d), PreviousAxis), ix)
  BY <1>2, <1>5, PermutedLike
<1>7. IsLike(BeforeZ(ix, d), ix) BY <1>4, <1>6 DEF BeforeZ
<1>8. IsLike(XDilated(BeforeZ(ix, d), d, 3), ix) BY <1>1, <1>7, XDilatedLike
<1>9. IsLike(BuildFromAxisPermutation(XDilated(BeforeZ(ix, d), d, 3), NextAxis), ix) BY <1>2, <1>8, PermutedLike
<1>10. IsLike(BeforeX(ix, d), ix) BY <1>3, <1>6, <1>9 DEF BeforeX
<1>11. IsLike(r, ix) BY <1>1, <1>10, XDilatedLike DEF BuildFromDilation
<1>12. InputsFit(ix, d) BY <1>4, <1>7, <1>10, SoundConsistent DEF InputsFit, IsLike
<1> QED BY <1>11, <1>12 DEF IsLike

\* A value for each of n voxels.
Has(s, n) == s = [i \in 1..n |-> s[i]]

\* Its length.
LEMMA HasLen == ASSUME NEW n \in Nat, NEW s, Has(s, n) PROVE Len(s) = n /\ DOMAIN s = 1..n
<1>1. PICK X : X = {s[i] : i \in 1..n} OBVIOUS
<1>2. \A i \in 1..n : s[i] \in X BY <1>1
<1>3. DOMAIN s = 1..n BY DEF Has
<1>4. s \in [1..n -> X] BY <1>2 DEF Has
<1>5. s \in Seq(X) BY <1>4
<1>6. Len(s) \in Nat /\ DOMAIN s = 1..Len(s) BY SMTT(20), <1>5
<1>7. PICK m \in Nat : m = Len(s) BY <1>6
<1>8. 1..m = 1..n BY <1>3, <1>6, <1>7
<1>9. m = n
  <2>1. m >= n
    <3>1. CASE n = 0 BY <3>1
    <3>2. CASE n # 0
      <4>1. n \in 1..n BY <3>2
      <4>2. n \in 1..m BY <1>8, <4>1
      <4> QED BY <4>2
    <3> QED BY <3>1, <3>2
  <2>2. n >= m
    <3>1. CASE m = 0 BY <3>1
    <3>2. CASE m # 0
      <4>1. m \in 1..m BY <3>2
      <4>2. m \in 1..n BY <1>8, <4>1
      <4> QED BY <4>2
    <3> QED BY <3>1, <3>2
  <2> QED BY <2>1, <2>2
<1> QED BY <1>3, <1>7, <1>9

\* Listed makes a sequence of it.
LEMMA ListedHas == ASSUME NEW n \in Nat, NEW f, Has(f, n) PROVE Has(Listed(f, n), n)
<1>1. f = [i \in 1..n |-> f[i]] BY DEF Has
<1>2. Listed(f, n) = f BY <1>1, ListedSame
<1> QED BY <1>2

\* The parts of a level set belong together.
HasChannel(pop, n) == pop = <<>> \/ \E d : pop = <<d>> /\ Has(d, n)

\* The adjacency that a level set has cached, if any, is that of its index spec.
HasAdjacency(adj, ix) == adj = <<>> \/ adj = Adjacency(ix)

\* The parts of a level set belong to its index spec: as many distances and populated marks as voxels with data.
AreParts(ix, dist, pop, adj) == Sound(ix) /\ Has(dist, ix.n) /\ HasChannel(pop, ix.n) /\ HasAdjacency(adj, ix)

\* A level set has these parts and no others.
IsRecord(l) == l = [ix |-> l.ix, dist |-> l.dist, pop |-> l.pop, adj |-> l.adj, out |-> l.out, ins |-> l.ins]

\* A level set whose parts belong together.
IsLevelSet(l) == IsRecord(l) /\ AreParts(l.ix, l.dist, l.pop, l.adj)

\* Parts that belong together make a level set.
LEMMA PartsMake ==
  ASSUME NEW ix, NEW dist, NEW pop, NEW adj, NEW out, NEW ins, AreParts(ix, dist, pop, adj), NEW l,
         l = [ix |-> ix, dist |-> dist, pop |-> pop, adj |-> adj, out |-> out, ins |-> ins]
  PROVE IsLevelSet(l) /\ l.adj = adj /\ l.ix = ix
<1>1. l.ix = ix /\ l.dist = dist /\ l.pop = pop /\ l.adj = adj /\ l.out = out /\ l.ins = ins OBVIOUS
<1>2. IsRecord(l) BY <1>1 DEF IsRecord
<1>3. AreParts(l.ix, l.dist, l.pop, l.adj) BY Zenon, <1>1
<1> QED BY <1>1, <1>2, <1>3 DEF IsLevelSet

\* And a level set has such parts.
LEMMA PartsAre ==
  ASSUME NEW l, IsLevelSet(l)
  PROVE  /\ Sound(l.ix) /\ l.ix.n \in Nat /\ l.ix.ext \in {-1, -2} /\ Has(l.dist, l.ix.n) /\ HasChannel(l.pop, l.ix.n) /\ HasAdjacency(l.adj, l.ix)
         /\ AreParts(l.ix, l.dist, l.pop, l.adj)
         /\ l = [ix |-> l.ix, dist |-> l.dist, pop |-> l.pop, adj |-> l.adj, out |-> l.out, ins |-> l.ins]
<1>1. AreParts(l.ix, l.dist, l.pop, l.adj) BY DEF IsLevelSet
<1>2. Sound(l.ix) BY <1>1 DEF AreParts
<1>3. l.ix.n \in Nat /\ l.ix.ext \in {-1, -2} BY <1>2, SoundTypes
<1>4. l = [ix |-> l.ix, dist |-> l.dist, pop |-> l.pop, adj |-> l.adj, out |-> l.out, ins |-> l.ins] BY DEF IsLevelSet, IsRecord
<1> QED BY <1>1, <1>2, <1>3, <1>4 DEF AreParts

\* A level set with one of its parts replaced.
LEMMA WithChannel ==
  ASSUME NEW l, IsLevelSet(l), NEW pop, HasChannel(pop, l.ix.n)
  PROVE IsLevelSet([l EXCEPT !.pop = pop])
<1>1. AreParts(l.ix, l.dist, pop, l.adj) BY PartsAre DEF AreParts
<1>2. [l EXCEPT !.pop = pop] = [ix |-> l.ix, dist |-> l.dist, pop |-> pop, adj |-> l.adj, out |-> l.out, ins |-> l.ins]
  <2>1. PICK a, b, c, d, e, f : l = [ix |-> a, dist |-> b, pop |-> c, adj |-> d, out |-> e, ins |-> f] BY PartsAre
  <2> QED BY <2>1
<1> QED BY <1>1, <1>2, PartsMake

\* A level set with its adjacency cached or freed.
LEMMA WithAdjacency ==
  ASSUME NEW l, IsLevelSet(l), NEW adj, HasAdjacency(adj, l.ix)
  PROVE IsLevelSet([l EXCEPT !.adj = adj]) /\ [l EXCEPT !.adj = adj].adj = adj
<1>1. AreParts(l.ix, l.dist, l.pop, adj) BY PartsAre DEF AreParts
<1>2. [l EXCEPT !.adj = adj] = [ix |-> l.ix, dist |-> l.dist, pop |-> l.pop, adj |-> adj, out |-> l.out, ins |-> l.ins]
  <2>1. PICK a, b, c, d, e, f : l = [ix |-> a, dist |-> b, pop |-> c, adj |-> d, out |-> e, ins |-> f] BY PartsAre
  <2> QED BY <2>1
<1> QED BY <1>1, <1>2, PartsMake

\* The fields of a record.
FieldsAre(l, a, b, c, d, e, f) == l.ix = a /\ l.dist = b /\ l.pop = c /\ l.adj = d /\ l.out = e /\ l.ins = f

\* They are what it was made from.
LEMMA RecordFields ==
  ASSUME NEW a, NEW b, NEW c, NEW d, NEW e, NEW f, NEW l, l = [ix |-> a, dist |-> b, pop |-> c, adj |-> d, out |-> e, ins |-> f]
  PROVE FieldsAre(l, a, b, c, d, e, f)
BY DEF FieldsAre

\* A level set is made from its parts.
LEMMA RecordIs ==
  ASSUME NEW l, IsLevelSet(l)
  PROVE \E a, b, c, d, e, f : l = [ix |-> a, dist |-> b, pop |-> c, adj |-> d, out |-> e, ins |-> f]
BY PartsAre

\* Changing all parts but the named results of the queries.
LEMMA RecordChanged ==
  ASSUME NEW a, NEW b, NEW c, NEW d, NEW e, NEW f, NEW ix, NEW dist, NEW pop, NEW adj,
         NEW l, l = [ix |-> a, dist |-> b, pop |-> c, adj |-> d, out |-> e, ins |-> f],
         NEW r, r = [l EXCEPT !.ix = ix, !.dist = dist, !.pop = pop, !.adj = adj]
  PROVE r = [ix |-> ix, dist |-> dist, pop |-> pop, adj |-> adj, out |-> e, ins |-> f]
OBVIOUS

\* A level set with another index spec, other data and no adjacency.
LEMMA WithIndex ==
  ASSUME NEW l, IsLevelSet(l), NEW ix, NEW dist, NEW pop, NEW adj, adj = <<>>, AreParts(ix, dist, pop, adj), NEW r,
         r = [l EXCEPT !.ix = ix, !.dist = dist, !.pop = pop, !.adj = adj]
  PROVE IsLevelSet(r)
<1>1. PICK a, b, c, d, e, f : l = [ix |-> a, dist |-> b, pop |-> c, adj |-> d, out |-> e, ins |-> f] BY RecordIs
<1>2. r = [ix |-> ix, dist |-> dist, pop |-> pop, adj |-> adj, out |-> e, ins |-> f] BY Zenon, <1>1, RecordChanged
<1>3. r.ix = ix /\ r.dist = dist /\ r.pop = pop /\ r.adj = adj /\ r.out = e /\ r.ins = f
  <2>1. FieldsAre(r, ix, dist, pop, adj, e, f) BY Zenon, <1>2, RecordFields
  <2> QED BY Zenon, <2>1 DEF FieldsAre
<1>4. AreParts(r.ix, r.dist, r.pop, r.adj) BY Zenon, <1>3
<1>5. IsRecord(r) BY Zenon, <1>2, <1>3 DEF IsRecord
<1> QED BY Zenon, <1>4, <1>5 DEF IsLevelSet

\* A new level set.
LEMMA LevelSetIs ==
  ASSUME NEW ix, Sound(ix), NEW dist, Has(dist, ix.n)
  PROVE IsLevelSet(LevelSet(ix, dist, NoChannel)) /\ LevelSet(ix, dist, NoChannel).adj = <<>>
<1>1. AreParts(ix, dist, <<>>, <<>>) BY DEF AreParts, HasChannel, HasAdjacency
<1>2. LevelSet(ix, dist, NoChannel) = [ix |-> ix, dist |-> dist, pop |-> <<>>, adj |-> <<>>, out |-> Outside, ins |-> Inside]
  BY DEF LevelSet, NoChannel, NoAdjacency
<1> QED BY <1>1, <1>2, PartsMake

\* Switching a level set to another index spec keeps its parts together.
LEMMA SwitchIs ==
  ASSUME NEW l, IsLevelSet(l), NEW ix, Sound(ix), NEW named
  PROVE IsLevelSet(SwitchRleIndexSpec(l, ix, named))
<1>1. PICK n \in Nat : n = ix.n BY SoundTypes
<1>2. PICK coords : coords = Coords(ix) /\ Len(coords) = n BY <1>1, CoordsAre
<1>3. PICK sources : sources = Sources(l.ix, coords) /\ Len(sources) = n
  <2>1. PICK f : f = [i \in 1..n |-> DataIndex(l.ix, coords[i])] OBVIOUS
  <2>2. f = [i \in 1..n |-> f[i]] BY <2>1
  <2>3. Has(f, n) BY <2>2 DEF Has
  <2>4. Has(Listed(f, n), n) BY <2>3, ListedHas
  <2>5. Len(Listed(f, n)) = n BY <2>4, HasLen
  <2>6. Sources(l.ix, coords) = Listed(f, n) BY <1>2, <2>1 DEF Sources
  <2> QED BY <2>5, <2>6
<1>4. Has(CopiedDistances(l, sources), n)
  <2>1. PICK f : f = [i \in 1..n |-> IF sources[i] >= 0 THEN l.dist[sources[i] + 1] ELSE NewDistance(l, sources[i])] OBVIOUS
  <2>2. f = [i \in 1..n |-> f[i]] BY <2>1
  <2>3. Has(f, n) BY <2>2 DEF Has
  <2>4. Has(Listed(f, n), n) BY <2>3, ListedHas
  <2>5. CopiedDistances(l, sources) = Listed(f, n) BY <1>3, <2>1 DEF CopiedDistances
  <2> QED BY <2>4, <2>5
<1>5. \A data : Has(CopiedMarks(data, sources), n)
  <2>0. SUFFICES ASSUME NEW data PROVE Has(CopiedMarks(data, sources), n) OBVIOUS
  <2>1. PICK f : f = [i \in 1..n |-> IF sources[i] >= 0 THEN data[sources[i] + 1] ELSE 0] OBVIOUS
  <2>2. f = [i \in 1..n |-> f[i]] BY <2>1
  <2>3. Has(f, n) BY <2>2 DEF Has
  <2>4. Has(Listed(f, n), n) BY <2>3, ListedHas
  <2>5. CopiedMarks(data, sources) = Listed(f, n) BY <1>3, <2>1 DEF CopiedMarks
  <2> QED BY <2>4, <2>5
<1>6. HasChannel(CopiedChannel(l, sources, named), n) BY <1>5 DEF CopiedChannel, Channel, NoChannel, HasChannel
<1>7. AreParts(ix, CopiedDistances(l, sources), CopiedChannel(l, sources, named), <<>>)
  BY <1>1, <1>4, <1>6 DEF AreParts, HasAdjacency
<1>8. PICK r : r = SwitchRleIndexSpec(l, ix, named) /\ r = [l EXCEPT !.ix = ix, !.dist = CopiedDistances(l, sources), !.pop = CopiedChannel(l, sources, named), !.adj = <<>>]
  BY Zenon, <1>2, <1>3 DEF SwitchRleIndexSpec, SwitchedFrom, NoAdjacency
<1>9. PICK adj : adj = <<>> OBVIOUS
<1>10. AreParts(ix, CopiedDistances(l, sources), CopiedChannel(l, sources, named), adj) BY Zenon, <1>7, <1>9
<1>11. r = [l EXCEPT !.ix = ix, !.dist = CopiedDistances(l, sources), !.pop = CopiedChannel(l, sources, named), !.adj = adj] BY Zenon, <1>8, <1>9
<1>12. IsLevelSet(r) BY Zenon, <1>9, <1>10, <1>11, WithIndex
<1> QED BY Zenon, <1>8, <1>12

\* Renaming the voxels does.
LEMMA PermutedIs ==
  ASSUME NEW l, IsLevelSet(l), NEW ix, Sound(ix), NEW p
  PROVE IsLevelSet(PermutedWith(l, ix, Remap(l.ix, p, Coords(ix))))
<1>1. PICK n \in Nat : n = ix.n BY SoundTypes
<1>2. PICK coords : coords = Coords(ix) /\ Len(coords) = n BY <1>1, CoordsAre
<1>3. PICK from : from = Remap(l.ix, p, coords) /\ Len(from) = n
  <2>1. PICK f : f = [i \in 1..n |-> 1 + DataIndex(l.ix, Back(coords[i], p))] OBVIOUS
  <2>2. f = [i \in 1..n |-> f[i]] BY <2>1
  <2>3. Has(f, n) BY <2>2 DEF Has
  <2>4. Has(Listed(f, n), n) BY <2>3, ListedHas
  <2>5. Len(Listed(f, n)) = n BY <2>4, HasLen
  <2>6. Remap(l.ix, p, coords) = Listed(f, n) BY <1>2, <2>1 DEF Remap
  <2> QED BY <2>5, <2>6
<1>4. \A data : Has(Remapped(data, from), n)
  <2>0. SUFFICES ASSUME NEW data PROVE Has(Remapped(data, from), n) OBVIOUS
  <2>1. PICK f : f = [i \in 1..n |-> data[from[i]]] OBVIOUS
  <2>2. f = [i \in 1..n |-> f[i]] BY <2>1
  <2>3. Has(f, n) BY <2>2 DEF Has
  <2>4. Has(Listed(f, n), n) BY <2>3, ListedHas
  <2>5. Remapped(data, from) = Listed(f, n) BY <1>3, <2>1 DEF Remapped
  <2> QED BY <2>4, <2>5
<1>5. PICK pop : pop = IF l.pop = <<>> THEN <<>> ELSE <<Remapped(l.pop[1], from)>> OBVIOUS
<1>6. HasChannel(pop, n) BY <1>4, <1>5 DEF HasChannel
<1>70. PICK dist : dist = Remapped(l.dist, from) OBVIOUS
<1>7. AreParts(ix, dist, pop, <<>>) BY <1>1, <1>4, <1>6, <1>70 DEF AreParts, HasAdjacency
<1>8. PermutedWith(l, ix, from) = [l EXCEPT !.ix = ix, !.dist = dist, !.pop = pop, !.adj = <<>>]
  <2>1. PICK a, b, c, d, e, f : l = [ix |-> a, dist |-> b, pop |-> c, adj |-> d, out |-> e, ins |-> f] BY PartsAre
  <2>2. PermutedWith(l, ix, from) = [l EXCEPT !.ix = ix, !.dist = Remapped(@, from), !.adj = <<>>, !.pop = IF @ = <<>> THEN <<>> ELSE <<Remapped(@[1], from)>>]
    BY DEF PermutedWith, NoAdjacency, NoChannel, Channel
  <2> QED BY <1>5, <1>70, <2>1, <2>2
<1>9. PICK adj : adj = <<>> OBVIOUS
<1>10. AreParts(ix, dist, pop, adj) BY Zenon, <1>7, <1>9
<1>13. PICK r : r = PermutedWith(l, ix, from) OBVIOUS
<1>11. r = [l EXCEPT !.ix = ix, !.dist = dist, !.pop = pop, !.adj = adj] BY Zenon, <1>8, <1>9, <1>13
<1>12. IsLevelSet(r)
  <2>1. IsLevelSet(l) OBVIOUS
  <2> QED BY Zenon, <1>9, <1>10, <1>11, <2>1, WithIndex
<1> QED BY Zenon, <1>2, <1>3, <1>12, <1>13

\* The complement of a level set without a cached adjacency.
LEMMA ComplementIs ==
  ASSUME NEW l, IsLevelSet(l), l.adj = <<>>, NEW r, r = CsgComplement(l)
  PROVE IsLevelSet(r) /\ r.adj = <<>>
<1>1. PICK a, b, c, d, e, f : l = [ix |-> a, dist |-> b, pop |-> c, adj |-> d, out |-> e, ins |-> f] BY RecordIs
<1>2. FieldsAre(l, a, b, c, d, e, f) BY Zenon, <1>1, RecordFields
<1>3. l.ix = a /\ l.dist = b /\ l.pop = c /\ d = <<>> BY Zenon, <1>2 DEF FieldsAre
<1>4. PICK n : n = a.n OBVIOUS
<1>5. Sound(a) /\ n \in Nat /\ Has(b, n) /\ HasChannel(c, n) BY Zenon, <1>3, <1>4, PartsAre
<1>6. a \in Indexes BY <1>5 DEF Sound
<1>7. PICK x : x = [a EXCEPT !.lines = Listed([k \in DOMAIN a.lines |-> ComplementedLine(a.lines[k])], Len(a.lines)), !.ext = Complemented(a.ext)] OBVIOUS
<1>8. PICK y : y = Listed([i \in DOMAIN b |-> -b[i]], Len(b)) OBVIOUS
<1>9. Sound(x) /\ x.n = n BY <1>4, <1>5, <1>7, ComplementSound
<1>10. Has(y, n)
  <2>1. Len(b) = n /\ DOMAIN b = 1..n BY <1>5, HasLen
  <2>2. PICK g : g = [i \in 1..n |-> -b[i]] OBVIOUS
  <2>3. g = [i \in 1..n |-> g[i]] BY <2>2
  <2>4. Has(g, n) BY <2>3 DEF Has
  <2>5. Has(Listed(g, n), n) BY <1>5, <2>4, ListedHas
  <2> QED BY <1>8, <2>1, <2>2, <2>5
<1>14. PICK u, v : u = -f /\ v = -e OBVIOUS
<1>11. r = [ix |-> x, dist |-> y, pop |-> c, adj |-> d, out |-> u, ins |-> v] BY <1>1, <1>6, <1>7, <1>8, <1>14 DEF CsgComplement
<1>12. AreParts(x, y, c, d) BY <1>3, <1>5, <1>9, <1>10 DEF AreParts, HasAdjacency
<1>13. IsLevelSet(r) /\ r.adj = d BY <1>11, <1>12, PartsMake
<1> QED BY <1>3, <1>13

\* The result of a set operation that is written into a new level set.
LEMMA ZerosBefore ==
  ASSUME NEW m \in Nat, NEW n, n = 0, NEW f, Has(f, m), NEW z, z = [i \in 1..n |-> 0]
  PROVE Has(z \o f, m)
<1>1. PICK X : X = {f[i] : i \in 1..m} OBVIOUS
<1>2. f \in [1..m -> X] BY <1>1 DEF Has
<1>3. f \in Seq(X) BY <1>2
<1>4. z = <<>> OBVIOUS
<1>5. z \o f = f BY <1>3, <1>4
<1> QED BY <1>5

\* A set operation writes a level set.
LEMMA CsgWrittenIs ==
  ASSUME NEW op, NEW l, NEW m, NEW ix, Sound(ix), NEW pairs, Len(pairs) = ix.n, NEW old, old.ix.n = 0, old.adj = <<>>,
         NEW r, r = CsgWritten(op, old, l, m, ix, pairs)
  PROVE IsLevelSet(r) /\ r.adj = <<>>
<1>1. PICK n \in Nat : n = ix.n BY SoundTypes
<1>2. PICK f : f = [i \in 1..n |-> DistanceOf(op, l, m, pairs[i])] OBVIOUS
<1>3. Has(f, n)
  <2>1. f = [i \in 1..n |-> f[i]] BY <1>2
  <2> QED BY <2>1 DEF Has
<1>4. PICK dist : dist = Listed(f, n) OBVIOUS
<1>5. Has(dist, n) BY <1>3, <1>4, ListedHas
<1>6. PICK g : g = [i \in 1..n |-> MarkOf(op, l, m, pairs[i])] OBVIOUS
<1>7. Has(g, n)
  <2>1. g = [i \in 1..n |-> g[i]] BY <1>6
  <2> QED BY <2>1 DEF Has
<1>8. PICK z : z = [i \in 1..old.ix.n |-> 0] OBVIOUS
<1>9. Has(z \o g, n) BY <1>7, <1>8, ZerosBefore
<1>10. PICK pop : pop = CsgChannel(op, old, l, m, pairs) OBVIOUS
<1>11. HasChannel(pop, n)
  <2>1. pop = <<>> \/ pop = <<z \o g>> BY <1>1, <1>6, <1>8, <1>10 DEF CsgChannel
  <2> QED BY <1>9, <2>1 DEF HasChannel
<1>12. PICK adj : adj = old.adj OBVIOUS
<1>13. AreParts(ix, dist, pop, adj) BY <1>1, <1>5, <1>11, <1>12 DEF AreParts, HasAdjacency
<1>14. r = [ix |-> ix, dist |-> dist, pop |-> pop, adj |-> adj, out |-> Lower(l.out, m.out), ins |-> Upper(l.ins, m.ins)]
  BY <1>1, <1>2, <1>4, <1>10, <1>12 DEF CsgWritten
<1>15. PICK u, v : u = Lower(l.out, m.out) /\ v = Upper(l.ins, m.ins) OBVIOUS
<1>16. r = [ix |-> ix, dist |-> dist, pop |-> pop, adj |-> adj, out |-> u, ins |-> v] BY Zenon, <1>14, <1>15
<1>17. IsLevelSet(r) /\ r.adj = adj BY <1>13, <1>16, PartsMake
<1> QED BY <1>12, <1>17

\* A set operation of two level sets makes one.
LEMMA CsgOperationIs ==
  ASSUME NEW op, op \in CsgOperations, NEW l, IsLevelSet(l), NEW m, IsLevelSet(m), NEW old, old.ix.n = 0, old.adj = <<>>,
         NEW r, r = CsgOperation(op, old, l, m)
  PROVE IsLevelSet(r)
<1>1. ASSUME NEW k, IsLevelSet(k) PROVE IsLevelSet(CopyOf(k)) /\ IsLevelSet(CsgComplement(CopyOf(k)))
  <2>1. PICK adj : adj = <<>> OBVIOUS
  <2>2. HasAdjacency(adj, k.ix) BY <2>1 DEF HasAdjacency
  <2>3. PICK c : c = CopyOf(k) OBVIOUS
  <2>4. c = [k EXCEPT !.adj = adj] BY <2>1, <2>3 DEF CopyOf
  <2>5. IsLevelSet(c) /\ c.adj = adj BY <1>1, <2>2, <2>4, WithAdjacency
  <2>6. PICK d : d = CsgComplement(c) OBVIOUS
  <2>7. IsLevelSet(d) BY <2>1, <2>5, <2>6, ComplementIs
  <2> QED BY Zenon, <2>3, <2>5, <2>6, <2>7
<1>2. Sound(l.ix) /\ Sound(m.ix) BY PartsAre
<1>3. PICK ix, jx, rx : ix = l.ix /\ jx = m.ix /\ rx = CsgIndex(op, ix, jx) OBVIOUS
<1>4. IsCsg(op, ix, jx, rx) BY <1>2, <1>3, CsgSound
<1>5. Sound(rx) BY <1>4 DEF IsCsg
<1>6. PICK pairs : pairs = CsgPairs(op, ix, jx, rx) OBVIOUS
<1>7. Len(pairs) = rx.n BY <1>2, <1>3, <1>4, <1>6, CsgPairsAre
<1>8. PICK w : w = CsgInto(op, old, l, m, CsgIndex(op, l.ix, m.ix)) OBVIOUS
<1>9. w = CsgWritten(op, old, l, m, rx, pairs) BY Zenon, <1>3, <1>6, <1>8 DEF CsgInto
<1>10. IsLevelSet(w) BY <1>5, <1>7, <1>9, CsgWrittenIs
<1>11. r \in {CopyOf(l), CsgComplement(CopyOf(m)), CopyOf(m), w} BY <1>8 DEF CsgOperation
<1> QED BY <1>1, <1>10, <1>11

\* A new level set has no voxels with data and no adjacency.
LEMMA NewLevelSetIs == NewLevelSet.ix.n = 0 /\ NewLevelSet.adj = <<>>
BY DEF NewLevelSet, LevelSet, EmptyIndex, Cleared, NoAdjacency

\* The inductive invariant: no check has failed, and the parts of every level set belong to its index spec.
IInv ==
  /\ failed = FALSE
  /\ ls = [s \in LevelSets |-> ls[s]]
  /\ \A s \in LevelSets : IsLevelSet(ls[s])

\* A file holds a level set.
LEMMA FileIs ==
  ASSUME NEW s \in LevelSets, NEW f \in Files[s] PROVE IsLevelSet(FromFile(f))
<1>1. IsIndex(f.ix) /\ f.dist \in [1..f.ix.n -> Int] BY RleLevelSetAssumption
<1>2. Sound(f.ix) BY <1>1, SoundIsIndex
<1>3. Has(f.dist, f.ix.n) BY <1>1 DEF Has
<1> QED BY <1>2, <1>3, LevelSetIs DEF FromFile

\* The files are level sets.
LEMMA InitHolds == Init => IInv
<1> SUFFICES ASSUME Init PROVE IInv OBVIOUS
<1>1. ls = [s \in LevelSets |-> ls[s]] BY DEF Init
<1>2. failed = FALSE BY DEF Init
<1>3. ASSUME NEW s \in LevelSets PROVE IsLevelSet(ls[s])
  <2>1. PICK f \in Files[s] : ls[s] = FromFile(f) BY DEF Init
  <2>2. IsLevelSet(FromFile(f)) BY FileIs
  <2> QED BY <2>1, <2>2
<1> QED BY <1>1, <1>2, <1>3 DEF IInv

\* A call that ends with a level set keeps the invariant.
LEMMA OneReplaced ==
  ASSUME IInv, NEW s \in LevelSets, NEW l, IsLevelSet(l), ls' = [ls EXCEPT ![s] = l], failed' = failed
  PROVE IInv'
<1>1. failed = FALSE /\ ls = [t \in LevelSets |-> ls[t]] /\ \A t \in LevelSets : IsLevelSet(ls[t]) BY DEF IInv
<1>2. \A t \in LevelSets : ls'[t] = IF t = s THEN l ELSE ls[t] BY <1>1
<1>3. ls' = [t \in LevelSets |-> ls'[t]] BY <1>1
<1>4. \A t \in LevelSets : IsLevelSet(ls'[t]) BY <1>1, <1>2
<1> QED BY <1>1, <1>3, <1>4 DEF IInv

\* A call whose checks hold and that ends with a level set keeps it.
LEMMA EndsKeeps ==
  ASSUME IInv, NEW s \in LevelSets, NEW ok, ok, NEW l, IsLevelSet(l), Ends(s, ok, l)
  PROVE IInv'
<1>1. ls' = [ls EXCEPT ![s] = l] BY DEF Ends
<1>2. failed' = (failed \/ ~ok) /\ failed = FALSE BY DEF Ends, IInv
<1>3. failed' = failed BY <1>2
<1> QED BY <1>1, <1>3, OneReplaced

\* switch_rle_index_spec_with_swap to a sound index spec keeps it.
LEMMA SwitchKeeps ==
  ASSUME IInv, NEW s \in LevelSets, NEW ok, ok, NEW ix, Sound(ix), NEW named, Switch(s, ok, ix, named)
  PROVE IInv'
<1>1. IsLevelSet(ls[s]) BY DEF IInv
<1>2. PICK l : l = SwitchRleIndexSpec(ls[s], ix, named) OBVIOUS
<1>3. IsLevelSet(l) BY <1>1, <1>2, SwitchIs
<1>4. Ends(s, ok, l) BY <1>2 DEF Switch
<1> QED BY <1>3, <1>4, EndsKeeps

\* A call that throws before it changes anything keeps it.
LEMMA SameKeeps == ASSUME IInv, UNCHANGED <<ls, failed>> PROVE IInv'
BY DEF IInv

\* One lemma for every action.
LEMMA SetKeeps ==
  ASSUME Reuse = FALSE, IInv, NEW s \in LevelSets, NEW m \in Maps, Set(s, m) PROVE IInv'
<1>1. PICK V : V = DOMAIN m OBVIOUS
<1>2. IsFiniteSet(V) /\ V # {} /\ V \subseteq Int \X Int \X Int BY <1>1, RleLevelSetAssumption
<1>3. PICK ix : ix = BuildFromVoxelArray(V) OBVIOUS
<1>4. Sound(ix) BY <1>2, <1>3, FromVoxelsSound
<1>5. PICK n \in Nat : n = ix.n BY <1>4, SoundTypes
<1>6. PICK coords : coords = Coords(ix) OBVIOUS
<1>7. PICK f : f = [i \in 1..n |-> m[coords[i]]] OBVIOUS
<1>8. f = [i \in 1..n |-> f[i]] BY <1>7
<1>9. PICK dist : dist = Listed(f, n) OBVIOUS
<1>10. Has(dist, n)
  <2>1. Has(f, n) BY <1>8 DEF Has
  <2> QED BY <1>9, <2>1, ListedHas
<1>11. PICK l : l = LevelSet(ix, dist, NoChannel) OBVIOUS
<1>12. IsLevelSet(l) BY <1>4, <1>5, <1>10, <1>11, LevelSetIs
<1>13. PICK adj : adj = ls[s].adj OBVIOUS
<1>14. adj = <<>> BY <1>13 DEF Set, Writes, NoAdjacency
<1>15. HasAdjacency(adj, l.ix) BY <1>14 DEF HasAdjacency
<1>16. PICK r : r = [l EXCEPT !.adj = adj] OBVIOUS
<1>17. IsLevelSet(r) BY <1>12, <1>15, <1>16, WithAdjacency
<1>18. Ends(s, TRUE, r) BY <1>1, <1>3, <1>5, <1>6, <1>7, <1>9, <1>11, <1>13, <1>16 DEF Set
<1> QED BY <1>17, <1>18, EndsKeeps

\* dilate_defined_voxels.
LEMMA DilateKeeps ==
  ASSUME IInv, NEW s \in LevelSets, NEW d \in Dilations, NEW named \in BOOLEAN, DilateDefinedVoxels(s, d, named) PROVE IInv'
<1>1. IsBox(d) BY RleLevelSetAssumption DEF IsBox
<1>2. Sound(ls[s].ix) BY PartsAre DEF IInv
<1>3. PICK ix : ix = BuildFromDilation(ls[s].ix, d) OBVIOUS
<1>4. Sound(ix) /\ InputsFit(ls[s].ix, d) BY <1>1, <1>2, <1>3, DilationSound
<1>5. PICK ok : ok = InputsFit(ls[s].ix, d) OBVIOUS
<1>6. Switch(s, ok, ix, named) BY <1>3, <1>5 DEF DilateDefinedVoxels
<1> QED BY <1>4, <1>5, <1>6, SwitchKeeps

\* bounded_dilate_defined_voxels.
LEMMA BoundedDilateKeeps ==
  ASSUME IInv, NEW s \in LevelSets, NEW r \in Radii, NEW b \in Bounds, NEW named \in BOOLEAN, BoundedDilateDefinedVoxels(s, r, b, named)
  PROVE IInv'
<1>1. PICK d : d = Cube(r) OBVIOUS
<1>2. IsBox(d)
  <2>1. r \in Nat BY RleLevelSetAssumption
  <2> QED BY <1>1, <2>1 DEF IsBox, Cube
<1>3. Sound(ls[s].ix) BY PartsAre DEF IInv
<1>4. PICK jx : jx = BuildFromDilation(ls[s].ix, d) OBVIOUS
<1>5. Sound(jx) /\ InputsFit(ls[s].ix, d) BY <1>2, <1>3, <1>4, DilationSound
<1>6. PICK lo, hi : lo = b.lo /\ hi = b.hi OBVIOUS
<1>7. lo \in Int \X Int \X Int /\ hi \in Int \X Int \X Int BY <1>6, RleLevelSetAssumption
<1>8. PICK ix : ix = BuildWithTrimBounds(jx, lo, hi) OBVIOUS
<1>9. Sound(ix) BY <1>5, <1>7, <1>8, TrimSound
<1>10. PICK ok : ok = InputsFit(ls[s].ix, d) OBVIOUS
<1>11. Switch(s, ok, ix, named) BY <1>1, <1>4, <1>6, <1>8, <1>10 DEF BoundedDilateDefinedVoxels
<1> QED BY <1>5, <1>9, <1>10, <1>11, SwitchKeeps

\* trim_to_bounds.
LEMMA TrimKeeps ==
  ASSUME IInv, NEW s \in LevelSets, NEW b \in Bounds, TrimToBounds(s, b) PROVE IInv'
<1>1. CASE Volume(ls[s].ix) = 0 \/ Encloses(b.lo, b.hi, ls[s].ix)
  <2>1. UNCHANGED <<ls, failed>> BY <1>1 DEF TrimToBounds, Succeeds
  <2> QED BY <2>1, SameKeeps
<1>2. CASE ~(Volume(ls[s].ix) = 0 \/ Encloses(b.lo, b.hi, ls[s].ix))
  <2>1. Sound(ls[s].ix) BY PartsAre DEF IInv
  <2>2. PICK lo, hi : lo = b.lo /\ hi = b.hi OBVIOUS
  <2>3. lo \in Int \X Int \X Int /\ hi \in Int \X Int \X Int BY <2>2, RleLevelSetAssumption
  <2>4. PICK ix : ix = BuildWithTrimBounds(ls[s].ix, lo, hi) OBVIOUS
  <2>5. Sound(ix) BY <2>1, <2>3, <2>4, TrimSound
  <2>6. Switch(s, TRUE, ix, FALSE) BY <1>2, <2>2, <2>4 DEF TrimToBounds
  <2> QED BY <2>5, <2>6, SwitchKeeps
<1> QED BY <1>1, <1>2

\* fill.
LEMMA FillKeeps ==
  ASSUME IInv, NEW s \in LevelSets, Fill(s) PROVE IInv'
<1>1. Sound(ls[s].ix) BY PartsAre DEF IInv
<1>2. PICK ix : ix = BuildByFilling(ls[s].ix) OBVIOUS
<1>3. Sound(ix) BY <1>1, <1>2, FillingSound
<1>4. Switch(s, TRUE, ix, FALSE) BY <1>2 DEF Fill
<1> QED BY <1>3, <1>4, SwitchKeeps

\* apply_axis_permutation.
LEMMA PermuteKeeps ==
  ASSUME IInv, NEW s \in LevelSets, NEW p \in AxisPermutations, ApplyAxisPermutation(s, p) PROVE IInv'
<1>1. IsPermutation(p) BY RleLevelSetAssumption DEF IsPermutation
<1>2. IsLevelSet(ls[s]) BY DEF IInv
<1>3. Sound(ls[s].ix) BY <1>2, PartsAre
<1>4. PICK ix : ix = BuildFromAxisPermutation(ls[s].ix, p) OBVIOUS
<1>5. Sound(ix) /\ CountsMatch(ls[s].ix, p, ix) BY <1>1, <1>3, <1>4, PermutationSound
<1>6. CheckConsistency(ix) BY <1>5, SoundConsistent
<1>7. PICK l : l = PermutedWith(ls[s], ix, Remap(ls[s].ix, p, Coords(ix))) OBVIOUS
<1>8. IsLevelSet(l) BY <1>2, <1>5, <1>7, PermutedIs
<1>9. PICK ok : ok = (CountsMatch(ls[s].ix, p, ix) /\ CheckConsistency(ix)) OBVIOUS
<1>10. Ends(s, ok, l) BY <1>4, <1>7, <1>9 DEF ApplyAxisPermutation
<1> QED BY <1>5, <1>6, <1>8, <1>9, <1>10, EndsKeeps

\* Aligning two level sets to blend them.
LEMMA AlignKeeps ==
  ASSUME IInv, NEW s \in LevelSets, NEW t \in LevelSets, Align(s, t) PROVE IInv'
<1>1. failed = FALSE /\ ls = [u \in LevelSets |-> ls[u]] /\ \A u \in LevelSets : IsLevelSet(ls[u]) BY DEF IInv
<1>2. Sound(ls[s].ix) /\ Sound(ls[t].ix) BY <1>1, PartsAre
<1>3. PICK ix : ix = CombineForBlend(ls[s].ix, ls[t].ix) OBVIOUS
<1>4. Sound(ix) BY <1>2, <1>3, BlendSound
<1>5. PICK l, m : l = SwitchRleIndexSpec(ls[s], ix, TRUE) /\ m = SwitchRleIndexSpec(ls[t], ix, TRUE) OBVIOUS
<1>6. IsLevelSet(l) /\ IsLevelSet(m) BY <1>1, <1>4, <1>5, SwitchIs
<1>7. ls' = [ls EXCEPT ![s] = l, ![t] = m] /\ failed' = failed BY <1>3, <1>5 DEF Align, Succeeds
<1>8. \A u \in LevelSets : ls'[u] = IF u = t THEN m ELSE IF u = s THEN l ELSE ls[u] BY <1>1, <1>7
<1>9. ls' = [u \in LevelSets |-> ls'[u]] BY <1>1, <1>7
<1>10. \A u \in LevelSets : IsLevelSet(ls'[u]) BY <1>1, <1>6, <1>8
<1> QED BY <1>1, <1>7, <1>9, <1>10 DEF IInv

\* csg_union, csg_intersect and csg_subtract, into a level set of no operand.
LEMMA CombineKeeps ==
  ASSUME Reuse = FALSE, IInv, NEW s \in LevelSets, NEW t \in LevelSets, NEW u \in LevelSets, NEW op \in CsgOperations, Combine(s, t, u, op)
  PROVE IInv'
<1>1. IsLevelSet(ls[t]) /\ IsLevelSet(ls[u]) BY DEF IInv
<1>2. PICK old : old = NewLevelSet OBVIOUS
<1>3. old.ix.n = 0 /\ old.adj = <<>> BY <1>2, NewLevelSetIs
<1>4. CombinedInto(s, t, u) = {old} BY <1>2 DEF CombinedInto
<1>5. PICK l : l = CsgOperation(op, old, ls[t], ls[u]) OBVIOUS
<1>6. IsLevelSet(l) BY <1>1, <1>3, <1>5, CsgOperationIs
<1>7. Ends(s, TRUE, l) BY <1>4, <1>5 DEF Combine
<1> QED BY <1>6, <1>7, EndsKeeps

\* csg_complement.
LEMMA ComplementKeeps ==
  ASSUME Reuse = FALSE, IInv, NEW s \in LevelSets, Complement(s) PROVE IInv'
<1>1. IsLevelSet(ls[s]) BY DEF IInv
<1>2. ls[s].adj = <<>> BY DEF Complement, Writes, NoAdjacency
<1>3. PICK l : l = CsgComplement(ls[s]) OBVIOUS
<1>4. IsLevelSet(l) BY <1>1, <1>2, <1>3, ComplementIs
<1>5. Ends(s, TRUE, l) BY <1>3 DEF Complement
<1> QED BY <1>4, <1>5, EndsKeeps

\* Creating the signed distances of the populated voxels.
LEMMA PopulateKeeps ==
  ASSUME IInv, NEW s \in LevelSets, Populate(s) PROVE IInv'
<1>1. IsLevelSet(ls[s]) BY DEF IInv
<1>2. PICK marks \in [1..ls[s].ix.n -> {0, 1}] : ls' = [ls EXCEPT ![s].pop = <<marks>>] BY DEF Populate, Channel
<1>3. HasChannel(<<marks>>, ls[s].ix.n) BY <1>2 DEF HasChannel, Has
<1>4. PICK l : l = [ls[s] EXCEPT !.pop = <<marks>>] OBVIOUS
<1>5. IsLevelSet(l) BY <1>1, <1>3, <1>4, WithChannel
<1>6. ls' = [ls EXCEPT ![s] = l] BY <1>2, <1>4
<1>7. failed' = failed BY DEF Populate, Succeeds
<1> QED BY <1>5, <1>6, <1>7, OneReplaced

\* get_cached_adjacency.
LEMMA AdjacencyKeeps ==
  ASSUME IInv, NEW s \in LevelSets, GetCachedAdjacency(s) PROVE IInv'
<1>1. IsLevelSet(ls[s]) BY DEF IInv
<1>2. PICK adj : adj = Adjacency(ls[s].ix) OBVIOUS
<1>3. HasAdjacency(adj, ls[s].ix) BY <1>2 DEF HasAdjacency
<1>4. PICK l : l = [ls[s] EXCEPT !.adj = adj] OBVIOUS
<1>5. IsLevelSet(l) BY <1>1, <1>3, <1>4, WithAdjacency
<1>6. ls' = [ls EXCEPT ![s] = l] BY <1>2, <1>4 DEF GetCachedAdjacency
<1>7. failed' = failed BY DEF GetCachedAdjacency, Succeeds
<1> QED BY <1>5, <1>6, <1>7, OneReplaced

\* trim_to_populated.
LEMMA TrimToPopulatedKeeps ==
  ASSUME IInv, NEW s \in LevelSets, TrimToPopulated(s) PROVE IInv'
<1>1. IsLevelSet(ls[s]) BY DEF IInv
<1>2. CASE \A i \in 1..ls[s].ix.n : ls[s].pop[1][i] # 0
  <2>1. PICK pop : pop = <<>> OBVIOUS
  <2>2. HasChannel(pop, ls[s].ix.n) BY <2>1 DEF HasChannel
  <2>3. PICK l : l = [ls[s] EXCEPT !.pop = pop] OBVIOUS
  <2>4. IsLevelSet(l) BY <1>1, <2>2, <2>3, WithChannel
  <2>5. Ends(s, TRUE, l) BY <1>2, <2>1, <2>3 DEF TrimToPopulated, NoChannel
  <2> QED BY <2>4, <2>5, EndsKeeps
<1>3. CASE ~\A i \in 1..ls[s].ix.n : ls[s].pop[1][i] # 0
  <2>1. Sound(ls[s].ix) /\ HasAdjacency(ls[s].adj, ls[s].ix) BY <1>1, PartsAre
  <2>2. PICK adj : adj = AdjacencyUsed(ls[s]) OBVIOUS
  <2>3. adj = Adjacency(ls[s].ix) BY <2>1, <2>2 DEF AdjacencyUsed, HasAdjacency, NoAdjacency
  <2>4. IsAdjacency(adj, ls[s].ix.n) BY <2>1, <2>3, AdjacencyIs
  <2>5. PICK coords, dist, pop : coords = Coords(ls[s].ix) /\ dist = ls[s].dist /\ pop = ls[s].pop[1] OBVIOUS
  <2>6. PICK ix : ix = BuildFromPopulated(ls[s].ix, coords, adj, dist, pop) OBVIOUS
  <2>7. Sound(ix) BY <2>1, <2>4, <2>6, PopulatedSound
  <2>8. Switch(s, TRUE, ix, TRUE) BY <1>3, <2>2, <2>5, <2>6 DEF TrimToPopulated
  <2> QED BY <2>7, <2>8, SwitchKeeps
<1> QED BY <1>2, <1>3

\* Every step keeps the invariant, if no level set is an operand and the result at once.
LEMMA StepKeeps == ASSUME Reuse = FALSE, IInv, [Next]_vars PROVE IInv'
<1>1. CASE Next
  <2>1. PICK s \in LevelSets :
          \/ \E m \in Maps : Set(s, m)
          \/ \E d \in Dilations, named \in BOOLEAN : DilateDefinedVoxels(s, d, named)
          \/ \E r \in Radii, b \in Bounds, named \in BOOLEAN : BoundedDilateDefinedVoxels(s, r, b, named)
          \/ \E b \in Bounds : TrimToBounds(s, b)
          \/ \E p \in AxisPermutations : ApplyAxisPermutation(s, p)
          \/ \E t \in LevelSets : Align(s, t)
          \/ \E t, u \in LevelSets, op \in CsgOperations : Combine(s, t, u, op)
          \/ Complement(s) \/ Fill(s) \/ Populate(s) \/ GetCachedAdjacency(s) \/ TrimToPopulated(s)
    BY <1>1 DEF Next
  <2>2. CASE \E m \in Maps : Set(s, m) BY <2>2, SetKeeps
  <2>3. CASE \E d \in Dilations, named \in BOOLEAN : DilateDefinedVoxels(s, d, named) BY <2>3, DilateKeeps
  <2>4. CASE \E r \in Radii, b \in Bounds, named \in BOOLEAN : BoundedDilateDefinedVoxels(s, r, b, named) BY <2>4, BoundedDilateKeeps
  <2>5. CASE \E b \in Bounds : TrimToBounds(s, b) BY <2>5, TrimKeeps
  <2>6. CASE \E p \in AxisPermutations : ApplyAxisPermutation(s, p) BY <2>6, PermuteKeeps
  <2>7. CASE \E t \in LevelSets : Align(s, t) BY <2>7, AlignKeeps
  <2>8. CASE \E t, u \in LevelSets, op \in CsgOperations : Combine(s, t, u, op) BY <2>8, CombineKeeps
  <2>9. CASE Complement(s) BY <2>9, ComplementKeeps
  <2>10. CASE Fill(s) BY <2>10, FillKeeps
  <2>11. CASE Populate(s) BY <2>11, PopulateKeeps
  <2>12. CASE GetCachedAdjacency(s) BY <2>12, AdjacencyKeeps
  <2>13. CASE TrimToPopulated(s) BY <2>13, TrimToPopulatedKeeps
  <2> QED BY <2>1, <2>2, <2>3, <2>4, <2>5, <2>6, <2>7, <2>8, <2>9, <2>10, <2>11, <2>12, <2>13
<1>2. CASE UNCHANGED vars
  <2>1. UNCHANGED <<ls, failed>> BY <1>2 DEF vars
  <2> QED BY <2>1, SameKeeps
<1> QED BY <1>1, <1>2

\* The invariant is what the run checks.
LEMMA ConsistentOf == ASSUME IInv PROVE Consistent
<1>1. failed = FALSE /\ \A s \in LevelSets : IsLevelSet(ls[s]) BY DEF IInv
<1>2. ASSUME NEW s \in LevelSets PROVE CheckConsistency(ls[s].ix) /\ Len(ls[s].dist) = ls[s].ix.n
  <2>1. Sound(ls[s].ix) /\ ls[s].ix.n \in Nat /\ Has(ls[s].dist, ls[s].ix.n) BY <1>1, PartsAre
  <2> QED BY <2>1, SoundConsistent, HasLen
<1>3. ASSUME NEW s \in LevelSets, NEW i \in DOMAIN ls[s].pop PROVE Len(ls[s].pop[i]) = ls[s].ix.n
  <2>1. ls[s].ix.n \in Nat /\ HasChannel(ls[s].pop, ls[s].ix.n) BY <1>1, PartsAre
  <2>2. PICK pop : pop = ls[s].pop /\ i \in DOMAIN pop BY <1>3
  <2>3. pop # <<>> BY <2>2
  <2>4. PICK d : pop = <<d>> /\ Has(d, ls[s].ix.n) BY <2>1, <2>2, <2>3 DEF HasChannel
  <2>5. i = 1 /\ pop[1] = d BY <2>2, <2>4
  <2> QED BY <2>1, <2>2, <2>4, <2>5, HasLen
<1>4. ASSUME NEW s \in LevelSets PROVE ls[s].adj = NoAdjacency \/ ls[s].adj = Adjacency(ls[s].ix)
  BY <1>1, PartsAre DEF HasAdjacency, NoAdjacency
<1> QED BY <1>1, <1>2, <1>3, <1>4 DEF Consistent, ChannelsFit, AdjacencyIsCurrent

\* The scanlines of the invariant are what the two lookups agree on.
LEMMA LookupFindsOf == ASSUME IInv PROVE LookupFinds
<1>1. SUFFICES ASSUME NEW s \in LevelSets, NEW ix, ix = ls[s].ix
               PROVE  /\ \A x \in (ix.org[1] - 1)..End(ix)[1], y \in (ix.org[2] - 1)..End(ix)[2], z \in (ix.org[3] - 1)..End(ix)[3] :
                            DataIndex(ix, <<x, y, z>>) = WalkedTo(ix, <<x, y, z>>)
                      /\ Len(Coords(ix)) = ix.n
                      /\ \A i \in 1..Len(Coords(ix)) : DataIndex(ix, Coords(ix)[i]) = i - 1
  BY DEF LookupFinds
<1>2. Sound(ix) BY <1>1, PartsAre DEF IInv
<1>3. Len(Coords(ix)) = ix.n /\ \A i \in 1..ix.n : DataIndex(ix, Coords(ix)[i]) = i - 1 BY <1>2, CoordsAre
<1>4. \A x \in Int, y \in Int, z \in Int : DataIndex(ix, <<x, y, z>>) = WalkedTo(ix, <<x, y, z>>) BY <1>2, LookupIsWalk
<1>5. \A i \in 1..3 : ix.org[i] \in Int /\ End(ix)[i] \in Int BY <1>2, SoundTypes
<1>6. \A x \in (ix.org[1] - 1)..End(ix)[1] : x \in Int BY <1>5
<1>7. \A x \in (ix.org[2] - 1)..End(ix)[2] : x \in Int BY <1>5
<1>8. \A x \in (ix.org[3] - 1)..End(ix)[3] : x \in Int BY <1>5
<1> QED BY <1>3, <1>4, <1>6, <1>7, <1>8

\* Whatever files are read and whatever calls are made on them, no check of rle_index_spec or rle_level_set throws,
\* every index spec is sound and the parts of every level set belong to it, as long as no set operation writes into a
\* level set that was in use (Reuse, see the run RL_reuse).
THEOREM InvariantHolds == ASSUME Reuse = FALSE PROVE Spec => []IInv
<1>1. Init => IInv BY InitHolds
<1>2. IInv /\ [Next]_vars => IInv' BY StepKeeps
<1> QED BY <1>1, <1>2, PTL DEF Spec

\* After every call the index spec of every level set passes check_consistency, and its distances, channels and cached
\* adjacency are those of that index spec.
THEOREM ConsistentHolds == ASSUME Reuse = FALSE PROVE Spec => []Consistent
<1>1. IInv => Consistent BY ConsistentOf
<1> QED BY <1>1, InvariantHolds, PTL

\* After every call XYZtoDataIndex finds, for each voxel in and around the box, what a walk over its scanline finds, and
\* the voxels with data are numbered 0, 1, 2 ... along X, Y and Z.
THEOREM LookupHolds == ASSUME Reuse = FALSE PROVE Spec => []LookupFinds
<1>1. IInv => LookupFinds BY LookupFindsOf
<1> QED BY <1>1, InvariantHolds, PTL
=============================================================================
