----------------------------- MODULE FoldLemmas -----------------------------
(***************************************************************************)
(* What the folds of the community modules return, for every sequence and   *)
(* every function with a finite domain: SumFunction adds each value once,   *)
(* FlattenSeq puts the members of a sequence of sequences one behind the    *)
(* other.  With them go the lemmas about how often a value occurs.          *)
(*                                                                          *)
(* The folds are recursive functions, that is, CHOOSE expressions.  Each    *)
(* proof first shows that a function with the recursive equation exists, by *)
(* induction over the size of its domain, and then uses the equation.       *)
(* Induction is used in its form for sets (InductionOnSet): a set that      *)
(* contains 0 and the successor of each of its elements contains Nat.       *)
(***************************************************************************)
EXTENDS Integers, Sequences, SequencesExt, FiniteSetTheorems, SequenceTheorems, WellFoundedInduction, TLAPS

\* The least element of a set of natural numbers.
LEMMA LeastNat ==
  ASSUME NEW T, T \subseteq Nat, T # {} PROVE \E x \in T : \A y \in T : x <= y
<1>1. PICK x \in T : \A y \in T : ~ (<<y, x>> \in OpToRel(<, Nat))
  BY NatLessThanWellFounded, WFMin
<1>2. \A y \in T : ~ (y < x)
  BY <1>1 DEF OpToRel
<1> QED BY <1>2

\* Induction, for a set.
LEMMA InductionOnSet ==
  ASSUME NEW T, 0 \in T, \A n \in Nat : n \in T => n + 1 \in T
  PROVE  Nat \subseteq T
<1>1. SUFFICES ASSUME Nat \ T # {} PROVE FALSE
  OBVIOUS
<1>2. PICK m \in Nat \ T : \A y \in Nat \ T : m <= y
  BY <1>1, LeastNat
<1>3. m # 0 /\ m - 1 \in Nat /\ m - 1 \in T
  BY <1>2
<1> QED BY <1>2, <1>3

-----------------------------------------------------------------------------
(* Sums.                                                                    *)

Choice(T) == CHOOSE x \in T : TRUE

\* it is the recursive function that SumFunctionOnSet( g, S ) is taken from.
Sums(it, g, S) ==
  it = [T \in SUBSET S |-> IF T = {} THEN 0 ELSE g[Choice(T)] + it[T \ {Choice(T)}]]

\* What is chosen from a set is in it.
LEMMA ChoiceIn == ASSUME NEW T, T # {} PROVE Choice(T) \in T
  BY Zenon DEF Choice

\* It exists: from a function on the subsets of at most n elements one on those of at most
\* n + 1 is made.
LEMMA SumsExist ==
  ASSUME NEW S, IsFiniteSet(S), NEW g PROVE \E it : Sums(it, g, S)
<1> DEFINE Small(n) == {T \in SUBSET S : Cardinality(T) <= n}
           Eq(it, D) == it = [T \in D |-> IF T = {} THEN 0 ELSE g[Choice(T)] + it[T \ {Choice(T)}]]
           Good == {n \in Nat : \E it : Eq(it, Small(n))}
<1>1. 0 \in Good
  <2>1. Small(0) = {{}}
    <3>1. ASSUME NEW T \in Small(0) PROVE T = {}
      BY FS_Subset, FS_CardinalityType, FS_EmptySet
    <3>2. {} \in Small(0) BY FS_EmptySet
    <3> QED BY <3>1, <3>2
  <2>2. Eq([T \in Small(0) |-> 0], Small(0)) BY <2>1
  <2> QED BY <2>2
<1>2. ASSUME NEW n \in Nat, n \in Good PROVE n + 1 \in Good
  <2>1. PICK it : Eq(it, Small(n)) BY <1>2
  <2> DEFINE next == [T \in Small(n + 1) |-> IF T = {} THEN 0 ELSE g[Choice(T)] + it[T \ {Choice(T)}]]
  <2>2. ASSUME NEW T \in Small(n + 1), T # {}
        PROVE  T \ {Choice(T)} \in Small(n) /\ T \ {Choice(T)} \in Small(n + 1)
    <3>1. Choice(T) \in T /\ T \subseteq S BY <2>2, ChoiceIn
    <3>2. IsFiniteSet(T) /\ Cardinality(T) <= n + 1 BY FS_Subset
    <3>3. Cardinality(T \ {Choice(T)}) = Cardinality(T) - 1 /\ Cardinality(T) \in Nat
      BY <3>1, <3>2, FS_RemoveElement, FS_CardinalityType
    <3> QED BY <3>1, <3>2, <3>3
  <2>3. ASSUME NEW T \in Small(n) PROVE T \in Small(n + 1) /\ next[T] = it[T]
    <3>1. T \in Small(n + 1) BY FS_Subset, FS_CardinalityType
    <3> QED BY <3>1, <2>1
  <2>4. Eq(next, Small(n + 1))
    BY <2>2, <2>3
  <2> HIDE DEF Eq, next, Small
  <2> QED BY <2>4
<1>3. Cardinality(S) \in Good
  <2> HIDE DEF Good
  <2> QED BY <1>1, <1>2, InductionOnSet, FS_CardinalityType
<1>4. Small(Cardinality(S)) = SUBSET S
  BY FS_Subset
<1> QED BY <1>3, <1>4 DEF Sums

\* What makes the sum unique, and independent of the values outside of S.
LEMMA SumsUnique ==
  ASSUME NEW S, IsFiniteSet(S), NEW g, NEW it, Sums(it, g, S),
         NEW R, IsFiniteSet(R), NEW h, NEW jt, Sums(jt, h, R),
         NEW T, T \subseteq S \cap R, \A x \in T : g[x] = h[x]
  PROVE  it[T] = jt[T]
<1> DEFINE Bad == {U \in SUBSET T : it[U] # jt[U]}
           Sizes == {Cardinality(U) : U \in Bad}
<1> SUFFICES ASSUME it[T] # jt[T] PROVE FALSE
  OBVIOUS
<1>1. \A U \in SUBSET T : IsFiniteSet(U) /\ Cardinality(U) \in Nat
  BY FS_Subset, FS_CardinalityType
<1>2. PICK n \in Sizes : \A m \in Sizes : n <= m
  <2>1. Sizes \subseteq Nat /\ Sizes # {} BY <1>1
  <2> HIDE DEF Sizes
  <2> QED BY <2>1, LeastNat
<1>3. PICK U \in Bad : Cardinality(U) = n
  OBVIOUS
<1>4. U # {}
  BY <1>3 DEF Sums
<1> DEFINE c == Choice(U)
           W == U \ {c}
<1>5. c \in U
  BY <1>4, ChoiceIn
<1>6. Cardinality(W) = n - 1 /\ n \in Nat
  BY <1>1, <1>3, <1>5, FS_RemoveElement
<1>7. it[W] = jt[W]
  BY <1>2, <1>6
<1>8. it[U] = g[c] + it[W] /\ jt[U] = h[c] + jt[W]
  BY <1>4 DEF Sums
<1> QED BY <1>5, <1>7, <1>8

\* The sum of the values of g on S.
SumOn(g, S) == SumFunctionOnSet(g, S)

\* The sum is taken from that function.
LEMMA SumOnDef ==
  ASSUME NEW S, IsFiniteSet(S), NEW g
  PROVE  \E it : Sums(it, g, S) /\ SumOn(g, S) = it[S]
<1> DEFINE it == CHOOSE it : Sums(it, g, S)
<1>1. Sums(it, g, S)
  BY SumsExist
<1>2. SumOn(g, S) = it[S]
  BY Zenon DEF SumOn, SumFunctionOnSet, FoldFunctionOnSet, MapThenFoldSet, Sums, Choice
<1> QED BY <1>1, <1>2

\* Only the values on S count.
LEMMA SumOnSame ==
  ASSUME NEW S, IsFiniteSet(S), NEW g, NEW h, \A x \in S : g[x] = h[x]
  PROVE  SumOn(g, S) = SumOn(h, S)
<1>1. PICK it : Sums(it, g, S) /\ SumOn(g, S) = it[S] BY SumOnDef
<1>2. PICK jt : Sums(jt, h, S) /\ SumOn(h, S) = jt[S] BY SumOnDef
<1> QED BY <1>1, <1>2, SumsUnique

\* The sum of nothing.
LEMMA SumOnEmpty == ASSUME NEW g PROVE SumOn(g, {}) = 0
<1>1. PICK it : Sums(it, g, {}) /\ SumOn(g, {}) = it[{}] BY SumOnDef, FS_EmptySet
<1> QED BY <1>1 DEF Sums

\* One step of the recursion.
LEMMA SumOnChoice ==
  ASSUME NEW S, IsFiniteSet(S), NEW g, S # {}
  PROVE  Choice(S) \in S /\ SumOn(g, S) = g[Choice(S)] + SumOn(g, S \ {Choice(S)})
<1> DEFINE R == S \ {Choice(S)}
<1>1. PICK it : Sums(it, g, S) /\ SumOn(g, S) = it[S] BY SumOnDef
<1>2. Choice(S) \in S /\ IsFiniteSet(R) BY ChoiceIn, FS_Subset
<1>3. PICK jt : Sums(jt, g, R) /\ SumOn(g, R) = jt[R] BY <1>2, SumOnDef
<1>4. it[R] = jt[R] BY <1>1, <1>2, <1>3, SumsUnique
<1>5. it[S] = g[Choice(S)] + it[R] BY <1>1 DEF Sums
<1> QED BY <1>1, <1>2, <1>3, <1>4, <1>5

\* A value may be taken out first, whichever it is; the sum is a number.
LEMMA SumOnSplit ==
  ASSUME NEW S, IsFiniteSet(S), NEW g, \A x \in S : g[x] \in Int
  PROVE  /\ SumOn(g, S) \in Int
         /\ \A x \in S : SumOn(g, S) = g[x] + SumOn(g, S \ {x})
<1> DEFINE Splits(T) == /\ SumOn(g, T) \in Int
                        /\ \A x \in T : SumOn(g, T) = g[x] + SumOn(g, T \ {x})
           Good == {n \in Nat : \A T \in SUBSET S : Cardinality(T) <= n => Splits(T)}
<1>1. 0 \in Good
  <2>1. SUFFICES ASSUME NEW T \in SUBSET S, Cardinality(T) <= 0 PROVE Splits(T)
    OBVIOUS
  <2>2. T = {} BY <2>1, FS_Subset, FS_CardinalityType, FS_EmptySet
  <2> QED BY <2>2, SumOnEmpty
<1>2. ASSUME NEW n \in Nat, n \in Good PROVE n + 1 \in Good
  <2>1. SUFFICES ASSUME NEW T \in SUBSET S, Cardinality(T) <= n + 1, T # {} PROVE Splits(T)
    BY SumOnEmpty
  <2>2. IsFiniteSet(T) /\ Cardinality(T) \in Nat
    BY FS_Subset, FS_CardinalityType
  <2> DEFINE c == Choice(T)
  <2>3. c \in T /\ SumOn(g, T) = g[c] + SumOn(g, T \ {c})
    BY <2>1, <2>2, SumOnChoice
  <2>4. ASSUME NEW x \in T PROVE Cardinality(T \ {x}) <= n /\ Splits(T \ {x})
    <3>1. Cardinality(T \ {x}) = Cardinality(T) - 1 BY <2>2, FS_RemoveElement
    <3>2. Cardinality(T \ {x}) <= n BY <3>1, <2>1, <2>2
    <3>3. T \ {x} \in SUBSET S OBVIOUS
    <3> QED BY <3>2, <3>3, <1>2
  <2>5. SumOn(g, T) \in Int
    <3>1. g[c] \in Int /\ SumOn(g, T \ {c}) \in Int BY <2>3, <2>4
    <3> HIDE DEF c
    <3> QED BY <2>3, <3>1
  <2>6. ASSUME NEW x \in T, x # c PROVE SumOn(g, T) = g[x] + SumOn(g, T \ {x})
    <3>1. (T \ {x}) \ {c} = (T \ {c}) \ {x} OBVIOUS
    <3>2. SumOn(g, T \ {c}) = g[x] + SumOn(g, (T \ {c}) \ {x}) BY <2>3, <2>4, <2>6
    <3>3. SumOn(g, T \ {x}) = g[c] + SumOn(g, (T \ {x}) \ {c}) BY <2>3, <2>4, <2>6
    <3>4. Cardinality((T \ {x}) \ {c}) <= n /\ SumOn(g, (T \ {x}) \ {c}) \in Int
      <4>1. IsFiniteSet(T \ {x}) /\ c \in T \ {x} BY <2>2, <2>3, <2>6, FS_Subset
      <4>2. Cardinality((T \ {x}) \ {c}) = Cardinality(T \ {x}) - 1 /\ Cardinality(T \ {x}) \in Nat
        BY <4>1, FS_RemoveElement, FS_CardinalityType
      <4>3. Cardinality(T \ {x}) <= n BY <2>4
      <4>4. Cardinality((T \ {x}) \ {c}) <= n BY <4>2, <4>3
      <4> QED BY <4>4, <1>2
    <3>5. g[x] \in Int /\ g[c] \in Int BY <2>3
    <3> DEFINE rest == SumOn(g, (T \ {x}) \ {c})
    <3>6. SumOn(g, T) = g[c] + (g[x] + rest) BY <2>3, <3>1, <3>2
    <3>7. SumOn(g, T \ {x}) = g[c] + rest BY <3>3
    <3> HIDE DEF rest, c
    <3>8. rest \in Int BY <3>4 DEF rest
    <3> QED BY <3>5, <3>6, <3>7, <3>8
  <2> QED BY <2>3, <2>5, <2>6
<1>3. Cardinality(S) \in Good
  <2> HIDE DEF Good
  <2> QED BY <1>1, <1>2, InductionOnSet, FS_CardinalityType
<1> QED BY <1>3, FS_CardinalityType

\* The sum of natural numbers is one, and no less than each of them.
LEMMA SumOnNat ==
  ASSUME NEW S, IsFiniteSet(S), NEW g, \A x \in S : g[x] \in Nat
  PROVE  /\ SumOn(g, S) \in Nat
         /\ \A x \in S : g[x] <= SumOn(g, S)
<1> DEFINE Good == {n \in Nat : \A T \in SUBSET S : Cardinality(T) <= n => SumOn(g, T) \in Nat}
<1>1. 0 \in Good
  BY SumOnEmpty, FS_Subset, FS_CardinalityType, FS_EmptySet
<1>2. ASSUME NEW n \in Nat, n \in Good PROVE n + 1 \in Good
  <2>1. SUFFICES ASSUME NEW T \in SUBSET S, Cardinality(T) <= n + 1, NEW x \in T PROVE SumOn(g, T) \in Nat
    BY SumOnEmpty
  <2>2. IsFiniteSet(T) /\ Cardinality(T) \in Nat
    BY FS_Subset, FS_CardinalityType
  <2>3. Cardinality(T \ {x}) = Cardinality(T) - 1 BY <2>2, FS_RemoveElement
  <2>4. SumOn(g, T \ {x}) \in Nat BY <1>2, <2>1, <2>2, <2>3
  <2>5. SumOn(g, T) = g[x] + SumOn(g, T \ {x}) BY <2>2, SumOnSplit
  <2> QED BY <2>4, <2>5
<1>3. Cardinality(S) \in Good
  <2> HIDE DEF Good
  <2> QED BY <1>1, <1>2, InductionOnSet, FS_CardinalityType
<1>4. \A T \in SUBSET S : SumOn(g, T) \in Nat
  BY <1>3, FS_Subset, FS_CardinalityType
<1>5. ASSUME NEW x \in S PROVE g[x] <= SumOn(g, S)
  <2>1. SumOn(g, S) = g[x] + SumOn(g, S \ {x}) /\ SumOn(g, S \ {x}) \in Nat BY <1>4, SumOnSplit
  <2> QED BY <2>1
<1> QED BY <1>4, <1>5

\* One value changes, or one more is added.
LEMMA SumOnChange ==
  ASSUME NEW S, IsFiniteSet(S), NEW x \in S, NEW g, NEW h,
         \A y \in S : g[y] \in Int /\ h[y] \in Int, \A y \in S \ {x} : h[y] = g[y]
  PROVE  SumOn(h, S) = SumOn(g, S) - g[x] + h[x]
<1>1. IsFiniteSet(S \ {x}) BY FS_Subset
<1>2. SumOn(h, S \ {x}) = SumOn(g, S \ {x}) BY <1>1, SumOnSame
<1>3. SumOn(g, S) = g[x] + SumOn(g, S \ {x}) BY SumOnSplit
<1>4. SumOn(h, S) = h[x] + SumOn(h, S \ {x}) BY SumOnSplit
<1>5. SumOn(g, S \ {x}) \in Int BY <1>1, SumOnSplit
<1> QED BY <1>2, <1>3, <1>4, <1>5

\* One value more.
LEMMA SumOnAdd ==
  ASSUME NEW S, IsFiniteSet(S), NEW x, x \notin S, NEW g, NEW h,
         \A y \in S : g[y] \in Int, h[x] \in Int, \A y \in S : h[y] = g[y]
  PROVE  SumOn(h, S \cup {x}) = SumOn(g, S) + h[x]
<1>1. IsFiniteSet(S \cup {x}) /\ (S \cup {x}) \ {x} = S BY FS_AddElement
<1>2. SumOn(h, S \cup {x}) = h[x] + SumOn(h, S) BY <1>1, SumOnSplit
<1>3. SumOn(h, S) = SumOn(g, S) /\ SumOn(g, S) \in Int BY SumOnSame, SumOnSplit
<1> QED BY <1>2, <1>3

\* Zeros do not count.
LEMMA SumOnZeros ==
  ASSUME NEW S, IsFiniteSet(S), NEW R, R \subseteq S, NEW g,
         \A x \in S : g[x] \in Int, \A x \in S \ R : g[x] = 0
  PROVE  SumOn(g, S) = SumOn(g, R)
<1> DEFINE Good == {n \in Nat : \A T \in SUBSET S :
                      R \subseteq T /\ Cardinality(T) <= n => SumOn(g, T) = SumOn(g, R)}
<1>1. 0 \in Good
  <2>1. SUFFICES ASSUME NEW T \in SUBSET S, R \subseteq T, Cardinality(T) <= 0 PROVE SumOn(g, T) = SumOn(g, R)
    OBVIOUS
  <2>2. T = {} BY <2>1, FS_Subset, FS_CardinalityType, FS_EmptySet
  <2>3. T = R BY <2>1, <2>2
  <2> QED BY <2>3
<1>2. ASSUME NEW n \in Nat, n \in Good PROVE n + 1 \in Good
  <2>1. SUFFICES ASSUME NEW T \in SUBSET S, R \subseteq T, Cardinality(T) <= n + 1, T # R
                 PROVE  SumOn(g, T) = SumOn(g, R)
    OBVIOUS
  <2>2. PICK x \in T \ R : TRUE BY <2>1
  <2>3. IsFiniteSet(T) /\ Cardinality(T) \in Nat BY FS_Subset, FS_CardinalityType
  <2>4. Cardinality(T \ {x}) = Cardinality(T) - 1 /\ IsFiniteSet(T \ {x})
    BY <2>2, <2>3, FS_RemoveElement, FS_Subset
  <2>5. SumOn(g, T \ {x}) = SumOn(g, R) BY <1>2, <2>1, <2>2, <2>3, <2>4
  <2>6. \A y \in T : g[y] \in Int BY <2>1
  <2>7. SumOn(g, T) = g[x] + SumOn(g, T \ {x}) BY <2>2, <2>3, <2>6, SumOnSplit
  <2>8. SumOn(g, T \ {x}) \in Int BY <2>4, <2>6, SumOnSplit
  <2>9. g[x] = 0 BY <2>1, <2>2
  <2> QED BY <2>5, <2>7, <2>8, <2>9
<1>3. Cardinality(S) \in Good
  <2> HIDE DEF Good
  <2> QED BY <1>1, <1>2, InductionOnSet, FS_CardinalityType
<1> QED BY <1>3, FS_CardinalityType

\* Along a sequence the last value, or the first, is split off.
LEMMA SumOnInterval ==
  ASSUME NEW n \in Nat, NEW g, \A i \in 1..(n + 1) : g[i] \in Int
  PROVE  /\ SumOn(g, 1..n) \in Int
         /\ SumOn(g, 1..(n + 1)) = SumOn(g, 1..n) + g[n + 1]
<1>1. IsFiniteSet(1..n) /\ IsFiniteSet(1..(n + 1)) BY FS_Interval
<1>2. (1..(n + 1)) \ {n + 1} = 1..n /\ n + 1 \in 1..(n + 1) OBVIOUS
<1>3. SumOn(g, 1..(n + 1)) = g[n + 1] + SumOn(g, 1..n) BY <1>1, <1>2, SumOnSplit
<1>4. SumOn(g, 1..n) \in Int BY <1>1, SumOnSplit
<1> QED BY <1>3, <1>4

\* The first value is split off, and the others move up.
LEMMA SumOnTail ==
  ASSUME NEW n \in Nat, NEW g, NEW h, \A i \in 1..(n + 1) : g[i] \in Int,
         \A i \in 1..n : h[i] = g[i + 1]
  PROVE  SumOn(g, 1..(n + 1)) = g[1] + SumOn(h, 1..n)
<1> DEFINE Good == {m \in Nat : m <= n => SumOn(g, 1..(m + 1)) = g[1] + SumOn(h, 1..m)}
<1>1. 0 \in Good
  <2>0. \A i \in 1..(0 + 1) : g[i] \in Int OBVIOUS
  <2>1. SumOn(g, 1..(0 + 1)) = SumOn(g, 1..0) + g[0 + 1] BY <2>0, SumOnInterval
  <2>2. 1..0 = {} OBVIOUS
  <2>3. SumOn(g, {}) = 0 /\ SumOn(h, {}) = 0 BY SumOnEmpty
  <2>4. g[1] \in Int OBVIOUS
  <2> QED BY <2>1, <2>2, <2>3, <2>4
<1>2. ASSUME NEW m \in Nat, m \in Good PROVE m + 1 \in Good
  <2>1. SUFFICES ASSUME m + 1 <= n PROVE SumOn(g, 1..((m + 1) + 1)) = g[1] + SumOn(h, 1..(m + 1))
    OBVIOUS
  <2>2. SumOn(g, 1..(m + 1)) = g[1] + SumOn(h, 1..m) BY <1>2, <2>1
  <2>3. SumOn(g, 1..((m + 1) + 1)) = SumOn(g, 1..(m + 1)) + g[(m + 1) + 1] BY <2>1, SumOnInterval
  <2>4. SumOn(h, 1..m) \in Int /\ SumOn(h, 1..(m + 1)) = SumOn(h, 1..m) + h[m + 1] BY <2>1, SumOnInterval
  <2>5. h[m + 1] = g[(m + 1) + 1] /\ h[m + 1] \in Int /\ g[1] \in Int BY <2>1
  <2> QED BY <2>2, <2>3, <2>4, <2>5
<1>3. n \in Good
  <2> HIDE DEF Good
  <2> QED BY <1>1, <1>2, InductionOnSet
<1> QED BY <1>3

-----------------------------------------------------------------------------
(* Sequences of sequences.                                                  *)

\* fl is the recursive function that FlattenSeq( ss ) is taken from.
Concat(s, t) == s \o t
Flattens(fl, ss) ==
  fl = [i \in 1..Len(ss) |-> IF i = 1 THEN ss[i] ELSE Concat(fl[i - 1], ss[i])]

\* Such a function exists.
LEMMA FlattensExist == ASSUME NEW X, NEW ss \in Seq(X) PROVE \E fl : Flattens(fl, ss)
<1> DEFINE Eq(fl, n) == fl = [i \in 1..n |-> IF i = 1 THEN ss[i] ELSE Concat(fl[i - 1], ss[i])]
           Good == {n \in Nat : \E fl : Eq(fl, n)}
<1>1. 0 \in Good
  <2>1. Eq([i \in 1..0 |-> 0], 0) OBVIOUS
  <2> QED BY <2>1
<1>2. ASSUME NEW n \in Nat, n \in Good PROVE n + 1 \in Good
  <2>1. PICK fl : Eq(fl, n) BY <1>2
  <2> DEFINE next == [i \in 1..(n + 1) |-> IF i = 1 THEN ss[i] ELSE Concat(fl[i - 1], ss[i])]
  <2>2. \A i \in 1..n : next[i] = fl[i] BY <2>1
  <2>3. \A i \in 1..(n + 1) : i # 1 => i - 1 \in 1..n OBVIOUS
  <2>4. \A i \in 1..(n + 1) : i # 1 => next[i - 1] = fl[i - 1] BY <2>2, <2>3
  <2> DEFINE again == [i \in 1..(n + 1) |-> IF i = 1 THEN ss[i] ELSE Concat(next[i - 1], ss[i])]
  <2>5. \A i \in 1..(n + 1) : next[i] = again[i] BY <2>4
  <2>6. next = again BY <2>5
  <2>7. Eq(next, n + 1) BY <2>6
  <2> HIDE DEF Eq, next
  <2> QED BY <2>7
<1>3. Len(ss) \in Good
  <2> HIDE DEF Good
  <2> QED BY <1>1, <1>2, InductionOnSet
<1> QED BY <1>3 DEF Flattens

\* One step of the recursion.
LEMMA FlattensAt ==
  ASSUME NEW X, NEW ss \in Seq(X), NEW fl, Flattens(fl, ss), NEW i \in 1..Len(ss)
  PROVE  fl[i] = IF i = 1 THEN ss[1] ELSE Concat(fl[i - 1], ss[i])
<1> DEFINE body(j) == IF j = 1 THEN ss[j] ELSE Concat(fl[j - 1], ss[j])
<1>1. fl = [j \in 1..Len(ss) |-> body(j)] BY DEF Flattens
<1> HIDE DEF body
<1>2. fl[i] = body(i) BY <1>1
<1> QED BY <1>2 DEF body

\* What FlattenSeq gives for the first n members.
Same(f, g, n) == \A i \in 1..n : f[i] = g[i]

\* Only the sequences up to a place decide about the value there.
LEMMA FlattensUnique ==
  ASSUME NEW X, NEW ss \in Seq(X), NEW fl, Flattens(fl, ss),
         NEW tt \in Seq(X), NEW gl, Flattens(gl, tt),
         NEW n \in Nat, n <= Len(ss), n <= Len(tt), Same(ss, tt, n)
  PROVE  Same(fl, gl, n)
<1> USE DEF Same
<1> DEFINE Good == {m \in Nat : m + 1 <= n => fl[m + 1] = gl[m + 1]}
<1>1. 0 \in Good
  <2>1. SUFFICES ASSUME 1 <= n PROVE fl[1] = gl[1]
    OBVIOUS
  <2>2. fl[1] = ss[1] /\ gl[1] = tt[1] BY <2>1, FlattensAt
  <2> QED BY <2>1, <2>2
<1>2. ASSUME NEW m \in Nat, m \in Good PROVE m + 1 \in Good
  <2>1. SUFFICES ASSUME (m + 1) + 1 <= n PROVE fl[(m + 1) + 1] = gl[(m + 1) + 1]
    OBVIOUS
  <2>2. ((m + 1) + 1) - 1 = m + 1 /\ (m + 1) + 1 # 1 OBVIOUS
  <2>3. fl[(m + 1) + 1] = Concat(fl[m + 1], ss[(m + 1) + 1]) BY <2>1, <2>2, FlattensAt
  <2>4. gl[(m + 1) + 1] = Concat(gl[m + 1], tt[(m + 1) + 1]) BY <2>1, <2>2, FlattensAt
  <2> QED BY <1>2, <2>1, <2>3, <2>4
<1>3. \A m \in Nat : m \in Good
  <2> HIDE DEF Good
  <2> QED BY <1>1, <1>2, InductionOnSet
<1> QED
  <2>1. SUFFICES ASSUME NEW i \in 1..n PROVE fl[i] = gl[i]
    OBVIOUS
  <2>2. i - 1 \in Nat /\ (i - 1) + 1 = i OBVIOUS
  <2> QED BY <1>3, <2>2

\* FlattenSeq is taken from that function.
LEMMA FlattenDef ==
  ASSUME NEW X, NEW ss \in Seq(X)
  PROVE  \E fl : Flattens(fl, ss) /\ FlattenSeq(ss) = IF ss = <<>> THEN <<>> ELSE fl[Len(ss)]
<1> DEFINE fl == CHOOSE fl : Flattens(fl, ss)
<1>1. Flattens(fl, ss)
  BY FlattensExist
<1>2. FlattenSeq(ss) = IF Len(ss) = 0 THEN ss ELSE fl[Len(ss)]
  BY Zenon DEF FlattenSeq, Flattens, Concat
<1>3. Len(ss) = 0 <=> ss = <<>> OBVIOUS
<1> HIDE DEF fl
<1> QED BY <1>1, <1>2, <1>3

\* Nothing to put one behind the other.
LEMMA FlattenEmpty == FlattenSeq(<<>>) = <<>>
  BY DEF FlattenSeq

\* One sequence more comes to the end.
LEMMA FlattenAppend ==
  ASSUME NEW X, NEW ss \in Seq(Seq(X)), NEW s \in Seq(X)
  PROVE  FlattenSeq(Append(ss, s)) = FlattenSeq(ss) \o s
<1> DEFINE Y == Seq(X)
<1> HIDE DEF Y
<1>0. ss \in Seq(Y) /\ s \in Y BY DEF Y
<1>1. PICK fl : Flattens(fl, ss) /\ FlattenSeq(ss) = IF ss = <<>> THEN <<>> ELSE fl[Len(ss)]
  BY <1>0, FlattenDef
<1>2. PICK n \in Nat : n = Len(ss)
  BY <1>0, LenProperties
<1>3. PICK tt \in Seq(Y) : tt = Append(ss, s)
  BY <1>0, AppendProperties
<1>4. tt # <<>> /\ Len(tt) = n + 1 /\ tt[n + 1] = s /\ \A i \in 1..n : ss[i] = tt[i]
  <2>1. /\ Append(ss, s) # <<>> /\ Len(Append(ss, s)) = Len(ss) + 1 /\ Append(ss, s)[Len(ss) + 1] = s
        /\ \A i \in 1..Len(ss) : Append(ss, s)[i] = ss[i]
    BY <1>0, AppendProperties
  <2> QED BY <1>2, <1>3, <2>1
<1>5. PICK gl : Flattens(gl, tt) /\ FlattenSeq(tt) = gl[n + 1]
  BY <1>4, FlattenDef
<1>6. Same(fl, gl, n)
  <2>1. n \in Nat /\ n <= Len(ss) /\ n <= Len(tt) BY <1>2, <1>4
  <2>2. Same(ss, tt, n) BY <1>4 DEF Same
  <2> QED BY Zenon, <1>0, <1>1, <1>5, <2>1, <2>2, FlattensUnique
<1>7. n + 1 \in 1..Len(tt)
  BY <1>4
<1>8. gl[n + 1] = IF n + 1 = 1 THEN tt[1] ELSE Concat(gl[(n + 1) - 1], tt[n + 1])
  BY <1>5, <1>7, FlattensAt
<1>9. CASE n = 0
  <2>1. ss = <<>> BY <1>2, <1>9, <1>0, EmptySeq
  <2>2. FlattenSeq(tt) = s BY <1>4, <1>5, <1>8, <1>9
  <2>3. <<>> \o s = s BY ConcatEmptySeq
  <2> QED BY <1>1, <1>3, <2>1, <2>2, <2>3
<1>10. CASE n # 0
  <2>1. (n + 1) - 1 = n /\ n \in 1..n /\ n + 1 # 1 BY <1>10
  <2>2. gl[n + 1] = Concat(fl[n], s) BY <1>4, <1>6, <1>8, <2>1 DEF Same
  <2>3. ss # <<>> BY <1>2, <1>10
  <2> QED BY <1>1, <1>2, <1>3, <1>5, <2>2, <2>3 DEF Concat
<1> QED BY <1>9, <1>10

\* The parts of a concatenation may be put together in any order.
LEMMA Associative ==
  ASSUME NEW X, NEW s \in Seq(X), NEW t \in Seq(X), NEW u \in Seq(X)
  PROVE  (s \o t) \o u = s \o (t \o u)
  BY ConcatAssociative

\* A sequence that is not empty has a last element.
LEMMA SplitLast ==
  ASSUME NEW Y, NEW tt \in Seq(Y), Len(tt) # 0
  PROVE  \E uu \in Seq(Y), last \in Y : tt = Append(uu, last)
<1>1. tt # <<>> BY EmptySeq
<1> QED BY <1>1, SequenceEmptyOrAppend

\* The elements stay in their set.
LEMMA FlattenType ==
  ASSUME NEW X, NEW ss \in Seq(Seq(X)) PROVE FlattenSeq(ss) \in Seq(X)
<1> DEFINE Good == {n \in Nat : \A tt \in Seq(Seq(X)) : Len(tt) = n => FlattenSeq(tt) \in Seq(X)}
<1>1. 0 \in Good
  <2>1. SUFFICES ASSUME NEW tt \in Seq(Seq(X)), Len(tt) = 0 PROVE FlattenSeq(tt) \in Seq(X)
    OBVIOUS
  <2>2. tt = <<>> /\ <<>> \in Seq(X) BY <2>1, EmptySeq
  <2> QED BY <2>2, FlattenEmpty
<1>2. ASSUME NEW n \in Nat, n \in Good PROVE n + 1 \in Good
  <2>1. SUFFICES ASSUME NEW tt \in Seq(Seq(X)), Len(tt) = n + 1 PROVE FlattenSeq(tt) \in Seq(X)
    OBVIOUS
  <2>2. PICK uu \in Seq(Seq(X)), last \in Seq(X) : tt = Append(uu, last)
    <3>1. Len(tt) # 0 BY <2>1
    <3> QED BY Zenon, <3>1, SplitLast
  <2>3. Len(uu) = n BY <2>1, <2>2, AppendProperties, LenProperties
  <2>4. FlattenSeq(tt) = FlattenSeq(uu) \o last /\ FlattenSeq(uu) \in Seq(X)
    BY <1>2, <2>2, <2>3, FlattenAppend
  <2> QED BY <2>2, <2>4, ConcatProperties
<1>3. Len(ss) \in Good
  <2> HIDE DEF Good
  <2> QED BY <1>1, <1>2, InductionOnSet, LenProperties
<1> QED BY <1>3

\* The first sequence is split off.
LEMMA FlattenTail ==
  ASSUME NEW X, NEW ss \in Seq(Seq(X)), ss # <<>>
  PROVE  FlattenSeq(ss) = Head(ss) \o FlattenSeq(Tail(ss))
<1> DEFINE Split(tt) == FlattenSeq(tt) = Head(tt) \o FlattenSeq(Tail(tt))
           Good == {n \in Nat : \A tt \in Seq(Seq(X)) : Len(tt) = n + 1 => Split(tt)}
<1>1. 0 \in Good
  <2>1. SUFFICES ASSUME NEW tt \in Seq(Seq(X)), Len(tt) = 1 PROVE Split(tt)
    OBVIOUS
  <2>2. PICK uu \in Seq(Seq(X)), last \in Seq(X) : tt = Append(uu, last)
    <3>1. Len(tt) # 0 BY <2>1
    <3> QED BY Zenon, <3>1, SplitLast
  <2>3. uu = <<>> BY <2>1, <2>2, AppendProperties, LenProperties, EmptySeq
  <2>4. Head(tt) = last /\ Tail(tt) = <<>> BY <2>2, <2>3, HeadTailAppend
  <2>5. FlattenSeq(tt) = <<>> \o last BY <2>2, <2>3, FlattenAppend, FlattenEmpty
  <2>6. <<>> \o last = last /\ last \o <<>> = last BY ConcatEmptySeq
  <2> QED BY <2>4, <2>5, <2>6, FlattenEmpty
<1>2. ASSUME NEW n \in Nat, n \in Good PROVE n + 1 \in Good
  <2>1. SUFFICES ASSUME NEW tt \in Seq(Seq(X)), Len(tt) = (n + 1) + 1 PROVE Split(tt)
    OBVIOUS
  <2>2. PICK uu \in Seq(Seq(X)), last \in Seq(X) : tt = Append(uu, last)
    <3>1. Len(tt) # 0 BY <2>1
    <3> QED BY Zenon, <3>1, SplitLast
  <2>3. Len(uu) = n + 1 BY <2>1, <2>2, AppendProperties, LenProperties
  <2>4. uu # <<>> /\ Head(uu) \in Seq(X) /\ Tail(uu) \in Seq(Seq(X))
    BY <2>3, EmptySeq, HeadTailProperties
  <2>5. Head(tt) = Head(uu) /\ Tail(tt) = Append(Tail(uu), last) BY <2>2, <2>4, HeadTailAppend
  <2>6. FlattenSeq(tt) = FlattenSeq(uu) \o last BY <2>2, FlattenAppend
  <2>7. Split(uu) BY <1>2, <2>3
  <2>8. FlattenSeq(Tail(tt)) = FlattenSeq(Tail(uu)) \o last BY <2>4, <2>5, FlattenAppend
  <2>9. FlattenSeq(Tail(uu)) \in Seq(X) BY <2>4, FlattenType
  <2>10. (Head(uu) \o FlattenSeq(Tail(uu))) \o last = Head(uu) \o (FlattenSeq(Tail(uu)) \o last)
    <3>1. PICK a \in Seq(X) : a = Head(uu) BY <2>4
    <3>2. PICK b \in Seq(X) : b = FlattenSeq(Tail(uu)) BY <2>9
    <3>3. a \in Seq(X) /\ b \in Seq(X) /\ last \in Seq(X) OBVIOUS
    <3>4. (a \o b) \o last = a \o (b \o last) BY ONLY <3>3
    <3> QED BY <3>1, <3>2, <3>4
  <2> QED BY <2>5, <2>6, <2>7, <2>8, <2>10
<1>3. Len(ss) - 1 \in Good
  <2> HIDE DEF Good
  <2>1. Len(ss) - 1 \in Nat BY EmptySeq, LenProperties
  <2> QED BY <1>1, <1>2, <2>1, InductionOnSet
<1>4. (Len(ss) - 1) + 1 = Len(ss) BY LenProperties
<1> QED BY <1>3, <1>4
-----------------------------------------------------------------------------
(* How often a value occurs in a sequence.                                  *)

Marks(s, x) == [i \in 1..Len(s) |-> IF s[i] = x THEN 1 ELSE 0]
Times(s, x) == SumOn(Marks(s, x), 1..Len(s))

\* It is a number, and 0 only for a value that does not occur.
LEMMA TimesType ==
  ASSUME NEW X, NEW s \in Seq(X), NEW x
  PROVE  /\ Times(s, x) \in Nat
         /\ Times(s, x) > 0 <=> \E i \in 1..Len(s) : s[i] = x
<1>1. PICK S, g : S = 1..Len(s) /\ g = Marks(s, x)
  OBVIOUS
<1>2. IsFiniteSet(S) /\ \A i \in S : g[i] \in Nat
  BY <1>1, LenProperties, FS_Interval DEF Marks
<1>3. SumOn(g, S) \in Nat /\ \A i \in S : g[i] <= SumOn(g, S)
  BY <1>2, SumOnNat
<1>4. ASSUME NEW i \in S, s[i] = x PROVE SumOn(g, S) > 0
  <2>1. g[i] = 1 BY <1>1, <1>4 DEF Marks
  <2> QED BY <1>3, <2>1
<1>5. ASSUME \A i \in S : s[i] # x PROVE SumOn(g, S) = 0
  <2>1. \A i \in S : g[i] = 0 BY <1>1, <1>5 DEF Marks
  <2>2. SumOn(g, S) = SumOn(g, {}) BY <1>2, <2>1, SumOnZeros
  <2> QED BY <2>2, SumOnEmpty
<1>6. SumOn(g, S) = Times(s, x)
  BY <1>1 DEF Times
<1> QED BY <1>1, <1>3, <1>4, <1>5, <1>6

\* Nothing occurs in the empty sequence.
LEMMA TimesEmpty == \A x : Times(<<>>, x) = 0
<1>1. 1..Len(<<>>) = {} OBVIOUS
<1> QED BY <1>1, SumOnEmpty DEF Times

\* One element more.
LEMMA TimesAppend ==
  ASSUME NEW X, NEW s \in Seq(X), NEW e \in X, NEW x
  PROVE  Times(Append(s, e), x) = Times(s, x) + (IF e = x THEN 1 ELSE 0)
<1>1. PICK n \in Nat : n = Len(s)
  BY LenProperties
<1>2. PICK t : t = Append(s, e)
  OBVIOUS
<1>3. Len(t) = n + 1 /\ t[n + 1] = e /\ \A i \in 1..n : t[i] = s[i]
  BY <1>1, <1>2, AppendProperties
<1>4. PICK g, h : g = Marks(s, x) /\ h = Marks(t, x)
  OBVIOUS
<1>5. \A i \in 1..(n + 1) : h[i] \in Int
  BY <1>3, <1>4 DEF Marks
<1>6. h[n + 1] = (IF e = x THEN 1 ELSE 0) /\ \A i \in 1..n : h[i] = g[i]
  BY <1>1, <1>3, <1>4 DEF Marks
<1>7. SumOn(h, 1..(n + 1)) = SumOn(h, 1..n) + h[n + 1]
  BY <1>5, SumOnInterval
<1>8. SumOn(h, 1..n) = SumOn(g, 1..n)
  <2>1. PICK S : S = 1..n
    OBVIOUS
  <2>2. IsFiniteSet(S) /\ \A i \in S : h[i] = g[i]
    BY <1>6, <2>1, FS_Interval
  <2> QED BY <2>1, <2>2, SumOnSame
<1> QED BY <1>1, <1>2, <1>3, <1>4, <1>6, <1>7, <1>8 DEF Times

\* A value that occurs once at most is at one place.
LEMMA TimesOnce ==
  ASSUME NEW X, NEW s \in Seq(X), \A x \in X : Times(s, x) <= 1
  PROVE  \A i, j \in 1..Len(s) : s[i] = s[j] => i = j
<1>1. SUFFICES ASSUME NEW i \in 1..Len(s), NEW j \in 1..Len(s), s[i] = s[j], i # j PROVE FALSE
  OBVIOUS
<1>2. s[i] \in X
  BY ElementOfSeq
<1>3. PICK S, g, p, q : S = 1..Len(s) /\ g = Marks(s, s[i]) /\ p = i /\ q = j
  OBVIOUS
<1>4. IsFiniteSet(S) /\ p \in S /\ q \in S \ {p} /\ \A k \in S : g[k] \in Nat
  BY <1>1, <1>3, LenProperties, FS_Interval DEF Marks
<1>5. g[p] = 1 /\ g[q] = 1
  BY <1>1, <1>3 DEF Marks
<1>6. SumOn(g, S) = g[p] + SumOn(g, S \ {p})
  <2>1. \A k \in S : g[k] \in Int BY <1>4
  <2> QED BY <1>4, <2>1, SumOnSplit
<1>7. g[q] <= SumOn(g, S \ {p}) /\ SumOn(g, S \ {p}) \in Nat
  <2>1. IsFiniteSet(S \ {p}) BY <1>4, FS_Subset
  <2>2. \A k \in S \ {p} : g[k] \in Nat BY <1>4
  <2> QED BY <1>4, <2>1, <2>2, SumOnNat
<1>8. SumOn(g, S) <= 1
  BY <1>2, <1>3 DEF Times
<1> QED BY <1>5, <1>6, <1>7, <1>8

\* A sequence without repetitions has each value once at most.
LEMMA TimesOfInjective ==
  ASSUME NEW X, NEW s \in Seq(X), \A i, j \in 1..Len(s) : s[i] = s[j] => i = j, NEW x
  PROVE  Times(s, x) <= 1
<1>1. PICK S, g : S = 1..Len(s) /\ g = Marks(s, x)
  OBVIOUS
<1>2. IsFiniteSet(S) /\ \A i \in S : g[i] = IF s[i] = x THEN 1 ELSE 0
  BY <1>1, LenProperties, FS_Interval DEF Marks
<1>3. \A i \in S : g[i] \in Int
  BY <1>2
<1>4. ASSUME NEW i \in S, s[i] = x PROVE SumOn(g, S) = 1
  <2>1. \A j \in S \ {i} : g[j] = 0 BY <1>1, <1>2, <1>4
  <2>2. SumOn(g, S) = SumOn(g, {i}) BY <1>2, <1>3, <2>1, SumOnZeros
  <2>3. IsFiniteSet({i}) /\ i \in {i} /\ {i} \ {i} = {} BY FS_Singleton
  <2>4. SumOn(g, {i}) = g[i] + SumOn(g, {i} \ {i}) BY <1>3, <2>3, SumOnSplit
  <2>5. SumOn(g, {i} \ {i}) = 0 BY <2>3, SumOnEmpty
  <2>6. g[i] = 1 BY <1>2, <1>4
  <2> QED BY <2>2, <2>4, <2>5, <2>6
<1>5. ASSUME \A i \in S : s[i] # x PROVE SumOn(g, S) = 0
  <2>1. \A i \in S : g[i] = 0 BY <1>2, <1>5
  <2>2. SumOn(g, S) = SumOn(g, {}) BY <1>2, <2>1, SumOnZeros
  <2> QED BY <2>2, SumOnEmpty
<1> QED BY <1>1, <1>4, <1>5 DEF Times

\* An element behind two sequences is behind the second.
LEMMA AppendConcat ==
  ASSUME NEW X, NEW s \in Seq(X), NEW t \in Seq(X), NEW e \in X
  PROVE  s \o Append(t, e) = Append(s \o t, e)
<1>1. <<e>> \in Seq(X)
  OBVIOUS
<1>2. Append(t, e) = t \o <<e>> /\ s \o t \in Seq(X) /\ Append(s \o t, e) = (s \o t) \o <<e>>
  BY ConcatProperties, AppendIsConcat
<1> QED BY <1>1, <1>2, Associative

\* Two sequences together.
LEMMA TimesConcat ==
  ASSUME NEW X, NEW s \in Seq(X), NEW t \in Seq(X), NEW x
  PROVE  Times(s \o t, x) = Times(s, x) + Times(t, x)
<1> DEFINE Good == {n \in Nat : \A u \in Seq(X) : Len(u) = n => Times(s \o u, x) = Times(s, x) + Times(u, x)}
<1>0. Times(s, x) \in Nat
  BY TimesType
<1>1. 0 \in Good
  <2>1. SUFFICES ASSUME NEW u \in Seq(X), Len(u) = 0 PROVE Times(s \o u, x) = Times(s, x) + Times(u, x)
    OBVIOUS
  <2>2. u = <<>> /\ s \o u = s BY <2>1, EmptySeq, ConcatEmptySeq
  <2> QED BY <1>0, <2>2, TimesEmpty
<1>2. ASSUME NEW n \in Nat, n \in Good PROVE n + 1 \in Good
  <2>1. SUFFICES ASSUME NEW u \in Seq(X), Len(u) = n + 1 PROVE Times(s \o u, x) = Times(s, x) + Times(u, x)
    OBVIOUS
  <2>2. PICK v \in Seq(X), e \in X : u = Append(v, e)
    <3>1. Len(u) # 0 BY <2>1
    <3> QED BY Zenon, <3>1, SplitLast
  <2>3. Len(v) = n BY <2>1, <2>2, AppendProperties, LenProperties
  <2>4. Times(s \o v, x) = Times(s, x) + Times(v, x) BY <1>2, <2>3
  <2>5. s \o u = Append(s \o v, e) BY <2>2, AppendConcat
  <2>6. s \o v \in Seq(X) BY ConcatProperties
  <2>7. Times(s \o u, x) = Times(s \o v, x) + (IF e = x THEN 1 ELSE 0)
    <3>1. PICK z \in Seq(X) : z = s \o v BY <2>6
    <3>2. Times(Append(z, e), x) = Times(z, x) + (IF e = x THEN 1 ELSE 0) BY TimesAppend
    <3> QED BY <2>5, <3>1, <3>2
  <2>8. Times(u, x) = Times(v, x) + (IF e = x THEN 1 ELSE 0) BY <2>2, TimesAppend
  <2>9. Times(v, x) \in Nat BY TimesType
  <2> QED BY <1>0, <2>4, <2>7, <2>8, <2>9
<1>3. Len(t) \in Good
  <2> HIDE DEF Good
  <2> QED BY <1>1, <1>2, InductionOnSet, LenProperties
<1> QED BY <1>3

\* The last element is the first of the reversed sequence.
LEMMA ReverseAppend ==
  ASSUME NEW X, NEW s \in Seq(X), NEW e \in X
  PROVE  Reverse(Append(s, e)) = <<e>> \o Reverse(s) /\ Reverse(s) \in Seq(X)
<1>1. PICK n \in Nat : n = Len(s)
  BY LenProperties
<1>2. PICK t : t = Append(s, e)
  OBVIOUS
<1>3. Len(t) = n + 1 /\ t[n + 1] = e /\ \A i \in 1..n : t[i] = s[i] /\ s[i] \in X
  BY <1>1, <1>2, AppendProperties, ElementOfSeq
<1>4. PICK r : r = Reverse(s)
  OBVIOUS
<1>5. r \in Seq(X) /\ Len(r) = n /\ \A i \in 1..n : r[i] = s[(n - i) + 1]
  <2>1. r = [i \in 1..n |-> s[(n - i) + 1]]
    BY <1>1, <1>4 DEF Reverse
  <2>2. \A i \in 1..n : (n - i) + 1 \in 1..n
    OBVIOUS
  <2>3. \A i \in 1..n : s[(n - i) + 1] \in X
    BY <1>3, <2>2
  <2> QED BY <2>1, <2>3
<1>6. Reverse(t) = [i \in 1..(n + 1) |-> t[((n + 1) - i) + 1]]
  BY <1>3 DEF Reverse
<1>7. <<e>> \o r = [i \in 1..(n + 1) |-> IF i <= 1 THEN e ELSE r[i - 1]]
  BY <1>5
<1>8. ASSUME NEW i \in 1..(n + 1) PROVE t[((n + 1) - i) + 1] = IF i <= 1 THEN e ELSE r[i - 1]
  <2>1. CASE i <= 1
    <3>1. i = 1 /\ ((n + 1) - i) + 1 = n + 1 BY <2>1
    <3> QED BY <1>3, <3>1
  <2>2. CASE ~(i <= 1)
    <3>1. i - 1 \in 1..n /\ (n - (i - 1)) + 1 = ((n + 1) - i) + 1 /\ ((n + 1) - i) + 1 \in 1..n BY <2>2
    <3> QED BY <1>3, <1>5, <2>2, <3>1
  <2> QED BY <2>1, <2>2
<1> QED BY <1>2, <1>4, <1>5, <1>6, <1>7, <1>8

\* The order of a sequence does not count.
LEMMA TimesReverse ==
  ASSUME NEW X, NEW s \in Seq(X), NEW x
  PROVE  Reverse(s) \in Seq(X) /\ Times(Reverse(s), x) = Times(s, x)
<1> DEFINE Right(u) == Reverse(u) \in Seq(X) /\ Times(Reverse(u), x) = Times(u, x)
           Good == {n \in Nat : \A u \in Seq(X) : Len(u) = n => Right(u)}
<1>1. 0 \in Good
  <2>1. SUFFICES ASSUME NEW u \in Seq(X), Len(u) = 0 PROVE Right(u)
    OBVIOUS
  <2>2. u = <<>> /\ <<>> \in Seq(X) BY <2>1, EmptySeq
  <2>3. Reverse(<<>>) = <<>> BY DEF Reverse
  <2> QED BY <2>2, <2>3
<1>2. ASSUME NEW n \in Nat, n \in Good PROVE n + 1 \in Good
  <2>1. SUFFICES ASSUME NEW u \in Seq(X), Len(u) = n + 1 PROVE Right(u)
    OBVIOUS
  <2>2. PICK v \in Seq(X), e \in X : u = Append(v, e)
    <3>1. Len(u) # 0 BY <2>1
    <3> QED BY Zenon, <3>1, SplitLast
  <2>3. Len(v) = n BY <2>1, <2>2, AppendProperties, LenProperties
  <2>4. Right(v) BY <1>2, <2>3
  <2>5. Reverse(u) = <<e>> \o Reverse(v) BY <2>2, ReverseAppend
  <2>6. <<e>> \in Seq(X) OBVIOUS
  <2>7. PICK z \in Seq(X) : z = <<>> /\ <<e>> = Append(z, e)
    <3>1. <<>> \in Seq(X) BY EmptySeq
    <3>2. <<e>> = Append(<<>>, e) OBVIOUS
    <3> QED BY <3>1, <3>2
  <2>8. Times(<<e>>, x) = IF e = x THEN 1 ELSE 0
    <3>1. Times(Append(z, e), x) = Times(z, x) + (IF e = x THEN 1 ELSE 0) BY TimesAppend
    <3>2. Times(z, x) = 0 BY <2>7, TimesEmpty
    <3> QED BY <2>7, <3>1, <3>2
  <2>9. Reverse(u) \in Seq(X) BY <2>4, <2>5, <2>6, ConcatProperties
  <2>10. Times(Reverse(u), x) = Times(<<e>>, x) + Times(Reverse(v), x)
    <3>1. PICK y \in Seq(X), r \in Seq(X) : y = <<e>> /\ r = Reverse(v) BY <2>4, <2>6
    <3>2. Times(y \o r, x) = Times(y, x) + Times(r, x) BY TimesConcat
    <3> QED BY <2>5, <3>1, <3>2
  <2>11. Times(u, x) = Times(v, x) + (IF e = x THEN 1 ELSE 0) /\ Times(v, x) \in Nat BY <2>2, TimesAppend, TimesType
  <2> QED BY <2>4, <2>8, <2>9, <2>10, <2>11
<1>3. Len(s) \in Good
  <2> HIDE DEF Good
  <2> QED BY <1>1, <1>2, InductionOnSet, LenProperties
<1> QED BY <1>3

\* A value occurs in a flattened sequence as often as in its members together.
TimesIn(ss, x) == [i \in 1..Len(ss) |-> Times(ss[i], x)]

\* The proof is an induction over the number of the sequences.
LEMMA TimesFlatten ==
  ASSUME NEW X, NEW ss \in Seq(Seq(X)), NEW x
  PROVE  Times(FlattenSeq(ss), x) = SumOn(TimesIn(ss, x), 1..Len(ss))
<1> DEFINE Right(tt) == Times(FlattenSeq(tt), x) = SumOn(TimesIn(tt, x), 1..Len(tt))
           Good == {n \in Nat : \A tt \in Seq(Seq(X)) : Len(tt) = n => Right(tt)}
<1>1. 0 \in Good
  <2>1. SUFFICES ASSUME NEW tt \in Seq(Seq(X)), Len(tt) = 0 PROVE Right(tt)
    OBVIOUS
  <2>2. tt = <<>> /\ 1..Len(tt) = {} BY <2>1, EmptySeq
  <2> QED BY <2>2, FlattenEmpty, TimesEmpty, SumOnEmpty
<1>2. ASSUME NEW n \in Nat, n \in Good PROVE n + 1 \in Good
  <2>1. SUFFICES ASSUME NEW tt \in Seq(Seq(X)), Len(tt) = n + 1 PROVE Right(tt)
    OBVIOUS
  <2>2. PICK uu \in Seq(Seq(X)), last \in Seq(X) : tt = Append(uu, last)
    <3>1. Len(tt) # 0 BY <2>1
    <3> QED BY Zenon, <3>1, SplitLast
  <2>3. Len(uu) = n /\ tt[n + 1] = last /\ \A i \in 1..n : tt[i] = uu[i]
    BY <2>1, <2>2, AppendProperties, LenProperties
  <2>4. Right(uu) BY <1>2, <2>3
  <2>5. FlattenSeq(tt) = FlattenSeq(uu) \o last /\ FlattenSeq(uu) \in Seq(X) BY <2>2, FlattenAppend, FlattenType
  <2>6. Times(FlattenSeq(tt), x) = Times(FlattenSeq(uu), x) + Times(last, x) BY <2>5, TimesConcat
  <2>7. PICK g, h : g = TimesIn(uu, x) /\ h = TimesIn(tt, x) OBVIOUS
  <2>8. \A i \in 1..(n + 1) : h[i] \in Int
    <3>1. \A i \in 1..(n + 1) : tt[i] \in Seq(X) BY <2>1, ElementOfSeq
    <3> QED BY <2>1, <2>7, <3>1, TimesType DEF TimesIn
  <2>9. h[n + 1] = Times(last, x) /\ \A i \in 1..n : h[i] = g[i] BY <2>1, <2>3, <2>7 DEF TimesIn
  <2>10. SumOn(h, 1..(n + 1)) = SumOn(h, 1..n) + h[n + 1] BY <2>8, SumOnInterval
  <2>11. SumOn(h, 1..n) = SumOn(g, 1..n)
    <3>1. PICK S : S = 1..n OBVIOUS
    <3>2. IsFiniteSet(S) /\ \A i \in S : h[i] = g[i] BY <2>9, <3>1, FS_Interval
    <3> QED BY <3>1, <3>2, SumOnSame
  <2> QED BY <2>1, <2>3, <2>4, <2>6, <2>7, <2>9, <2>10, <2>11
<1>3. Len(ss) \in Good
  <2> HIDE DEF Good
  <2> QED BY <1>1, <1>2, InductionOnSet, LenProperties
<1> QED BY <1>3

\* One member is exchanged.
LEMMA TimesFlattenChange ==
  ASSUME NEW X, NEW ss \in Seq(Seq(X)), NEW w \in 1..Len(ss), NEW b \in Seq(X),
         NEW tt \in Seq(Seq(X)), Len(tt) = Len(ss), tt[w] = b,
         \A i \in (1..Len(ss)) \ {w} : tt[i] = ss[i], NEW x
  PROVE  Times(FlattenSeq(tt), x) = Times(FlattenSeq(ss), x) - Times(ss[w], x) + Times(b, x)
<1> DEFINE S == 1..Len(ss)
           g == TimesIn(ss, x)
           h == TimesIn(tt, x)
<1>1. \A i \in S : g[i] = Times(ss[i], x) /\ h[i] = Times(tt[i], x)
  BY DEF TimesIn
<1>2. \A i \in S : ss[i] \in Seq(X) /\ tt[i] \in Seq(X)
  BY ElementOfSeq
<1>3. \A i \in S : g[i] \in Int /\ h[i] \in Int
  <2> SUFFICES ASSUME NEW i \in S PROVE g[i] \in Int /\ h[i] \in Int
    OBVIOUS
  <2>1. Times(ss[i], x) \in Nat /\ Times(tt[i], x) \in Nat
    BY <1>2, TimesType
  <2> QED BY <1>1, <2>1
<1>4. \A i \in S \ {w} : h[i] = g[i]
  BY <1>1
<1>5. IsFiniteSet(S) /\ w \in S /\ IsFiniteSet(S \ {w})
  <2>1. Len(ss) \in Nat BY LenProperties
  <2>2. IsFiniteSet(S) BY <2>1, FS_Interval
  <2> QED BY <2>2, FS_Subset
<1>6. Times(FlattenSeq(ss), x) = SumOn(g, S) /\ Times(FlattenSeq(tt), x) = SumOn(h, S)
  BY TimesFlatten
<1>7. g[w] = Times(ss[w], x) /\ h[w] = Times(b, x)
  BY <1>1
<1> HIDE DEF S, g, h
<1>8. SumOn(g, S) = g[w] + SumOn(g, S \ {w}) /\ SumOn(h, S) = h[w] + SumOn(h, S \ {w})
  <2>1. (\A i \in S : g[i] \in Int) /\ \A i \in S : h[i] \in Int BY <1>3
  <2> QED BY Zenon, <1>5, <2>1, SumOnSplit
<1>9. SumOn(h, S \ {w}) = SumOn(g, S \ {w})
  BY Zenon, <1>4, <1>5, SumOnSame
<1>10. SumOn(g, S \ {w}) \in Int
  <2>1. \A i \in S \ {w} : g[i] \in Int BY <1>3
  <2> QED BY Zenon, <1>5, <2>1, SumOnSplit
<1>11. g[w] \in Int /\ h[w] \in Int
  BY Zenon, <1>3, <1>5
<1>12. SumOn(h, S) = SumOn(g, S) - g[w] + h[w]
  BY ONLY <1>8, <1>9, <1>10, <1>11
<1> QED BY Zenon, <1>6, <1>7, <1>12

\* No member has more of a value than all together.
LEMMA TimesMember ==
  ASSUME NEW X, NEW ss \in Seq(Seq(X)), NEW w \in 1..Len(ss), NEW x
  PROVE  Times(ss[w], x) <= Times(FlattenSeq(ss), x)
<1>1. PICK S, g, v : S = 1..Len(ss) /\ g = TimesIn(ss, x) /\ v = w
  OBVIOUS
<1>2. IsFiniteSet(S) /\ v \in S
  BY <1>1, LenProperties, FS_Interval
<1>3. \A i \in S : g[i] \in Nat
  <2>1. \A i \in 1..Len(ss) : ss[i] \in Seq(X) BY ElementOfSeq
  <2> QED BY <1>1, <2>1, TimesType DEF TimesIn
<1>4. g[v] <= SumOn(g, S)
  BY ONLY <1>2, <1>3, SumOnNat
<1>5. g[v] = Times(ss[w], x)
  BY <1>1 DEF TimesIn
<1> QED BY <1>1, <1>4, <1>5, TimesFlatten
=============================================================================
