--------------------------- MODULE LruCacheProofs ---------------------------
(***************************************************************************)
(* Proofs about LruCache: until a deallocator throws, the usage list and    *)
(* the entries agree, evictions are in the order of use and no assertion    *)
(* fails; the cached size is the sum of the sizes always.                   *)
(***************************************************************************)
EXTENDS LruCache, FoldLemmas

Shapes ==
  /\ DOMAIN cacheData \subseteq Keys
  /\ cacheData \in [DOMAIN cacheData -> Entry]
  /\ usageTracker \in Seq(Keys)
  /\ call \in [op : {"none", "insert", "set_capacity"}, key : Keys \cup {NoKey}, size : Nat]
  /\ older \subseteq Keys \X Keys

\* The key of the call is the one insert() works on, and no key is older than itself:
\* without the second part the order of the list would not show that it has no key twice.
CallAndOrder ==
  /\ call.op = "insert" => call.key \in DOMAIN cacheData
  /\ call.op # "insert" => call.key = NoKey
  /\ \A k \in Keys : <<k, k>> \notin older

LruInv == ~thrown => Shapes /\ CallAndOrder /\ TrackerMatches

\* What is left of a sequence when the member at p is removed.
LEMMA RemoveAtParts ==
  ASSUME NEW s \in Seq(Keys), NEW p \in 1..Len(s), NEW t, t = RemoveAt(s, p)
  PROVE  /\ t \in Seq(Keys) /\ Len(t) = Len(s) - 1
         /\ \A i \in 1..(Len(s) - 1) : t[i] = IF i < p THEN s[i] ELSE s[i + 1]
<1> DEFINE n == Len(s)
<1>1. n \in Nat /\ DOMAIN s = 1..n /\ \A i \in 1..n : s[i] \in Keys
  OBVIOUS
<1>2. p \in 1..n
  OBVIOUS
<1>4. t = SubSeq(s, 1, p - 1) \o SubSeq(s, p + 1, n)
  BY DEF RemoveAt
<1>5. /\ t \in Seq(Keys) /\ Len(t) = n - 1
      /\ \A i \in 1..(n - 1) : t[i] = IF i < p THEN s[i] ELSE s[i + 1]
  <2>1. /\ SubSeq(s, 1, p - 1) \in Seq(Keys)
        /\ Len(SubSeq(s, 1, p - 1)) = p - 1
        /\ \A i \in 1..(p - 1) : SubSeq(s, 1, p - 1)[i] = s[i]
    BY <1>1, <1>2
  <2>2. /\ SubSeq(s, p + 1, n) \in Seq(Keys)
        /\ Len(SubSeq(s, p + 1, n)) = n - p
        /\ \A i \in 1..(n - (p + 1) + 1) : SubSeq(s, p + 1, n)[i] = s[(p + 1) + i - 1]
    <3>1. \A i \in (p + 1)..n : s[i] \in Keys
      BY <1>1, <1>2
    <3>2. /\ SubSeq(s, p + 1, n) \in Seq(Keys)
          /\ Len(SubSeq(s, p + 1, n)) = IF p + 1 <= n THEN n - (p + 1) + 1 ELSE 0
          /\ \A i \in 1..(n - (p + 1) + 1) : SubSeq(s, p + 1, n)[i] = s[(p + 1) + i - 1]
      BY <3>1, <1>1, <1>2, SubSeqProperties
    <3>3. (IF p + 1 <= n THEN n - (p + 1) + 1 ELSE 0) = n - p
      <4>1. n \in Nat /\ p \in 1..n
        BY <1>1, <1>2
      <4> HIDE DEF n
      <4> QED BY <4>1
    <3> QED BY <3>2, <3>3
  <2> DEFINE front == SubSeq(s, 1, p - 1)
             back  == SubSeq(s, p + 1, n)
  <2> HIDE DEF front, back
  <2>3. front \in Seq(Keys) /\ back \in Seq(Keys) /\ t = front \o back
    BY <2>1, <2>2, <1>4 DEF front, back
  <2>4. Len(front) = p - 1 /\ Len(back) = n - p
    BY <2>1, <2>2 DEF front, back
  <2>5. t \in Seq(Keys) /\ Len(t) = n - 1
    <3>1. t \in Seq(Keys) /\ Len(t) = Len(front) + Len(back)
      BY <2>3, ConcatProperties
    <3>2. (p - 1) + (n - p) = n - 1
      BY <1>1, <1>2
    <3> QED BY <3>1, <3>2, <2>4
  <2>6. ASSUME NEW i \in 1..(n - 1), i < p PROVE t[i] = s[i]
    <3>1. i \in 1..(p - 1) /\ t[i] = front[i]
      BY <2>3, <2>4, <2>6, <1>1, <1>2
    <3> QED BY <3>1, <2>1 DEF front
  <2>7. ASSUME NEW i \in 1..(n - 1), ~(i < p) PROVE t[i] = s[i + 1]
    <3> DEFINE h == i - (p - 1)
    <3>1. h \in 1..(n - (p + 1) + 1) /\ t[i] = back[h] /\ (p + 1) + h - 1 = i + 1
      BY <2>3, <2>4, <2>7, <1>1, <1>2
    <3> HIDE DEF h
    <3>2. back[h] = s[(p + 1) + h - 1]
      BY <3>1, <2>2 DEF back
    <3> QED BY <3>1, <3>2
  <2> QED BY <2>5, <2>6, <2>7
<1> QED BY <1>5

\* Removing the position of a key from the list removes that key and keeps the order.
LEMMA Unlink ==
  ASSUME NEW k \in Keys, LruInv, ~thrown, k \in DOMAIN cacheData, k # call.key,
         NEW t, t = RemoveAt(usageTracker, Position(k))
  PROVE  /\ t \in Seq(Keys)
         /\ \A j \in Keys : (\E i \in DOMAIN t : t[i] = j)
                              <=> j # k /\ \E i \in DOMAIN usageTracker : usageTracker[i] = j
         /\ \A i, j \in DOMAIN t : i < j => <<t[i], t[j]>> \in older
<1> DEFINE p == Position(k)
           n == Len(usageTracker)
<1>1. /\ usageTracker \in Seq(Keys) /\ n \in Nat /\ DOMAIN usageTracker = 1..n
      /\ \A i \in 1..n : usageTracker[i] \in Keys
  BY DEF LruInv, Shapes
<1>2. p \in 1..n /\ usageTracker[p] = k
  <2>1. \E i \in 1..n : usageTracker[i] = k
    BY <1>1 DEF LruInv, TrackerMatches
  <2> QED BY <2>1 DEF Position
<1>3. \A i \in 1..n : usageTracker[i] = k => i = p
  <2> SUFFICES ASSUME NEW i \in 1..n, usageTracker[i] = k, i # p PROVE FALSE
    OBVIOUS
  <2>1. i < p \/ p < i
    BY <1>1, <1>2
  <2>2. <<k, k>> \in older
    BY SMTT(20), <2>1, <1>1, <1>2 DEF LruInv, TrackerMatches
  <2> QED BY <2>2 DEF LruInv, CallAndOrder
<1> HIDE DEF p
<1>5. /\ t \in Seq(Keys) /\ Len(t) = n - 1
      /\ \A i \in 1..(n - 1) : t[i] = IF i < p THEN usageTracker[i] ELSE usageTracker[i + 1]
  BY <1>1, <1>2, RemoveAtParts DEF p
<1>6. DOMAIN t = 1..(n - 1)
  <2>1. t \in Seq(Keys) /\ Len(t) = n - 1
    BY <1>5
  <2> QED BY <2>1
<1>7. ASSUME NEW j \in Keys
      PROVE  (\E i \in DOMAIN t : t[i] = j) <=> j # k /\ \E i \in DOMAIN usageTracker : usageTracker[i] = j
  <2>1. ASSUME NEW i \in 1..(n - 1), t[i] = j
        PROVE  j # k /\ \E h \in 1..n : usageTracker[h] = j
    <3>1. CASE i < p
      BY <3>1, <2>1, <1>1, <1>2, <1>3, <1>5
    <3>2. CASE ~(i < p)
      <4>1. i + 1 \in 1..n /\ i + 1 # p /\ usageTracker[i + 1] = j
        BY <3>2, <2>1, <1>1, <1>2, <1>5
      <4> QED BY <4>1, <1>3
    <3> QED BY <3>1, <3>2
  <2>2. ASSUME NEW h \in 1..n, usageTracker[h] = j, j # k
        PROVE  \E i \in 1..(n - 1) : t[i] = j
    <3>1. CASE h < p
      <4>1. h \in 1..(n - 1) /\ t[h] = j
        BY <3>1, <2>2, <1>1, <1>2, <1>5
      <4> QED BY <4>1
    <3>2. CASE p < h
      <4>1. h - 1 \in 1..(n - 1) /\ ~(h - 1 < p) /\ (h - 1) + 1 = h
        BY <3>2, <1>1, <1>2
      <4>2. t[h - 1] = j
        BY <4>1, <2>2, <1>5
      <4> QED BY <4>1, <4>2
    <3>3. CASE h = p
      BY <3>3, <2>2, <1>2
    <3> QED BY <3>1, <3>2, <3>3, <1>1, <1>2
  <2> QED BY <2>1, <2>2, <1>1, <1>6
<1>8. ASSUME NEW i \in DOMAIN t, NEW j \in DOMAIN t, i < j
      PROVE  <<t[i], t[j]>> \in older
  <2>1. \A a, b \in 1..n : a < b => <<usageTracker[a], usageTracker[b]>> \in older
    BY <1>1 DEF LruInv, TrackerMatches
  <2>2. i \in 1..(n - 1) /\ j \in 1..(n - 1)
    BY <1>6, <1>8
  <2> DEFINE a == IF i < p THEN i ELSE i + 1
             b == IF j < p THEN j ELSE j + 1
  <2>3. a \in 1..n /\ b \in 1..n /\ a < b
    BY <2>2, <1>8, <1>1, <1>2
  <2>4. t[i] = usageTracker[a] /\ t[j] = usageTracker[b]
    BY <2>2, <1>5
  <2> QED BY <2>1, <2>3, <2>4
<1> QED BY <1>5, <1>7, <1>8

\* Appending the key used last to a list without it that is in order keeps it in order.
LEMMA LinkLast ==
  ASSUME NEW k \in Keys, NEW t \in Seq(Keys), LruInv, ~thrown,
         \A i \in DOMAIN t : t[i] # k,
         \A i, j \in DOMAIN t : i < j => <<t[i], t[j]>> \in older
  PROVE  /\ Append(t, k) \in Seq(Keys)
         /\ UsedLast(k) \subseteq Keys \X Keys
         /\ \A j \in Keys : <<j, j>> \notin UsedLast(k)
         /\ \A j \in Keys : (\E i \in DOMAIN Append(t, k) : Append(t, k)[i] = j)
                              <=> j = k \/ \E i \in DOMAIN t : t[i] = j
         /\ \A i, j \in DOMAIN Append(t, k) :
              i < j => <<Append(t, k)[i], Append(t, k)[j]>> \in UsedLast(k)
<1> DEFINE u == Append(t, k)
           n == Len(t)
<1>1. /\ n \in Nat /\ DOMAIN t = 1..n /\ DOMAIN u = 1..(n + 1) /\ u \in Seq(Keys)
      /\ \A i \in 1..n : u[i] = t[i] /\ t[i] \in Keys
      /\ u[n + 1] = k
  OBVIOUS
<1>2. UsedLast(k) \subseteq Keys \X Keys /\ \A j \in Keys : <<j, j>> \notin UsedLast(k)
  BY DEF LruInv, Shapes, CallAndOrder, UsedLast
<1>3. ASSUME NEW i \in 1..(n + 1), NEW j \in 1..(n + 1), i < j
      PROVE  <<u[i], u[j]>> \in UsedLast(k)
  <2>1. CASE j = n + 1
    <3>1. i \in 1..n /\ u[i] # k /\ u[i] \in Keys /\ u[j] = k
      BY <2>1, <1>1, <1>3
    <3> QED BY <3>1 DEF UsedLast
  <2>2. CASE j # n + 1
    <3>1. i \in 1..n /\ j \in 1..n
      BY <2>2, <1>1, <1>3
    <3>2. <<u[i], u[j]>> \in older /\ u[i] # k /\ u[j] # k
      BY <3>1, <1>1, <1>3
    <3> QED BY <3>2 DEF UsedLast
  <2> QED BY <2>1, <2>2
<1> HIDE DEF u
<1>4. ASSUME NEW j \in Keys
      PROVE  (\E i \in DOMAIN u : u[i] = j) <=> j = k \/ \E i \in DOMAIN t : t[i] = j
  <2>1. ASSUME NEW i \in 1..(n + 1), u[i] = j PROVE j = k \/ \E h \in 1..n : t[h] = j
    BY <2>1, <1>1
  <2>2. n + 1 \in 1..(n + 1) /\ \A h \in 1..n : h \in 1..(n + 1)
    BY <1>1
  <2> QED BY <2>1, <2>2, <1>1
<1> QED BY <1>1, <1>2, <1>3, <1>4 DEF u

\* Every step keeps the invariant.  A step that breaks an assertion changes nothing it is about.
LEMMA LruInvStep == LruInv /\ [Next]_lruVars => LruInv'
<1>0. [Next]_lruVars /\ thrown => thrown'
  BY DEF Next, InsertReplace, InsertNew, Find, SetCapacity, EvictFront, EvictThrows,
     InsertReturns, SetCapacityReturns, Clear, Break, lruVars
<1> SUFFICES ASSUME LruInv, [Next]_lruVars, ~thrown, ~thrown' PROVE LruInv'
  BY <1>0 DEF LruInv
<1> USE DEF LruInv, Shapes, CallAndOrder, TrackerMatches, Entry, Idle, Ready
<1>1. CASE UNCHANGED <<cacheData, usageTracker, call, older>>
  BY <1>1
<1>2. ASSUME Break PROVE LruInv'
  BY <1>1, <1>2 DEF Break
<1>3. ASSUME NEW k \in Keys, NEW v \in Values, InsertReplace(k, v) PROVE LruInv'
  <2>1. CASE Break
    BY <2>1, <1>2
  <2>2. CASE ~Break
    <3>1. /\ call.op = "none" /\ call.key = NoKey /\ k \in DOMAIN cacheData /\ k # call.key
          /\ cacheData' = [cacheData EXCEPT ![k] = [value |-> v, tracked |-> FALSE]]
          /\ usageTracker' = RemoveAt(usageTracker, Position(k))
          /\ call' = [op |-> "insert", key |-> k, size |-> SizeOf[v]]
          /\ older' = older
      BY <1>3, <2>2, LruAssumption DEF InsertReplace
    <3>2. SizeOf[v] \in Nat
      BY LruAssumption
    <3> DEFINE t == RemoveAt(usageTracker, Position(k))
    <3> HIDE DEF t
    <3>3. /\ t \in Seq(Keys)
          /\ \A j \in Keys : (\E i \in DOMAIN t : t[i] = j)
                               <=> j # k /\ \E i \in DOMAIN usageTracker : usageTracker[i] = j
          /\ \A i, j \in DOMAIN t : i < j => <<t[i], t[j]>> \in older
      BY <3>1, Unlink DEF t
    <3>4. usageTracker' = t
      BY <3>1 DEF t
    <3>5. Shapes' /\ CallAndOrder'
      BY <3>1, <3>2, <3>3, <3>4
    <3>6. TrackerMatches'
      BY <3>1, <3>3, <3>4, LruAssumption
    <3> QED BY <3>5, <3>6
  <2> QED BY <2>1, <2>2
<1>4. ASSUME NEW k \in Keys, NEW v \in Values, InsertNew(k, v) PROVE LruInv'
  <2>1. SizeOf[v] \in Nat
    BY LruAssumption
  <2> QED BY <1>4, <2>1, LruAssumption DEF InsertNew
<1>5. ASSUME NEW k \in Keys, Find(k) PROVE LruInv'
  <2>1. CASE Break
    BY <2>1, <1>2
  <2>2. CASE ~Break
    <3> DEFINE t == RemoveAt(usageTracker, Position(k))
    <3> HIDE DEF t
    <3>1. /\ call.key = NoKey /\ k \in DOMAIN cacheData /\ k # call.key
          /\ cacheData' = cacheData /\ call' = call
          /\ usageTracker' = Append(t, k)
          /\ older' = UsedLast(k)
      BY <1>5, <2>2, LruAssumption DEF Find, t
    <3>2. /\ t \in Seq(Keys)
          /\ \A j \in Keys : (\E i \in DOMAIN t : t[i] = j)
                               <=> j # k /\ \E i \in DOMAIN usageTracker : usageTracker[i] = j
          /\ \A i, j \in DOMAIN t : i < j => <<t[i], t[j]>> \in older
      BY <3>1, Unlink DEF t
    <3>3. \A i \in DOMAIN t : t[i] # k
      BY <3>2
    <3>4. /\ Append(t, k) \in Seq(Keys)
          /\ UsedLast(k) \subseteq Keys \X Keys
          /\ \A j \in Keys : <<j, j>> \notin UsedLast(k)
          /\ \A j \in Keys : (\E i \in DOMAIN Append(t, k) : Append(t, k)[i] = j)
                               <=> j = k \/ \E i \in DOMAIN t : t[i] = j
          /\ \A i, j \in DOMAIN Append(t, k) :
               i < j => <<Append(t, k)[i], Append(t, k)[j]>> \in UsedLast(k)
      BY <3>2, <3>3, LinkLast
    <3>5. Shapes' /\ CallAndOrder'
      BY <3>1, <3>4
    <3>6. TrackerMatches'
      BY <3>1, <3>2, <3>4
    <3> QED BY <3>5, <3>6
  <2> QED BY <2>1, <2>2
<1>6. ASSUME EvictFront PROVE LruInv'
  <2> DEFINE k == Head(usageTracker)
             t == Tail(usageTracker)
  <2>1. /\ usageTracker # <<>>
        /\ cacheData' = [j \in DOMAIN cacheData \ {k} |-> cacheData[j]]
        /\ usageTracker' = t /\ call' = call /\ older' = older
    BY <1>6 DEF EvictFront, MustEvict, Restrict
  <2>2. /\ k \in Keys /\ t \in Seq(Keys) /\ k = usageTracker[1]
        /\ DOMAIN usageTracker = 1..Len(usageTracker) /\ Len(usageTracker) \in Nat \ {0}
        /\ DOMAIN t = 1..(Len(usageTracker) - 1)
        /\ \A i \in DOMAIN t : t[i] = usageTracker[i + 1]
    BY <2>1
  <2> HIDE DEF k, t
  <2>3. ASSUME NEW i \in DOMAIN t PROVE t[i] # k
    <3>1. 1 \in DOMAIN usageTracker /\ i + 1 \in DOMAIN usageTracker /\ 1 < i + 1
      BY <2>2
    <3>2. <<usageTracker[1], usageTracker[i + 1]>> \in older
      BY <3>1
    <3> QED BY <3>2, <2>2
  <2>4. ASSUME NEW j \in Keys
        PROVE  (\E i \in DOMAIN t : t[i] = j) <=> j # k /\ \E i \in DOMAIN usageTracker : usageTracker[i] = j
    <3>1. ASSUME NEW i \in DOMAIN usageTracker, usageTracker[i] = j, j # k
          PROVE  \E h \in DOMAIN t : t[h] = j
      <4>1. i - 1 \in DOMAIN t /\ (i - 1) + 1 = i
        BY <3>1, <2>2
      <4> QED BY <4>1, <3>1, <2>2
    <3>2. ASSUME NEW h \in DOMAIN t, t[h] = j
          PROVE  \E i \in DOMAIN usageTracker : usageTracker[i] = j
      <4>1. h + 1 \in DOMAIN usageTracker
        BY <2>2
      <4> QED BY <4>1, <3>2, <2>2
    <3> QED BY <3>1, <3>2, <2>3
  <2>5. ASSUME NEW i \in DOMAIN t, NEW j \in DOMAIN t, i < j PROVE <<t[i], t[j]>> \in older
    <3>1. i + 1 \in DOMAIN usageTracker /\ j + 1 \in DOMAIN usageTracker /\ i + 1 < j + 1
      BY <2>2, <2>5
    <3> QED BY <3>1, <2>2
  <2>6. k # call.key
    BY <2>1, <2>2
  <2>7. Shapes' /\ CallAndOrder'
    BY <2>1, <2>2, <2>6
  <2>8. TrackerMatches'
    BY <2>1, <2>2, <2>4, <2>5
  <2> QED BY <2>7, <2>8
<1>7. ASSUME EvictThrows PROVE LruInv'
  BY <1>7 DEF EvictThrows
<1>8. ASSUME InsertReturns PROVE LruInv'
  <2>1. CASE Break
    BY <2>1, <1>2
  <2>2. CASE ~Break
    <3> DEFINE k == call.key
    <3>1. /\ call.op = "insert" /\ k \in DOMAIN cacheData /\ k \in Keys
          /\ cacheData' = [cacheData EXCEPT ![k].tracked = TRUE]
          /\ call' = [op |-> "none", key |-> NoKey, size |-> 0]
          /\ usageTracker' = Append(usageTracker, k)
          /\ older' = UsedLast(k)
      BY <1>8, <2>2 DEF InsertReturns
    <3>2. /\ \A i \in DOMAIN usageTracker : usageTracker[i] # k
          /\ \A i, j \in DOMAIN usageTracker : i < j => <<usageTracker[i], usageTracker[j]>> \in older
      BY <3>1
    <3> HIDE DEF k
    <3>3. /\ Append(usageTracker, k) \in Seq(Keys)
          /\ UsedLast(k) \subseteq Keys \X Keys
          /\ \A j \in Keys : <<j, j>> \notin UsedLast(k)
          /\ \A j \in Keys : (\E i \in DOMAIN Append(usageTracker, k) : Append(usageTracker, k)[i] = j)
                               <=> j = k \/ \E i \in DOMAIN usageTracker : usageTracker[i] = j
          /\ \A i, j \in DOMAIN Append(usageTracker, k) :
               i < j => <<Append(usageTracker, k)[i], Append(usageTracker, k)[j]>> \in UsedLast(k)
      BY <3>1, <3>2, LinkLast
    <3>4. k = call.key
      BY DEF k
    <3>5. /\ cacheData' \in [DOMAIN cacheData -> Entry] /\ DOMAIN cacheData' = DOMAIN cacheData
          /\ cacheData'[k].tracked = TRUE
          /\ \A j \in DOMAIN cacheData : j # k => cacheData'[j] = cacheData[j]
      <4> DEFINE e == [cacheData[k] EXCEPT !.tracked = TRUE]
      <4>1. cacheData[k] \in Entry
        BY <3>1
      <4>2. e \in Entry /\ e.tracked = TRUE
        BY <4>1
      <4> HIDE DEF e
      <4>3. cacheData' = [cacheData EXCEPT ![k] = e]
        BY <3>1 DEF e
      <4> QED BY <4>2, <4>3, <3>1
    <3>6. Shapes' /\ CallAndOrder'
      BY <3>1, <3>3, <3>5
    <3>7. TrackerMatches'
      <4>1. \A j \in DOMAIN cacheData' : cacheData'[j].tracked <=> j # call'.key
        BY <3>1, <3>4, <3>5, LruAssumption
      <4>2. \A j \in Keys : j \in DOMAIN cacheData' /\ j # call'.key
                              <=> \E i \in DOMAIN usageTracker' : usageTracker'[i] = j
        BY <3>1, <3>3, <3>4, <3>5, LruAssumption
      <4> QED BY <4>1, <4>2, <3>1, <3>3
    <3> QED BY <3>6, <3>7
  <2> QED BY <2>1, <2>2
<1>9. ASSUME NEW c \in Capacities, SetCapacity(c) PROVE LruInv'
  BY <1>9 DEF SetCapacity
<1>10. ASSUME SetCapacityReturns PROVE LruInv'
  <2>1. CASE Break
    BY <2>1, <1>2
  <2>2. CASE ~Break
    BY <1>10, <2>2 DEF SetCapacityReturns
  <2> QED BY <2>1, <2>2
<1>11. ASSUME Clear PROVE LruInv'
  BY <1>11, LruAssumption DEF Clear
<1> QED BY <1>1, <1>3, <1>4, <1>5, <1>6, <1>7, <1>8, <1>9, <1>10, <1>11 DEF Next, lruVars

LEMMA LruInvariant == Spec => []LruInv
<1>1. Init => LruInv
  BY LruAssumption DEF Init, LruInv, Shapes, CallAndOrder, TrackerMatches, Entry, Idle
<1> QED BY <1>1, LruInvStep, PTL DEF Spec

\* Until a deallocator throws, the list holds the keys of the entries once each and in the
\* order of use, for any number of keys, values and capacities.
THEOREM UsageListAgrees == Spec => []TrackerMatches
<1>1. LruInv => TrackerMatches
  BY DEF LruInv, TrackerMatches
<1> QED BY <1>1, LruInvariant, PTL

\* Until a deallocator throws, what the eviction loop takes is what was not used the longest.
THEOREM LeastRecentEvicted == Spec => EvictsLeastRecent
<1>1. ASSUME LruInv, [Next]_lruVars
      PROVE  [~thrown /\ call.op # "none" =>
                \A k \in DOMAIN cacheData \ DOMAIN cacheData' :
                  k # call.key /\ \A j \in DOMAIN cacheData' \ {call.key} : <<k, j>> \in older]_lruVars
  <2>1. CASE EvictFront /\ ~thrown
    <3> SUFFICES ASSUME NEW k \in DOMAIN cacheData \ DOMAIN cacheData'
                 PROVE  k # call.key /\ \A j \in DOMAIN cacheData' \ {call.key} : <<k, j>> \in older
      OBVIOUS
    <3>1. /\ usageTracker # <<>> /\ usageTracker \in Seq(Keys) /\ k = usageTracker[1]
          /\ DOMAIN cacheData' = DOMAIN cacheData \ {k}
      BY <2>1, <1>1 DEF EvictFront, MustEvict, Restrict, LruInv, Shapes
    <3>2. DOMAIN usageTracker = 1..Len(usageTracker) /\ Len(usageTracker) \in Nat \ {0}
      BY <3>1
    <3>3. k # call.key
      BY <3>1, <3>2, <2>1, <1>1 DEF LruInv, Shapes, TrackerMatches
    <3>4. ASSUME NEW j \in DOMAIN cacheData' \ {call.key} PROVE <<k, j>> \in older
      <4>1. PICK i \in DOMAIN usageTracker : usageTracker[i] = j
        BY <3>1, <3>4, <2>1, <1>1 DEF LruInv, Shapes, TrackerMatches
      <4>2. i # 1 /\ j # k
        BY <3>1, <3>4, <4>1
      <4>3. 1 \in DOMAIN usageTracker /\ 1 < i
        BY <3>2, <4>1, <4>2
      <4> QED BY <4>1, <4>3, <3>1, <2>1, <1>1 DEF LruInv, TrackerMatches
    <3> QED BY <3>3, <3>4
  <2>2. CASE ~EvictFront \/ thrown
    <3>1. thrown \/ call.op = "none" \/ DOMAIN cacheData' = DOMAIN cacheData
      BY <2>2, <1>1 DEF Next, InsertReplace, InsertNew, Find, SetCapacity, EvictThrows,
         InsertReturns, SetCapacityReturns, Clear, Break, Ready, lruVars
    <3> QED BY <3>1
  <2> QED BY <2>1, <2>2
<1> QED BY <1>1, LruInvariant, PTL DEF Spec, EvictsLeastRecent

-----------------------------------------------------------------------------
(* What holds also after a deallocator has thrown.                          *)

\* The list has no key twice, and its keys are those whose stored iterator is not end();
\* the entry that is being inserted is there, and is not in the list yet.
Linked ==
  /\ \A i, j \in DOMAIN usageTracker : usageTracker[i] = usageTracker[j] => i = j
  /\ \A k \in Keys : (\E i \in DOMAIN usageTracker : usageTracker[i] = k)
                       <=> k \in DOMAIN cacheData /\ cacheData[k].tracked
  /\ call.op = "insert" => /\ call.key \in DOMAIN cacheData
                           /\ ~cacheData[call.key].tracked
                           /\ call.size = SizeOf[cacheData[call.key].value]

CacheInv ==
  /\ TypeOK /\ IsFiniteSet(DOMAIN cacheData)
  /\ Linked /\ SizeAccounts /\ FitsOrAlone
  /\ broken => thrown

\* The list is over the keys, each once.
Once(s) == s \in Seq(Keys) /\ \A i, j \in DOMAIN s : s[i] = s[j] => i = j
Holds(s, k) == \E i \in DOMAIN s : s[i] = k

LEMMA TakenOut ==
  ASSUME NEW s, Once(s), NEW k, NEW p \in 1..Len(s), s[p] = k, NEW t, t = RemoveAt(s, p)
  PROVE  /\ Once(t) /\ Len(t) = Len(s) - 1
         /\ \A j \in Keys : Holds(t, j) <=> j # k /\ Holds(s, j)
<1> DEFINE n == Len(s)
<1>1. s \in Seq(Keys) /\ n \in Nat /\ DOMAIN s = 1..n /\ \A i, j \in 1..n : s[i] = s[j] => i = j
  BY DEF Once
<1>2. p \in 1..n /\ s[p] = k OBVIOUS
<1>3. /\ t \in Seq(Keys) /\ Len(t) = n - 1
      /\ \A i \in 1..(n - 1) : t[i] = IF i < p THEN s[i] ELSE s[i + 1]
  <2>1. s \in Seq(Keys) BY <1>1
  <2> QED BY <2>1, RemoveAtParts
<1>4. DOMAIN t = 1..(n - 1) BY <1>3
<1> DEFINE at(i) == IF i < p THEN i ELSE i + 1
<1>5. \A i \in 1..(n - 1) : at(i) \in 1..n /\ at(i) # p /\ t[i] = s[at(i)]
  BY <1>1, <1>2, <1>3
<1>6. \A i, j \in 1..(n - 1) : at(i) = at(j) => i = j
  BY <1>1, <1>2
<1>7. \A i \in 1..n : i # p => \E j \in 1..(n - 1) : at(j) = i
  <2> SUFFICES ASSUME NEW i \in 1..n, i # p PROVE \E j \in 1..(n - 1) : at(j) = i
    OBVIOUS
  <2>1. CASE i < p
    <3>1. i \in 1..(n - 1) /\ at(i) = i BY <1>1, <1>2, <2>1
    <3> QED BY <3>1
  <2>2. CASE p < i
    <3>1. i - 1 \in 1..(n - 1) /\ at(i - 1) = i BY <1>1, <1>2, <2>2
    <3> QED BY <3>1
  <2> QED BY <1>1, <1>2, <2>1, <2>2
<1> HIDE DEF at
<1>8. Once(t)
  <2> SUFFICES ASSUME NEW i \in 1..(n - 1), NEW j \in 1..(n - 1), t[i] = t[j] PROVE i = j
    BY <1>3, <1>4 DEF Once
  <2>1. at(i) = at(j) BY <1>1, <1>5
  <2> QED BY <1>6, <2>1
<1>9. ASSUME NEW j \in Keys PROVE Holds(t, j) <=> j # k /\ Holds(s, j)
  <2>1. ASSUME NEW i \in 1..(n - 1), t[i] = j PROVE j # k /\ Holds(s, j)
    <3>1. at(i) \in 1..n /\ at(i) # p /\ s[at(i)] = j BY <1>5, <2>1
    <3> QED BY <1>1, <1>2, <3>1 DEF Holds
  <2>2. ASSUME NEW i \in 1..n, s[i] = j, j # k PROVE Holds(t, j)
    <3>1. PICK h \in 1..(n - 1) : at(h) = i BY <1>2, <1>7, <2>2
    <3>2. t[h] = j BY <1>5, <2>2, <3>1
    <3> QED BY <1>4, <3>2 DEF Holds
  <2> QED BY <1>1, <1>4, <2>1, <2>2 DEF Holds
<1> QED BY <1>3, <1>8, <1>9

LEMMA PutLast ==
  ASSUME NEW s, Once(s), NEW k \in Keys, ~Holds(s, k)
  PROVE  /\ Once(Append(s, k)) /\ Len(Append(s, k)) = Len(s) + 1
         /\ \A j \in Keys : Holds(Append(s, k), j) <=> j = k \/ Holds(s, j)
<1> DEFINE u == Append(s, k)
           n == Len(s)
<1>1. /\ n \in Nat /\ DOMAIN s = 1..n /\ DOMAIN u = 1..(n + 1) /\ u \in Seq(Keys) /\ Len(u) = n + 1
      /\ \A i \in 1..n : u[i] = s[i] /\ s[i] # k
      /\ u[n + 1] = k
      /\ \A i, j \in 1..n : s[i] = s[j] => i = j
  BY DEF Once, Holds
<1> HIDE DEF u
<1>2. Once(u)
  <2>1. \A i \in 1..(n + 1) : i \in 1..n \/ i = n + 1 BY <1>1
  <2> QED BY <1>1, <2>1 DEF Once
<1>3. ASSUME NEW j \in Keys PROVE Holds(u, j) <=> j = k \/ Holds(s, j)
  <2>1. n + 1 \in 1..(n + 1) /\ \A i \in 1..(n + 1) : i \in 1..n \/ i = n + 1 BY <1>1
  <2>2. \A i \in 1..n : i \in 1..(n + 1) BY <1>1
  <2> QED BY <1>1, <2>1, <2>2 DEF Holds
<1> QED BY <1>1, <1>2, <1>3 DEF u

LEMMA FrontOut ==
  ASSUME NEW s, Once(s), s # <<>>
  PROVE  /\ Head(s) \in Keys /\ Holds(s, Head(s)) /\ Once(Tail(s))
         /\ \A j \in Keys : Holds(Tail(s), j) <=> j # Head(s) /\ Holds(s, j)
<1> DEFINE t == Tail(s)
           k == Head(s)
           n == Len(s)
<1>1. /\ n \in Nat \ {0} /\ DOMAIN s = 1..n /\ k = s[1] /\ k \in Keys
      /\ t \in Seq(Keys) /\ DOMAIN t = 1..(n - 1)
      /\ \A i \in 1..(n - 1) : t[i] = s[i + 1]
      /\ \A i, j \in 1..n : s[i] = s[j] => i = j
  BY DEF Once
<1> HIDE DEF t, k
<1>2. \A i \in 1..(n - 1) : i + 1 \in 1..n /\ i + 1 # 1 BY <1>1
<1>3. \A i \in 1..n : i # 1 => i - 1 \in 1..(n - 1) /\ (i - 1) + 1 = i BY <1>1
<1>4. 1 \in 1..n BY <1>1
<1>5. Once(t)
  <2> SUFFICES ASSUME NEW i \in 1..(n - 1), NEW j \in 1..(n - 1), t[i] = t[j] PROVE i = j
    BY <1>1 DEF Once
  <2>1. i + 1 = j + 1 BY <1>1, <1>2
  <2> QED BY <2>1, <1>1
<1>6. Holds(s, k) BY <1>1, <1>4 DEF Holds
<1>7. ASSUME NEW j \in Keys PROVE Holds(t, j) <=> j # k /\ Holds(s, j)
  <2>1. ASSUME NEW i \in 1..(n - 1), t[i] = j PROVE j # k /\ Holds(s, j)
    BY <1>1, <1>2, <1>4, <2>1 DEF Holds
  <2>2. ASSUME NEW i \in 1..n, s[i] = j, j # k PROVE Holds(t, j)
    <3>1. i # 1 BY <1>1, <2>2
    <3>2. i - 1 \in 1..(n - 1) /\ t[i - 1] = j BY <1>1, <1>3, <2>2, <3>1
    <3> QED BY <1>1, <3>2 DEF Holds
  <2> QED BY <1>1, <2>1, <2>2 DEF Holds
<1> QED BY <1>1, <1>5, <1>6, <1>7 DEF t, k

\* m_cacheSize as a sum over the entries.
SizeIn(data) == [k \in DOMAIN data |-> SizeOf[data[k].value]]

LEMMA SizeSum ==
  SizeAccounts <=> cacheSize = SumOn(SizeIn(cacheData), DOMAIN cacheData)
<1>1. DOMAIN SizeIn(cacheData) = DOMAIN cacheData BY DEF SizeIn
<1> QED BY <1>1 DEF SizeAccounts, SumFunction, SumOn, SizeIn

LEMMA SizesNat ==
  ASSUME NEW data, data \in [DOMAIN data -> Entry]
  PROVE  \A k \in DOMAIN data : SizeIn(data)[k] \in Nat /\ SizeIn(data)[k] = SizeOf[data[k].value]
  BY LruAssumption DEF SizeIn, Entry

LEMMA ListOnce ==
  CacheInv => Once(usageTracker) /\ \A k \in Keys : Holds(usageTracker, k) <=> k \in DOMAIN cacheData /\ cacheData[k].tracked
  BY DEF CacheInv, TypeOK, Linked, Once, Holds

LEMMA CacheInit == Init => CacheInv
<1> SUFFICES ASSUME Init PROVE CacheInv
  OBVIOUS
<1>1. DOMAIN cacheData = {} /\ IsFiniteSet({}) BY FS_EmptySet DEF Init
<1>2. SizeAccounts BY <1>1, SumOnEmpty, SizeSum DEF Init
<1>3. TypeOK
  <2>1. cacheData \in [DOMAIN cacheData -> Entry] /\ usageTracker \in Seq(Keys) BY <1>1 DEF Init
  <2> QED BY <1>1, <2>1, LruAssumption DEF TypeOK, Init, Idle
<1> QED BY <1>1, <1>2, <1>3, LruAssumption DEF Init, CacheInv, Linked, FitsOrAlone, Idle

\* Breaking an assertion changes nothing else.
LEMMA BreakKeeps == ASSUME CacheInv, Break, thrown PROVE CacheInv'
<1> USE DEF CacheInv, Break
<1>1. TypeOK' BY DEF TypeOK
<1>2. SizeAccounts' /\ Linked' /\ FitsOrAlone' BY DEF SizeAccounts, Linked, FitsOrAlone
<1> QED BY <1>1, <1>2

\* insert() of a key that has an entry.
LEMMA ReplaceKeeps ==
  ASSUME CacheInv, LruInv, NEW k \in Keys, NEW v \in Values, InsertReplace(k, v) PROVE CacheInv'
<1> USE DEF CacheInv
<1>1. CASE ~cacheData[k].tracked
  <2>1. Break /\ call.op = "none" /\ k \in DOMAIN cacheData /\ ~broken BY <1>1 DEF InsertReplace, Ready
  <2>2. thrown BY <1>1, <2>1, LruAssumption DEF LruInv, CallAndOrder, TrackerMatches
  <2> QED BY <2>1, <2>2, BreakKeeps
<1>2. CASE cacheData[k].tracked
  <2> DEFINE d == [cacheData EXCEPT ![k] = [value |-> v, tracked |-> FALSE]]
             S == DOMAIN cacheData
             e == [value |-> v, tracked |-> FALSE]
  <2>1. /\ k \in S /\ cacheData' = d /\ ~broken
        /\ cacheSize' = cacheSize + SizeOf[v] - SizeOf[cacheData[k].value]
        /\ usageTracker' = RemoveAt(usageTracker, Position(k))
        /\ call' = [op |-> "insert", key |-> k, size |-> SizeOf[v]]
        /\ UNCHANGED <<cacheCapacity, broken, thrown, older>>
    BY <1>2 DEF InsertReplace, Ready, Break
  <2>2. cacheData \in [S -> Entry] /\ S \subseteq Keys /\ cacheSize \in Nat BY DEF TypeOK
  <2>3. DOMAIN d = S /\ d \in [S -> Entry] /\ d[k] = e /\ \A j \in S \ {k} : d[j] = cacheData[j]
    BY <2>1, <2>2 DEF Entry
  <2> HIDE DEF d
  <2>4. /\ \A j \in S : SizeIn(cacheData)[j] \in Nat /\ SizeIn(cacheData)[j] = SizeOf[cacheData[j].value]
        /\ \A j \in S : SizeIn(d)[j] \in Nat /\ SizeIn(d)[j] = SizeOf[d[j].value]
    BY <2>2, <2>3, SizesNat
  <2>5. SumOn(SizeIn(d), S) = SumOn(SizeIn(cacheData), S) - SizeIn(cacheData)[k] + SizeIn(d)[k]
    <3>1. \A j \in S : SizeIn(cacheData)[j] \in Int /\ SizeIn(d)[j] \in Int BY <2>4
    <3>2. \A j \in S \ {k} : SizeIn(d)[j] = SizeIn(cacheData)[j] BY <2>3, <2>4
    <3>3. IsFiniteSet(S) /\ k \in S BY <2>1
    <3> QED BY <3>1, <3>2, <3>3, SumOnChange
  <2>6. SumOn(SizeIn(cacheData), S) = cacheSize BY SizeSum
  <2>7. SumOn(SizeIn(d), S) \in Nat BY <2>4, SumOnNat
  <2>8. SizeIn(cacheData)[k] = SizeOf[cacheData[k].value] /\ SizeIn(d)[k] = SizeOf[v] /\ SizeOf[v] \in Nat /\ SizeOf[cacheData[k].value] \in Nat
    BY <2>1, <2>3, <2>4
  <2>9. cacheSize' \in Nat /\ SizeAccounts'
    <3>1. cacheSize' = SumOn(SizeIn(d), S) BY <2>1, <2>2, <2>5, <2>6, <2>8
    <3>2. SizeAccounts' BY <2>1, <2>3, <3>1, SizeSum DEF SizeAccounts, SumFunction, SumOn, SizeIn
    <3> QED BY <2>7, <3>1, <3>2
  <2> DEFINE t == RemoveAt(usageTracker, Position(k))
  <2>10. /\ Once(t) /\ \A j \in Keys : Holds(t, j) <=> j # k /\ Holds(usageTracker, j)
    <3>1. Once(usageTracker) /\ Holds(usageTracker, k) BY <1>2, <2>1, ListOnce
    <3>2. Position(k) \in 1..Len(usageTracker) /\ usageTracker[Position(k)] = k
      BY <3>1 DEF Once, Holds, Position
    <3> QED BY <3>1, <3>2, TakenOut
  <2> HIDE DEF t
  <2>11. usageTracker' = t BY <2>1 DEF t
  <2>12. TypeOK'
    <3>1. DOMAIN cacheData' \subseteq Keys /\ cacheData' \in [DOMAIN cacheData' -> Entry] BY <2>1, <2>2, <2>3
    <3>2. usageTracker' \in Seq(Keys) BY <2>10, <2>11 DEF Once
    <3>3. call' \in [op : {"none", "insert", "set_capacity"}, key : Keys \cup {NoKey}, size : Nat] BY <2>1, <2>8
    <3> QED BY <2>1, <2>9, <3>1, <3>2, <3>3 DEF TypeOK
  <2>13. Linked'
    <3>1. \A j \in Keys : Holds(t, j) <=> j \in S /\ d[j].tracked
      BY <2>3, <2>10, ListOnce
    <3>2. \A i, j \in DOMAIN t : t[i] = t[j] => i = j BY <2>10 DEF Once
    <3>3. call'.op = "insert" /\ call'.key = k /\ call'.size = SizeOf[d[k].value] /\ ~d[k].tracked
      BY <2>1, <2>3
    <3> QED BY <2>1, <2>3, <2>11, <3>1, <3>2, <3>3 DEF Linked, Holds
  <2>14. FitsOrAlone' BY <2>1 DEF FitsOrAlone
  <2>15. IsFiniteSet(DOMAIN cacheData') BY <2>1, <2>3
  <2> QED BY <2>1, <2>9, <2>12, <2>13, <2>14, <2>15
<1> QED BY <1>1, <1>2

\* insert() of a new key.
LEMMA NewKeeps ==
  ASSUME CacheInv, NEW k \in Keys, NEW v \in Values, InsertNew(k, v) PROVE CacheInv'
<1> USE DEF CacheInv
<1> DEFINE S == DOMAIN cacheData
           d == [j \in S \cup {k} |-> IF j = k THEN [value |-> v, tracked |-> FALSE] ELSE cacheData[j]]
<1>1. /\ k \notin S /\ cacheData' = d /\ ~broken
      /\ cacheSize' = cacheSize + SizeOf[v]
      /\ call' = [op |-> "insert", key |-> k, size |-> SizeOf[v]]
      /\ UNCHANGED <<usageTracker, cacheCapacity, broken, thrown, older>>
  BY DEF InsertNew, Ready
<1>2. cacheData \in [S -> Entry] /\ S \subseteq Keys /\ cacheSize \in Nat BY DEF TypeOK
<1>3. /\ DOMAIN d = S \cup {k} /\ d \in [S \cup {k} -> Entry]
      /\ d[k] = [value |-> v, tracked |-> FALSE] /\ \A j \in S : d[j] = cacheData[j]
  BY <1>1, <1>2 DEF Entry
<1> HIDE DEF d
<1>4. /\ \A j \in S : SizeIn(cacheData)[j] \in Nat /\ SizeIn(cacheData)[j] = SizeOf[cacheData[j].value]
      /\ \A j \in S \cup {k} : SizeIn(d)[j] \in Nat /\ SizeIn(d)[j] = SizeOf[d[j].value]
  BY <1>2, <1>3, SizesNat
<1>5. SizeIn(d)[k] = SizeOf[v] /\ SizeOf[v] \in Nat BY <1>3, <1>4
<1>6. SumOn(SizeIn(d), S \cup {k}) = SumOn(SizeIn(cacheData), S) + SizeIn(d)[k]
  <2>1. \A j \in S : SizeIn(d)[j] = SizeIn(cacheData)[j] BY <1>3, <1>4
  <2>2. k \notin S /\ IsFiniteSet(S) /\ SizeIn(d)[k] \in Int BY <1>1, <1>5
  <2>3. \A j \in S : SizeIn(cacheData)[j] \in Int BY <1>4
  <2> QED BY <2>1, <2>2, <2>3, SumOnAdd
<1>7. cacheSize' \in Nat /\ SizeAccounts'
  <2>1. cacheSize' = SumOn(SizeIn(d), S \cup {k}) BY <1>1, <1>5, <1>6, SizeSum
  <2>2. SizeAccounts' BY <1>1, <1>3, <2>1 DEF SizeAccounts, SumFunction, SumOn, SizeIn
  <2> QED BY <1>1, <1>2, <1>5, <2>2
<1>8. TypeOK'
  <2>1. DOMAIN cacheData' \subseteq Keys /\ cacheData' \in [DOMAIN cacheData' -> Entry] BY <1>1, <1>2, <1>3
  <2>2. call' \in [op : {"none", "insert", "set_capacity"}, key : Keys \cup {NoKey}, size : Nat] BY <1>1, <1>5
  <2> QED BY <1>1, <1>7, <2>1, <2>2 DEF TypeOK
<1>9. Linked'
  <2>1. \A j \in Keys : Holds(usageTracker, j) <=> j \in S \cup {k} /\ d[j].tracked
    BY <1>1, <1>3, ListOnce
  <2>2. call'.op = "insert" /\ call'.key = k /\ call'.size = SizeOf[d[k].value] /\ ~d[k].tracked
    BY <1>1, <1>3
  <2> QED BY <1>1, <1>3, <2>1, <2>2 DEF Linked, Holds
<1>10. FitsOrAlone' BY <1>1 DEF FitsOrAlone
<1>11. IsFiniteSet(DOMAIN cacheData') BY <1>1, <1>3, FS_AddElement
<1> QED BY <1>1, <1>7, <1>8, <1>9, <1>10, <1>11

LEMMA FindKeeps ==
  ASSUME CacheInv, LruInv, NEW k \in Keys, Find(k) PROVE CacheInv'
<1> USE DEF CacheInv
<1>1. CASE ~cacheData[k].tracked
  <2>1. Break /\ call.op = "none" /\ k \in DOMAIN cacheData /\ ~broken BY <1>1 DEF Find, Ready
  <2>2. thrown BY <1>1, <2>1, LruAssumption DEF LruInv, CallAndOrder, TrackerMatches
  <2> QED BY <2>1, <2>2, BreakKeeps
<1>2. CASE cacheData[k].tracked
  <2> DEFINE t == RemoveAt(usageTracker, Position(k))
  <2>1. /\ k \in DOMAIN cacheData /\ ~broken /\ call.op = "none"
        /\ usageTracker' = Append(t, k) /\ older' = UsedLast(k)
        /\ UNCHANGED <<cacheData, cacheSize, cacheCapacity, call, broken, thrown>>
    BY <1>2 DEF Find, Ready, Break
  <2>2. /\ Once(t) /\ \A j \in Keys : Holds(t, j) <=> j # k /\ Holds(usageTracker, j)
        /\ Len(t) = Len(usageTracker) - 1
    <3>1. Once(usageTracker) /\ Holds(usageTracker, k) BY <1>2, <2>1, ListOnce
    <3>2. Position(k) \in 1..Len(usageTracker) /\ usageTracker[Position(k)] = k
      BY <3>1 DEF Once, Holds, Position
    <3> QED BY <3>1, <3>2, TakenOut
  <2> HIDE DEF t
  <2>3. /\ Once(usageTracker') /\ Len(usageTracker') = Len(usageTracker)
        /\ \A j \in Keys : Holds(usageTracker', j) <=> j = k \/ Holds(t, j)
    <3>1. ~Holds(t, k) BY <2>2
    <3>2. Len(usageTracker) \in Nat BY DEF TypeOK
    <3> QED BY <2>1, <2>2, <3>1, <3>2, PutLast
  <2>4. TypeOK'
    <3>1. UsedLast(k) \subseteq Keys \X Keys BY DEF UsedLast, TypeOK
    <3> QED BY <2>1, <2>3, <3>1 DEF TypeOK, Once
  <2>5. Linked'
    <3>1. \A j \in Keys : Holds(usageTracker', j) <=> j \in DOMAIN cacheData /\ cacheData[j].tracked
      BY <1>2, <2>1, <2>2, <2>3, ListOnce
    <3> QED BY <2>1, <2>3, <3>1 DEF Linked, Once, Holds
  <2>6. SizeAccounts' /\ FitsOrAlone' BY <2>1, <2>3 DEF SizeAccounts, FitsOrAlone
  <2> QED BY <2>1, <2>4, <2>5, <2>6
<1> QED BY <1>1, <1>2

\* One turn of the eviction loop.
LEMMA EvictKeeps ==
  ASSUME CacheInv, EvictFront PROVE CacheInv'
<1> USE DEF CacheInv
<1> DEFINE k == Head(usageTracker)
           S == DOMAIN cacheData
           d == [j \in S \ {k} |-> cacheData[j]]
<1>1. /\ ~broken /\ usageTracker # <<>> /\ call.op # "none"
      /\ cacheSize' = cacheSize - SizeOf[cacheData[k].value]
      /\ cacheData' = d /\ usageTracker' = Tail(usageTracker)
      /\ UNCHANGED <<cacheCapacity, call, broken, thrown, older>>
  BY DEF EvictFront, MustEvict, Restrict
<1>2. /\ k \in Keys /\ Holds(usageTracker, k) /\ Once(usageTracker')
      /\ \A j \in Keys : Holds(usageTracker', j) <=> j # k /\ Holds(usageTracker, j)
  BY <1>1, ListOnce, FrontOut
<1> HIDE DEF k
<1>3. k \in S /\ cacheData[k].tracked BY <1>2, ListOnce
<1>4. cacheData \in [S -> Entry] /\ S \subseteq Keys /\ cacheSize \in Nat BY DEF TypeOK
<1>5. DOMAIN d = S \ {k} /\ d \in [S \ {k} -> Entry] /\ \A j \in S \ {k} : d[j] = cacheData[j]
  BY <1>4
<1> HIDE DEF d
<1>6. /\ \A j \in S : SizeIn(cacheData)[j] \in Nat /\ SizeIn(cacheData)[j] = SizeOf[cacheData[j].value]
      /\ \A j \in S \ {k} : SizeIn(d)[j] \in Nat /\ SizeIn(d)[j] = SizeOf[d[j].value]
  BY <1>4, <1>5, SizesNat
<1>7. IsFiniteSet(S \ {k}) BY FS_RemoveElement
<1>8. SumOn(SizeIn(cacheData), S) = SizeIn(cacheData)[k] + SumOn(SizeIn(cacheData), S \ {k})
  BY <1>3, <1>6, SumOnSplit
<1>9. SumOn(SizeIn(cacheData), S \ {k}) = SumOn(SizeIn(d), S \ {k}) /\ SumOn(SizeIn(d), S \ {k}) \in Nat
  <2>1. \A j \in S \ {k} : SizeIn(cacheData)[j] = SizeIn(d)[j] BY <1>5, <1>6
  <2>2. \A j \in S \ {k} : SizeIn(d)[j] \in Nat BY <1>6
  <2>3. SumOn(SizeIn(d), S \ {k}) \in Nat BY <1>7, <2>2, SumOnNat
  <2> QED BY <1>7, <2>1, <2>3, SumOnSame
<1>10. cacheSize' \in Nat /\ SizeAccounts'
  <2>1. SizeIn(cacheData)[k] = SizeOf[cacheData[k].value] /\ SizeIn(cacheData)[k] \in Nat BY <1>3, <1>6
  <2>2. cacheSize' = SumOn(SizeIn(d), S \ {k}) BY <1>1, <1>8, <1>9, <2>1, SizeSum
  <2>3. SizeAccounts' BY <1>1, <1>5, <2>2 DEF SizeAccounts, SumFunction, SumOn, SizeIn
  <2> QED BY <1>9, <2>2, <2>3
<1>11. TypeOK'
  <2>1. DOMAIN cacheData' \subseteq Keys /\ cacheData' \in [DOMAIN cacheData' -> Entry] BY <1>1, <1>4, <1>5
  <2> QED BY <1>1, <1>2, <1>10, <2>1 DEF TypeOK, Once
<1>12. Linked'
  <2>1. \A j \in Keys : Holds(usageTracker', j) <=> j \in S \ {k} /\ d[j].tracked
    BY <1>2, <1>5, ListOnce
  <2>2. call.op = "insert" => call.key # k BY <1>3 DEF Linked
  <2>3. call.op = "insert" => /\ call.key \in S \ {k} /\ ~d[call.key].tracked
                              /\ call.size = SizeOf[d[call.key].value]
    BY <1>5, <2>2 DEF Linked
  <2> QED BY <1>1, <1>2, <1>5, <2>1, <2>3 DEF Linked, Once, Holds
<1>13. FitsOrAlone' BY <1>1 DEF FitsOrAlone
<1> QED BY <1>1, <1>5, <1>7, <1>10, <1>11, <1>12, <1>13

\* When the list is empty the entry being inserted is the only one, so the assertions at the
\* end of insert() and of set_capacity() hold.
LEMMA EmptyList ==
  ASSUME CacheInv, LruInv, ~thrown, usageTracker = <<>>
  PROVE  /\ call.op = "insert" => cacheSize = call.size
         /\ call.op = "set_capacity" => cacheSize = 0
<1> USE DEF CacheInv
<1>1. \A k \in DOMAIN cacheData : k = call.key
  <2>1. DOMAIN usageTracker = {} OBVIOUS
  <2> QED BY <2>1 DEF LruInv, TrackerMatches, TypeOK
<1>2. ASSUME call.op = "insert" PROVE cacheSize = call.size
  <2>1. DOMAIN cacheData = {call.key} BY <1>1, <1>2 DEF Linked
  <2>2. SizeIn(cacheData)[call.key] = call.size /\ call.size \in Nat
    BY <1>2, <2>1, SizesNat DEF Linked, TypeOK
  <2>3. SumOn(SizeIn(cacheData), {call.key}) = SizeIn(cacheData)[call.key] + SumOn(SizeIn(cacheData), {call.key} \ {call.key})
    <3>1. IsFiniteSet({call.key}) BY <2>1
    <3>2. \A x \in {call.key} : SizeIn(cacheData)[x] \in Int BY <2>2
    <3> QED BY <3>1, <3>2, SumOnSplit
  <2>4. {call.key} \ {call.key} = {} OBVIOUS
  <2>5. SumOn(SizeIn(cacheData), {}) = 0 BY SumOnEmpty
  <2>6. cacheSize = SumOn(SizeIn(cacheData), {call.key}) BY <2>1, SizeSum
  <2>7. SumOn(SizeIn(cacheData), {call.key} \ {call.key}) = 0 BY <2>4, <2>5
  <2> QED BY <2>2, <2>3, <2>6, <2>7
<1>3. ASSUME call.op = "set_capacity" PROVE cacheSize = 0
  <2>1. DOMAIN cacheData = {} BY <1>1, <1>3, LruAssumption DEF LruInv, CallAndOrder, TypeOK
  <2> QED BY <1>3, <2>1, SizeSum, SumOnEmpty
<1> QED BY <1>2, <1>3

LEMMA InsertReturnsKeeps ==
  ASSUME CacheInv, LruInv, InsertReturns PROVE CacheInv'
<1> USE DEF CacheInv
<1>1. CASE usageTracker = <<>> /\ cacheSize # call.size /\ Break
  <2>1. call.op = "insert" BY DEF InsertReturns
  <2>2. thrown BY <1>1, <2>1, EmptyList
  <2> QED BY <1>1, <2>2, BreakKeeps
<1>2. CASE ~(usageTracker = <<>> /\ cacheSize # call.size /\ Break)
  <2> DEFINE k == call.key
             S == DOMAIN cacheData
             e == [cacheData[k] EXCEPT !.tracked = TRUE]
  <2>1. /\ ~broken /\ call.op = "insert" /\ ~MustEvict
        /\ usageTracker' = Append(usageTracker, k)
        /\ cacheData' = [cacheData EXCEPT ![k] = e]
        /\ older' = UsedLast(k) /\ call' = Idle
        /\ UNCHANGED <<cacheSize, cacheCapacity, broken, thrown>>
    BY <1>2 DEF InsertReturns
  <2>2. cacheData \in [S -> Entry] /\ S \subseteq Keys BY DEF TypeOK
  <2>3. k \in S /\ ~cacheData[k].tracked /\ k \in Keys BY <2>1, <2>2 DEF Linked
  <2>4. e \in Entry /\ e.tracked = TRUE /\ e.value = cacheData[k].value
    <3>1. cacheData[k] \in Entry BY <2>2, <2>3
    <3> QED BY <3>1 DEF Entry
  <2> HIDE DEF e
  <2>5. /\ DOMAIN cacheData' = S /\ cacheData' \in [S -> Entry]
        /\ cacheData'[k] = e /\ \A j \in S \ {k} : cacheData'[j] = cacheData[j]
    BY <2>1, <2>2, <2>3, <2>4
  <2> HIDE DEF k
  <2>6. /\ Once(usageTracker') /\ Len(usageTracker') = Len(usageTracker) + 1
        /\ \A j \in Keys : Holds(usageTracker', j) <=> j = k \/ Holds(usageTracker, j)
    <3>1. Once(usageTracker) /\ ~Holds(usageTracker, k) BY <2>3, ListOnce
    <3> QED BY <2>1, <2>3, <3>1, PutLast
  <2>7. SizeAccounts'
    <3>1. \A j \in S : SizeOf[cacheData'[j].value] = SizeOf[cacheData[j].value] BY <2>4, <2>5
    <3>2. [j \in S |-> SizeOf[cacheData'[j].value]] = [j \in S |-> SizeOf[cacheData[j].value]] BY <3>1
    <3> QED BY <2>1, <2>5, <3>2 DEF SizeAccounts
  <2>8. TypeOK'
    <3>1. UsedLast(k) \subseteq Keys \X Keys BY <2>3 DEF UsedLast, TypeOK
    <3>2. DOMAIN cacheData' \subseteq Keys /\ cacheData' \in [DOMAIN cacheData' -> Entry] BY <2>2, <2>5
    <3> QED BY <2>1, <2>6, <3>1, <3>2 DEF TypeOK, Once, Idle
  <2>9. Linked'
    <3>1. \A j \in Keys : Holds(usageTracker', j) <=> j \in S /\ cacheData'[j].tracked
      BY <2>3, <2>4, <2>5, <2>6, ListOnce
    <3> QED BY <2>1, <2>5, <2>6, <3>1 DEF Linked, Once, Holds, Idle
  <2>10. FitsOrAlone'
    <3>1. cacheSize <= cacheCapacity \/ usageTracker = <<>>
      BY <2>1, LruAssumption DEF MustEvict, TypeOK
    <3>2. usageTracker = <<>> => Len(usageTracker') = 1 BY <2>6
    <3> QED BY <2>1, <3>1, <3>2 DEF FitsOrAlone
  <2> QED BY <2>1, <2>5, <2>7, <2>8, <2>9, <2>10
<1> QED BY <1>1, <1>2

LEMMA SetCapacityReturnsKeeps ==
  ASSUME CacheInv, LruInv, SetCapacityReturns PROVE CacheInv'
<1> USE DEF CacheInv
<1>1. call.op = "set_capacity" /\ ~broken /\ ~MustEvict BY DEF SetCapacityReturns
<1>2. CASE Break
  <2>1. usageTracker = <<>> /\ cacheSize # 0 BY <1>1, <1>2 DEF SetCapacityReturns, Break
  <2>2. thrown BY <1>1, <2>1, EmptyList
  <2> QED BY <1>2, <2>2, BreakKeeps
<1>3. CASE ~Break
  <2>1. /\ call' = Idle /\ UNCHANGED <<cacheData, usageTracker, cacheSize, cacheCapacity, broken, thrown, older>>
        /\ usageTracker # <<>> \/ cacheSize = 0
    BY <1>3 DEF SetCapacityReturns
  <2>2. TypeOK' BY <2>1 DEF TypeOK, Idle
  <2>3. SizeAccounts' /\ Linked' BY <2>1 DEF SizeAccounts, Linked, Idle
  <2>4. FitsOrAlone'
    <3>1. cacheSize <= cacheCapacity BY <1>1, <2>1, LruAssumption DEF MustEvict, TypeOK
    <3> QED BY <2>1, <3>1 DEF FitsOrAlone
  <2> QED BY <2>1, <2>2, <2>3, <2>4
<1> QED BY <1>2, <1>3

LEMMA CacheStep == CacheInv /\ LruInv /\ [Next]_lruVars => CacheInv'
<1> SUFFICES ASSUME CacheInv, LruInv, [Next]_lruVars PROVE CacheInv'
  OBVIOUS
<1>1. CASE EvictThrows
  BY <1>1 DEF EvictThrows, CacheInv, TypeOK, Linked, SizeAccounts, FitsOrAlone, Idle
<1>2. ASSUME NEW c \in Capacities, SetCapacity(c) PROVE CacheInv'
  BY <1>2 DEF SetCapacity, CacheInv, TypeOK, Linked, SizeAccounts, FitsOrAlone, Idle
<1>3. CASE Clear
  <2> USE <1>3 DEF Clear, CacheInv
  <2>1. DOMAIN cacheData' = {} /\ IsFiniteSet({}) /\ cacheData' = <<>> /\ usageTracker' = <<>> BY FS_EmptySet
  <2>2. SumFunction([k \in DOMAIN cacheData' |-> SizeOf[cacheData'[k].value]]) = 0
    BY <2>1, SumOnEmpty DEF SumFunction, SumOn
  <2>3. SizeAccounts' BY <2>2 DEF SizeAccounts
  <2>4. TypeOK'
    <3>1. cacheData' \in [DOMAIN cacheData' -> Entry] /\ usageTracker' \in Seq(Keys) BY <2>1
    <3> QED BY <2>1, <3>1 DEF TypeOK
  <2>5. FitsOrAlone' BY LruAssumption DEF FitsOrAlone, TypeOK
  <2>6. Linked' BY <2>1 DEF Linked, Ready
  <2> QED BY <2>1, <2>3, <2>4, <2>5, <2>6
<1>4. CASE UNCHANGED lruVars
  BY <1>4 DEF lruVars, CacheInv, TypeOK, Linked, SizeAccounts, FitsOrAlone
<1> QED
  BY <1>1, <1>2, <1>3, <1>4, ReplaceKeeps, NewKeeps, FindKeeps, EvictKeeps, InsertReturnsKeeps, SetCapacityReturnsKeeps
  DEF Next

\* The cached size, the map and the list never drift apart, whatever the deallocators do; and
\* no assertion of the class fails before one of them throws.
THEOREM CacheConsistent == Spec => []Consistent
<1>1. CacheInv => Consistent
  <2>1. ASSUME CacheInv, MustEvict PROVE Head(usageTracker) \in DOMAIN cacheData
    <3>1. usageTracker # <<>> BY <2>1 DEF MustEvict
    <3> QED BY <2>1, <3>1, ListOnce, FrontOut
  <2> QED BY <2>1 DEF CacheInv, Consistent, AssertionsHold
<1>2. Spec => []CacheInv
  BY CacheInit, CacheStep, LruInvariant, PTL DEF Spec
<1> QED BY <1>1, <1>2, PTL
=============================================================================
