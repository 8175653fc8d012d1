------------------------------ MODULE LruCache ------------------------------
(***************************************************************************)
(* lru_cache<K, V> (frantic/caches/lru_cache.hpp): a map of sized entries   *)
(* and a list of their keys in order of use.  Insertion and a smaller       *)
(* capacity evict from the front of the list until the rest fits.           *)
(*                                                                          *)
(* Each turn of the eviction loop calls the user's deallocator, which may   *)
(* block or throw: the loop is one action per turn, and "call" says which   *)
(* member function is in it.  The other functions are one action each.      *)
(***************************************************************************)
EXTENDS Integers, Sequences, SequencesExt, Functions

CONSTANTS
  Keys,        \* keys of the entries
  Values,      \* the values stored
  SizeOf,      \* SizeOf[v]: the size of the value v, in cache units
  Capacities,  \* capacities given to the constructor and to set_capacity
  NoKey        \* the key of a call that has none

ASSUME LruAssumption ==
  /\ Values # {}
  /\ SizeOf \in [Values -> Nat]
  /\ Capacities \subseteq Nat
  /\ NoKey \notin Keys

VARIABLES
  cacheData,     \* m_cacheData: key -> [value, tracked]; tracked: the stored iterator is not end()
  usageTracker,  \* m_usageTracker, the least recently used key first
  cacheSize,     \* m_cacheSize
  cacheCapacity, \* m_cacheCapacity
  call,          \* the function in the eviction loop: [op, key, size]
  broken,        \* an assertion of the class failed: what happens next is undefined
  thrown,        \* a deallocator has thrown
  older          \* the pairs <<j, k>> of keys such that k was used after j

lruVars == <<cacheData, usageTracker, cacheSize, cacheCapacity, call, broken, thrown, older>>

Idle == [op |-> "none", key |-> NoKey, size |-> 0]

Entry == [value : Values, tracked : BOOLEAN]

TypeOK ==
  /\ DOMAIN cacheData \subseteq Keys
  /\ cacheData \in [DOMAIN cacheData -> Entry]
  /\ usageTracker \in Seq(Keys)
  /\ cacheSize \in Nat
  /\ cacheCapacity \in Capacities
  /\ call \in [op : {"none", "insert", "set_capacity"}, key : Keys \cup {NoKey}, size : Nat]
  /\ broken \in BOOLEAN /\ thrown \in BOOLEAN
  /\ older \subseteq Keys \X Keys

Ready == ~broken /\ call.op = "none"

Position(k) == CHOOSE i \in 1..Len(usageTracker) : usageTracker[i] = k

\* k becomes the key used last.
UsedLast(k) == {p \in older : p[1] # k /\ p[2] # k} \cup ((Keys \ {k}) \X {k})

\* The class meets an assertion that does not hold.
Break == broken' = TRUE /\ UNCHANGED <<cacheData, usageTracker, cacheSize, cacheCapacity, call, thrown, older>>

-----------------------------------------------------------------------------
Init ==
  /\ cacheData = <<>>
  /\ usageTracker = <<>>
  /\ cacheSize = 0
  /\ cacheCapacity \in Capacities
  /\ call = Idle
  /\ broken = FALSE /\ thrown = FALSE
  /\ older = {}

\* Mutant: the cached size is not given back.
ReplaceAddsSize(k, v) ==
  /\ Ready /\ k \in DOMAIN cacheData /\ cacheData[k].tracked
  /\ cacheSize' = cacheSize + SizeOf[v]
  /\ cacheData' = [cacheData EXCEPT ![k] = [value |-> v, tracked |-> FALSE]]
  /\ usageTracker' = RemoveAt(usageTracker, Position(k))
  /\ call' = [op |-> "insert", key |-> k, size |-> SizeOf[v]]
  /\ UNCHANGED <<cacheCapacity, broken, thrown, older>>

\* insert() of a key that has an entry: the value is replaced and the key unlinked.
\* A deallocator that throws here leaves everything as it was.
InsertReplace(k, v) ==
  /\ Ready /\ k \in DOMAIN cacheData
  /\ \/ /\ cacheData[k].tracked
        /\ cacheSize' = cacheSize + SizeOf[v] - SizeOf[cacheData[k].value]
        /\ cacheData' = [cacheData EXCEPT ![k] = [value |-> v, tracked |-> FALSE]]
        /\ usageTracker' = RemoveAt(usageTracker, Position(k))
        /\ call' = [op |-> "insert", key |-> k, size |-> SizeOf[v]]
        /\ UNCHANGED <<cacheCapacity, broken, thrown, older>>
     \/ ~cacheData[k].tracked /\ Break

\* insert() of a new key: the entry is made, and is not in the list yet.
InsertNew(k, v) ==
  /\ Ready /\ k \in Keys \ DOMAIN cacheData
  /\ cacheSize' = cacheSize + SizeOf[v]
  /\ cacheData' = [j \in DOMAIN cacheData \cup {k} |->
                     IF j = k THEN [value |-> v, tracked |-> FALSE] ELSE cacheData[j]]
  /\ call' = [op |-> "insert", key |-> k, size |-> SizeOf[v]]
  /\ UNCHANGED <<usageTracker, cacheCapacity, broken, thrown, older>>

SetCapacity(c) ==
  /\ Ready
  /\ cacheCapacity' = c
  /\ call' = [Idle EXCEPT !.op = "set_capacity"]
  /\ UNCHANGED <<cacheData, usageTracker, cacheSize, broken, thrown, older>>

\* The condition of the eviction loop.
MustEvict == call.op # "none" /\ cacheSize > cacheCapacity /\ usageTracker # <<>>

\* One turn of the loop.  The deallocator is told of the entry before it is erased.
EvictFront ==
  /\ ~broken /\ MustEvict
  /\ LET k == Head(usageTracker) IN
     /\ cacheSize' = cacheSize - SizeOf[cacheData[k].value]
     /\ cacheData' = Restrict(cacheData, DOMAIN cacheData \ {k})
  /\ usageTracker' = Tail(usageTracker)
  /\ UNCHANGED <<cacheCapacity, call, broken, thrown, older>>

\* The deallocator throws: the call ends with the entry in place.
EvictThrows ==
  /\ ~broken /\ MustEvict
  /\ call' = Idle /\ thrown' = TRUE
  /\ UNCHANGED <<cacheData, usageTracker, cacheSize, cacheCapacity, broken, older>>

\* Mutant: the key is put back where the next eviction takes it.
InsertReturnsAtFront ==
  /\ ~broken /\ call.op = "insert" /\ ~MustEvict
  /\ usageTracker' = <<call.key>> \o usageTracker
  /\ cacheData' = [cacheData EXCEPT ![call.key].tracked = TRUE]
  /\ older' = UsedLast(call.key)
  /\ call' = Idle
  /\ UNCHANGED <<cacheSize, cacheCapacity, broken, thrown>>

\* insert() leaves the loop: the key becomes the one used last.
InsertReturns ==
  /\ ~broken /\ call.op = "insert" /\ ~MustEvict
  /\ \/ /\ usageTracker # <<>> \/ cacheSize = call.size
        /\ usageTracker' = Append(usageTracker, call.key)
        /\ cacheData' = [cacheData EXCEPT ![call.key].tracked = TRUE]
        /\ older' = UsedLast(call.key)
        /\ call' = Idle
        /\ UNCHANGED <<cacheSize, cacheCapacity, broken, thrown>>
     \/ usageTracker = <<>> /\ cacheSize # call.size /\ Break

SetCapacityReturns ==
  /\ ~broken /\ call.op = "set_capacity" /\ ~MustEvict
  /\ \/ /\ usageTracker # <<>> \/ cacheSize = 0
        /\ call' = Idle
        /\ UNCHANGED <<cacheData, usageTracker, cacheSize, cacheCapacity, broken, thrown, older>>
     \/ usageTracker = <<>> /\ cacheSize # 0 /\ Break

\* Mutant: a lookup does not count as use.
FindOnly(k) ==
  /\ Ready /\ k \in DOMAIN cacheData /\ cacheData[k].tracked
  /\ older' = UsedLast(k)
  /\ UNCHANGED <<cacheData, usageTracker, cacheSize, cacheCapacity, call, broken, thrown>>

\* find() of a key that has an entry moves the key to the back; of another it does nothing.
Find(k) ==
  /\ Ready /\ k \in DOMAIN cacheData
  /\ \/ /\ cacheData[k].tracked
        /\ usageTracker' = Append(RemoveAt(usageTracker, Position(k)), k)
        /\ older' = UsedLast(k)
        /\ UNCHANGED <<cacheData, cacheSize, cacheCapacity, call, broken, thrown>>
     \/ ~cacheData[k].tracked /\ Break

Clear ==
  /\ Ready
  /\ cacheData' = <<>> /\ usageTracker' = <<>> /\ cacheSize' = 0
  /\ UNCHANGED <<cacheCapacity, call, broken, thrown, older>>

Next ==
  \/ \E k \in Keys, v \in Values : InsertReplace(k, v) \/ InsertNew(k, v)
  \/ \E k \in Keys : Find(k)
  \/ \E c \in Capacities : SetCapacity(c)
  \/ EvictFront \/ EvictThrows \/ InsertReturns \/ SetCapacityReturns
  \/ Clear

Spec == Init /\ [][Next]_lruVars

-----------------------------------------------------------------------------
(* Properties.                                                              *)

\* m_cacheSize is the sum of the sizes of the entries, in every state a deallocator can
\* see, also after one that threw.
SizeAccounts ==
  cacheSize = SumFunction([k \in DOMAIN cacheData |-> SizeOf[cacheData[k].value]])

\* When a member function returned normally the entries fit, unless the only one is the
\* entry inserted last (the note at cache_size()).
FitsOrAlone ==
  ~thrown /\ call.op = "none" => cacheSize <= cacheCapacity \/ Len(usageTracker) = 1

\* Until a deallocator throws, the list holds every key that has an entry once, in the
\* order of use, except the key being inserted; the stored iterators agree with the list.
TrackerMatches ==
  ~thrown =>
    /\ \A k \in DOMAIN cacheData : cacheData[k].tracked <=> k # call.key
    /\ \A k \in Keys : k \in DOMAIN cacheData /\ k # call.key
                         <=> \E i \in DOMAIN usageTracker : usageTracker[i] = k
    /\ \A i, j \in DOMAIN usageTracker : i < j => <<usageTracker[i], usageTracker[j]>> \in older

\* Until a deallocator throws, an entry that leaves the cache in the eviction loop is the
\* one whose last use is the longest ago, and never the one being inserted.
EvictsLeastRecent ==
  [][~thrown /\ call.op # "none" =>
       \A k \in DOMAIN cacheData \ DOMAIN cacheData' :
         k # call.key /\ \A j \in DOMAIN cacheData' \ {call.key} : <<k, j>> \in older]_lruVars

\* No assertion of the class fails (lru_cache.hpp:217, 237, 247, 262, 272, 302, 306)
\* until a deallocator throws, and an eviction always finds the entry.
AssertionsHold ==
  /\ broken => thrown
  /\ MustEvict => Head(usageTracker) \in DOMAIN cacheData

\* The four together: the size, the map and the list, which insert(), find(), clear() and
\* the eviction loop change one after the other, never drift apart.
Consistent == TypeOK /\ SizeAccounts /\ FitsOrAlone /\ AssertionsHold
=============================================================================
