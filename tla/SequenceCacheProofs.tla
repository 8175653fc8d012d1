------------------------- MODULE SequenceCacheProofs -------------------------
(***************************************************************************)
(* Proofs about SequenceCache: what find() returns is what was stored last,  *)
(* a frame marked valid has that value queued, half written or written, and  *)
(* flush() leaves no frame without a file.  The first two except the files   *)
(* that were held twice when workers were added.  They rest on LruCacheProofs *)
(* for the list, the entries and the size of the memory cache, and for its   *)
(* assertions, none of which fails here.                                     *)
(***************************************************************************)
EXTENDS SequenceCache, WellFoundedInduction, TLAPS

MemProofs == INSTANCE LruCacheProofs WITH Keys <- Frames, NoKey <- NoFrame

\* The memory cache: its list and entries agree, and what is cached is known to the user.
MemInv ==
  /\ MemProofs!LruInv /\ ~thrown
  /\ DOMAIN cacheData \subseteq keyUnion

\* The queue is of the current path.  One worker writes in the order of the queue; with
\* several, a file is queued or being written once, if it was when they were added.
SameFile(i, j) == i.path = j.path /\ i.frame = j.frame

QueueShape ==
  /\ path \in Paths \cup {NoPath}
  /\ queue \in Seq(Items)
  /\ \A i \in 1..Len(queue) : queue[i].path = path
  /\ writing \in [Workers -> Items \cup {NoItem}]
  /\ numThreads \in Workers
  /\ \A w \in Workers : writing[w] # NoItem => w <= numThreads
  /\ files \in [Paths -> [Frames -> Values \cup {NoValue}]]
  /\ doubled \subseteq Paths \X Frames

OncePerFile ==
  /\ \A v, w \in Workers :
       writing[v] # NoItem /\ writing[w] # NoItem /\ SameFile(writing[v], writing[w])
         => v = w \/ FileOf(writing[v]) \in doubled
  /\ Multiple =>
       /\ \A i, j \in 1..Len(queue) : queue[i].frame = queue[j].frame => i = j \/ FileOf(queue[i]) \in doubled
       /\ \A i \in 1..Len(queue), w \in Workers :
            writing[w] # NoItem /\ SameFile(queue[i], writing[w]) => FileOf(queue[i]) \in doubled

QueueInv == QueueShape /\ OncePerFile

\* The call of the client, and what is left of its loop.
TaskInv ==
  /\ task.op \in {"insert", "find"} => call.op = "insert"
  /\ task.op = "set_capacity" => call.op = "set_capacity"
  /\ task.op \notin {"insert", "find", "set_capacity"} => call.op = "none"
  /\ task.op \in {"flush", "flush_async", "set_disk_path"} => task.todo \subseteq DOMAIN cacheData
  /\ task.op \in {"flush_async", "set_disk_path"} => DiskEnabled /\ task.todo \cap frameSet = {}

\* What is cached is what was stored last, every other frame is marked valid, and a frame
\* marked valid has its last value on the way to its file: only insert() is late with that.
CachedLatest == \A f \in DOMAIN cacheData \ lost : Doubled(f) \/ latest[f] = cacheData[f].value
Covered      == DiskEnabled => (keyUnion \ lost) \ DOMAIN cacheData \subseteq frameSet
ValidLatest  ==
  DiskEnabled =>
    \A f \in frameSet \ lost :
      Doubled(f) \/ Stored(f) = latest[f] \/ (task.op = "insert" /\ f = call.key)

ContentInv ==
  /\ keyUnion \subseteq Frames /\ frameSet \subseteq Frames
  /\ latest \in [Frames -> Values \cup {NoValue}]
  /\ CachedLatest /\ Covered /\ ValidLatest

CacheInv == MemInv /\ QueueInv /\ TaskInv /\ ContentInv

\* While find() is about to read a file nothing of it is queued or being written.
ReadInv ==
  task.op = "read" =>
    /\ DiskEnabled /\ task.key \in keyUnion \ DOMAIN cacheData
    /\ QueuedAt(task.key) = {} /\ WrittenBy(task.key) = {}

\* While workers are stopped, those that have ended hold nothing.
ShrinkInv ==
  task.op = "set_num_threads" =>
    /\ task \in [op : {"set_num_threads"}, to : Workers, at : Workers, ended : BOOLEAN]
    /\ task.to < task.at /\ task.at <= numThreads
    /\ \A w \in Workers : Ended(w) => writing[w] = NoItem

\* enqueue() waits for one writer of several only where the file was held twice.
WaitInv ==
  /\ waitsFor \in Workers \cup {0}
  /\ waitsFor # 0 => DiskEnabled /\ \E f \in Frames \ frameSet : HandsOver(f) /\ Doubled(f)

TurnInv == ReadInv /\ ShrinkInv /\ WaitInv

-----------------------------------------------------------------------------
(* The memory cache.                                                        *)

LEMMA MemAssumption == MemProofs!LruAssumption
  BY SequenceAssumption DEF MemProofs!LruAssumption

\* What the other proofs use of the invariant of the memory cache.
LEMMA MemFacts ==
  ASSUME MemInv
  PROVE  /\ \A f \in DOMAIN cacheData : f \in Frames /\ cacheData[f].value \in Values
         /\ call.op \in {"none", "insert", "set_capacity"}
         /\ call.op = "insert" => call.key \in DOMAIN cacheData
         /\ usageTracker # <<>> => Head(usageTracker) \in DOMAIN cacheData \ {call.key}
<1> USE DEF MemInv, MemProofs!LruInv, MemProofs!Shapes, MemProofs!CallAndOrder, MemProofs!TrackerMatches, MemProofs!Entry
<1>1. /\ \A f \in DOMAIN cacheData : f \in Frames /\ cacheData[f].value \in Values
      /\ call.op \in {"none", "insert", "set_capacity"}
      /\ call.op = "insert" => call.key \in DOMAIN cacheData
  OBVIOUS
<1>2. ASSUME usageTracker # <<>> PROVE Head(usageTracker) \in DOMAIN cacheData \ {call.key}
  <2>1. Head(usageTracker) = usageTracker[1] /\ 1 \in DOMAIN usageTracker /\ usageTracker[1] \in Frames
    BY <1>2
  <2> QED BY <2>1
<1> QED BY <1>1, <1>2

\* The steps of the memory cache are those of LruCache.
LEMMA MemSteps ==
  /\ \A f \in Frames, v \in Values : Mem!InsertReplace(f, v) \/ Mem!InsertNew(f, v) => MemProofs!Next
  /\ \A f \in Frames : Mem!Find(f) => MemProofs!Next
  /\ \A c \in Capacities : Mem!SetCapacity(c) => MemProofs!Next
  /\ Mem!EvictFront \/ Mem!InsertReturns \/ Mem!SetCapacityReturns \/ Mem!Clear => MemProofs!Next
<1>1. ASSUME NEW f \in Frames, NEW v \in Values, Mem!InsertReplace(f, v) PROVE MemProofs!InsertReplace(f, v)
  BY <1>1 DEF Mem!InsertReplace, MemProofs!InsertReplace, Mem!Ready, MemProofs!Ready, Mem!Break, MemProofs!Break,
     Mem!Position, MemProofs!Position, Mem!RemoveAt, MemProofs!RemoveAt
<1>2. ASSUME NEW f \in Frames, NEW v \in Values, Mem!InsertNew(f, v) PROVE MemProofs!InsertNew(f, v)
  BY <1>2 DEF Mem!InsertNew, MemProofs!InsertNew, Mem!Ready, MemProofs!Ready
<1>3. ASSUME NEW f \in Frames, Mem!Find(f) PROVE MemProofs!Find(f)
  BY <1>3 DEF Mem!Find, MemProofs!Find, Mem!Ready, MemProofs!Ready, Mem!Break, MemProofs!Break,
     Mem!Position, MemProofs!Position, Mem!RemoveAt, MemProofs!RemoveAt, Mem!UsedLast, MemProofs!UsedLast
<1>4. ASSUME NEW c \in Capacities, Mem!SetCapacity(c) PROVE MemProofs!SetCapacity(c)
  BY <1>4 DEF Mem!SetCapacity, MemProofs!SetCapacity, Mem!Ready, MemProofs!Ready, Mem!Idle, MemProofs!Idle
<1>5. ASSUME Mem!EvictFront PROVE MemProofs!EvictFront
  BY <1>5 DEF Mem!EvictFront, MemProofs!EvictFront, Mem!MustEvict, MemProofs!MustEvict, Mem!Restrict, MemProofs!Restrict
<1>6. ASSUME Mem!InsertReturns PROVE MemProofs!InsertReturns
  BY <1>6 DEF Mem!InsertReturns, MemProofs!InsertReturns, Mem!MustEvict, MemProofs!MustEvict, Mem!Break, MemProofs!Break,
     Mem!UsedLast, MemProofs!UsedLast, Mem!Idle, MemProofs!Idle
<1>7. ASSUME Mem!SetCapacityReturns PROVE MemProofs!SetCapacityReturns
  BY <1>7 DEF Mem!SetCapacityReturns, MemProofs!SetCapacityReturns, Mem!MustEvict, MemProofs!MustEvict,
     Mem!Break, MemProofs!Break, Mem!Idle, MemProofs!Idle
<1>8. ASSUME Mem!Clear PROVE MemProofs!Clear
  BY <1>8 DEF Mem!Clear, MemProofs!Clear, Mem!Ready, MemProofs!Ready
<1> QED BY <1>1, <1>2, <1>3, <1>4, <1>5, <1>6, <1>7, <1>8 DEF MemProofs!Next

\* A step of LruCache, or none, keeps the invariant of the memory cache.
LEMMA MemKeeps ==
  ASSUME MemInv, MemProofs!Next \/ UNCHANGED memVars, thrown' = thrown, DOMAIN cacheData' \subseteq keyUnion'
  PROVE  MemInv'
<1>1. [MemProofs!Next]_(MemProofs!lruVars)
  BY DEF memVars, MemProofs!lruVars
<1> QED BY <1>1, MemAssumption, MemProofs!LruInvStep DEF MemInv

\* insert() of the memory cache returns: the list changes, the values do not.
LEMMA ReturnsOnly ==
  ASSUME MemInv, Mem!InsertReturns, ~broken'
  PROVE  /\ DOMAIN cacheData' = DOMAIN cacheData
         /\ \A g \in DOMAIN cacheData : cacheData'[g].value = cacheData[g].value
         /\ call'.op = "none" /\ thrown' = thrown
<1>0. PICK f : f = call.key /\ f \in DOMAIN cacheData
  BY MemFacts DEF Mem!InsertReturns
<1>1. cacheData' = [cacheData EXCEPT ![f].tracked = TRUE] /\ call' = Mem!Idle /\ thrown' = thrown
  BY <1>0 DEF Mem!InsertReturns, Mem!Break
<1>2. cacheData' = [cacheData EXCEPT ![f] = [cacheData[f] EXCEPT !.tracked = TRUE]]
  BY <1>1
<1>3. cacheData[f] \in [value : Values, tracked : BOOLEAN] /\ cacheData = [g \in DOMAIN cacheData |-> cacheData[g]]
  BY <1>0 DEF MemInv, MemProofs!LruInv, MemProofs!Shapes, MemProofs!Entry
<1>4. [cacheData[f] EXCEPT !.tracked = TRUE].value = cacheData[f].value
  BY <1>3
<1> QED BY <1>1, <1>2, <1>3, <1>4 DEF Mem!Idle

-----------------------------------------------------------------------------
(* What is stored for a frame that is not in memory.                        *)

\* A set of naturals that is not empty has a least element, and one of positions a greatest.
LEMMA LeastOf ==
  ASSUME NEW T, T \subseteq Nat, T # {} PROVE Min(T) \in T /\ \A y \in T : Min(T) <= y
<1>1. PICK x \in T : \A y \in T : ~ (<<y, x>> \in OpToRel(<, Nat))
  BY NatLessThanWellFounded, WFMin
<1>2. \A y \in T : ~ (y < x)
  BY <1>1 DEF OpToRel
<1>3. \A y \in T : x =< y
  BY <1>2
<1> QED BY <1>3 DEF Min

LEMMA GreatestOf ==
  ASSUME NEW n \in Nat, NEW S, S \subseteq 1..n, S # {} PROVE Max(S) \in S /\ \A y \in S : y <= Max(S)
<1> DEFINE T == {n - i : i \in S}
<1>1. T \subseteq Nat /\ T # {}
  BY \A i \in S : n - i \in Nat
<1>2. Min(T) \in T /\ \A y \in T : Min(T) <= y
  BY <1>1, LeastOf
<1>3. PICK i \in S : Min(T) = n - i
  BY <1>2
<1>4. \A j \in S : n - i <= n - j
  BY <1>2, <1>3
<1>5. \A j \in S : i >= j
  BY <1>4
<1> QED BY <1>5 DEF Max

\* The value of the last item of the frame in the queue, else of the first worker's item
\* being written, else of the file.
LastQueued(f, i) == i \in QueuedAt(f) /\ \A j \in QueuedAt(f) : j <= i

FirstWriter(f, w) == w \in WrittenBy(f) /\ \A u \in WrittenBy(f) : w <= u

Holding(f, v) ==
  \/ \E i \in QueuedAt(f) : LastQueued(f, i) /\ v = queue[i].value
  \/ QueuedAt(f) = {} /\ \E w \in WrittenBy(f) : FirstWriter(f, w) /\ v = writing[w].value
  \/ QueuedAt(f) = {} /\ WrittenBy(f) = {} /\ v = files[path][f]

StoredIsHeld == \A f \in Frames : \A v : Holding(f, v) <=> Stored(f) = v

LEMMA StoredHolding == QueueInv /\ DiskEnabled => StoredIsHeld
<1> SUFFICES ASSUME QueueInv, DiskEnabled, NEW f \in Frames, NEW v PROVE Holding(f, v) <=> Stored(f) = v
  BY DEF StoredIsHeld
<1>1. /\ QueuedAt(f) \subseteq 1..Len(queue) /\ Len(queue) \in Nat
      /\ \A i \in 1..Len(queue) : queue[i] \in Items /\ queue[i].value \in Values
      /\ \A w \in Workers : writing[w] # NoItem => writing[w] \in Items /\ writing[w].value \in Values
      /\ NoValue \notin Values
  <2>1. queue \in Seq(Items) /\ writing \in [Workers -> Items \cup {NoItem}]
    BY DEF QueueInv, QueueShape
  <2>2. QueuedAt(f) \subseteq 1..Len(queue) /\ Len(queue) \in Nat /\ \A i \in 1..Len(queue) : queue[i] \in Items
    BY <2>1 DEF QueuedAt
  <2>3. \A w \in Workers : writing[w] # NoItem => writing[w] \in Items
    BY <2>1
  <2>4. \A i \in Items : i.value \in Values
    BY DEF Items
  <2> QED BY <2>2, <2>3, <2>4, SequenceAssumption
<1>2. CASE QueuedAt(f) # {}
  <2>1. Max(QueuedAt(f)) \in QueuedAt(f) /\ \A j \in QueuedAt(f) : j <= Max(QueuedAt(f))
    BY <1>1, <1>2, GreatestOf
  <2>2. \A i : LastQueued(f, i) => i = Max(QueuedAt(f))
    BY <2>1, <1>1 DEF LastQueued
  <2>3. Stored(f) = queue[Max(QueuedAt(f))].value
    BY <1>1, <1>2, <2>1 DEF Stored, FindPending
  <2>4. LastQueued(f, Max(QueuedAt(f)))
    BY <2>1 DEF LastQueued
  <2> HIDE DEF LastQueued
  <2> QED BY <1>2, <2>1, <2>2, <2>3, <2>4 DEF Holding
<1>3. CASE QueuedAt(f) = {} /\ WrittenBy(f) # {}
  <2>1. WrittenBy(f) \subseteq Workers /\ \A w \in WrittenBy(f) : writing[w] # NoItem
    BY DEF WrittenBy, Writers
  <2>2. WrittenBy(f) \subseteq Nat
    BY <2>1 DEF Workers
  <2>3. PICK w \in WrittenBy(f) : w = Min(WrittenBy(f)) /\ FirstWriter(f, w)
    BY <1>3, <2>2, LeastOf DEF FirstWriter
  <2>4. \A u : FirstWriter(f, u) => u = w
    BY <2>2, <2>3 DEF FirstWriter
  <2>5. Stored(f) = writing[w].value
    BY <1>1, <1>3, <2>1, <2>3 DEF Stored, FindPending
  <2> HIDE DEF FirstWriter
  <2> QED BY <1>3, <2>3, <2>4, <2>5 DEF Holding
<1>4. CASE QueuedAt(f) = {} /\ WrittenBy(f) = {}
  BY <1>4 DEF Holding, Stored, FindPending
<1> QED BY <1>2, <1>3, <1>4

LEMMA StoredHoldingNext == (QueueInv /\ DiskEnabled)' => StoredIsHeld'
  BY StoredHolding, PTL

\* A frame with the same content in the queue, with the writers and on disk keeps its value.
LEMMA StoredSame ==
  ASSUME QueueInv, DiskEnabled, QueueInv', path' = path, NEW g \in Frames,
         \A v : Holding(g, v) => Holding(g, v)'
  PROVE  Stored(g)' = Stored(g)
<1>1. DiskEnabled'
  BY DEF DiskEnabled
<1>2. PICK x : x = Stored(g)
  OBVIOUS
<1>3. Holding(g, x)'
  BY <1>2, StoredHolding DEF StoredIsHeld
<1> QED BY <1>1, <1>2, <1>3, StoredHoldingNext DEF StoredIsHeld

\* Where the serializer accepts an item: nobody writes its file, unless it was held twice.
Fits(f) == Multiple /\ QueuedAt(f) = {} /\ ~Doubled(f) => WrittenBy(f) = {}

\* Putting an item makes its value the stored one, and no other frame notices.
Stores(f, v) ==
  /\ QueueInv' /\ Stored(f)' = v
  /\ \A g \in Frames \ {f} : Stored(g)' = Stored(g) /\ Doubled(g)' = Doubled(g)
  /\ Doubled(f)' => Doubled(f)
  /\ Doubled(f) /\ ~Doubled(f)' => v = latest[f]

LEMMA PutStores ==
  ASSUME QueueInv, DiskEnabled, NEW f \in Frames, NEW v \in Values, Fits(f), Put(f, v),
         UNCHANGED <<path, writing, files, numThreads>>
  PROVE  Stores(f, v)
<1>0. /\ doubled' \subseteq doubled /\ doubled \ {<<path, f>>} \subseteq doubled'
      /\ \A g \in Frames \ {f} : Doubled(g)' = Doubled(g)
      /\ Doubled(f)' => Doubled(f)
      /\ Doubled(f) /\ ~Doubled(f)' => InOrderAgain(f, v)
      /\ doubled' \subseteq Paths \X Frames
  BY DEF Put, Doubled, QueueInv, QueueShape
<1>1. /\ queue \in Seq(Items) /\ Len(queue) \in Nat /\ path \in Paths /\ path' = path
      /\ \A i \in 1..Len(queue) : queue[i] \in Items /\ queue[i].path = path
  BY DEF QueueInv, QueueShape, DiskEnabled
<1>2. CASE Multiple /\ QueuedAt(f) # {}
  <2>1. PICK m \in QueuedAt(f) : m = Max(QueuedAt(f)) /\ m \in 1..Len(queue) /\ queue[m].frame = f /\ queue[m].path = path
    <3>1. QueuedAt(f) \subseteq 1..Len(queue) /\ \A i \in QueuedAt(f) : queue[i].frame = f /\ queue[i].path = path
      BY DEF QueuedAt
    <3> QED BY <3>1, <1>1, <1>2, GreatestOf
  <2> DEFINE e == [queue[m] EXCEPT !.value = v]
  <2>2. e \in Items /\ e.frame = f /\ e.path = path /\ e.value = v
    <3>1. queue[m] \in Items /\ queue[m].frame = f /\ queue[m].path = path
      BY <2>1, <1>1
    <3> QED BY <3>1 DEF Items
  <2>3. queue' = [queue EXCEPT ![m] = e]
    BY <1>2, <2>1 DEF Put
  <2> HIDE DEF e
  <2>4. /\ queue' \in Seq(Items) /\ Len(queue') = Len(queue) /\ queue'[m] = e
        /\ \A i \in 1..Len(queue) : i # m => queue'[i] = queue[i]
    BY <2>1, <2>2, <2>3, <1>1
  <2>5. \A i \in 1..Len(queue) : queue'[i].path = queue[i].path /\ queue'[i].frame = queue[i].frame
    BY <2>1, <2>2, <2>4
  <2>6. \A g \in Frames : QueuedAt(g)' = QueuedAt(g) /\ WrittenBy(g)' = WrittenBy(g)
    BY <2>4, <2>5 DEF QueuedAt, WrittenBy, Writers
  <2>7. QueueShape'
    BY <2>4, <2>5, <1>0, <1>1 DEF QueueInv, QueueShape
  <2>8. OncePerFile'
    <3>1. doubled' = doubled
      BY <1>2 DEF Put, InOrderAgain
    <3>2. Len(queue') = Len(queue)
          /\ \A i \in 1..Len(queue) : /\ FileOf(queue'[i]) = FileOf(queue[i]) /\ queue'[i].frame = queue[i].frame
                                      /\ \A j : SameFile(queue'[i], j) <=> SameFile(queue[i], j)
      BY <2>4, <2>5 DEF SameFile, FileOf
    <3>3. OncePerFile
      BY DEF QueueInv
    <3> HIDE DEF SameFile, FileOf
    <3> QED BY <3>1, <3>2, <3>3 DEF OncePerFile, Multiple
  <2>9. \A j \in QueuedAt(f) : j <= m
    <3>1. QueuedAt(f) \subseteq 1..Len(queue)
      BY DEF QueuedAt
    <3> QED BY <3>1, <2>1, <1>1, <1>2, GreatestOf
  <2>10. Holding(f, v)'
    <3>1. QueuedAt(f)' = QueuedAt(f) /\ m <= m
      BY <2>1, <2>6, <1>1
    <3>2. LastQueued(f, m)'
      BY <3>1, <2>1, <2>9 DEF LastQueued
    <3>3. v = queue'[m].value
      BY <2>2, <2>4
    <3> HIDE DEF LastQueued
    <3> QED BY <3>1, <3>2, <3>3, <2>1 DEF Holding
  <2>11. ASSUME NEW g \in Frames \ {f}, NEW x, Holding(g, x) PROVE Holding(g, x)'
    <3>1. \A i \in QueuedAt(g) : queue'[i] = queue[i]
      BY <2>1, <2>4 DEF QueuedAt
    <3>2. QueuedAt(g)' = QueuedAt(g) /\ WrittenBy(g)' = WrittenBy(g)
      BY <2>6
    <3> QED BY <3>1, <3>2, <2>11 DEF Holding, LastQueued, FirstWriter
  <2>12. QueueInv' /\ DiskEnabled'
    BY <2>7, <2>8 DEF QueueInv, DiskEnabled
  <2>13. Stored(f)' = v
    BY <2>10, <2>12, StoredHoldingNext DEF StoredIsHeld
  <2>14. \A g \in Frames \ {f} : Stored(g)' = Stored(g)
    BY <2>11, <2>12, StoredSame
  <2> QED BY <2>12, <2>13, <2>14, <1>0 DEF Stores, InOrderAgain
<1>3. CASE ~(Multiple /\ QueuedAt(f) # {})
  <2>0. PICK n \in Nat : n = Len(queue)
    BY <1>1
  <2> DEFINE e == ItemOf(f, v)
  <2>1. e \in Items /\ e.frame = f /\ e.path = path /\ e.value = v
    BY <1>1 DEF ItemOf, Items
  <2>2. queue' = Append(queue, e)
    BY <1>3 DEF Put
  <2> HIDE DEF e
  <2>3. /\ queue' \in Seq(Items) /\ Len(queue') = n + 1 /\ queue'[n + 1] = e
        /\ \A i \in 1..n : queue'[i] = queue[i]
    BY <2>0, <2>1, <2>2, <1>1
  <2>4. QueuedAt(f)' = QueuedAt(f) \cup {n + 1}
    BY <2>0, <2>1, <2>3, <1>1 DEF QueuedAt
  <2>5. \A g \in Frames : WrittenBy(g)' = WrittenBy(g)
    BY DEF WrittenBy, Writers
  <2>6. \A g \in Frames \ {f} : QueuedAt(g)' = QueuedAt(g)
    BY <2>0, <2>1, <2>3, <1>1 DEF QueuedAt
  <2>7. QueueShape'
    <3>1. \A i \in 1..Len(queue') : queue'[i].path = path'
      BY <2>0, <2>1, <2>3, <1>1
    <3> QED BY <2>3, <3>1, <1>0 DEF QueueInv, QueueShape
  <2>8. OncePerFile'
    <3>1. ASSUME Multiple
          PROVE  /\ \A i \in 1..n : queue[i].frame # f /\ FileOf(queue[i]) # <<path, f>>
                 /\ <<path, f>> \in doubled' \/ \A w \in Workers : writing[w] # NoItem => ~SameFile(e, writing[w])
      <4>1. \A i \in 1..n : queue[i].frame # f
        BY <3>1, <1>1, <1>3, <2>0 DEF QueuedAt
      <4>2. WrittenBy(f) = {} => \A w \in Workers : writing[w] # NoItem => ~SameFile(e, writing[w])
        BY <2>1 DEF WrittenBy, Writers, SameFile
      <4>3. ~Doubled(f) => WrittenBy(f) = {}
        BY <3>1, <1>3 DEF Fits
      <4>4. Doubled(f)' \/ ~Doubled(f) \/ WrittenBy(f) = {}
        BY <3>1, <1>0 DEF InOrderAgain
      <4> QED BY <4>1, <4>2, <4>3, <4>4 DEF FileOf, Doubled
    <3>2. ASSUME Multiple, NEW i \in 1..(n + 1), NEW j \in 1..(n + 1), queue'[i].frame = queue'[j].frame
          PROVE  i = j \/ FileOf(queue'[i]) \in doubled'
      <4>1. CASE i = n + 1 \/ j = n + 1
        BY <4>1, <3>1, <3>2, <2>1, <2>3
      <4>2. CASE i \in 1..n /\ j \in 1..n
        <5>1. queue'[i] = queue[i] /\ queue'[j] = queue[j] /\ FileOf(queue[i]) # <<path, f>>
          BY <4>2, <3>1, <3>2, <2>3
        <5>2. i = j \/ FileOf(queue[i]) \in doubled
          BY <5>1, <4>2, <3>2, <2>0 DEF QueueInv, OncePerFile
        <5> QED BY <5>1, <5>2, <1>0
      <4> QED BY <4>1, <4>2
    <3>3. ASSUME Multiple, NEW i \in 1..(n + 1), NEW w \in Workers, writing[w] # NoItem,
                 SameFile(queue'[i], writing[w])
          PROVE  FileOf(queue'[i]) \in doubled'
      <4>1. CASE i = n + 1
        BY <4>1, <3>1, <3>3, <2>1, <2>3 DEF FileOf
      <4>2. CASE i # n + 1
        <5>1. i \in 1..n /\ queue'[i] = queue[i]
          BY <4>2, <2>0, <2>3
        <5>2. FileOf(queue[i]) \in doubled
          BY <5>1, <3>3, <2>0 DEF QueueInv, OncePerFile
        <5> QED BY <5>1, <5>2, <3>1, <3>3, <1>0
      <4> QED BY <4>1, <4>2
    <3>4. \A u, w \in Workers :
            writing[u] # NoItem /\ writing[w] # NoItem /\ SameFile(writing[u], writing[w])
              => u = w \/ FileOf(writing[u]) \in doubled'
      <4> SUFFICES ASSUME NEW u \in Workers, NEW w \in Workers, u # w, writing[u] # NoItem, writing[w] # NoItem,
                          SameFile(writing[u], writing[w])
                   PROVE  FileOf(writing[u]) \in doubled'
        OBVIOUS
      <4>1. FileOf(writing[u]) \in doubled
        BY DEF QueueInv, OncePerFile
      <4>2. Multiple
        BY SequenceAssumption DEF QueueInv, QueueShape, Workers, Multiple
      <4>3. CASE FileOf(writing[u]) = <<path, f>>
        <5>1. SameFile(e, writing[u])
          BY <4>3, <2>1 DEF FileOf, SameFile
        <5> QED BY <5>1, <4>2, <4>3, <3>1
      <4>4. CASE FileOf(writing[u]) # <<path, f>>
        BY <4>1, <4>4, <1>0
      <4> QED BY <4>3, <4>4
    <3> QED BY <3>2, <3>3, <3>4, <2>0, <2>3 DEF OncePerFile, Multiple
  <2>9. Holding(f, v)'
    <3>1. LastQueued(f, n + 1)'
      BY <2>0, <2>4, <1>1 DEF LastQueued, QueuedAt
    <3>2. v = queue'[n + 1].value
      BY <2>1, <2>3
    <3> HIDE DEF LastQueued
    <3> QED BY <3>1, <3>2, <2>4 DEF Holding
  <2>10. ASSUME NEW g \in Frames \ {f}, NEW x, Holding(g, x) PROVE Holding(g, x)'
    <3>1. QueuedAt(g)' = QueuedAt(g) /\ WrittenBy(g)' = WrittenBy(g)
      BY <2>5, <2>6
    <3>2. \A i \in QueuedAt(g) : queue'[i] = queue[i]
      BY <2>0, <2>3 DEF QueuedAt
    <3> QED BY <3>1, <3>2, <2>10 DEF Holding, LastQueued, FirstWriter
  <2>11. QueueInv' /\ DiskEnabled'
    BY <2>7, <2>8 DEF QueueInv, DiskEnabled
  <2>12. Stored(f)' = v
    BY <2>9, <2>11, StoredHoldingNext DEF StoredIsHeld
  <2>13. \A g \in Frames \ {f} : Stored(g)' = Stored(g)
    BY <2>10, <2>11, StoredSame
  <2> QED BY <2>11, <2>12, <2>13, <1>0 DEF Stores, InOrderAgain
<1> QED BY <1>2, <1>3

\* A worker takes the first item, or finishes its own: what is stored stays the same.
LEMMA TakeKeeps ==
  ASSUME QueueInv, NEW w \in Workers, Take(w)
  PROVE  QueueInv' /\ (DiskEnabled => \A g \in Frames : Doubled(g) \/ Stored(g)' = Stored(g))
<1>0. PICK n \in Nat : n = Len(queue)
  BY DEF QueueInv, QueueShape
<1> DEFINE e == Head(queue)
<1>1. /\ queue \in Seq(Items) /\ queue # <<>> /\ path' = path /\ numThreads' = numThreads /\ files' = files
      /\ doubled' = doubled /\ w <= numThreads /\ writing[w] = NoItem /\ writing' = [writing EXCEPT ![w] = e] /\ queue' = Tail(queue)
  BY DEF Take, QueueInv, QueueShape, diskVars
<1>2. n # 0 /\ e = queue[1] /\ e \in Items /\ e # NoItem /\ e.path = path
  <2>1. n # 0 /\ 1 \in 1..n /\ e = queue[1] /\ e \in Items
    BY <1>0, <1>1
  <2> QED BY <2>1, <1>0, SequenceAssumption DEF QueueInv, QueueShape, Items
<1> HIDE DEF e
<1>3. /\ queue' \in Seq(Items) /\ Len(queue') = n - 1 /\ \A i \in 1..(n - 1) : queue'[i] = queue[i + 1]
      /\ n - 1 \in Nat
  BY <1>0, <1>1, <1>2
<1>4. /\ writing' \in [Workers -> Items \cup {NoItem}] /\ writing'[w] = e
      /\ \A u \in Workers : u # w => writing'[u] = writing[u]
  BY <1>1, <1>2 DEF QueueInv, QueueShape
<1>5. QueueShape'
  <2>1. \A i \in 1..(n - 1) : queue'[i].path = path
    BY <1>0, <1>3 DEF QueueInv, QueueShape
  <2>2. \A u \in Workers : writing'[u] # NoItem => u <= numThreads
    BY <1>1, <1>4 DEF QueueInv, QueueShape
  <2> QED BY <1>1, <1>3, <1>4, <2>1, <2>2 DEF QueueInv, QueueShape
<1>6. \A u \in Workers : writing[u] # NoItem /\ SameFile(writing[u], e) => FileOf(e) \in doubled
  <2>1. CASE Multiple
    BY <2>1, <1>0, <1>2 DEF QueueInv, OncePerFile, SameFile
  <2>2. CASE ~Multiple
    BY <2>2, <1>1, SequenceAssumption DEF QueueInv, QueueShape, Multiple, Workers
  <2> QED BY <2>1, <2>2
<1>7. OncePerFile'
  <2>1. \A u, v \in Workers : writing'[u] # NoItem /\ writing'[v] # NoItem /\ SameFile(writing'[u], writing'[v])
                             => u = v \/ FileOf(writing'[u]) \in doubled
    BY <1>4, <1>6 DEF QueueInv, OncePerFile, SameFile, FileOf
  <2>2. ASSUME Multiple, NEW i \in 1..(n - 1), NEW j \in 1..(n - 1), queue'[i].frame = queue'[j].frame
        PROVE  i = j \/ FileOf(queue'[i]) \in doubled
    <3>1. i + 1 \in 1..n /\ j + 1 \in 1..n /\ queue[i + 1].frame = queue[j + 1].frame /\ queue'[i] = queue[i + 1]
      BY <2>2, <1>3
    <3>2. i + 1 = j + 1 \/ FileOf(queue[i + 1]) \in doubled
      BY <3>1, <2>2, <1>0 DEF QueueInv, OncePerFile
    <3> QED BY <3>1, <3>2
  <2>3. ASSUME Multiple, NEW i \in 1..(n - 1), NEW u \in Workers, writing'[u] # NoItem,
               SameFile(queue'[i], writing'[u])
        PROVE  FileOf(queue'[i]) \in doubled
    <3>1. i + 1 \in 1..n /\ queue'[i] = queue[i + 1] /\ 1 \in 1..n /\ i + 1 # 1
      BY <1>2, <1>3
    <3>2. CASE u = w
      <4>1. queue[i + 1].frame = queue[1].frame
        BY <3>1, <3>2, <2>3, <1>2, <1>4 DEF SameFile
      <4> QED BY <3>1, <4>1, <2>3, <1>0 DEF QueueInv, OncePerFile
    <3>3. CASE u # w
      BY <3>1, <3>3, <2>3, <1>0, <1>4 DEF QueueInv, OncePerFile, SameFile
    <3> QED BY <3>2, <3>3
  <2> QED BY <2>1, <2>2, <2>3, <1>1, <1>3 DEF OncePerFile, Multiple
<1>8. QueueInv'
  BY <1>5, <1>7 DEF QueueInv
<1>9. ASSUME NEW g \in Frames, NEW x, ~Doubled(g), Holding(g, x) PROVE Holding(g, x)'
  <2>1. \A i \in 1..(n - 1) : i \in QueuedAt(g)' <=> i + 1 \in QueuedAt(g)
    BY <1>0, <1>1, <1>3 DEF QueuedAt
  <2>2. QueuedAt(g)' \subseteq 1..(n - 1) /\ QueuedAt(g) \subseteq 1..n
    BY <1>0, <1>3 DEF QueuedAt
  <2>3. CASE g = e.frame
    <3>1. 1 \in QueuedAt(g) /\ WrittenBy(g) = {} /\ WrittenBy(g)' = {w}
      <4>1. FileOf(e) \notin doubled
        BY <2>3, <1>2, <1>9 DEF FileOf, Doubled
      <4>2. \A u \in Workers : writing[u] # NoItem => ~(writing[u].path = path /\ writing[u].frame = g)
        BY <4>1, <2>3, <1>2, <1>6 DEF SameFile
      <4> QED BY <4>2, <2>3, <1>0, <1>1, <1>2, <1>4 DEF QueuedAt, WrittenBy, Writers
    <3>2. PICK i \in QueuedAt(g) : LastQueued(g, i) /\ x = queue[i].value
      BY <3>1, <1>9 DEF Holding
    <3>3. CASE i = 1
      <4>1. QueuedAt(g)' = {}
        BY <3>2, <3>3, <2>1, <2>2 DEF LastQueued
      <4>2. x = writing'[w].value
        BY <3>2, <3>3, <1>2, <1>4
      <4>3. FirstWriter(g, w)'
        BY <3>1 DEF FirstWriter, Workers
      <4> HIDE DEF FirstWriter
      <4> QED BY <4>1, <4>2, <4>3, <3>1 DEF Holding
    <3>4. CASE i # 1
      <4>1. i - 1 \in QueuedAt(g)' /\ queue'[i - 1] = queue[i]
        BY <3>2, <3>4, <2>1, <2>2, <1>3
      <4>2. \A j \in QueuedAt(g)' : j <= i - 1
        BY <3>2, <2>1, <2>2 DEF LastQueued
      <4>3. PICK h \in Nat : h = i - 1
        BY <3>2, <3>4, <2>2
      <4>4. LastQueued(g, h)' /\ x = queue'[h].value
        BY <4>1, <4>2, <4>3, <3>2 DEF LastQueued
      <4> HIDE DEF LastQueued
      <4> QED BY <4>1, <4>3, <4>4 DEF Holding
    <3> QED BY <3>3, <3>4
  <2>4. CASE g # e.frame
    <3>1. WrittenBy(g)' = WrittenBy(g) /\ \A u \in WrittenBy(g) : writing'[u] = writing[u]
      BY <2>4, <1>1, <1>2, <1>4 DEF WrittenBy, Writers
    <3>2. 1 \notin QueuedAt(g)
      BY <2>4, <1>2 DEF QueuedAt
    <3>3. CASE QueuedAt(g) = {}
      <4>1. QueuedAt(g)' = {}
        BY <3>3, <2>1, <2>2
      <4> QED BY <4>1, <3>1, <3>3, <1>9, <1>1 DEF Holding, FirstWriter
    <3>4. CASE QueuedAt(g) # {}
      <4>1. PICK i \in QueuedAt(g) : LastQueued(g, i) /\ x = queue[i].value
        BY <3>4, <1>9 DEF Holding
      <4>2. i - 1 \in QueuedAt(g)' /\ queue'[i - 1] = queue[i]
        BY <4>1, <3>2, <2>1, <2>2, <1>3
      <4>3. \A j \in QueuedAt(g)' : j <= i - 1
        BY <4>1, <2>1, <2>2 DEF LastQueued
      <4>4. PICK h \in Nat : h = i - 1
        BY <4>1, <3>2, <2>2
      <4>5. LastQueued(g, h)' /\ x = queue'[h].value
        BY <4>1, <4>2, <4>3, <4>4 DEF LastQueued
      <4> HIDE DEF LastQueued
      <4> QED BY <4>2, <4>4, <4>5 DEF Holding
    <3> QED BY <3>3, <3>4
  <2> QED BY <2>3, <2>4
<1> QED BY <1>1, <1>8, <1>9, StoredSame

LEMMA FinishKeeps ==
  ASSUME QueueInv, NEW w \in Workers, Finish(w)
  PROVE  QueueInv' /\ (DiskEnabled => \A g \in Frames : Doubled(g) \/ Stored(g)' = Stored(g))
<1> DEFINE e == writing[w]
           p == writing[w].path
           f == writing[w].frame
<1>1. /\ e # NoItem /\ queue' = queue /\ path' = path /\ numThreads' = numThreads /\ doubled' = doubled
      /\ writing' = [writing EXCEPT ![w] = NoItem]
      /\ files' = [files EXCEPT ![p][f] = e.value]
      /\ e \in Items /\ p \in Paths /\ f \in Frames /\ e.value \in Values
  BY DEF Finish, QueueInv, QueueShape, Items
<1> HIDE DEF e, p, f
<1>2. /\ writing' \in [Workers -> Items \cup {NoItem}] /\ writing'[w] = NoItem
      /\ \A u \in Workers : u # w => writing'[u] = writing[u]
  BY <1>1 DEF QueueInv, QueueShape
<1>3. /\ files' \in [Paths -> [Frames -> Values \cup {NoValue}]] /\ files'[p][f] = e.value
      /\ \A q \in Paths, g \in Frames : q # p \/ g # f => files'[q][g] = files[q][g]
  BY <1>1 DEF QueueInv, QueueShape
<1>4. QueueShape'
  BY <1>1, <1>2, <1>3 DEF QueueInv, QueueShape
<1>5. OncePerFile'
  BY <1>1, <1>2 DEF QueueInv, OncePerFile, Multiple
<1>6. ASSUME DiskEnabled, NEW g \in Frames, NEW x, ~Doubled(g), Holding(g, x) PROVE Holding(g, x)'
  <2>1. QueuedAt(g)' = QueuedAt(g) /\ path \in Paths
    BY <1>1, <1>6 DEF QueuedAt, DiskEnabled, QueueInv, QueueShape
  <2>2. CASE QueuedAt(g) # {}
    BY <2>1, <2>2, <1>1, <1>6 DEF Holding, LastQueued
  <2>3. CASE QueuedAt(g) = {} /\ path = p /\ g = f
    <3>1. \A u \in WrittenBy(g) : u = w
      <4>1. FileOf(writing[w]) \notin doubled
        BY <2>3, <1>6 DEF FileOf, Doubled, p, f
      <4> QED BY <4>1, <2>3, <1>1 DEF WrittenBy, Writers, QueueInv, OncePerFile, SameFile, e, p, f
    <3>2. w \in WrittenBy(g) /\ WrittenBy(g)' = {}
      BY <3>1, <2>3, <1>1, <1>2 DEF WrittenBy, Writers, e, p, f
    <3>3. x = e.value
      BY <3>1, <3>2, <2>3, <1>6 DEF Holding, e
    <3> QED BY <3>2, <3>3, <2>1, <2>3, <1>1, <1>3 DEF Holding
  <2>4. CASE QueuedAt(g) = {} /\ ~(path = p /\ g = f)
    <3>1. WrittenBy(g)' = WrittenBy(g) /\ w \notin WrittenBy(g)
      BY <2>4, <1>1, <1>2 DEF WrittenBy, Writers, p, f
    <3>2. files'[path][g] = files[path][g]
      BY <2>1, <2>4, <1>3
    <3>3. \A u \in WrittenBy(g) : writing'[u] = writing[u]
      BY <3>1, <1>2 DEF WrittenBy, Writers
    <3> QED BY <3>1, <3>2, <3>3, <2>1, <2>4, <1>1, <1>6 DEF Holding, FirstWriter
  <2> QED BY <2>2, <2>3, <2>4
<1>7. QueueInv'
  BY <1>4, <1>5 DEF QueueInv
<1> QED BY <1>1, <1>6, <1>7, StoredSame

LEMMA QueueRests ==
  ASSUME QueueInv, UNCHANGED <<path, queue, writing, files, numThreads, doubled>>
  PROVE  QueueInv' /\ \A g \in Frames : Stored(g)' = Stored(g) /\ Doubled(g)' = Doubled(g)
BY DEF QueueInv, QueueShape, OncePerFile, Multiple, Stored, FindPending, QueuedAt, WrittenBy, Writers, Doubled

Marks(f, v) ==
  /\ QueueInv'
  /\ ~DiskEnabled => frameSet' = frameSet
  /\ \A g \in Frames : g # f \/ f \in frameSet \/ ~DiskEnabled => Doubled(g)' = Doubled(g)
  /\ DiskEnabled =>
       /\ frameSet' = frameSet \cup {f}
       /\ f \notin frameSet => Stored(f)' = v /\ (Doubled(f) /\ ~Doubled(f)' => v = latest[f])
       /\ \A g \in Frames : g # f \/ f \in frameSet => Stored(g)' = Stored(g)

\* A frame handed to the disk cache has a file afterwards, and only its value may change.
LEMMA ErasedMarked ==
  ASSUME QueueInv, NEW f \in Frames, NEW v \in Values, OnEntryErased(f, v), waitsFor # 0 => Doubled(f),
         UNCHANGED <<path, writing, files, numThreads>>
  PROVE  Marks(f, v)
<1>1. CASE DiskEnabled /\ f \notin frameSet
  <2>1. Enqueue(f, v) /\ frameSet' = frameSet \cup {f}
    BY <1>1 DEF OnEntryErased
  <2>2. Fits(f) /\ Put(f, v)
    BY <2>1 DEF Enqueue, Accepts, Fits
  <2>3. Stores(f, v)
    BY <2>2, <1>1, PutStores
  <2> QED BY <2>1, <2>3, <1>1 DEF Marks, Stores
<1>2. CASE ~(DiskEnabled /\ f \notin frameSet)
  <2>1. UNCHANGED <<queue, doubled, frameSet>>
    BY <1>2 DEF OnEntryErased
  <2> QED BY <2>1, <1>2, QueueRests DEF Marks
<1> QED BY <1>1, <1>2

-----------------------------------------------------------------------------
(* Each step keeps the invariant while no assertion of lru_cache fails.     *)

\* A worker that is stopped changes nothing but what the call waits for.
LEMMA EndsOnly ==
  ASSUME ShrinkInv, NEW w \in Workers, Take(w) \/ Finish(w) \/ WorkerEnds
  PROVE  task' = task \/ (task.op = "set_num_threads" /\ task' = [task EXCEPT !.ended = TRUE] /\ task'.op = task.op)
<1>1. CASE task' = task
  BY <1>1
<1>2. CASE task.op = "set_num_threads" /\ task' = [task EXCEPT !.ended = TRUE]
  BY <1>2 DEF ShrinkInv
<1> QED BY <1>1, <1>2 DEF Take, Finish, WorkerEnds, Interrupted

LEMMA WorkersKeep ==
  ASSUME CacheInv, ShrinkInv, NEW w \in Workers, Take(w) \/ Finish(w) PROVE CacheInv'
<1>1. UNCHANGED <<memVars, keyUnion, frameSet, path, latest, lost, doubled>>
  BY DEF Take, Finish
<1>2. QueueInv' /\ (DiskEnabled => \A g \in Frames : Doubled(g) \/ Stored(g)' = Stored(g))
  BY TakeKeeps, FinishKeeps DEF CacheInv
<1>3. MemInv'
  BY <1>1, MemKeeps DEF CacheInv, MemInv, memVars
<1>4. UNCHANGED <<cacheData, call>>
  BY <1>1 DEF memVars
<1>5. task' = task \/ (task.op = "set_num_threads" /\ task'.op = task.op)
  BY EndsOnly
<1>6. TaskInv'
  BY <1>1, <1>4, <1>5 DEF CacheInv, TaskInv, DiskEnabled
<1>7. ContentInv'
  BY <1>1, <1>2, <1>4, <1>5 DEF CacheInv, ContentInv, CachedLatest, Covered, ValidLatest, DiskEnabled, Doubled
<1> QED BY <1>2, <1>3, <1>6, <1>7 DEF CacheInv

\* One turn of the eviction loop.
LEMMA EvictKeeps == ASSUME CacheInv, WaitInv, Evict PROVE CacheInv'
<1>0. PICK f \in Frames, v \in Values :
        f = Head(usageTracker) /\ v = cacheData[f].value /\ f \in DOMAIN cacheData \ {call.key}
  BY MemFacts DEF CacheInv, Evict, Mem!EvictFront, Mem!MustEvict
<1>1. /\ f \in DOMAIN cacheData \ {call.key} /\ f \in Frames /\ v \in Values
      /\ cacheData' = [g \in DOMAIN cacheData \ {f} |-> cacheData[g]]
      /\ call' = call /\ thrown' = thrown /\ call.op # "none"
  BY <1>0 DEF Evict, Mem!EvictFront, Mem!MustEvict, Mem!Restrict
<1>2. OnEntryErased(f, v) /\ UNCHANGED <<keyUnion, path, writing, numThreads, files, task, latest, lost>>
  BY <1>0 DEF Evict
<1>3. MemInv'
  <2>1. MemProofs!Next
    BY MemSteps DEF Evict
  <2> QED BY <2>1, <1>1, <1>2, MemKeeps DEF CacheInv, MemInv
<1>4. Marks(f, v)
  <2>1. waitsFor # 0 => Doubled(f)
    BY <1>0, <1>1 DEF WaitInv, HandsOver, CacheInv, TaskInv
  <2> QED BY <1>1, <1>2, <2>1, ErasedMarked DEF CacheInv
<1>5. TaskInv'
  BY <1>1, <1>2, <1>4 DEF CacheInv, TaskInv, Marks, DiskEnabled
<1>6. ContentInv'
  <2>1. CachedLatest'
    <3>1. \A g \in DOMAIN cacheData \ {f} : g \in Frames /\ Doubled(g)' = Doubled(g)
      BY <1>4, MemFacts DEF Marks, CacheInv
    <3> QED BY <3>1, <1>1, <1>2 DEF CacheInv, ContentInv, CachedLatest
  <2>2. Covered'
    BY <1>1, <1>2, <1>4 DEF CacheInv, ContentInv, Covered, DiskEnabled, Marks
  <2>3. ASSUME DiskEnabled, NEW g \in frameSet' \ lost, ~(task.op = "insert" /\ g = call.key), ~Doubled(g)'
        PROVE  Stored(g)' = latest[g]
    <3>1. CASE g = f /\ f \notin frameSet
      BY <3>1, <2>3, <1>0, <1>4 DEF CacheInv, ContentInv, CachedLatest, Marks
    <3>2. CASE ~(g = f /\ f \notin frameSet)
      <4>1. g \in frameSet \ lost /\ g \in Frames /\ ~Doubled(g)
        BY <3>2, <2>3, <1>4 DEF CacheInv, ContentInv, Marks
      <4>2. Stored(g) = latest[g]
        BY <4>1, <2>3 DEF CacheInv, ContentInv, ValidLatest
      <4> QED BY <4>1, <4>2, <3>2, <2>3, <1>4 DEF Marks
    <3> QED BY <3>1, <3>2
  <2>4. ValidLatest'
    BY <2>3, <1>1, <1>2 DEF ValidLatest, DiskEnabled
  <2>5. keyUnion' \subseteq Frames /\ frameSet' \subseteq Frames /\ latest' \in [Frames -> Values \cup {NoValue}]
    BY <1>1, <1>2, <1>4 DEF CacheInv, ContentInv, Marks
  <2> QED BY <2>1, <2>2, <2>4, <2>5 DEF ContentInv
<1> QED BY <1>3, <1>4, <1>5, <1>6 DEF CacheInv, Marks

\* The new value is in memory, and the frame's file is out of date until insert() returns.
LEMMA InsertKeeps ==
  ASSUME CacheInv, NEW f \in Frames, NEW v \in Values, Insert(f, v), ~broken' PROVE CacheInv'
<1>1. /\ DOMAIN cacheData' = DOMAIN cacheData \cup {f} /\ cacheData'[f].value = v
      /\ \A g \in DOMAIN cacheData \ {f} : cacheData'[g] = cacheData[g]
      /\ call'.op = "insert" /\ call'.key = f /\ thrown' = thrown
  <2>1. CASE Mem!InsertReplace(f, v)
    <3>1. cacheData \in [DOMAIN cacheData -> MemProofs!Entry]
      BY DEF CacheInv, MemInv, MemProofs!LruInv, MemProofs!Shapes
    <3> QED BY <2>1, <3>1 DEF Mem!InsertReplace, Mem!Break
  <2>2. CASE Mem!InsertNew(f, v)
    BY <2>2 DEF Mem!InsertNew
  <2> QED BY <2>1, <2>2 DEF Insert
<1>2. /\ UNCHANGED <<frameSet, path, queue, writing, files, numThreads, doubled>>
      /\ keyUnion' = keyUnion \cup {f} /\ task.op = "none" /\ task' = [op |-> "insert", new |-> f \notin keyUnion]
      /\ latest' = [latest EXCEPT ![f] = v] /\ lost' = lost \ {f}
  BY DEF Insert, AtRest, diskVars
<1>3. MemInv'
  <2>1. MemProofs!Next
    BY MemSteps DEF Insert
  <2> QED BY <2>1, <1>1, <1>2, MemKeeps DEF CacheInv, MemInv
<1>4. QueueInv' /\ \A g \in Frames : Stored(g)' = Stored(g) /\ Doubled(g)' = Doubled(g)
  BY <1>2, QueueRests DEF CacheInv
<1>5. TaskInv'
  BY <1>1, <1>2 DEF TaskInv
<1>6. ContentInv'
  <2>1. DOMAIN cacheData \subseteq Frames /\ keyUnion \subseteq Frames /\ frameSet \subseteq Frames
        /\ latest' \in [Frames -> Values \cup {NoValue}] /\ latest'[f] = v
        /\ \A g \in Frames \ {f} : latest'[g] = latest[g]
    BY <1>2, MemFacts DEF CacheInv, ContentInv
  <2>2. CachedLatest'
    BY <2>1, <1>1, <1>2, <1>4 DEF CacheInv, ContentInv, CachedLatest
  <2>3. Covered'
    BY <2>1, <1>1, <1>2 DEF CacheInv, ContentInv, Covered, DiskEnabled
  <2>4. ValidLatest'
    BY <2>1, <1>1, <1>2, <1>4 DEF CacheInv, ContentInv, ValidLatest, DiskEnabled
  <2> QED BY <2>1, <2>2, <2>3, <2>4, <1>2 DEF ContentInv
<1> QED BY <1>3, <1>4, <1>5, <1>6 DEF CacheInv

\* insert() returns: the value is queued, or the frame is not marked any more.
LEMMA InsertDoneKeeps == ASSUME CacheInv, InsertDone, ~broken' PROVE CacheInv'
<1>0. PICK f \in Frames, v \in Values :
        f = call.key /\ f \in DOMAIN cacheData /\ v = cacheData[f].value
  BY MemFacts DEF CacheInv, TaskInv, InsertDone
<1>1. /\ DOMAIN cacheData' = DOMAIN cacheData
      /\ \A g \in DOMAIN cacheData : cacheData'[g].value = cacheData[g].value
      /\ call'.op = "none" /\ thrown' = thrown
  BY ReturnsOnly DEF CacheInv, TaskInv, InsertDone
<1>2. /\ UpdateDisk(f, v)
      /\ UNCHANGED <<keyUnion, path, writing, numThreads, files, latest, lost>>
      /\ task.op = "insert" /\ task' = NoTask
  BY <1>0 DEF InsertDone
<1>3. MemInv'
  <2>1. MemProofs!Next
    BY MemSteps DEF InsertDone
  <2> QED BY <2>1, <1>1, <1>2, MemKeeps DEF CacheInv, MemInv
<1>4. /\ QueueInv' /\ frameSet' \subseteq frameSet \cup {f} /\ frameSet \ {f} \subseteq frameSet'
      /\ DiskEnabled => /\ f \in frameSet' => Stored(f)' = v
                        /\ \A g \in Frames \ {f} : Stored(g)' = Stored(g)
      /\ \A g \in Frames \ {f} : Doubled(g)' = Doubled(g)
      /\ Doubled(f) /\ ~Doubled(f)' => v = latest[f]
  <2>1. CASE DiskEnabled /\ Accepts(f, v) /\ Put(f, v) /\ frameSet' = frameSet \cup {f}
    <3>1. Fits(f)
      BY <2>1 DEF Accepts, Fits
    <3>2. Stores(f, v)
      BY <2>1, <3>1, <1>2, PutStores DEF CacheInv
    <3> QED BY <2>1, <3>2 DEF Stores
  <2>2. CASE UNCHANGED <<queue, doubled>> /\ frameSet' = frameSet \ {f}
    BY <2>2, <1>2, QueueRests DEF CacheInv
  <2>3. CASE UNCHANGED <<queue, doubled, frameSet>> /\ (DiskEnabled => f \notin frameSet)
    BY <2>3, <1>2, QueueRests DEF CacheInv
  <2> QED BY <2>1, <2>2, <2>3, <1>2 DEF UpdateDisk
<1>5. TaskInv'
  BY <1>1, <1>2 DEF TaskInv, NoTask
<1>6. ContentInv'
  <2>1. CachedLatest'
    <3>1. ASSUME NEW g \in DOMAIN cacheData \ lost, ~Doubled(g)' PROVE latest[g] = cacheData[g].value
      <4>1. g \in Frames
        BY MemFacts DEF CacheInv
      <4> QED BY <4>1, <3>1, <1>0, <1>4 DEF CacheInv, ContentInv, CachedLatest
    <3> QED BY <3>1, <1>1, <1>2 DEF CachedLatest
  <2>2. Covered'
    BY <1>0, <1>1, <1>2, <1>4 DEF CacheInv, ContentInv, Covered, DiskEnabled
  <2>3. ASSUME DiskEnabled, NEW g \in frameSet' \ lost, ~Doubled(g)' PROVE Stored(g)' = latest[g]
    <3>1. CASE g = f
      BY <3>1, <2>3, <1>0, <1>4 DEF CacheInv, ContentInv, CachedLatest
    <3>2. CASE g # f
      <4>1. g \in frameSet \ lost /\ g \in Frames /\ Stored(g) = latest[g]
        BY <3>2, <2>3, <1>0, <1>2, <1>4 DEF CacheInv, ContentInv, ValidLatest
      <4> QED BY <4>1, <3>2, <2>3, <1>4
    <3> QED BY <3>1, <3>2
  <2>4. ValidLatest'
    BY <2>3, <1>2 DEF ValidLatest, DiskEnabled
  <2>5. keyUnion' \subseteq Frames /\ frameSet' \subseteq Frames /\ latest' \in [Frames -> Values \cup {NoValue}]
    BY <1>2, <1>4 DEF CacheInv, ContentInv
  <2> QED BY <2>1, <2>2, <2>4, <2>5 DEF ContentInv
<1> QED BY <1>3, <1>4, <1>5, <1>6 DEF CacheInv

\* What is stored and is not missing is a value.
LEMMA StoredIsValue ==
  ASSUME QueueInv, DiskEnabled, NEW f \in Frames, Stored(f) # NoValue PROVE Stored(f) \in Values
<1>0. PICK v : v = Stored(f)
  OBVIOUS
<1>1. path \in Paths /\ files[path][f] \in Values \cup {NoValue}
  BY DEF QueueInv, QueueShape, DiskEnabled
<1>2. Holding(f, v)
  BY <1>0, StoredHolding DEF StoredIsHeld
<1>3. \A i \in QueuedAt(f) : queue[i].value \in Values
  <2>1. \A i \in 1..Len(queue) : queue[i] \in Items
    BY DEF QueueInv, QueueShape
  <2> QED BY <2>1 DEF QueuedAt, Items
<1>4. \A w \in WrittenBy(f) : writing[w].value \in Values
  BY DEF QueueInv, QueueShape, WrittenBy, Writers, Items
<1> QED BY <1>0, <1>1, <1>2, <1>3, <1>4 DEF Holding

\* find() brings to memory what was stored last.
LEMMA Brought ==
  ASSUME CacheInv, NEW f \in Frames, f \in keyUnion \ DOMAIN cacheData, DiskEnabled, Stored(f) # NoValue,
         Mem!InsertNew(f, Stored(f)), task.op # "insert", task' = [op |-> "find"],
         UNCHANGED <<keyUnion, frameSet, path, queue, writing, files, numThreads, doubled, latest, lost>>
  PROVE  CacheInv'
<1>0. PICK v : v = Stored(f)
  OBVIOUS
<1>1. /\ DOMAIN cacheData' = DOMAIN cacheData \cup {f} /\ cacheData'[f].value = v
      /\ \A g \in DOMAIN cacheData \ {f} : cacheData'[g] = cacheData[g]
      /\ call'.op = "insert" /\ call'.key = f /\ thrown' = thrown
  BY <1>0 DEF Mem!InsertNew
<1>3. v \in Values
  BY <1>0, StoredIsValue DEF CacheInv
<1>4. MemInv'
  <2>1. Mem!InsertNew(f, v)
    BY <1>0
  <2>2. MemProofs!Next
    BY <2>1, <1>3, MemSteps
  <2> QED BY <2>2, <1>1, MemKeeps DEF CacheInv, MemInv
<1>5. QueueInv' /\ \A g \in Frames : Stored(g)' = Stored(g) /\ Doubled(g)' = Doubled(g)
  BY QueueRests DEF CacheInv
<1>6. TaskInv'
  BY <1>1 DEF TaskInv
<1>7. ContentInv'
  <2>1. f \notin lost => Doubled(f) \/ latest[f] = v
    BY <1>0 DEF CacheInv, ContentInv, Covered, ValidLatest
  <2>2. CachedLatest'
    <3>1. \A g \in DOMAIN cacheData : g \in Frames
      BY MemFacts DEF CacheInv
    <3> QED BY <2>1, <3>1, <1>1, <1>5 DEF CacheInv, ContentInv, CachedLatest
  <2>3. Covered' /\ ValidLatest'
    BY <1>1, <1>5 DEF CacheInv, ContentInv, Covered, ValidLatest, DiskEnabled
  <2> QED BY <2>2, <2>3 DEF CacheInv, ContentInv
<1> QED BY <1>4, <1>5, <1>6, <1>7 DEF CacheInv

\* Nothing is pending for a frame that find() has to read from its file.
LEMMA NothingPending ==
  ASSUME QueueInv, NEW f \in Frames, FindPending(f) = NoValue PROVE QueuedAt(f) = {} /\ WrittenBy(f) = {}
<1>1. QueuedAt(f) \subseteq 1..Len(queue) /\ Len(queue) \in Nat
  BY DEF QueuedAt, QueueInv, QueueShape
<1>2. \A i \in QueuedAt(f) : queue[i].value # NoValue
  <2>1. \A i \in 1..Len(queue) : queue[i] \in Items
    BY DEF QueueInv, QueueShape
  <2> QED BY <1>1, <2>1, SequenceAssumption DEF Items
<1>3. \A w \in WrittenBy(f) : writing[w].value # NoValue
  BY SequenceAssumption DEF QueueInv, QueueShape, WrittenBy, Writers, Items
<1>4. QueuedAt(f) = {}
  <2>1. QueuedAt(f) # {} => Max(QueuedAt(f)) \in QueuedAt(f)
    BY <1>1, GreatestOf
  <2> QED BY <1>2, <2>1 DEF FindPending
<1>5. WrittenBy(f) = {}
  <2>1. WrittenBy(f) \subseteq Nat
    BY DEF WrittenBy, Writers, Workers
  <2>2. WrittenBy(f) # {} => Min(WrittenBy(f)) \in WrittenBy(f)
    BY <2>1, LeastOf
  <2> QED BY <1>3, <1>4, <2>2 DEF FindPending
<1> QED BY <1>4, <1>5

\* The calls that change neither what is cached nor what is on its way to a file.
LEMMA RestKeeps ==
  ASSUME CacheInv, UNCHANGED <<keyUnion, frameSet, path, queue, writing, files, doubled, latest, lost>>,
         MemProofs!Next \/ UNCHANGED memVars, cacheData' = cacheData, thrown' = thrown,
         numThreads' = numThreads, TaskInv', task.op # "insert"
  PROVE  CacheInv'
<1>1. MemInv'
  BY MemKeeps DEF CacheInv, MemInv
<1>2. QueueInv' /\ \A g \in Frames : Stored(g)' = Stored(g) /\ Doubled(g)' = Doubled(g)
  BY QueueRests DEF CacheInv
<1>3. \A g \in DOMAIN cacheData : g \in Frames
  BY MemFacts DEF CacheInv
<1>4. ContentInv'
  BY <1>2, <1>3 DEF CacheInv, ContentInv, CachedLatest, Covered, ValidLatest, DiskEnabled
<1> QED BY <1>1, <1>2, <1>4 DEF CacheInv

LEMMA FindStoredKeeps ==
  ASSUME CacheInv, NEW f \in Frames, FindStored(f) PROVE CacheInv'
<1>1. /\ UNCHANGED <<keyUnion, frameSet, path, queue, writing, files, numThreads, doubled, latest, lost>>
      /\ task.op = "none" /\ f \in keyUnion \ DOMAIN cacheData /\ DiskEnabled
  BY DEF FindStored, AtRest, diskVars, Cached
<1>2. CASE FindPending(f) # NoValue
  <2>1. Stored(f) # NoValue /\ Mem!InsertNew(f, Stored(f)) /\ task' = [op |-> "find"]
    BY <1>2 DEF FindStored, Stored
  <2> QED BY <2>1, <1>1, Brought
<1>3. CASE FindPending(f) = NoValue
  <2>1. task' = [op |-> "read", key |-> f] /\ UNCHANGED memVars /\ UNCHANGED <<cacheData, call, thrown>>
    BY <1>3 DEF FindStored, memVars
  <2>2. TaskInv'
    BY <2>1, <1>1 DEF CacheInv, TaskInv
  <2> QED BY <2>1, <2>2, <1>1, RestKeeps
<1> QED BY <1>2, <1>3

LEMMA ReadFileKeeps == ASSUME CacheInv, ReadInv, ReadFile PROVE CacheInv'
<1>0. PICK f \in Frames : f = task.key
  BY DEF ReadFile, ReadInv, CacheInv, ContentInv
<1>1. /\ UNCHANGED <<keyUnion, frameSet, path, queue, writing, files, numThreads, doubled, latest, lost>>
      /\ task.op = "read" /\ f \in keyUnion \ DOMAIN cacheData /\ DiskEnabled
  BY <1>0 DEF ReadFile, ReadInv, diskVars
<1>2. Stored(f) = files[path][f]
  BY <1>0, <1>1 DEF Stored, FindPending, ReadInv
<1>3. CASE files[path][f] # NoValue
  <2>1. Mem!InsertNew(f, Stored(f)) /\ task' = [op |-> "find"]
    BY <1>0, <1>2, <1>3 DEF ReadFile
  <2> QED BY <2>1, <1>1, <1>2, <1>3, Brought
<1>4. CASE files[path][f] = NoValue
  <2>1. task' = NoTask /\ UNCHANGED memVars /\ UNCHANGED <<cacheData, call, thrown>>
    BY <1>0, <1>4 DEF ReadFile, memVars
  <2>2. TaskInv'
    BY <2>1, <1>1 DEF CacheInv, TaskInv, NoTask
  <2> QED BY <2>1, <2>2, <1>1, RestKeeps
<1> QED BY <1>3, <1>4

LEMMA FindCachedKeeps ==
  ASSUME CacheInv, NEW f \in Frames, FindCached(f), ~broken' PROVE CacheInv'
<1>1. /\ UNCHANGED <<keyUnion, frameSet, path, queue, writing, files, doubled, latest, lost, numThreads, task>>
      /\ UNCHANGED <<cacheData, call, thrown>> /\ task.op = "none"
  BY DEF FindCached, Mem!Find, Mem!Break, diskVars, AtRest
<1>2. MemProofs!Next
  BY MemSteps DEF FindCached
<1>3. TaskInv'
  BY <1>1 DEF CacheInv, TaskInv, DiskEnabled
<1> QED BY <1>1, <1>2, <1>3, RestKeeps

LEMMA FindDoneKeeps == ASSUME CacheInv, FindDone, ~broken' PROVE CacheInv'
<1>1. /\ DOMAIN cacheData' = DOMAIN cacheData
      /\ \A g \in DOMAIN cacheData : cacheData'[g].value = cacheData[g].value
      /\ call'.op = "none" /\ thrown' = thrown
  BY ReturnsOnly DEF CacheInv, TaskInv, FindDone
<1>2. /\ UNCHANGED <<keyUnion, frameSet, path, queue, writing, files, doubled, latest, lost, numThreads>>
      /\ task.op = "find" /\ task' = NoTask
  BY DEF FindDone, diskVars
<1>3. MemInv'
  <2>1. MemProofs!Next
    BY MemSteps DEF FindDone
  <2> QED BY <2>1, <1>1, <1>2, MemKeeps DEF CacheInv, MemInv
<1>4. QueueInv' /\ \A g \in Frames : Stored(g)' = Stored(g) /\ Doubled(g)' = Doubled(g)
  BY <1>2, QueueRests DEF CacheInv
<1>5. TaskInv' /\ ContentInv'
  <2>1. \A g \in DOMAIN cacheData : g \in Frames
    BY MemFacts DEF CacheInv
  <2> QED BY <2>1, <1>1, <1>2, <1>4
     DEF CacheInv, TaskInv, NoTask, ContentInv, CachedLatest, Covered, ValidLatest, DiskEnabled
<1> QED BY <1>3, <1>4, <1>5 DEF CacheInv

LEMMA CapacityKeeps ==
  ASSUME CacheInv, (\E c \in Capacities : SetCapacity(c)) \/ SetCapacityDone, ~broken' PROVE CacheInv'
<1>1. CASE \E c \in Capacities : SetCapacity(c)
  <2>1. PICK c \in Capacities : SetCapacity(c)
    BY <1>1
  <2>2. /\ UNCHANGED <<keyUnion, frameSet, path, queue, writing, files, doubled, latest, lost, numThreads>>
        /\ UNCHANGED <<cacheData, thrown>> /\ task.op = "none" /\ task' = [op |-> "set_capacity"]
        /\ call'.op = "set_capacity"
    BY <2>1 DEF SetCapacity, Mem!SetCapacity, Mem!Idle, diskVars, AtRest
  <2>3. MemProofs!Next
    BY <2>1, MemSteps DEF SetCapacity
  <2>4. TaskInv'
    BY <2>2 DEF TaskInv
  <2> QED BY <2>2, <2>3, <2>4, RestKeeps
<1>2. CASE SetCapacityDone
  <2>2. /\ UNCHANGED <<keyUnion, frameSet, path, queue, writing, files, doubled, latest, lost, numThreads>>
        /\ UNCHANGED <<cacheData, thrown>> /\ task.op = "set_capacity" /\ task' = NoTask
        /\ call'.op = "none"
    BY <1>2 DEF SetCapacityDone, Mem!SetCapacityReturns, Mem!Idle, Mem!Break, diskVars
  <2>3. MemProofs!Next
    BY <1>2, MemSteps DEF SetCapacityDone
  <2>4. TaskInv'
    BY <2>2 DEF TaskInv, NoTask
  <2> QED BY <2>2, <2>3, <2>4, RestKeeps
<1> QED BY <1>1, <1>2

\* The capacity of the queue, and a call that stops workers.
LEMMA QueueCallsKeep ==
  ASSUME CacheInv, ShrinkInv,
         \/ \E c \in QueueCapacities : SetPendingCapacity(c)
         \/ SetPendingCapacityDone
         \/ \E n \in Workers : StopThreads(n)
         \/ WorkerEnds
  PROVE  CacheInv'
<1>1. /\ UNCHANGED <<keyUnion, frameSet, path, queue, writing, files, doubled, latest, lost, numThreads>>
      /\ UNCHANGED memVars /\ UNCHANGED <<cacheData, thrown, call>>
      /\ task.op \in {"none", "set_pending_capacity", "set_num_threads"}
  BY DEF SetPendingCapacity, SetPendingCapacityDone, StopThreads, WorkerEnds, AtRest, diskVars, memVars
<1>2. task'.op \in {"none", "set_pending_capacity", "set_num_threads"}
  <2>1. CASE WorkerEnds
    BY <2>1, EndsOnly, SequenceAssumption DEF WorkerEnds, Workers
  <2>2. CASE ~WorkerEnds
    BY <2>2 DEF SetPendingCapacity, SetPendingCapacityDone, StopThreads, NoTask
  <2> QED BY <2>1, <2>2
<1>3. TaskInv'
  BY <1>1, <1>2 DEF CacheInv, TaskInv
<1> QED BY <1>1, <1>3, RestKeeps

\* More workers: what was held twice is set apart.
LEMMA AddThreadsKeeps == ASSUME CacheInv, NEW n \in Workers, AddThreads(n) PROVE CacheInv'
<1>1. /\ UNCHANGED <<memVars, keyUnion, frameSet, path, queue, writing, files, task, latest, lost>>
      /\ UNCHANGED <<cacheData, call, thrown>>
      /\ numThreads' = n /\ n > numThreads /\ doubled' = doubled \cup HeldTwice
  BY DEF AddThreads, memVars
<1>2. MemInv'
  BY <1>1, MemKeeps DEF CacheInv, MemInv
<1>3. \A i \in 1..Len(queue) : queue[i] \in Items /\ queue[i].path = path
  BY DEF CacheInv, QueueInv, QueueShape
<1>4. /\ \A i, j \in 1..Len(queue) : queue[i].frame = queue[j].frame => i = j \/ FileOf(queue[i]) \in HeldTwice
      /\ \A i \in 1..Len(queue), w \in Workers :
           writing[w] # NoItem /\ SameFile(queue[i], writing[w]) => FileOf(queue[i]) \in HeldTwice
  BY <1>3 DEF HeldTwice, FileOf, SameFile
<1>5. HeldTwice \subseteq Paths \X Frames
  <2>1. \A i \in 1..Len(queue) : FileOf(queue[i]) \in Paths \X Frames
    BY <1>3 DEF FileOf, Items
  <2> QED BY <2>1 DEF HeldTwice
<1>6. QueueShape'
  BY <1>1, <1>5 DEF CacheInv, QueueInv, QueueShape, Workers
<1>7. OncePerFile'
  BY <1>1, <1>4 DEF CacheInv, QueueInv, OncePerFile
<1>8. \A g \in Frames : Stored(g)' = Stored(g) /\ (Doubled(g) => Doubled(g)')
  BY <1>1 DEF Stored, FindPending, QueuedAt, WrittenBy, Writers, Doubled
<1>9. \A g \in DOMAIN cacheData : g \in Frames
  BY MemFacts DEF CacheInv
<1>10. TaskInv' /\ ContentInv'
  BY <1>1, <1>8, <1>9 DEF CacheInv, TaskInv, ContentInv, CachedLatest, Covered, ValidLatest, DiskEnabled
<1> QED BY <1>2, <1>6, <1>7, <1>10 DEF CacheInv, QueueInv

LEMMA JoinedOnly == ASSUME ShrinkInv, ThreadJoined PROVE task'.op \in {"none", "set_num_threads"}
<1>1. task \in [op : {"set_num_threads"}, to : Workers, at : Workers, ended : BOOLEAN]
  BY DEF ThreadJoined, ShrinkInv
<1>2. CASE task' = [task EXCEPT !.at = @ + 1, !.ended = FALSE]
  <2>1. task.at + 1 \in Int
    BY <1>1 DEF Workers
  <2>2. task' \in [op : {"set_num_threads"}, to : Workers, at : Int, ended : BOOLEAN]
    BY <1>1, <1>2, <2>1
  <2> QED BY <2>2
<1> QED BY <1>2 DEF ThreadJoined, NoTask

\* Fewer workers: those that ended hold nothing.
LEMMA JoinedKeeps == ASSUME CacheInv, ShrinkInv, ThreadJoined PROVE CacheInv'
<1>1. /\ UNCHANGED <<memVars, keyUnion, frameSet, path, queue, writing, files, doubled, latest, lost>>
      /\ UNCHANGED <<cacheData, call, thrown>> /\ task.op = "set_num_threads"
  BY DEF ThreadJoined, memVars
<1>2. task \in [op : {"set_num_threads"}, to : Workers, at : Workers, ended : BOOLEAN]
  BY <1>1 DEF ShrinkInv
<1>3. task'.op \in {"none", "set_num_threads"}
  BY JoinedOnly
<1>4. TaskInv'
  BY <1>1, <1>3 DEF CacheInv, TaskInv
<1>5. CASE numThreads' = numThreads
  BY <1>1, <1>4, <1>5, RestKeeps
<1>6. CASE numThreads' # numThreads
  <2>1. numThreads' = task.to /\ task.at = numThreads /\ task.ended /\ task.to < numThreads
    BY <1>1, <1>2, <1>6 DEF ThreadJoined, ShrinkInv, CacheInv, QueueInv, QueueShape, Workers
  <2>2. \A w \in Workers : writing[w] # NoItem => w <= task.to
    <3> SUFFICES ASSUME NEW w \in Workers, writing[w] # NoItem, ~(w <= task.to) PROVE FALSE
      OBVIOUS
    <3>1. task.to < w /\ w <= task.at
      BY <1>2, <2>1 DEF CacheInv, QueueInv, QueueShape, Workers
    <3>2. Ended(w)
      BY <3>1, <1>1, <2>1 DEF Ended
    <3> QED BY <3>2, <1>1 DEF ShrinkInv
  <2>3. QueueShape'
    BY <1>1, <1>2, <2>1, <2>2 DEF CacheInv, QueueInv, QueueShape
  <2>4. Multiple' => Multiple
    BY <1>2, <2>1 DEF Multiple, CacheInv, QueueInv, QueueShape, Workers
  <2>5. OncePerFile'
    BY <1>1, <2>4 DEF CacheInv, QueueInv, OncePerFile
  <2>6. \A g \in Frames : Stored(g)' = Stored(g) /\ Doubled(g)' = Doubled(g)
    BY <1>1 DEF Stored, FindPending, QueuedAt, WrittenBy, Writers, Doubled
  <2>7. MemInv'
    BY <1>1, MemKeeps DEF CacheInv, MemInv
  <2>8. ContentInv'
    <3>1. \A g \in DOMAIN cacheData : g \in Frames
      BY MemFacts DEF CacheInv
    <3> QED BY <3>1, <1>1, <1>3, <2>6
            DEF CacheInv, ContentInv, CachedLatest, Covered, ValidLatest, DiskEnabled
  <2> QED BY <1>4, <2>3, <2>5, <2>7, <2>8 DEF CacheInv, QueueInv
<1> QED BY <1>5, <1>6

\* A loop that hands the frames in memory to the disk cache marks one per turn, and what
\* it marks is what was stored last.
LEMMA MarksKeep ==
  ASSUME CacheInv, NEW f \in DOMAIN cacheData, NEW v, v = cacheData[f].value, Marks(f, v),
         UNCHANGED <<memVars, keyUnion, path, latest, lost>>, task.op # "insert"
  PROVE  MemInv' /\ ContentInv'
<1>0. UNCHANGED <<cacheData, thrown, call>> /\ f \in Frames
  BY MemFacts DEF memVars, CacheInv
<1>1. MemInv'
  BY <1>0, MemKeeps DEF CacheInv, MemInv
<1>2. CachedLatest' /\ Covered'
  <2>1. Covered'
    BY <1>0 DEF CacheInv, ContentInv, Covered, Marks, DiskEnabled
  <2>2. ASSUME NEW g \in DOMAIN cacheData \ lost, ~Doubled(g)' PROVE latest[g] = cacheData[g].value
    <3>1. g \in Frames
      BY MemFacts DEF CacheInv
    <3>2. CASE Doubled(g)
      BY <3>1, <3>2, <2>2 DEF Marks
    <3>3. CASE ~Doubled(g)
      BY <3>3, <2>2 DEF CacheInv, ContentInv, CachedLatest
    <3> QED BY <3>2, <3>3
  <2>3. CachedLatest'
    BY <1>0, <2>2 DEF CachedLatest
  <2> QED BY <2>1, <2>3
<1>3. ASSUME DiskEnabled, NEW g \in frameSet' \ lost, ~Doubled(g)' PROVE Stored(g)' = latest[g]
  <2>1. CASE g = f /\ f \notin frameSet
    BY <2>1, <1>3 DEF CacheInv, ContentInv, CachedLatest, Marks
  <2>2. CASE ~(g = f /\ f \notin frameSet)
    <3>1. g \in frameSet \ lost /\ g \in Frames /\ ~Doubled(g)
      BY <2>2, <1>3 DEF CacheInv, ContentInv, Marks
    <3>2. Stored(g) = latest[g]
      BY <3>1, <1>3 DEF CacheInv, ContentInv, ValidLatest
    <3> QED BY <3>1, <3>2, <2>2, <1>3 DEF Marks
  <2> QED BY <2>1, <2>2
<1>4. ValidLatest'
  BY <1>3 DEF ValidLatest, DiskEnabled
<1>5. keyUnion' \subseteq Frames /\ frameSet' \subseteq Frames /\ latest' \in [Frames -> Values \cup {NoValue}]
  BY <1>0 DEF CacheInv, ContentInv, Marks
<1> QED BY <1>1, <1>2, <1>4, <1>5 DEF ContentInv

\* The frame of the next turn is in memory.
LEMMA TodoCached ==
  ASSUME CacheInv, task.op \in {"flush", "flush_async", "set_disk_path"}, task.todo # {}
  PROVE  \E f \in DOMAIN cacheData, v \in Values : f = Min(task.todo) /\ f \in task.todo /\ v = cacheData[f].value
<1>1. task.todo \subseteq DOMAIN cacheData /\ DOMAIN cacheData \subseteq Nat
  BY MemFacts, SequenceAssumption DEF CacheInv, TaskInv
<1>2. Min(task.todo) \in task.todo
  BY <1>1, LeastOf
<1> QED BY <1>1, <1>2, MemFacts DEF CacheInv

LEMMA FlushNextKeeps == ASSUME CacheInv, WaitInv, FlushNext PROVE CacheInv'
<1>0. PICK f \in DOMAIN cacheData, v \in Values : f = Min(task.todo) /\ f \in task.todo /\ v = cacheData[f].value
  BY TodoCached DEF FlushNext
<1>1. /\ OnEntryErased(f, v) /\ f \in Frames
      /\ task.op = "flush" /\ task' = [task EXCEPT !.todo = @ \ {f}]
      /\ UNCHANGED <<memVars, keyUnion, path, writing, numThreads, files, latest, lost>>
  BY <1>0, MemFacts DEF FlushNext, CacheInv
<1>2. Marks(f, v)
  <2>1. waitsFor # 0 => Doubled(f)
    BY <1>0, <1>1 DEF WaitInv, HandsOver, Mem!MustEvict, CacheInv, TaskInv
  <2> QED BY <1>1, <2>1, ErasedMarked DEF CacheInv
<1>3. MemInv' /\ ContentInv'
  BY <1>0, <1>1, <1>2, MarksKeep
<1>4. TaskInv'
  <2>1. task'.op = "flush" /\ (task'.todo = task.todo \ {f} \/ task'.todo = task.todo)
    BY <1>1
  <2> QED BY <2>1, <1>1 DEF CacheInv, TaskInv, memVars
<1> QED BY <1>2, <1>3, <1>4 DEF CacheInv, Marks

\* flush_async() and set_disk_path( keep_existing ) stop at the first item refused.
LEMMA QueueNextKeeps == ASSUME CacheInv, FlushAsyncNext \/ KeepNext PROVE CacheInv'
<1>0. PICK f \in DOMAIN cacheData, v \in Values : f = Min(task.todo) /\ f \in task.todo /\ v = cacheData[f].value
  BY TodoCached DEF FlushAsyncNext, KeepNext
<1>1. /\ task.op \in {"flush_async", "set_disk_path"} /\ f \in Frames /\ f \notin frameSet /\ DiskEnabled
      /\ UNCHANGED <<memVars, keyUnion, path, writing, numThreads, files, latest, lost>>
  BY <1>0, MemFacts DEF FlushAsyncNext, KeepNext, CacheInv, TaskInv
<1>2. CASE Accepts(f, v)
  <2>1. Put(f, v) /\ frameSet' = frameSet \cup {f} /\ task' = [task EXCEPT !.todo = @ \ {f}]
    BY <1>0, <1>2 DEF FlushAsyncNext, KeepNext
  <2>2. Marks(f, v)
    <3>1. Fits(f)
      BY <1>2 DEF Accepts, Fits
    <3>2. Stores(f, v)
      BY <3>1, <2>1, <1>1, PutStores DEF CacheInv
    <3> QED BY <3>2, <2>1, <1>1 DEF Marks, Stores
  <2>3. MemInv' /\ ContentInv'
    BY <2>2, <1>0, <1>1, MarksKeep
  <2>4. TaskInv'
    <3>1. task'.op = task.op /\ (task'.todo = task.todo \ {f} \/ task' = task)
      BY <2>1
    <3>2. f \in task.todo => task'.todo = task.todo \ {f}
      BY <2>1, <1>1
    <3> QED BY <3>1, <3>2, <2>1, <1>0, <1>1 DEF CacheInv, TaskInv, memVars, DiskEnabled
  <2> QED BY <2>2, <2>3, <2>4 DEF CacheInv, Marks
<1>3. CASE ~Accepts(f, v)
  <2>1. /\ UNCHANGED <<queue, doubled, frameSet, cacheData, thrown, call>>
        /\ task' = NoTask \/ task' = [task EXCEPT !.todo = {}]
    BY <1>0, <1>1, <1>3 DEF FlushAsyncNext, KeepNext, memVars
  <2>2. TaskInv'
    <3>1. ASSUME task' = [task EXCEPT !.todo = {}] PROVE task'.op = task.op /\ (task'.todo = {} \/ task'.todo = task.todo)
      BY <3>1
    <3>2. task'.op = "none" \/ (task'.op = task.op /\ (task'.todo = {} \/ task'.todo = task.todo))
      BY <2>1, <3>1 DEF NoTask
    <3> QED BY <3>2, <2>1, <1>1 DEF CacheInv, TaskInv, DiskEnabled
  <2> QED BY <2>1, <2>2, <1>1, RestKeeps
<1> QED BY <1>2, <1>3

\* The calls that start or end a loop.
LEMMA LoopsKeep ==
  ASSUME CacheInv,
         \/ \E e \in BOOLEAN : Flush(e)
         \/ FlushAsync \/ FlushAsyncDone \/ KeepDone
         \/ FlushDone /\ UNCHANGED memVars
  PROVE  CacheInv'
<1>1. /\ UNCHANGED <<memVars, keyUnion, frameSet, path, queue, writing, files, doubled, latest, lost, numThreads>>
      /\ \/ task'.op = "none" /\ task.op \in {"flush", "flush_async", "set_disk_path"}
         \/ task'.op = "flush" /\ task'.todo = DOMAIN cacheData /\ task.op = "none"
         \/ task'.op = "flush_async" /\ task'.todo = DOMAIN cacheData \ frameSet /\ DiskEnabled /\ task.op = "none"
  BY DEF Flush, FlushAsync, FlushAsyncDone, KeepDone, FlushDone, AtRest, NoTask, diskVars
<1>2. UNCHANGED <<cacheData, call, thrown>>
  BY <1>1 DEF memVars
<1>3. TaskInv'
  BY <1>1, <1>2 DEF CacheInv, TaskInv, DiskEnabled
<1> QED BY <1>1, <1>2, <1>3, RestKeeps

\* What flush() has left behind is marked.
FlushInv == task.op = "flush" /\ DiskEnabled => (keyUnion \ lost) \ task.todo \subseteq frameSet

\* The memory cache is emptied: every key that remains has a file.
LEMMA FlushEndsEmpty == ASSUME CacheInv, FlushInv, FlushDone, Mem!Clear PROVE CacheInv'
<1>1. /\ UNCHANGED <<keyUnion, frameSet, path, queue, writing, files, doubled, latest, lost, numThreads>>
      /\ cacheData' = <<>> /\ DOMAIN cacheData' = {} /\ call' = call /\ thrown' = thrown
      /\ task.op = "flush" /\ task' = NoTask /\ (DiskEnabled => keyUnion \ lost \subseteq frameSet)
  BY DEF FlushDone, Mem!Clear, diskVars, FlushInv
<1>2. MemInv'
  BY <1>1, MemSteps, MemKeeps DEF CacheInv, MemInv
<1>3. QueueInv' /\ \A g \in Frames : Stored(g)' = Stored(g) /\ Doubled(g)' = Doubled(g)
  BY <1>1, QueueRests DEF CacheInv
<1>4. TaskInv' /\ ContentInv'
  BY <1>1, <1>3 DEF CacheInv, TaskInv, NoTask, ContentInv, CachedLatest, Covered, ValidLatest, DiskEnabled
<1> QED BY <1>2, <1>3, <1>4 DEF CacheInv

LEMMA QueueEmptied ==
  ASSUME QueueInv, queue' = <<>>, path' \in Paths \cup {NoPath}, doubled' = doubled \/ doubled' = WrittenTwice,
         UNCHANGED <<writing, files, numThreads>>
  PROVE  QueueInv' /\ \A g \in Frames : QueuedAt(g)' = {}
<1>1. Len(queue') = 0 /\ queue' \in Seq(Items)
  OBVIOUS
<1>2. QueueShape'
  BY <1>1 DEF QueueInv, QueueShape, WrittenTwice
<1>3. OncePerFile'
  <2> SUFFICES ASSUME NEW v \in Workers, NEW w \in Workers, v # w, writing[v] # NoItem, writing[w] # NoItem,
                      SameFile(writing[v], writing[w])
               PROVE  FileOf(writing[v]) \in doubled'
    BY <1>1 DEF OncePerFile, Multiple
  <2>1. FileOf(writing[v]) \in doubled
    BY DEF QueueInv, OncePerFile
  <2>2. PICK q, g : q = writing[v].path /\ g = writing[v].frame
    OBVIOUS
  <2>3. v \in Writers(q, g) /\ w \in Writers(q, g) /\ FileOf(writing[v]) = <<q, g>>
    BY <2>2 DEF Writers, SameFile, FileOf
  <2>4. <<q, g>>[1] = q /\ <<q, g>>[2] = g
    OBVIOUS
  <2>5. FileOf(writing[v]) \in WrittenTwice
    BY <2>1, <2>3, <2>4 DEF WrittenTwice
  <2> QED BY <2>1, <2>5
<1>4. \A g \in Frames : QueuedAt(g)' = {}
  BY <1>1 DEF QueuedAt
<1> QED BY <1>2, <1>3, <1>4 DEF QueueInv

\* clear() and set_disk_path( drop_existing ) forget every frame.
LEMMA ForgetKeeps ==
  ASSUME CacheInv, Clear \/ \E p \in Paths \cup {NoPath} : DropExisting(p) PROVE CacheInv'
<1>1. /\ keyUnion' = {} /\ frameSet' = {} /\ queue' = <<>> /\ path' \in Paths \cup {NoPath}
      /\ UNCHANGED <<writing, numThreads, files, task>> /\ doubled' = WrittenTwice /\ task.op = "none"
      /\ Mem!Clear /\ lost' = {} /\ latest' = [f \in Frames |-> NoValue]
  BY DEF Clear, DropExisting, Holds, AtRest, CacheInv, QueueInv, QueueShape
<1>2. cacheData' = <<>> /\ DOMAIN cacheData' = {} /\ call' = call /\ thrown' = thrown
  BY <1>1 DEF Mem!Clear
<1>3. MemInv'
  BY <1>1, <1>2, MemSteps, MemKeeps DEF CacheInv, MemInv
<1>4. QueueInv'
  BY <1>1, QueueEmptied DEF CacheInv
<1>5. TaskInv' /\ ContentInv'
  BY <1>1, <1>2 DEF CacheInv, TaskInv, ContentInv, CachedLatest, Covered, ValidLatest
<1> QED BY <1>3, <1>4, <1>5 DEF CacheInv

\* What cancel_flush() drops is not marked any more, and is lost if it is nowhere else.
LEMMA CancelKeeps == ASSUME CacheInv, CancelFlush PROVE CacheInv'
<1> DEFINE dropped == {queue[i].frame : i \in {j \in 1..Len(queue) : queue[j].path = path}}
<1>0. PICK D : D = dropped
  OBVIOUS
<1>1. /\ frameSet' = frameSet \ D /\ lost' = lost \cup ((D \cap keyUnion) \ DOMAIN cacheData)
      /\ queue' = <<>> /\ task.op = "none"
      /\ UNCHANGED <<memVars, keyUnion, path, writing, numThreads, files, doubled, task, latest>>
      /\ UNCHANGED <<cacheData, call, thrown>>
  BY <1>0 DEF CancelFlush, AtRest, memVars
<1>2. MemInv'
  BY <1>1, MemKeeps DEF CacheInv, MemInv
<1>3. QueueInv' /\ \A g \in Frames : QueuedAt(g)' = {}
  <2>1. path' \in Paths \cup {NoPath}
    BY <1>1 DEF CacheInv, QueueInv, QueueShape
  <2> QED BY <1>1, <2>1, QueueEmptied DEF CacheInv
<1>4. ASSUME DiskEnabled, NEW g \in Frames \ D PROVE Stored(g)' = Stored(g)
  <2>1. QueuedAt(g) = {}
    BY <1>0, <1>4 DEF QueuedAt
  <2> QED BY <2>1, <1>1, <1>3 DEF Stored, FindPending, WrittenBy, Writers
<1>5. TaskInv'
  BY <1>1 DEF CacheInv, TaskInv
<1>6. ContentInv'
  <2>1. CachedLatest' /\ Covered'
    BY <1>1 DEF CacheInv, ContentInv, CachedLatest, Covered, DiskEnabled, Doubled
  <2>2. ASSUME DiskEnabled, NEW g \in frameSet' \ lost', ~Doubled(g)' PROVE Stored(g)' = latest[g]
    <3>1. g \in frameSet \ lost /\ g \in Frames \ D
      BY <2>2, <1>1 DEF CacheInv, ContentInv
    <3>2. ~Doubled(g)
      BY <2>2, <1>1 DEF Doubled
    <3> QED BY <3>1, <3>2, <2>2, <1>1, <1>4 DEF CacheInv, ContentInv, ValidLatest
  <2>3. ValidLatest'
    BY <2>2, <1>1 DEF ValidLatest, DiskEnabled
  <2>4. keyUnion' \subseteq Frames /\ frameSet' \subseteq Frames /\ latest' \in [Frames -> Values \cup {NoValue}]
    BY <1>1 DEF CacheInv, ContentInv
  <2> QED BY <2>1, <2>3, <2>4 DEF ContentInv
<1> QED BY <1>2, <1>3, <1>5, <1>6 DEF CacheInv

\* set_disk_path( keep_existing ): the frames in memory are the ones that remain.
LEMMA KeepExistingKeeps ==
  ASSUME CacheInv, NEW p \in Paths \cup {NoPath}, KeepExisting(p) PROVE CacheInv'
<1>1. /\ keyUnion' = DOMAIN cacheData /\ lost' = {} /\ frameSet' = {} /\ path' = p /\ queue' = <<>>
      /\ latest' = [f \in Frames |-> IF f \in DOMAIN cacheData THEN cacheData[f].value ELSE NoValue]
      /\ UNCHANGED <<memVars, writing, numThreads, files>> /\ doubled' = WrittenTwice
      /\ UNCHANGED <<cacheData, call, thrown>>
      /\ task.op = "none"
      /\ \/ task'.op = "none"
         \/ p # NoPath /\ task'.op = "set_disk_path" /\ task'.todo = DOMAIN cacheData
  BY DEF KeepExisting, Holds, AtRest, NoTask, memVars
<1>2. MemInv'
  BY <1>1, MemKeeps DEF CacheInv, MemInv
<1>3. QueueInv'
  BY <1>1, QueueEmptied DEF CacheInv
<1>4. TaskInv'
  BY <1>1 DEF CacheInv, TaskInv, DiskEnabled
<1>5. ContentInv'
  <2>1. \A f \in DOMAIN cacheData : f \in Frames /\ cacheData[f].value \in Values
    BY MemFacts DEF CacheInv
  <2> QED BY <2>1, <1>1 DEF ContentInv, CachedLatest, Covered, ValidLatest
<1> QED BY <1>2, <1>3, <1>4, <1>5 DEF CacheInv

\* set_disk_path( synchronize ): the frames are those whose file exists, with what is in it
\* or is being written to it.
LEMMA SynchronizeKeeps ==
  ASSUME CacheInv, NEW p \in Paths, Synchronize(p) PROVE CacheInv'
<1> DEFINE content(f) == IF f \in BeingWritten(p) THEN writing[Min(Writers(p, f))].value ELSE files[p][f]
<1>1. PICK found \in SUBSET Frames :
        /\ \A f \in found : files[p][f] # NoValue \/ f \in BeingWritten(p)
        /\ keyUnion' = found /\ frameSet' = found /\ lost' = {}
        /\ latest' = [f \in Frames |-> IF f \in found THEN content(f) ELSE NoValue]
  <2>1. PICK partial \in SUBSET BeingWritten(p) :
          LET found == {f \in Frames : files[p][f] # NoValue} \cup partial
              c(f)  == IF f \in BeingWritten(p) THEN writing[Min(Writers(p, f))].value ELSE files[p][f]
          IN  Holds(found, c) /\ frameSet' = found
    BY DEF Synchronize
  <2> DEFINE found == {f \in Frames : files[p][f] # NoValue} \cup partial
  <2>2. found \in SUBSET Frames /\ \A f \in found : files[p][f] # NoValue \/ f \in BeingWritten(p)
    BY <2>1 DEF BeingWritten
  <2>3. /\ keyUnion' = found /\ frameSet' = found /\ lost' = {}
        /\ latest' = [f \in Frames |-> IF f \in found THEN content(f) ELSE NoValue]
    BY <2>1 DEF Holds
  <2> QED BY <2>2, <2>3
<1>2. /\ path' = p /\ queue' = <<>> /\ UNCHANGED <<writing, numThreads, files, task>> /\ task.op = "none"
      /\ doubled' = WrittenTwice
      /\ Mem!Clear /\ cacheData' = <<>> /\ DOMAIN cacheData' = {} /\ call' = call /\ thrown' = thrown
  BY DEF Synchronize, AtRest, Mem!Clear
<1>3. MemInv'
  BY <1>1, <1>2, MemSteps, MemKeeps DEF CacheInv, MemInv
<1>4. QueueInv' /\ \A g \in Frames : QueuedAt(g)' = {}
  BY <1>2, QueueEmptied DEF CacheInv
<1>5. TaskInv'
  BY <1>2 DEF CacheInv, TaskInv
<1>6. ASSUME NEW f \in Frames, NEW x, x = content(f) PROVE Holding(f, x)' /\ x \in Values \cup {NoValue}
  <2>1. WrittenBy(f)' = Writers(p, f) /\ Writers(p, f) \subseteq Nat
    BY <1>2 DEF WrittenBy, Writers, Workers
  <2>2. CASE f \in BeingWritten(p)
    <3>1. PICK w \in Writers(p, f) : w = Min(Writers(p, f)) /\ \A u \in Writers(p, f) : w <= u
      BY <2>1, <2>2, LeastOf DEF BeingWritten
    <3>2. FirstWriter(f, w)'
      BY <2>1, <3>1 DEF FirstWriter
    <3>3. x = writing'[w].value /\ writing[w] \in Items
      BY <3>1, <2>2, <1>2, <1>6 DEF CacheInv, QueueInv, QueueShape, Writers
    <3>4. x \in Values
      BY <3>3, <1>2 DEF Items
    <3> HIDE DEF FirstWriter
    <3> QED BY <3>1, <3>2, <3>3, <3>4, <2>1, <1>4 DEF Holding
  <2>3. CASE f \notin BeingWritten(p)
    <3>1. WrittenBy(f)' = {}
      BY <2>1, <2>3 DEF BeingWritten
    <3>2. x = files'[path'][f] /\ x \in Values \cup {NoValue}
      BY <2>3, <1>2, <1>6 DEF CacheInv, QueueInv, QueueShape
    <3> QED BY <3>1, <3>2, <1>4 DEF Holding
  <2> QED BY <2>2, <2>3
<1> HIDE DEF content
<1>7. DiskEnabled'
  BY <1>2, SequenceAssumption DEF DiskEnabled
<1>8. ASSUME NEW f \in found PROVE Stored(f)' = latest'[f]
  <2>1. PICK x : x = content(f)
    OBVIOUS
  <2>2. Stored(f)' = x
    BY <2>1, <1>4, <1>6, <1>7, StoredHoldingNext DEF StoredIsHeld
  <2>3. latest'[f] = x
    BY <2>1, <1>1
  <2> QED BY <2>2, <2>3
<1>9. ContentInv'
  <2>1. latest' \in [Frames -> Values \cup {NoValue}]
    BY <1>1, <1>6
  <2>2. ValidLatest'
    BY <1>1, <1>8 DEF ValidLatest
  <2> QED BY <2>1, <2>2, <1>1, <1>2 DEF ContentInv, CachedLatest, Covered
<1> QED BY <1>3, <1>4, <1>5, <1>9 DEF CacheInv

LEMMA FlushInvKeeps == ASSUME CacheInv, TurnInv, FlushInv, [Next]_vars PROVE FlushInv'
<1>1. ASSUME NEW e \in BOOLEAN, Flush(e) PROVE FlushInv'
  <2>1. task'.todo = DOMAIN cacheData /\ UNCHANGED <<keyUnion, frameSet, path, lost>>
    BY <1>1 DEF Flush
  <2> QED BY <2>1 DEF FlushInv, CacheInv, ContentInv, Covered, DiskEnabled
<1>2. CASE FlushNext
  <2>1. PICK f \in DOMAIN cacheData, v \in Values : f = Min(task.todo) /\ f \in task.todo /\ v = cacheData[f].value
    BY <1>2, TodoCached DEF FlushNext
  <2>2. /\ DiskEnabled => f \in frameSet' /\ frameSet \subseteq frameSet'
        /\ task.op = "flush" /\ UNCHANGED <<keyUnion, path, lost>>
        /\ task' = [task EXCEPT !.todo = @ \ {f}]
    BY <2>1, <1>2 DEF FlushNext, OnEntryErased
  <2>3. task'.todo = task.todo \ {f} \/ task'.todo = task.todo
    BY <2>2
  <2> QED BY <2>2, <2>3 DEF FlushInv, DiskEnabled
<1>3. CASE Evict
  <2>1. task.op # "flush" /\ task' = task
    BY <1>3 DEF Evict, Mem!EvictFront, Mem!MustEvict, CacheInv, TaskInv
  <2> QED BY <2>1 DEF FlushInv
<1>4. ASSUME NEW w \in Workers, Take(w) \/ Finish(w) \/ WorkerEnds PROVE FlushInv'
  <2>1. UNCHANGED <<keyUnion, frameSet, path, lost>>
    BY <1>4 DEF Take, Finish, WorkerEnds
  <2> QED BY <2>1, <1>4, EndsOnly DEF TurnInv, FlushInv, DiskEnabled
<1>5. CASE UNCHANGED vars \/ EnqueueWaits
  BY <1>5 DEF vars, EnqueueWaits, FlushInv, DiskEnabled
<1>6. CASE \/ \E f \in Frames, v \in Values : Insert(f, v)
           \/ \E f \in Frames : FindCached(f) \/ FindStored(f)
           \/ \E c \in Capacities : SetCapacity(c)
           \/ \E c \in QueueCapacities : SetPendingCapacity(c)
           \/ \E n \in Workers : AddThreads(n) \/ StopThreads(n)
           \/ FlushAsync \/ CancelFlush \/ Clear
  BY <1>6 DEF Insert, FindCached, FindStored, SetCapacity, SetPendingCapacity, AddThreads, StopThreads, FlushAsync,
     CancelFlush, Clear, AtRest, NoTask, FlushInv
<1>7. CASE \/ \E p \in Paths : Synchronize(p)
           \/ \E p \in Paths \cup {NoPath} : KeepExisting(p) \/ DropExisting(p)
  <2>1. CASE (\E p \in Paths : Synchronize(p)) \/ (\E p \in Paths \cup {NoPath} : DropExisting(p))
    BY <2>1 DEF Synchronize, DropExisting, AtRest, FlushInv
  <2>2. ASSUME NEW p \in Paths \cup {NoPath}, KeepExisting(p) PROVE FlushInv'
    <3>1. task' = IF p = NoPath THEN NoTask ELSE [op |-> "set_disk_path", todo |-> DOMAIN cacheData]
      BY <2>2 DEF KeepExisting
    <3>2. task'.op # "flush"
      BY <3>1 DEF NoTask
    <3> QED BY <3>2 DEF FlushInv
  <2> QED BY <1>7, <2>1, <2>2
<1>8. CASE \/ InsertDone \/ FindDone \/ SetCapacityDone \/ SetPendingCapacityDone
           \/ ReadFile \/ FlushDone \/ FlushAsyncDone \/ KeepDone
  BY <1>8 DEF InsertDone, ReadFile, FindDone, SetCapacityDone, SetPendingCapacityDone, FlushDone, FlushAsyncDone,
     KeepDone, NoTask, FlushInv
<1>9. CASE FlushAsyncNext \/ KeepNext
  <2>1. task.op \in {"flush_async", "set_disk_path"}
    BY <1>9 DEF FlushAsyncNext, KeepNext
  <2>2. task' = NoTask \/ task'.op = task.op
    <3>1. \/ task' = NoTask \/ task' = [task EXCEPT !.todo = {}]
          \/ task' = [task EXCEPT !.todo = @ \ {Min(task.todo)}]
      BY <1>9 DEF FlushAsyncNext, KeepNext
    <3>2. ASSUME NEW S, task' = [task EXCEPT !.todo = S] PROVE task'.op = task.op
      BY <3>2
    <3>3. CASE task' = [task EXCEPT !.todo = @ \ {Min(task.todo)}]
      BY <3>3
    <3> QED BY <3>1, <3>2, <3>3
  <2> QED BY <2>1, <2>2 DEF FlushInv, NoTask
<1>10. CASE ThreadJoined
  <2>2. task'.op # "flush"
    BY <1>10, JoinedOnly DEF TurnInv
  <2> QED BY <2>2 DEF FlushInv
<1>11. CASE WorkerEnds
  BY <1>4, <1>11, SequenceAssumption DEF Workers
<1> QED BY <1>1, <1>2, <1>3, <1>4, <1>5, <1>6, <1>7, <1>8, <1>9, <1>10, <1>11 DEF Next, Client, ClientContinues

LEMMA CacheInvKeeps == ASSUME CacheInv, TurnInv, FlushInv, [Next]_vars, ~broken' PROVE CacheInv'
<1>1. ASSUME NEW f \in Frames, NEW v \in Values, Insert(f, v) PROVE CacheInv'
  BY <1>1, InsertKeeps
<1>2. ASSUME NEW f \in Frames, FindCached(f) \/ FindStored(f) PROVE CacheInv'
  BY <1>2, FindCachedKeeps, FindStoredKeeps
<1>3. CASE (\E c \in Capacities : SetCapacity(c)) \/ SetCapacityDone
  BY <1>3, CapacityKeeps
<1>4. CASE \/ \E c \in QueueCapacities : SetPendingCapacity(c)
           \/ SetPendingCapacityDone \/ WorkerEnds
           \/ \E n \in Workers : StopThreads(n)
  BY <1>4, QueueCallsKeep DEF TurnInv
<1>5. CASE (\E e \in BOOLEAN : Flush(e)) \/ FlushAsync \/ FlushAsyncDone \/ KeepDone
  BY <1>5, LoopsKeep
<1>6. CASE FlushDone
  BY <1>6, LoopsKeep, FlushEndsEmpty DEF FlushDone
<1>7. CASE (\E p \in Paths \cup {NoPath} : DropExisting(p)) \/ Clear
  BY <1>7, ForgetKeeps
<1>8. ASSUME NEW p \in Paths, Synchronize(p) PROVE CacheInv'
  BY <1>8, SynchronizeKeeps
<1>9. ASSUME NEW p \in Paths \cup {NoPath}, KeepExisting(p) PROVE CacheInv'
  BY <1>9, KeepExistingKeeps
<1>10. CASE CancelFlush \/ Evict \/ FlushNext \/ FlushAsyncNext \/ KeepNext
  BY <1>10, CancelKeeps, EvictKeeps, FlushNextKeeps, QueueNextKeeps DEF TurnInv
<1>11. CASE InsertDone \/ FindDone \/ ReadFile \/ ThreadJoined
  BY <1>11, InsertDoneKeeps, FindDoneKeeps, ReadFileKeeps, JoinedKeeps DEF TurnInv
<1>12. ASSUME NEW w \in Workers, Take(w) \/ Finish(w) PROVE CacheInv'
  BY <1>12, WorkersKeep DEF TurnInv
<1>13. CASE UNCHANGED vars \/ EnqueueWaits
  <2>1. UNCHANGED <<cacheData, call, thrown, memVars, keyUnion, frameSet, path, queue, writing, files, doubled,
                    latest, lost, numThreads, task>>
    BY <1>13 DEF vars, memVars, diskVars, EnqueueWaits
  <2>2. MemInv' /\ QueueInv' /\ \A g \in Frames : Stored(g)' = Stored(g)
    BY <2>1, MemKeeps, QueueRests DEF CacheInv, MemInv
  <2> QED BY <2>1, <2>2
          DEF CacheInv, TaskInv, ContentInv, CachedLatest, Covered, ValidLatest, DiskEnabled, Doubled
<1>14. ASSUME NEW n \in Workers, AddThreads(n) PROVE CacheInv'
  BY <1>14, AddThreadsKeeps
<1> QED BY <1>1, <1>2, <1>3, <1>4, <1>5, <1>6, <1>7, <1>8, <1>9, <1>10, <1>11, <1>12, <1>13, <1>14
        DEF Next, Client, ClientContinues

\* enqueue() waits only in the eviction loop and in the one of flush().
LEMMA NotWaiting ==
  ASSUME CacheInv, WaitInv,
         \/ task.op \notin {"insert", "find", "set_capacity", "flush"}
         \/ task.op # "flush" /\ ~Mem!MustEvict
         \/ task.op = "flush" /\ task.todo = {}
  PROVE  waitsFor = 0
BY DEF WaitInv, HandsOver, Mem!MustEvict, CacheInv, TaskInv

LEMMA Settled ==
  ASSUME waitsFor' = 0, task'.op \notin {"read", "set_num_threads"} PROVE TurnInv'
BY DEF TurnInv, ReadInv, ShrinkInv, WaitInv

\* A worker takes or finishes an item: not one of the file that find() is about to read.
LEMMA TurnWorkers == ASSUME CacheInv, TurnInv, NEW w \in Workers, Take(w) \/ Finish(w) PROVE TurnInv'
<1>1. /\ UNCHANGED <<memVars, keyUnion, frameSet, path, numThreads, waitsFor, doubled>>
      /\ UNCHANGED <<cacheData, usageTracker, cacheSize, cacheCapacity, call>>
  BY DEF Take, Finish, memVars
<1>2. task' = task \/ (task.op = "set_num_threads" /\ task' = [task EXCEPT !.ended = TRUE] /\ task'.op = task.op)
  BY EndsOnly DEF TurnInv
<1>3. /\ writing \in [Workers -> Items \cup {NoItem}] /\ queue \in Seq(Items)
      /\ \A i \in 1..Len(queue) : queue[i] \in Items /\ queue[i].path = path
  BY DEF CacheInv, QueueInv, QueueShape
<1>4. CASE Take(w)
  <2>1. /\ task' = task /\ ~Ended(w) /\ writing' = [writing EXCEPT ![w] = Head(queue)]
        /\ queue # <<>> /\ queue' = Tail(queue)
    BY <1>4 DEF Take
  <2>2. PICK n \in Nat : n = Len(queue)
    BY <1>3
  <2>3. Head(queue) = queue[1] /\ 1 \in 1..n /\ Len(queue') = n - 1 /\ \A i \in 1..(n - 1) : queue'[i] = queue[i + 1]
    BY <2>1, <2>2, <1>3
  <2>4. ReadInv'
    <3> SUFFICES ASSUME task.op = "read" PROVE ReadInv'
      BY <2>1 DEF ReadInv
    <3>1. PICK k : k = task.key
      OBVIOUS
    <3>2. DiskEnabled /\ k \in keyUnion \ DOMAIN cacheData /\ QueuedAt(k) = {} /\ WrittenBy(k) = {}
      BY <3>1 DEF TurnInv, ReadInv
    <3>3. \A i \in 1..n : queue[i].frame # k
      BY <3>2, <1>3, <2>2 DEF QueuedAt
    <3>4. QueuedAt(k)' = {}
      BY <3>3, <2>2, <2>3 DEF QueuedAt
    <3>5. WrittenBy(k)' = {}
      BY <3>2, <3>3, <2>1, <2>3, <1>1, <1>3 DEF WrittenBy, Writers
    <3> QED BY <3>1, <3>2, <3>4, <3>5, <2>1, <1>1 DEF ReadInv, DiskEnabled
  <2>5. ShrinkInv'
    BY <2>1, <1>1, <1>3 DEF TurnInv, ShrinkInv, Ended
  <2>6. WaitInv'
    BY <2>1, <1>1 DEF TurnInv, WaitInv, HandsOver, Mem!MustEvict, DiskEnabled, Doubled
  <2> QED BY <2>4, <2>5, <2>6 DEF TurnInv
<1>5. CASE Finish(w)
  <2>1. queue' = queue /\ writing' = [writing EXCEPT ![w] = NoItem]
        /\ task' = IF Interrupted(w) THEN [task EXCEPT !.ended = TRUE] ELSE task
    BY <1>5 DEF Finish
  <2>2. writing'[w] = NoItem /\ \A u \in Workers : u # w => writing'[u] = writing[u]
    BY <2>1, <1>3
  <2>3. ReadInv'
    <3> SUFFICES ASSUME task.op = "read" PROVE ReadInv'
      BY <1>2 DEF ReadInv
    <3>1. task' = task
      BY <1>2
    <3> QED BY <3>1, <2>1, <2>2, <1>1 DEF TurnInv, ReadInv, DiskEnabled, QueuedAt, WrittenBy, Writers
  <2>4. ShrinkInv'
    <3> SUFFICES ASSUME task.op = "set_num_threads" PROVE ShrinkInv'
      BY <1>2 DEF ShrinkInv
    <3>1. /\ task \in [op : {"set_num_threads"}, to : Workers, at : Workers, ended : BOOLEAN]
          /\ task.to < task.at /\ task.at <= numThreads
          /\ \A u \in Workers : Ended(u) => writing[u] = NoItem
      BY DEF TurnInv, ShrinkInv
    <3>2. CASE Interrupted(w)
      <4>1. /\ task' \in [op : {"set_num_threads"}, to : Workers, at : Workers, ended : BOOLEAN]
            /\ task'.to = task.to /\ task'.at = task.at /\ task.at = w
        BY <3>1, <3>2, <2>1 DEF Interrupted
      <4>2. \A u \in Workers : Ended(u)' => u = w \/ Ended(u)
        BY <4>1 DEF Ended
      <4>3. \A u \in Workers : Ended(u)' => writing'[u] = NoItem
        BY <3>1, <4>2, <2>2
      <4> QED BY <4>1, <4>3, <3>1, <1>1 DEF ShrinkInv
    <3>3. CASE ~Interrupted(w)
      <4>1. task' = task
        BY <3>3, <2>1
      <4> QED BY <4>1, <3>1, <2>2, <1>1 DEF ShrinkInv, Ended
    <3> QED BY <3>2, <3>3
  <2>5. WaitInv'
    <3>1. CASE task' = task
      BY <3>1, <1>1 DEF TurnInv, WaitInv, HandsOver, Mem!MustEvict, DiskEnabled, Doubled
    <3>2. CASE task' # task
      <4>1. waitsFor = 0
        BY <3>2, <1>2, NotWaiting DEF TurnInv
      <4> QED BY <4>1, <1>1 DEF WaitInv
    <3> QED BY <3>1, <3>2
  <2> QED BY <2>3, <2>4, <2>5 DEF TurnInv
<1> QED BY <1>4, <1>5

\* Workers are stopped one after the other, the first when it holds nothing.
LEMMA TurnStops ==
  ASSUME CacheInv, TurnInv, (\E n \in Workers : StopThreads(n)) \/ ThreadJoined \/ WorkerEnds PROVE TurnInv'
<1>1. task.op \in {"none", "set_num_threads"} /\ waitsFor' = waitsFor /\ writing' = writing
  BY DEF StopThreads, ThreadJoined, WorkerEnds, AtRest, diskVars
<1>2. WaitInv'
  <2>1. waitsFor = 0
    BY <1>1, NotWaiting DEF TurnInv
  <2> QED BY <2>1, <1>1 DEF WaitInv
<1>3. CASE \E n \in Workers : StopThreads(n)
  <2>1. PICK n \in Workers : StopThreads(n)
    BY <1>3
  <2>2. /\ task' = [op |-> "set_num_threads", to |-> n, at |-> n + 1, ended |-> FALSE]
        /\ n < numThreads /\ numThreads' = numThreads /\ numThreads \in Workers
    BY <2>1 DEF StopThreads, diskVars, CacheInv, QueueInv, QueueShape
  <2>3. n + 1 \in Workers /\ n < n + 1 /\ n + 1 <= numThreads
    BY <2>2, SequenceAssumption DEF Workers
  <2>4. \A w \in Workers : ~Ended(w)'
    BY <2>2 DEF Ended, Workers
  <2>5. ShrinkInv' /\ ReadInv'
    BY <2>2, <2>3, <2>4 DEF ShrinkInv, ReadInv
  <2> QED BY <1>2, <2>5 DEF TurnInv
<1>4. CASE ThreadJoined \/ WorkerEnds
  <2>1. /\ task \in [op : {"set_num_threads"}, to : Workers, at : Workers, ended : BOOLEAN]
        /\ task.to < task.at /\ task.at <= numThreads /\ numThreads \in Workers
        /\ \A w \in Workers : Ended(w) => writing[w] = NoItem
    BY <1>4 DEF ThreadJoined, WorkerEnds, TurnInv, ShrinkInv, CacheInv, QueueInv, QueueShape
  <2>2. CASE ThreadJoined /\ task.at < numThreads
    <3>1. task' = [task EXCEPT !.at = @ + 1, !.ended = FALSE] /\ numThreads' = numThreads /\ task.ended
      BY <2>2 DEF ThreadJoined
    <3>2. task.at + 1 \in Workers
      BY <2>1, <2>2, SequenceAssumption DEF Workers
    <3>3. /\ task' \in [op : {"set_num_threads"}, to : Workers, at : Workers, ended : BOOLEAN]
          /\ task'.to = task.to /\ task'.at = task.at + 1 /\ ~task'.ended
      BY <3>1, <3>2, <2>1
    <3>4. \A w \in Workers : Ended(w)' => Ended(w)
      BY <3>1, <3>3, <2>1 DEF Ended, Workers
    <3>5. task'.to < task'.at /\ task'.at <= numThreads'
      BY <3>1, <3>3, <2>1, <2>2 DEF Workers
    <3>6. ShrinkInv'
      BY <3>3, <3>4, <3>5, <2>1, <1>1 DEF ShrinkInv
    <3> QED BY <3>3, <3>6, <1>2 DEF TurnInv, ReadInv
  <2>3. CASE ThreadJoined /\ ~(task.at < numThreads)
    BY <2>3, <1>2 DEF ThreadJoined, NoTask, TurnInv, ReadInv, ShrinkInv
  <2>4. CASE WorkerEnds
    <3>1. task' = [task EXCEPT !.ended = TRUE] /\ numThreads' = numThreads /\ writing[task.at] = NoItem
      BY <2>4 DEF WorkerEnds, diskVars
    <3>2. /\ task' \in [op : {"set_num_threads"}, to : Workers, at : Workers, ended : BOOLEAN]
          /\ task'.to = task.to /\ task'.at = task.at
      BY <3>1, <2>1
    <3>3. \A w \in Workers : Ended(w)' => w = task.at \/ Ended(w)
      BY <3>2, <2>1 DEF Ended
    <3>4. ShrinkInv'
      BY <3>1, <3>2, <3>3, <2>1, <1>1 DEF ShrinkInv
    <3> QED BY <3>2, <3>4, <1>2 DEF TurnInv, ReadInv
  <2> QED BY <1>4, <2>2, <2>3, <2>4
<1> QED BY <1>3, <1>4

\* A turn of the eviction loop or of flush() ends the wait of enqueue().
LEMMA TurnEnds == ASSUME CacheInv, TurnInv, Evict \/ FlushNext PROVE TurnInv'
<1>1. CASE Evict
  <2>1. PICK f : f = Head(usageTracker)
    OBVIOUS
  <2>2. /\ task' = task /\ call.op # "none" /\ \E v : OnEntryErased(f, v)
    BY <1>1, <2>1 DEF Evict, Mem!EvictFront, Mem!MustEvict
  <2>3. task.op \in {"insert", "find", "set_capacity"}
    BY <2>2 DEF CacheInv, TaskInv
  <2>4. waitsFor # 0 => DiskEnabled /\ f \notin frameSet
    BY <2>1, <2>3 DEF TurnInv, WaitInv, HandsOver
  <2>5. waitsFor' = 0
    BY <2>2, <2>4 DEF OnEntryErased, Enqueue
  <2> QED BY <2>2, <2>3, <2>5, Settled
<1>2. CASE FlushNext
  <2>1. PICK f : f = Min(task.todo)
    OBVIOUS
  <2>2. task.op = "flush" /\ task' = [task EXCEPT !.todo = @ \ {f}] /\ \E v : OnEntryErased(f, v)
    BY <1>2, <2>1 DEF FlushNext
  <2>3. task'.op = "flush"
    BY <2>2
  <2>4. waitsFor # 0 => DiskEnabled /\ f \notin frameSet
    BY <2>1, <2>2 DEF TurnInv, WaitInv, HandsOver, Mem!MustEvict, CacheInv, TaskInv
  <2>5. waitsFor' = 0
    BY <2>2, <2>4 DEF OnEntryErased, Enqueue
  <2> QED BY <2>3, <2>5, Settled
<1> QED BY <1>1, <1>2

\* enqueue() waits for one writer of several: the file was held twice.
LEMMA TurnWaits == ASSUME CacheInv, TurnInv, EnqueueWaits PROVE TurnInv'
<1>1. /\ UNCHANGED <<memVars, keyUnion, frameSet, path, queue, writing, numThreads, doubled, task>>
      /\ UNCHANGED <<cacheData, usageTracker, cacheSize, cacheCapacity, call>> /\ DiskEnabled
  BY DEF EnqueueWaits, memVars
<1>2. PICK f \in Frames \ frameSet :
        /\ HandsOver(f) /\ \E v, w \in WrittenBy(f) : v # w
        /\ waitsFor' = Min(WrittenBy(f))
  BY DEF EnqueueWaits
<1>3. Doubled(f)
  <2>1. PICK v \in WrittenBy(f), w \in WrittenBy(f) : v # w
    BY <1>2
  <2>2. /\ v \in Workers /\ w \in Workers /\ writing[v] # NoItem /\ writing[w] # NoItem
        /\ SameFile(writing[v], writing[w]) /\ FileOf(writing[v]) = <<path, f>>
    BY DEF WrittenBy, Writers, SameFile, FileOf
  <2> QED BY <2>1, <2>2 DEF CacheInv, QueueInv, OncePerFile, Doubled
<1>4. Min(WrittenBy(f)) \in Workers
  <2>1. WrittenBy(f) \subseteq Workers /\ Workers \subseteq Nat /\ WrittenBy(f) # {}
    BY <1>2 DEF WrittenBy, Writers, Workers
  <2> QED BY <2>1, LeastOf
<1>5. WaitInv'
  BY <1>1, <1>2, <1>3, <1>4 DEF WaitInv, HandsOver, Mem!MustEvict, DiskEnabled, Doubled
<1>6. ReadInv' /\ ShrinkInv'
  BY <1>1 DEF TurnInv, ReadInv, ShrinkInv, Ended, DiskEnabled, QueuedAt, WrittenBy, Writers
<1> QED BY <1>5, <1>6 DEF TurnInv

LEMMA TurnInvKeeps == ASSUME CacheInv, TurnInv, [Next]_vars PROVE TurnInv'
<1>1. CASE \/ \E f \in Frames, v \in Values : Insert(f, v)
           \/ \E c \in Capacities : SetCapacity(c)
           \/ \E c \in QueueCapacities : SetPendingCapacity(c)
           \/ \E e \in BOOLEAN : Flush(e)
           \/ FlushAsync
  <2>1. task.op = "none" /\ waitsFor' = waitsFor
    BY <1>1 DEF Insert, SetCapacity, SetPendingCapacity, Flush, FlushAsync, AtRest, diskVars
  <2>2. task'.op \notin {"read", "set_num_threads"}
    BY <1>1 DEF Insert, SetCapacity, SetPendingCapacity, Flush, FlushAsync, NoTask
  <2> QED BY <2>1, <2>2, NotWaiting, Settled DEF TurnInv
<1>11. CASE \/ \E f \in Frames : FindCached(f)
            \/ \E n \in Workers : AddThreads(n)
            \/ CancelFlush \/ Clear
            \/ \E p \in Paths : Synchronize(p)
            \/ \E p \in Paths \cup {NoPath} : DropExisting(p)
  <2>1. task.op = "none" /\ waitsFor' = waitsFor /\ task' = task
    BY <1>11 DEF FindCached, AddThreads, CancelFlush, Clear, Synchronize, DropExisting, AtRest, diskVars
  <2> QED BY <2>1, NotWaiting, Settled DEF TurnInv
<1>2. ASSUME NEW p \in Paths \cup {NoPath}, KeepExisting(p) PROVE TurnInv'
  <2>1. task' = IF p = NoPath THEN NoTask ELSE [op |-> "set_disk_path", todo |-> DOMAIN cacheData]
    BY <1>2 DEF KeepExisting
  <2>2. task.op = "none" /\ waitsFor' = waitsFor /\ task'.op \notin {"read", "set_num_threads"}
    BY <1>2, <2>1 DEF KeepExisting, AtRest, NoTask
  <2> QED BY <2>2, NotWaiting, Settled DEF TurnInv
<1>3. ASSUME NEW f \in Frames, FindStored(f) PROVE TurnInv'
  <2>1. task.op = "none" /\ waitsFor' = waitsFor /\ UNCHANGED <<keyUnion, path, queue, writing, diskVars>>
    BY <1>3 DEF FindStored, AtRest, diskVars
  <2>2. waitsFor' = 0
    BY <2>1, NotWaiting DEF TurnInv
  <2>3. CASE FindPending(f) # NoValue
    BY <1>3, <2>2, <2>3, Settled DEF FindStored
  <2>4. CASE FindPending(f) = NoValue
    <3>1. /\ task' = [op |-> "read", key |-> f] /\ UNCHANGED cacheData
          /\ DiskEnabled /\ f \in keyUnion \ DOMAIN cacheData
      BY <1>3, <2>4 DEF FindStored, memVars, Cached
    <3>2. QueuedAt(f) = {} /\ WrittenBy(f) = {}
      BY <2>4, NothingPending DEF CacheInv
    <3>3. ReadInv'
      BY <3>1, <3>2, <2>1 DEF ReadInv, DiskEnabled, QueuedAt, WrittenBy, Writers
    <3> QED BY <3>1, <3>3, <2>2 DEF TurnInv, ShrinkInv, WaitInv
  <2> QED BY <2>3, <2>4
<1>4. CASE InsertDone \/ FindDone \/ SetCapacityDone
  <2>1. /\ task.op # "flush" /\ ~Mem!MustEvict /\ waitsFor' = waitsFor /\ task' = NoTask
    BY <1>4 DEF InsertDone, FindDone, SetCapacityDone, Mem!InsertReturns, Mem!SetCapacityReturns, diskVars
  <2> QED BY <2>1, NotWaiting, Settled DEF TurnInv, NoTask
<1>5. CASE ReadFile \/ SetPendingCapacityDone \/ FlushDone \/ FlushAsyncDone \/ KeepDone
  <2>1. /\ task.op \notin {"insert", "find", "set_capacity", "flush"} \/ (task.op = "flush" /\ task.todo = {})
        /\ waitsFor' = waitsFor /\ task'.op \in {"none", "find"}
    BY <1>5 DEF ReadFile, SetPendingCapacityDone, FlushDone, FlushAsyncDone, KeepDone, NoTask, diskVars
  <2> QED BY <2>1, NotWaiting, Settled DEF TurnInv
<1>6. CASE FlushAsyncNext \/ KeepNext
  <2>1. /\ task.op \in {"flush_async", "set_disk_path"} /\ waitsFor' = waitsFor
        /\ \/ task' = NoTask \/ task' = [task EXCEPT !.todo = {}]
           \/ task' = [task EXCEPT !.todo = @ \ {Min(task.todo)}]
    BY <1>6 DEF FlushAsyncNext, KeepNext
  <2>2. task' = NoTask \/ task'.op = task.op
    <3>1. CASE task' = [task EXCEPT !.todo = {}]
      BY <3>1
    <3>2. CASE task' = [task EXCEPT !.todo = @ \ {Min(task.todo)}]
      BY <3>2
    <3> QED BY <2>1, <3>1, <3>2
  <2>3. waitsFor = 0
    BY <2>1, NotWaiting DEF TurnInv
  <2> QED BY <2>1, <2>2, <2>3, Settled DEF NoTask
<1>7. CASE Evict \/ FlushNext \/ EnqueueWaits
  BY <1>7, TurnEnds, TurnWaits
<1>8. CASE (\E n \in Workers : StopThreads(n)) \/ ThreadJoined \/ WorkerEnds
  BY <1>8, TurnStops
<1>9. ASSUME NEW w \in Workers, Take(w) \/ Finish(w) PROVE TurnInv'
  BY <1>9, TurnWorkers
<1>10. CASE UNCHANGED vars
  BY <1>10 DEF vars, memVars, diskVars, TurnInv, ReadInv, ShrinkInv, WaitInv, Ended, DiskEnabled, QueuedAt,
     WrittenBy, Writers, HandsOver, Mem!MustEvict, Doubled
<1> QED BY <1>1, <1>2, <1>3, <1>4, <1>5, <1>6, <1>7, <1>8, <1>9, <1>10, <1>11
        DEF Next, Client, ClientContinues

LEMMA CacheInit == Init => CacheInv /\ TurnInv /\ FlushInv
<1> SUFFICES ASSUME Init PROVE CacheInv /\ TurnInv /\ FlushInv
  OBVIOUS
<1>1. MemProofs!LruInv /\ ~thrown /\ DOMAIN cacheData = {} /\ call.op = "none"
  BY MemAssumption DEF Init, Mem!Init, Mem!Idle, MemProofs!LruInv, MemProofs!Shapes, MemProofs!CallAndOrder,
     MemProofs!TrackerMatches, MemProofs!Entry
<1>2. /\ keyUnion = {} /\ frameSet = {} /\ path = NoPath /\ queue = <<>> /\ writing = [w \in Workers |-> NoItem]
      /\ numThreads = 1 /\ files = [p \in Paths |-> [f \in Frames |-> NoValue]]
      /\ task.op = "none" /\ latest = [f \in Frames |-> NoValue] /\ doubled = {} /\ waitsFor = 0
  BY DEF Init, NoTask
<1>3. QueueInv
  BY <1>2, SequenceAssumption DEF QueueInv, QueueShape, OncePerFile, Multiple, Workers
<1>4. MemInv /\ TaskInv /\ ContentInv /\ FlushInv /\ TurnInv
  BY <1>1, <1>2 DEF MemInv, TaskInv, ContentInv, CachedLatest, Covered, ValidLatest, FlushInv,
                    TurnInv, ReadInv, ShrinkInv, WaitInv
<1> QED BY <1>3, <1>4 DEF CacheInv

-----------------------------------------------------------------------------
(* The memory cache never fails an assertion: its deallocator throws in no   *)
(* step here, so its size, its entries and its list agree always.            *)

MemSound == MemProofs!CacheInv /\ ~thrown

StepOfMem == [MemProofs!Next]_(MemProofs!lruVars) /\ thrown' = thrown

\* Each step is one of LruCache, or none, for the memory cache.
LEMMA StepsOfMem == ASSUME CacheInv, TurnInv, [Next]_vars PROVE StepOfMem
<1>1. ASSUME UNCHANGED memVars PROVE StepOfMem
  BY <1>1 DEF memVars, MemProofs!lruVars, StepOfMem
<1>2. ASSUME NEW f \in Frames, NEW v \in Values, Mem!InsertReplace(f, v) \/ Mem!InsertNew(f, v)
      PROVE  StepOfMem
  BY <1>2, MemSteps DEF Mem!InsertReplace, Mem!InsertNew, Mem!Break, StepOfMem
<1>3. ASSUME NEW f \in Frames, Mem!Find(f) PROVE StepOfMem
  BY <1>3, MemSteps DEF Mem!Find, Mem!Break, StepOfMem
<1>4. ASSUME NEW c \in Capacities, Mem!SetCapacity(c) PROVE StepOfMem
  BY <1>4, MemSteps DEF Mem!SetCapacity, StepOfMem
<1>5. ASSUME Mem!EvictFront \/ Mem!InsertReturns \/ Mem!SetCapacityReturns \/ Mem!Clear
      PROVE  StepOfMem
  BY <1>5, MemSteps DEF Mem!EvictFront, Mem!InsertReturns, Mem!SetCapacityReturns, Mem!Clear, Mem!Break, StepOfMem
<1>6. CASE \E f \in Frames, v \in Values : Insert(f, v)
  BY <1>2, <1>6 DEF Insert
<1>7. CASE \E f \in Frames : FindCached(f)
  BY <1>3, <1>7 DEF FindCached
<1>8. ASSUME NEW f \in Frames, FindStored(f) \/ (ReadFile /\ f = task.key) PROVE StepOfMem
  <2>1. DiskEnabled /\ QueueInv
    BY <1>8 DEF FindStored, ReadFile, TurnInv, ReadInv, CacheInv
  <2>2. CASE UNCHANGED memVars
    BY <1>1, <2>2
  <2>3. CASE FindStored(f) /\ FindPending(f) # NoValue
    <3>1. Stored(f) # NoValue /\ Mem!InsertNew(f, Stored(f))
      BY <2>3 DEF FindStored, Stored
    <3>2. Stored(f) \in Values
      BY <3>1, <2>1, StoredIsValue
    <3> QED BY <1>2, <3>1, <3>2
  <2>4. CASE ReadFile /\ f = task.key /\ files[path][f] # NoValue
    <3>1. Mem!InsertNew(f, files[path][f])
      BY <2>4 DEF ReadFile
    <3>2. files[path][f] \in Values
      BY <2>1, <2>4 DEF QueueInv, QueueShape, DiskEnabled
    <3> QED BY <1>2, <3>1, <3>2
  <2> QED BY <1>8, <2>2, <2>3, <2>4 DEF FindStored, ReadFile
<1>14. CASE ReadFile
  <2>1. task.key \in Frames
    BY <1>14 DEF ReadFile, TurnInv, ReadInv, CacheInv, ContentInv
  <2> QED BY <1>8, <1>14, <2>1
<1>9. CASE \E c \in Capacities : SetCapacity(c)
  BY <1>4, <1>9 DEF SetCapacity
<1>10. CASE Evict \/ InsertDone \/ FindDone \/ SetCapacityDone \/ Clear
            \/ (\E p \in Paths : Synchronize(p)) \/ \E p \in Paths \cup {NoPath} : DropExisting(p)
  BY <1>5, <1>10 DEF Evict, InsertDone, FindDone, SetCapacityDone, Clear, Synchronize, DropExisting
<1>11. CASE FlushDone
  BY <1>1, <1>5, <1>11 DEF FlushDone
<1>12. CASE \/ \E c \in QueueCapacities : SetPendingCapacity(c)
            \/ \E n \in Workers : AddThreads(n) \/ StopThreads(n)
            \/ \E e \in BOOLEAN : Flush(e)
            \/ \E p \in Paths \cup {NoPath} : KeepExisting(p)
            \/ FlushAsync \/ CancelFlush \/ EnqueueWaits \/ ThreadJoined \/ WorkerEnds
            \/ SetPendingCapacityDone \/ FlushNext \/ FlushAsyncNext \/ FlushAsyncDone \/ KeepNext \/ KeepDone
            \/ \E w \in Workers : Take(w) \/ Finish(w)
  BY <1>1, <1>12 DEF SetPendingCapacity, AddThreads, StopThreads, Flush, KeepExisting, FlushAsync, CancelFlush,
     EnqueueWaits, ThreadJoined, WorkerEnds,
     SetPendingCapacityDone, FlushNext, FlushAsyncNext, FlushAsyncDone, KeepNext, KeepDone, Take, Finish
<1>13. CASE UNCHANGED vars
  BY <1>1, <1>13 DEF vars
<1> QED BY <1>6, <1>7, <1>8, <1>9, <1>10, <1>11, <1>12, <1>13, <1>14 DEF Next, Client, ClientContinues

LEMMA MemSoundKeeps == ASSUME CacheInv, TurnInv, MemSound, [Next]_vars PROVE MemSound' /\ ~broken'
<1>1. [MemProofs!Next]_(MemProofs!lruVars) /\ thrown' = thrown
  BY StepsOfMem DEF StepOfMem
<1>2. MemProofs!CacheInv'
  BY <1>1, MemAssumption, MemProofs!CacheStep DEF MemSound, CacheInv, MemInv
<1> QED BY <1>1, <1>2 DEF MemSound, MemProofs!CacheInv

LEMMA MemSoundInit == Init => MemSound
<1>1. Mem!Init => MemProofs!Init
  BY DEF Mem!Init, MemProofs!Init, Mem!Idle, MemProofs!Idle
<1> QED BY <1>1, MemAssumption, MemProofs!CacheInit DEF Init, Mem!Init, MemSound

LEMMA CacheAlways == Spec => [](CacheInv /\ TurnInv /\ FlushInv /\ MemSound)
<1>1. CacheInv /\ TurnInv /\ FlushInv /\ MemSound /\ [Next]_vars => (CacheInv /\ TurnInv /\ FlushInv /\ MemSound)'
  <2> SUFFICES ASSUME CacheInv, TurnInv, FlushInv, MemSound, [Next]_vars
               PROVE  CacheInv' /\ TurnInv' /\ FlushInv' /\ MemSound'
    OBVIOUS
  <2>1. MemSound' /\ ~broken'
    BY MemSoundKeeps
  <2> QED BY <2>1, CacheInvKeeps, TurnInvKeeps, FlushInvKeeps
<1> QED BY <1>1, CacheInit, MemSoundInit, PTL DEF Spec

\* What find() returns, also from the queue, from a file half written or in the middle of
\* another call, is what was stored last under that frame.  Two kinds of frames are excepted:
\* those that cancel_flush() dropped, and those whose file was queued twice, or queued while
\* it was being written, when workers were added, until it is in order again.
THEOREM LatestFound == Spec => []FindsLatest
<1>1. CacheInv => FindsLatest
  <2> SUFFICES ASSUME CacheInv, DiskEnabled, NEW f \in keyUnion \ lost, ~Doubled(f)
               PROVE  latest[f] = IF Cached(f) THEN cacheData[f].value ELSE Stored(f)
    BY DEF FindsLatest
  <2>1. CASE Cached(f)
    BY <2>1 DEF CacheInv, ContentInv, CachedLatest, Cached
  <2>2. CASE ~Cached(f)
    <3>1. f \in frameSet /\ (task.op = "insert" => f # call.key)
      BY <2>2, MemFacts DEF CacheInv, TaskInv, ContentInv, Covered, Cached
    <3> QED BY <3>1, <2>2 DEF CacheInv, ContentInv, ValidLatest
  <2> QED BY <2>1, <2>2
<1> QED BY <1>1, CacheAlways, PTL

\* A frame is marked valid only while its last value is queued, being written or in its file,
\* with the two exceptions of LatestFound.
THEOREM MarksAreCurrent == Spec => []ValidFramesAreCurrent
<1>1. CacheInv => ValidFramesAreCurrent
  BY DEF CacheInv, ContentInv, ValidLatest, ValidFramesAreCurrent
<1> QED BY <1>1, CacheAlways, PTL

\* Whatever the workers do meanwhile, flush() returns with a file for every frame.
THEOREM FlushIsComplete == Spec => FlushCoversAll
<1>1. CacheInv /\ TurnInv /\ FlushInv /\ [Next]_vars
        => [task.op = "flush" /\ task'.op = "none" /\ DiskEnabled => keyUnion \ lost \subseteq frameSet]_vars
  <2> SUFFICES ASSUME CacheInv, TurnInv, FlushInv, Next, task.op = "flush", task'.op = "none", DiskEnabled
               PROVE  keyUnion \ lost \subseteq frameSet
    BY DEF vars
  <2>1. CASE FlushDone
    BY <2>1 DEF FlushDone, FlushInv
  <2>2. CASE FlushNext
    <3>1. task'.op = task.op
      BY <2>2 DEF FlushNext
    <3> QED BY <3>1
  <2>3. CASE Client \/ Evict \/ EnqueueWaits
    BY <2>3 DEF Client, Insert, FindCached, FindStored, SetCapacity, SetPendingCapacity, AddThreads, StopThreads,
       Flush, Synchronize, KeepExisting, DropExisting, FlushAsync, CancelFlush, Clear, AtRest, Evict, EnqueueWaits
  <2>4. CASE \/ InsertDone \/ ReadFile \/ FindDone \/ SetCapacityDone \/ SetPendingCapacityDone
             \/ ThreadJoined \/ WorkerEnds \/ FlushAsyncNext \/ FlushAsyncDone \/ KeepNext \/ KeepDone
    BY <2>4 DEF InsertDone, ReadFile, FindDone, SetCapacityDone, SetPendingCapacityDone, ThreadJoined, WorkerEnds,
       FlushAsyncNext, FlushAsyncDone, KeepNext, KeepDone
  <2>5. ASSUME NEW w \in Workers, Take(w) \/ Finish(w) PROVE FALSE
    BY <2>5, EndsOnly DEF TurnInv
  <2> QED BY <2>1, <2>2, <2>3, <2>4, <2>5 DEF Next, ClientContinues
<1> QED BY <1>1, CacheAlways, PTL DEF Spec, FlushCoversAll

LEMMA WritersApart == QueueInv => NoParallelFiles
<1>1. \A i, j : FileOf(i) = FileOf(j) => SameFile(i, j)
  BY DEF FileOf, SameFile
<1> QED BY <1>1 DEF QueueInv, OncePerFile, NoParallelFiles

\* Two workers write the same file only where it was queued twice, or queued while it was
\* being written, when workers were added; not where that never happened to it, whatever the
\* number of workers and whenever they are stopped.
THEOREM FilesWrittenAlone == Spec => []NoParallelFiles
<1>1. CacheInv => NoParallelFiles
  BY WritersApart DEF CacheInv
<1> QED BY <1>1, CacheAlways, PTL

-----------------------------------------------------------------------------
(* The limit that flush_async() lifts.                                      *)

LimitInv ==
  /\ queueCapacity \in QueueCapacities \cup {Unbounded}
  /\ task.op = "flush_async" => task.old \in QueueCapacities
  /\ LimitRestored

LEMMA LimitKeeps == ASSUME TurnInv, LimitInv, [Next]_vars PROVE LimitInv'
<1> USE DEF LimitInv, LimitRestored
<1>1. CASE FlushAsync
  <2>1. queueCapacity' = Unbounded /\ queueCapacity \in QueueCapacities
    BY <1>1 DEF FlushAsync, AtRest
  <2>2. task'.op = "flush_async" /\ task'.old = queueCapacity
    BY <1>1 DEF FlushAsync
  <2> QED BY <2>1, <2>2
<1>2. CASE FlushAsyncNext
  <2>1. task.op = "flush_async" /\ task.old \in QueueCapacities
    BY <1>2 DEF FlushAsyncNext
  <2>2. CASE task' = NoTask /\ queueCapacity' = task.old
    BY <2>1, <2>2, SequenceAssumption DEF NoTask
  <2>3. CASE task' = [task EXCEPT !.todo = @ \ {Min(task.todo)}] /\ UNCHANGED queueCapacity
    <3>1. task'.op = task.op /\ task'.old = task.old
      BY <2>3
    <3> QED BY <2>1, <2>3, <3>1
  <2> QED BY <1>2, <2>2, <2>3 DEF FlushAsyncNext
<1>3. CASE FlushAsyncDone
  BY <1>3, SequenceAssumption DEF FlushAsyncDone, NoTask
<1>4. ASSUME NEW c \in QueueCapacities, SetPendingCapacity(c) PROVE LimitInv'
  BY <1>4, SequenceAssumption DEF SetPendingCapacity, NoTask
<1>5. CASE FlushNext \/ KeepNext
  <2>1. task.op # "flush_async" /\ UNCHANGED queueCapacity
    BY <1>5 DEF FlushNext, KeepNext
  <2>2. ASSUME NEW S, task' = [task EXCEPT !.todo = S] PROVE task'.op = task.op
    BY <2>2
  <2>3. \E S : task' = [task EXCEPT !.todo = S]
    BY <1>5 DEF FlushNext, KeepNext
  <2> QED BY <2>1, <2>2, <2>3
<1>6. ASSUME NEW p \in Paths \cup {NoPath}, KeepExisting(p) PROVE LimitInv'
  <2>1. /\ task' = IF p = NoPath THEN NoTask ELSE [op |-> "set_disk_path", todo |-> DOMAIN cacheData]
        /\ UNCHANGED queueCapacity /\ task.op = "none"
    BY <1>6 DEF KeepExisting, AtRest
  <2>2. task'.op # "flush_async"
    BY <2>1 DEF NoTask
  <2> QED BY <2>1, <2>2
<1>7. ASSUME NEW e \in BOOLEAN, Flush(e) PROVE LimitInv'
  BY <1>7 DEF Flush, AtRest, diskVars
<1>8. CASE \/ Evict \/ CancelFlush \/ Clear
           \/ \E f \in Frames : FindCached(f)
           \/ \E n \in Workers : AddThreads(n)
           \/ EnqueueWaits
           \/ \E w \in Workers : Take(w)
           \/ \E p \in Paths : Synchronize(p)
           \/ \E p \in Paths \cup {NoPath} : DropExisting(p)
           \/ UNCHANGED vars
  BY <1>8 DEF Evict, CancelFlush, Clear, FindCached, AddThreads, EnqueueWaits, Take, Synchronize, DropExisting,
     diskVars, vars
<1>9. CASE \/ \E f \in Frames, v \in Values : Insert(f, v)
           \/ \E f \in Frames : FindStored(f)
           \/ \E c \in Capacities : SetCapacity(c)
           \/ \E n \in Workers : StopThreads(n)
  BY <1>9 DEF Insert, FindStored, SetCapacity, StopThreads, AtRest, diskVars
<1>10. CASE InsertDone \/ ReadFile \/ FindDone \/ SetCapacityDone \/ SetPendingCapacityDone \/ FlushDone \/ KeepDone
  BY <1>10 DEF InsertDone, ReadFile, FindDone, SetCapacityDone, SetPendingCapacityDone, FlushDone, KeepDone, NoTask, diskVars
<1>11. ASSUME NEW w \in Workers, Finish(w) \/ WorkerEnds PROVE LimitInv'
  BY <1>11, EndsOnly DEF Finish, WorkerEnds, diskVars, TurnInv
<1>12. CASE WorkerEnds
  BY <1>11, <1>12, SequenceAssumption DEF Workers
<1>13. CASE ThreadJoined
  <2>1. task.op = "set_num_threads" /\ UNCHANGED queueCapacity
    BY <1>13 DEF ThreadJoined
  <2>2. task'.op # "flush_async"
    BY <1>13, JoinedOnly DEF TurnInv
  <2> QED BY <2>1, <2>2
<1> QED BY <1>1, <1>2, <1>3, <1>4, <1>5, <1>6, <1>7, <1>8, <1>9, <1>10, <1>11, <1>12, <1>13
        DEF Next, Client, ClientContinues

\* The queue has its limit again when flush_async() returns or throws.
THEOREM LimitComesBack == Spec => []LimitRestored
<1>1. Init => LimitInv
  BY SequenceAssumption DEF Init, LimitInv, LimitRestored, NoTask
<1>2. LimitInv => LimitRestored
  BY DEF LimitInv
<1>3. TurnInv /\ LimitInv /\ [Next]_vars => LimitInv'
  BY LimitKeeps
<1> QED BY <1>1, <1>2, <1>3, CacheAlways, PTL DEF Spec

-----------------------------------------------------------------------------
(* The whole: types, the limit and the writers.                             *)

LEMMA LostKeeps == ASSUME keyUnion \subseteq Frames, lost \subseteq Frames, [Next]_vars PROVE lost' \subseteq Frames
<1>1. CASE CancelFlush
  <2>1. \E S : lost' = lost \cup ((S \cap keyUnion) \ DOMAIN cacheData)
    BY <1>1 DEF CancelFlush
  <2> QED BY <2>1
<1>2. CASE \/ \E f \in Frames, v \in Values : Insert(f, v)
           \/ \E p \in Paths : Synchronize(p)
           \/ \E p \in Paths \cup {NoPath} : KeepExisting(p) \/ DropExisting(p)
           \/ Clear
  BY <1>2 DEF Insert, Synchronize, KeepExisting, DropExisting, Holds, Clear
<1>3. CASE \/ \E f \in Frames : FindCached(f) \/ FindStored(f)
           \/ \E c \in Capacities : SetCapacity(c)
           \/ \E c \in QueueCapacities : SetPendingCapacity(c)
           \/ \E n \in Workers : AddThreads(n) \/ StopThreads(n)
           \/ \E e \in BOOLEAN : Flush(e)
           \/ FlushAsync \/ WorkerEnds
           \/ \E w \in Workers : Take(w) \/ Finish(w)
           \/ UNCHANGED vars
  BY <1>3 DEF FindCached, FindStored, SetCapacity, SetPendingCapacity, AddThreads, StopThreads, Flush,
     FlushAsync, WorkerEnds, Take, Finish, vars
<1>4. CASE ClientContinues
  BY <1>4 DEF ClientContinues, EnqueueWaits, Evict, InsertDone, ReadFile, FindDone, SetCapacityDone,
     SetPendingCapacityDone, ThreadJoined, FlushNext, FlushDone, FlushAsyncNext, FlushAsyncDone, KeepNext, KeepDone
<1> QED BY <1>1, <1>2, <1>3, <1>4 DEF Next, Client

\* Whatever the calls, the evictions and the workers do, the queue, the marks, the files and
\* the memory cache stay what the class says they are, the limit is lifted during
\* flush_async() only, and two workers write one file only where it was held twice when
\* workers were added.
THEOREM SequenceConsistent == Spec => []Consistent
<1>1. Init => LimitInv /\ lost \subseteq Frames
  BY SequenceAssumption DEF Init, LimitInv, LimitRestored, NoTask
<1>2. CacheInv /\ lost \subseteq Frames /\ [Next]_vars => (lost \subseteq Frames)'
  BY LostKeeps DEF CacheInv, ContentInv
<1>3. CacheInv /\ TurnInv /\ MemSound /\ LimitInv /\ lost \subseteq Frames => Consistent
  <2> SUFFICES ASSUME CacheInv, TurnInv, MemSound, LimitInv, lost \subseteq Frames PROVE Consistent
    OBVIOUS
  <2>1. Mem!TypeOK
    BY DEF MemSound, MemProofs!CacheInv, MemProofs!TypeOK, Mem!TypeOK, MemProofs!Entry, Mem!Entry
  <2>2. TypeOK
    BY <2>1 DEF TypeOK, CacheInv, ContentInv, QueueInv, QueueShape, LimitInv, TurnInv, WaitInv
  <2>3. NoParallelFiles
    BY WritersApart DEF CacheInv
  <2> QED BY <2>2, <2>3 DEF Consistent, LimitInv
<1>4. TurnInv /\ LimitInv /\ [Next]_vars => LimitInv'
  BY LimitKeeps
<1> QED BY <1>1, <1>2, <1>3, <1>4, CacheAlways, PTL DEF Spec
=============================================================================
