--------------------------- MODULE SequenceCache ---------------------------
(***************************************************************************)
(* sequence_cache<V, S, E> (frantic/files/sequence_cache.hpp): frames in an *)
(* lru_cache (module LruCache) in front of files that the workers of a      *)
(* background_serializer write.  One client thread calls it.  The set of    *)
(* valid frames on disk is updated when a frame is queued, long before its  *)
(* file is written.                                                         *)
(*                                                                          *)
(* Of the serializer only what one client sees is kept: its queue, what the *)
(* workers are writing, the rules by which enqueue() blocks and             *)
(* try_enqueue() refuses, and how workers are added and stopped at any time *)
(* (module BackgroundSerializer has the threads).  serialize() does not     *)
(* throw, as the class requires of it.  A loop that calls the serializer is *)
(* one action per turn; a call blocked in enqueue() is an action that waits *)
(* for its guard.                                                           *)
(***************************************************************************)
EXTENDS Integers, Sequences, FiniteSetsExt, Functions

CONSTANTS
  Frames,           \* the times frames are stored under
  Values, SizeOf,   \* the values and what the size estimator says of them
  NoValue,          \* a default constructed value; a file that does not exist
  Capacities,       \* limits of the memory cache
  QueueCapacities,  \* limits of the serializer's queue
  Unbounded,        \* std::numeric_limits<std::size_t>::max()
  MaxQueue,         \* bound on the length of the queue flush_async() may add to
  MaxThreads,       \* bound on the argument of set_num_serializer_threads
  Paths, NoPath,    \* disk sequence patterns, and the empty one
  NoItem, NoFrame

ASSUME SequenceAssumption ==
  /\ Frames \subseteq Nat
  /\ Values # {} /\ SizeOf \in [Values -> Nat] /\ NoValue \notin Values
  /\ NoItem \notin [path : Paths, frame : Frames, value : Values]
  /\ Capacities \subseteq Nat
  /\ QueueCapacities \subseteq Nat /\ Unbounded \in Nat \ QueueCapacities
  /\ MaxQueue \in Nat /\ MaxThreads \in Nat \ {0} /\ NoPath \notin Paths /\ NoFrame \notin Frames

Workers == 1..MaxThreads

VARIABLES
  cacheData, usageTracker, cacheSize, cacheCapacity, call, broken, thrown, older,  \* m_memCache
  keyUnion,      \* m_keyUnion
  frameSet,      \* m_diskCache.get_frame_set(): the frames whose file, queued or written, is valid
  path,          \* the pattern of m_diskCache; NoPath when m_diskCacheEnabled is false
  queue,         \* the serializer's items, the oldest first
  writing,       \* writing[w]: the item worker w is writing
  numThreads,    \* the number of workers
  queueCapacity, \* the serializer's capacity
  files,         \* files[p][f]: the content of the file of frame f under the pattern p
  task,          \* the loop of the client's call that is under way
  waitsFor,      \* the worker that a blocked enqueue() waits for, when not all that write its file
  doubled,       \* files held more than once when workers were added: see HeldTwice
  latest,        \* latest[f]: what the user last stored under f
  lost           \* the frames whose only copy cancel_flush() dropped

memVars  == <<cacheData, usageTracker, cacheSize, cacheCapacity, call, broken, thrown, older>>
diskVars == <<queue, writing, numThreads, queueCapacity, files, waitsFor, doubled>>
vars     == <<memVars, keyUnion, frameSet, path, diskVars, task, latest, lost>>

Mem == INSTANCE LruCache WITH Keys <- Frames, NoKey <- NoFrame

NoTask == [op |-> "none"]
Items  == [path : Paths, frame : Frames, value : Values]

TypeOK ==
  /\ Mem!TypeOK
  /\ keyUnion \subseteq Frames /\ frameSet \subseteq Frames /\ lost \subseteq Frames
  /\ path \in Paths \cup {NoPath}
  /\ queue \in Seq(Items)
  /\ writing \in [Workers -> Items \cup {NoItem}]
  /\ numThreads \in Workers
  /\ queueCapacity \in QueueCapacities \cup {Unbounded}
  /\ files \in [Paths -> [Frames -> Values \cup {NoValue}]]
  /\ waitsFor \in Workers \cup {0}
  /\ doubled \subseteq Paths \X Frames
  /\ latest \in [Frames -> Values \cup {NoValue}]

DiskEnabled == path # NoPath
Cached(f)   == f \in DOMAIN cacheData
AtRest      == task.op = "none"

-----------------------------------------------------------------------------
(* The serializer, as one client sees it.                                   *)

ItemOf(f, v) == [path |-> path, frame |-> f, value |-> v]
QueuedAt(f)  == {i \in 1..Len(queue) : queue[i].path = path /\ queue[i].frame = f}
Writers(p, f) == {w \in Workers : writing[w] # NoItem /\ writing[w].path = p /\ writing[w].frame = f}
WrittenBy(f) == Writers(path, f)
Multiple     == numThreads > 1
FileOf(i)    == <<i.path, i.frame>>
Doubled(f)   == <<path, f>> \in doubled

SizeOfItem(i) == IF i = NoItem THEN 0 ELSE SizeOf[i.value]
Usage == SumFunction([i \in DOMAIN queue |-> SizeOfItem(queue[i])])
         + SumFunction([w \in Workers |-> SizeOfItem(writing[w])])

Room(v) == Usage + SizeOf[v] <= queueCapacity \/ queue = <<>>

\* Mutant: an item is queued while its file is being written.
AcceptsWritten(f, v) == (Multiple /\ QueuedAt(f) # {}) \/ Room(v)

\* Whether an item is taken at once: it replaces a queued one of its key, or there is
\* room and, with several workers, nobody is writing the key.
Accepts(f, v) ==
  \/ Multiple /\ QueuedAt(f) # {}
  \/ (Multiple => WrittenBy(f) = {}) /\ Room(v)

\* The files that are queued twice, or queued while a worker writes them: a single worker
\* writes such items one after the other.
HeldTwice ==
  {FileOf(queue[i]) : i \in {j \in 1..Len(queue) :
     \/ \E k \in 1..Len(queue) : k # j /\ FileOf(queue[k]) = FileOf(queue[j])
     \/ \E w \in Workers : writing[w] # NoItem /\ FileOf(writing[w]) = FileOf(queue[j])}}

\* A file held twice is in order again when what was stored last is queued where nothing
\* can be written after it, and when the queue is emptied and one worker at most writes it.
InOrderAgain(f, v) == v = latest[f] /\ (Multiple => QueuedAt(f) = {} /\ WrittenBy(f) = {})
WrittenTwice == {k \in doubled : \E v, w \in Writers(k[1], k[2]) : v # w}

Put(f, v) ==
  /\ queue' = IF Multiple /\ QueuedAt(f) # {}
              THEN [queue EXCEPT ![Max(QueuedAt(f))].value = v]
              ELSE Append(queue, ItemOf(f, v))
  /\ doubled' = IF InOrderAgain(f, v) THEN doubled \ {<<path, f>>} ELSE doubled

\* Mutant: an older queued value hides a newer one.
FindPendingOldest(f) ==
  IF QueuedAt(f) # {} THEN queue[Min(QueuedAt(f))].value
  ELSE IF WrittenBy(f) # {} THEN writing[Min(WrittenBy(f))].value
  ELSE NoValue

FindPending(f) ==
  IF QueuedAt(f) # {} THEN queue[Max(QueuedAt(f))].value
  ELSE IF WrittenBy(f) # {} THEN writing[Min(WrittenBy(f))].value
  ELSE NoValue

\* What find() gives for a frame that is not in memory.
Stored(f) == IF FindPending(f) # NoValue THEN FindPending(f) ELSE files[path][f]

\* set_num_threads( n ) with fewer workers interrupts one after the other and joins it.
\* An interrupted worker ends when it waits for an item or has written one.
Interrupted(w) == task.op = "set_num_threads" /\ w = task.at
Ended(w)       == task.op = "set_num_threads" /\ task.to < w /\ w <= task.at /\ (w = task.at => task.ended)

Take(w) ==
  /\ w <= numThreads /\ ~Ended(w) /\ writing[w] = NoItem /\ queue # <<>>
  /\ writing' = [writing EXCEPT ![w] = Head(queue)]
  /\ queue' = Tail(queue)
  /\ UNCHANGED <<memVars, keyUnion, frameSet, path, numThreads, queueCapacity,
                 files, waitsFor, doubled, task, latest, lost>>

Finish(w) ==
  /\ writing[w] # NoItem
  /\ files' = [files EXCEPT ![writing[w].path][writing[w].frame] = writing[w].value]
  /\ writing' = [writing EXCEPT ![w] = NoItem]
  /\ task' = IF Interrupted(w) THEN [task EXCEPT !.ended = TRUE] ELSE task
  /\ UNCHANGED <<memVars, keyUnion, frameSet, path, queue, numThreads, queueCapacity,
                 waitsFor, doubled, latest, lost>>

WorkerEnds ==
  /\ task.op = "set_num_threads" /\ ~task.ended /\ writing[task.at] = NoItem
  /\ task' = [task EXCEPT !.ended = TRUE]
  /\ UNCHANGED <<memVars, keyUnion, frameSet, path, diskVars, latest, lost>>

-----------------------------------------------------------------------------
Init ==
  /\ Mem!Init
  /\ keyUnion = {} /\ frameSet = {} /\ lost = {}
  /\ path = NoPath
  /\ queue = <<>> /\ writing = [w \in Workers |-> NoItem]
  /\ numThreads = 1
  /\ queueCapacity \in QueueCapacities
  /\ files = [p \in Paths |-> [f \in Frames |-> NoValue]]
  /\ waitsFor = 0 /\ doubled = {}
  /\ task = NoTask
  /\ latest = [f \in Frames |-> NoValue]

\* The frame that the eviction loop or the one of flush() hands to the serializer next.
HandsOver(f) ==
  \/ Mem!MustEvict /\ f = Head(usageTracker)
  \/ task.op = "flush" /\ task.todo # {} /\ f = Min(task.todo)

\* enqueue() blocks while the file is being written, but waits for the first of its writers
\* only.  (Where there is one writer, that is the condition of Accepts.)
EnqueueWaits ==
  /\ waitsFor = 0 /\ DiskEnabled
  /\ \E f \in Frames \ frameSet :
       /\ HandsOver(f) /\ QueuedAt(f) = {}
       /\ \E v, w \in WrittenBy(f) : v # w
       /\ waitsFor' = Min(WrittenBy(f))
  /\ UNCHANGED <<memVars, keyUnion, frameSet, path, queue, writing, numThreads,
                 queueCapacity, files, doubled, task, latest, lost>>

\* enqueue( f, v ) comes to its end.
Enqueue(f, v) ==
  /\ IF waitsFor # 0 THEN waitsFor \notin WrittenBy(f) /\ Room(v) ELSE Accepts(f, v)
  /\ Put(f, v) /\ waitsFor' = 0

\* Mutant: the frame is queued and not marked.
QueueOnly(f, v) ==
  IF DiskEnabled /\ f \notin frameSet
  THEN Enqueue(f, v) /\ UNCHANGED frameSet
  ELSE UNCHANGED <<queue, doubled, waitsFor, frameSet>>

\* on_cache_entry_flushed( f, v, erased ): a frame without a valid file is queued.
OnEntryErased(f, v) ==
  IF DiskEnabled /\ f \notin frameSet
  THEN Enqueue(f, v) /\ frameSet' = frameSet \cup {f}
  ELSE UNCHANGED <<queue, doubled, waitsFor, frameSet>>

\* One turn of the eviction loop, in whichever call it runs.
Evict ==
  /\ Mem!EvictFront
  /\ LET f == Head(usageTracker) IN OnEntryErased(f, cacheData[f].value)
  /\ UNCHANGED <<keyUnion, path, writing, numThreads, queueCapacity, files, task, latest, lost>>

\* insert(): the key is recorded and the value put in memory.
Insert(f, v) ==
  /\ AtRest
  /\ Mem!InsertReplace(f, v) \/ Mem!InsertNew(f, v)
  /\ keyUnion' = keyUnion \cup {f}
  /\ task' = [op |-> "insert", new |-> f \notin keyUnion]
  /\ latest' = [latest EXCEPT ![f] = v]
  /\ lost' = lost \ {f}
  /\ UNCHANGED <<frameSet, path, diskVars>>

\* Mutant: the frame stays valid on disk though its new value was refused.
KeepStaleFrame(f, v) ==
  IF DiskEnabled /\ (task.new \/ f \in frameSet)
  THEN IF Accepts(f, v) THEN Put(f, v) /\ frameSet' = frameSet \cup {f}
                        ELSE UNCHANGED <<queue, doubled, frameSet>>
  ELSE UNCHANGED <<queue, doubled, frameSet>>

\* The end of insert(): a new frame, or one that is on disk, is offered to the serializer;
\* if it is refused, the frame has no valid file.
UpdateDisk(f, v) ==
  IF DiskEnabled /\ (task.new \/ f \in frameSet)
  THEN IF Accepts(f, v) THEN Put(f, v) /\ frameSet' = frameSet \cup {f}
                        ELSE frameSet' = frameSet \ {f} /\ UNCHANGED <<queue, doubled>>
  ELSE UNCHANGED <<queue, doubled, frameSet>>

InsertDone ==
  /\ task.op = "insert"
  /\ Mem!InsertReturns
  /\ UpdateDisk(call.key, cacheData[call.key].value)
  /\ task' = NoTask
  /\ UNCHANGED <<keyUnion, path, writing, numThreads, queueCapacity, files, waitsFor, latest, lost>>

\* find() of a frame in memory.
FindCached(f) ==
  /\ AtRest /\ f \in keyUnion /\ Cached(f)
  /\ Mem!Find(f)
  /\ UNCHANGED <<keyUnion, frameSet, path, diskVars, task, latest, lost>>

\* find() of a frame that is queued or being written brings it to memory.  Where nothing is
\* pending it reads the file, in a step of its own.
FindStored(f) ==
  /\ AtRest /\ f \in keyUnion /\ ~Cached(f) /\ DiskEnabled
  /\ IF FindPending(f) # NoValue
     THEN Mem!InsertNew(f, FindPending(f)) /\ task' = [op |-> "find"]
     ELSE task' = [op |-> "read", key |-> f] /\ UNCHANGED memVars
  /\ UNCHANGED <<keyUnion, frameSet, path, diskVars, latest, lost>>

\* Reading a file that does not exist throws and changes nothing.
ReadFile ==
  /\ task.op = "read"
  /\ LET v == files[path][task.key] IN
     IF v # NoValue THEN Mem!InsertNew(task.key, v) /\ task' = [op |-> "find"]
                    ELSE task' = NoTask /\ UNCHANGED memVars
  /\ UNCHANGED <<keyUnion, frameSet, path, diskVars, latest, lost>>

FindDone ==
  /\ task.op = "find"
  /\ Mem!InsertReturns
  /\ task' = NoTask
  /\ UNCHANGED <<keyUnion, frameSet, path, diskVars, latest, lost>>

SetCapacity(c) ==
  /\ AtRest
  /\ Mem!SetCapacity(c)
  /\ task' = [op |-> "set_capacity"]
  /\ UNCHANGED <<keyUnion, frameSet, path, diskVars, latest, lost>>

SetCapacityDone ==
  /\ task.op = "set_capacity"
  /\ Mem!SetCapacityReturns
  /\ task' = NoTask
  /\ UNCHANGED <<keyUnion, frameSet, path, diskVars, latest, lost>>

\* set_pending_capacity() waits for the queue to fit only when it shrinks.
SetPendingCapacity(c) ==
  /\ AtRest
  /\ queueCapacity' = c
  /\ task' = IF c < queueCapacity THEN [op |-> "set_pending_capacity"] ELSE NoTask
  /\ UNCHANGED <<memVars, keyUnion, frameSet, path, queue, writing, numThreads, files,
                 waitsFor, doubled, latest, lost>>

SetPendingCapacityDone ==
  /\ task.op = "set_pending_capacity" /\ Usage <= queueCapacity
  /\ task' = NoTask
  /\ UNCHANGED <<memVars, keyUnion, frameSet, path, diskVars, latest, lost>>

\* set_num_serializer_threads( n ) with more workers: they start at once, whatever is queued.
AddThreads(n) ==
  /\ AtRest /\ n > numThreads
  /\ numThreads' = n
  /\ doubled' = doubled \cup HeldTwice
  /\ UNCHANGED <<memVars, keyUnion, frameSet, path, queue, writing, queueCapacity, files,
                 waitsFor, task, latest, lost>>

StopThreads(n) ==
  /\ AtRest /\ n < numThreads
  /\ task' = [op |-> "set_num_threads", to |-> n, at |-> n + 1, ended |-> FALSE]
  /\ UNCHANGED <<memVars, keyUnion, frameSet, path, diskVars, latest, lost>>

\* An interrupted worker has ended; after the last one the workers are n.
ThreadJoined ==
  /\ task.op = "set_num_threads" /\ task.ended
  /\ IF task.at < numThreads
     THEN task' = [task EXCEPT !.at = @ + 1, !.ended = FALSE] /\ UNCHANGED numThreads
     ELSE numThreads' = task.to /\ task' = NoTask
  /\ UNCHANGED <<memVars, keyUnion, frameSet, path, queue, writing, queueCapacity, files,
                 waitsFor, doubled, latest, lost>>

Clear ==
  /\ AtRest
  /\ keyUnion' = {} /\ frameSet' = {} /\ queue' = <<>> /\ doubled' = WrittenTwice
  /\ Mem!Clear
  /\ latest' = [f \in Frames |-> NoValue] /\ lost' = {}
  /\ UNCHANGED <<path, writing, numThreads, queueCapacity, files, waitsFor, task>>

-----------------------------------------------------------------------------
(* Flushing.                                                                *)

\* flush( emptyMemoryCache ) visits the frames in memory in the order of their times.
Flush(empty) ==
  /\ AtRest
  /\ task' = [op |-> "flush", todo |-> DOMAIN cacheData, empty |-> empty]
  /\ UNCHANGED <<memVars, keyUnion, frameSet, path, diskVars, latest, lost>>

FlushNext ==
  /\ task.op = "flush" /\ task.todo # {}
  /\ LET f == Min(task.todo) IN
     /\ OnEntryErased(f, cacheData[f].value)
     /\ task' = [task EXCEPT !.todo = @ \ {f}]
  /\ UNCHANGED <<memVars, keyUnion, path, writing, numThreads, queueCapacity, files, latest, lost>>

FlushDone ==
  /\ task.op = "flush" /\ task.todo = {}
  /\ IF task.empty THEN Mem!Clear ELSE UNCHANGED memVars
  /\ task' = NoTask
  /\ UNCHANGED <<keyUnion, frameSet, path, diskVars, latest, lost>>

\* flush_async() lifts the limit of the queue while it adds the frames without a valid file.
FlushAsync ==
  /\ AtRest /\ DiskEnabled /\ Len(queue) <= MaxQueue
  /\ queueCapacity' = Unbounded
  /\ task' = [op |-> "flush_async", todo |-> DOMAIN cacheData \ frameSet, old |-> queueCapacity]
  /\ UNCHANGED <<memVars, keyUnion, frameSet, path, queue, writing, numThreads, files,
                 waitsFor, doubled, latest, lost>>

\* An item can still be refused while a worker writes the same file: flush_async() throws.
FlushAsyncNext ==
  /\ task.op = "flush_async" /\ task.todo # {}
  /\ LET f == Min(task.todo)
         v == cacheData[f].value
     IN  IF Accepts(f, v)
         THEN /\ Put(f, v) /\ frameSet' = frameSet \cup {f}
              /\ task' = [task EXCEPT !.todo = @ \ {f}]
              /\ UNCHANGED queueCapacity
         ELSE /\ queueCapacity' = task.old /\ task' = NoTask
              /\ UNCHANGED <<queue, doubled, frameSet>>
  /\ UNCHANGED <<memVars, keyUnion, path, writing, numThreads, files, waitsFor, latest, lost>>

FlushAsyncDone ==
  /\ task.op = "flush_async" /\ task.todo = {}
  /\ queueCapacity' = task.old /\ task' = NoTask
  /\ UNCHANGED <<memVars, keyUnion, frameSet, path, queue, writing, numThreads, files,
                 waitsFor, doubled, latest, lost>>

\* cancel_flush() empties the queue; a dropped frame has no valid file any more.
CancelFlush ==
  /\ AtRest
  /\ LET dropped == {queue[i].frame : i \in {j \in 1..Len(queue) : queue[j].path = path}} IN
     /\ frameSet' = frameSet \ dropped
     /\ lost' = lost \cup ((dropped \cap keyUnion) \ DOMAIN cacheData)
  /\ queue' = <<>>
  /\ UNCHANGED <<memVars, keyUnion, path, writing, numThreads, queueCapacity, files,
                 waitsFor, doubled, task, latest>>

-----------------------------------------------------------------------------
(* set_disk_path( path, option )                                            *)

\* The user's frames are those in K with the contents c from now on.
Holds(K, c(_)) ==
  /\ keyUnion' = K
  /\ latest' = [f \in Frames |-> IF f \in K THEN c(f) ELSE NoValue]
  /\ lost' = {}

\* keep_existing: the frames in memory remain, and are queued until one is refused.
KeepExisting(p) ==
  /\ AtRest
  /\ Holds(DOMAIN cacheData, LAMBDA f : cacheData[f].value)
  /\ path' = p /\ frameSet' = {} /\ queue' = <<>> /\ doubled' = WrittenTwice
  /\ task' = IF p = NoPath THEN NoTask ELSE [op |-> "set_disk_path", todo |-> DOMAIN cacheData]
  /\ UNCHANGED <<memVars, writing, numThreads, queueCapacity, files, waitsFor>>

KeepNext ==
  /\ task.op = "set_disk_path" /\ task.todo # {}
  /\ LET f == Min(task.todo)
         v == cacheData[f].value
     IN  IF Accepts(f, v)
         THEN /\ Put(f, v) /\ frameSet' = frameSet \cup {f}
              /\ task' = [task EXCEPT !.todo = @ \ {f}]
         ELSE /\ task' = [task EXCEPT !.todo = {}]
              /\ UNCHANGED <<queue, doubled, frameSet>>
  /\ UNCHANGED <<memVars, keyUnion, path, writing, numThreads, queueCapacity, files, waitsFor, latest, lost>>

KeepDone ==
  /\ task.op = "set_disk_path" /\ task.todo = {}
  /\ task' = NoTask
  /\ UNCHANGED <<memVars, keyUnion, frameSet, path, diskVars, latest, lost>>

\* drop_existing
DropExisting(p) ==
  /\ AtRest
  /\ Holds({}, LAMBDA f : NoValue)
  /\ Mem!Clear
  /\ path' = p /\ frameSet' = {} /\ queue' = <<>> /\ doubled' = WrittenTwice
  /\ UNCHANGED <<writing, numThreads, queueCapacity, files, waitsFor, task>>

\* The frames that a worker is writing under the pattern p: their files may exist already.
BeingWritten(p) == {f \in Frames : Writers(p, f) # {}}

\* synchronize: the frames are those with a file.
Synchronize(p) ==
  /\ AtRest
  /\ \E partial \in SUBSET BeingWritten(p) :
       LET found == {f \in Frames : files[p][f] # NoValue} \cup partial
           content(f) == IF f \in BeingWritten(p) THEN writing[Min(Writers(p, f))].value ELSE files[p][f]
       IN  Holds(found, content) /\ frameSet' = found
  /\ Mem!Clear
  /\ path' = p /\ queue' = <<>> /\ doubled' = WrittenTwice
  /\ UNCHANGED <<writing, numThreads, queueCapacity, files, waitsFor, task>>

-----------------------------------------------------------------------------
Client ==
  \/ \E f \in Frames, v \in Values : Insert(f, v)
  \/ \E f \in Frames : FindCached(f) \/ FindStored(f)
  \/ \E c \in Capacities : SetCapacity(c)
  \/ \E c \in QueueCapacities : SetPendingCapacity(c)
  \/ \E n \in Workers : AddThreads(n) \/ StopThreads(n)
  \/ \E e \in BOOLEAN : Flush(e)
  \/ \E p \in Paths : Synchronize(p)
  \/ \E p \in Paths \cup {NoPath} : KeepExisting(p) \/ DropExisting(p)
  \/ FlushAsync \/ CancelFlush \/ Clear

ClientContinues ==
  \/ EnqueueWaits \/ Evict \/ InsertDone \/ ReadFile \/ FindDone
  \/ SetCapacityDone \/ SetPendingCapacityDone \/ ThreadJoined
  \/ FlushNext \/ FlushDone \/ FlushAsyncNext \/ FlushAsyncDone \/ KeepNext \/ KeepDone

Next ==
  \/ Client \/ ClientContinues
  \/ \E w \in Workers : Take(w) \/ Finish(w)
  \/ WorkerEnds

Spec == Init /\ [][Next]_vars

-----------------------------------------------------------------------------
(* Properties.                                                              *)

\* What find() returns for a key, in memory or not, is what was stored last, also in the
\* middle of a call, while the disk cache is enabled, unless cancel_flush() dropped it or its
\* file was held twice when workers were added and is not in order again.
FindsLatest ==
  DiskEnabled =>
    \A f \in keyUnion \ lost :
      ~Doubled(f) => latest[f] = IF Cached(f) THEN cacheData[f].value ELSE Stored(f)

\* A frame in the set of valid frames has a queued, half written or written file with the
\* value stored last; only insert() makes the two differ until it returns.  The exceptions
\* are those of FindsLatest.
ValidFramesAreCurrent ==
  DiskEnabled /\ task.op # "insert" =>
    \A f \in frameSet \ lost : ~Doubled(f) => Stored(f) = latest[f]

\* flush() returns when every key has a valid file, queued or written.
FlushCoversAll ==
  [][task.op = "flush" /\ task'.op = "none" /\ DiskEnabled
       => keyUnion \ lost \subseteq frameSet]_vars

\* The queue is unbounded during flush_async() only, also when that throws.
LimitRestored == queueCapacity = Unbounded => task.op = "flush_async"

\* Two workers write one file at once only where it was held twice when workers were added.
NoParallelFiles ==
  \A v, w \in Workers :
    v # w /\ writing[v] # NoItem /\ writing[w] # NoItem /\ FileOf(writing[v]) = FileOf(writing[w])
      => FileOf(writing[v]) \in doubled

\* The three together: what the members share with the serializer stays within what its
\* other clients, the workers and a later call may rely on.
Consistent == TypeOK /\ LimitRestored /\ NoParallelFiles

\* Two workers never write the same file.  It does not hold: set_num_threads() adds a worker
\* while a file is queued twice, or queued while it is being written.
NeverParallel ==
  \A v, w \in Workers :
    v # w /\ writing[v] # NoItem /\ writing[w] # NoItem => FileOf(writing[v]) # FileOf(writing[w])

\* find() reads a file only when it is valid, as the assertion in it says.  It does not hold:
\* what cancel_flush() dropped may be neither in memory nor on disk.
MissingFramesAreOnDisk == task.op = "read" => task.key \in frameSet

=============================================================================
