------------------------ MODULE BackgroundSerializer ------------------------
(***************************************************************************)
(* background_serializer<K, V, S> (frantic/files/background_serializer.hpp) *)
(* is a queue of keyed items that worker threads serialize in the           *)
(* background.  Client threads share one mutex and two condition variables: *)
(* m_next (work for the workers) and m_avail (room or idleness for the      *)
(* clients).                                                                *)
(*                                                                          *)
(* One action is one region of code executed between taking the mutex and   *)
(* giving it back (by unlocking it or by waiting on a condition variable).  *)
(* A worker needs finer steps where the code reads m_wantsExit, which the   *)
(* destructor writes without the mutex: there the worker keeps the mutex    *)
(* between two actions, in the places "test" and "loop".                    *)
(***************************************************************************)
EXTENDS Integers, Sequences, SequencesExt

CONSTANTS
  Clients,       \* threads that call the member functions
  Detached,      \* the clients that are the threads of invoke_on_idle
  MaxThreads,    \* bound on the argument of set_num_threads
  Keys,          \* serialization targets
  Sizes,         \* sizes passed to enqueue, in cache units
  Capacities,    \* arguments of set_capacity; all are tried as the initial one
  MaxItems,      \* bound on the number of calls of enqueue and try_enqueue
  Calls,         \* the member functions the clients use
  MayThrow,      \* whether serialize() or the callback may throw
  IdleResize,    \* whether set_num_threads is called on an idle queue only
  Spurious,      \* whether condition variables wake up spuriously
  NoItem         \* an empty boost::optional<pending_entry>

Workers == 1..MaxThreads

\* A pending_entry.  The value is represented by the rank of its acceptance.
Entries == [key : Keys, size : Sizes, id : Nat]

ASSUME ConstantsAssumption ==
  /\ Detached \subseteq Clients
  /\ MaxThreads \in Nat \ {0}
  /\ MaxItems \in Nat
  /\ Sizes \subseteq Nat /\ Sizes # {}
  /\ Keys # {}
  /\ Capacities \subseteq Nat
  /\ MayThrow \in BOOLEAN /\ IdleResize \in BOOLEAN /\ Spurious \in BOOLEAN
  /\ NoItem \notin Entries

VARIABLES
  pending,      \* m_pendingValues read from back() to front(): the head is the next item to serialize
  curUsage,     \* m_curUsage
  maxCapacity,  \* m_maxCapacity
  wantsExit,    \* m_wantsExit
  error,        \* m_hasError and m_threadException: "none", "stored" or "reported"
  numThreads,   \* m_numThreads
  item,         \* m_threadData[w].currentItem
  interrupted,  \* the interruption requests of boost::thread
  wpc,          \* where each worker thread is in thread_impl
  cpc,          \* which wait, if any, each client is in
  req,          \* the arguments and locals of the call a client is in
  blocked,      \* the clients asleep on m_avail
  phase,        \* what the owner of the object is doing with it
  shrink,       \* the loop of set_num_threads that stops threads: [to, at]
  called,       \* number of calls of enqueue and try_enqueue so far
  lastId,       \* number of items accepted so far
  disk          \* disk[k]: the item serialize() last wrote to the target k, 0 for none

queueVars  == <<pending, curUsage, maxCapacity, called, lastId>>
workerVars == <<item, interrupted, wpc, disk>>
clientVars == <<cpc, req, blocked>>
ownerVars  == <<wantsExit, numThreads, phase, shrink>>
vars       == <<queueVars, workerVars, clientVars, ownerVars, error>>

WorkerPlaces == {"off", "start", "test", "loop", "asleep", "woken",
                 "serialize", "finish", "failed", "ended"}
ClientPlaces == {"ready", "key", "room", "capacity", "drain", "quiet", "clear"}

NoRequest == [key |-> CHOOSE k \in Keys : TRUE, size |-> CHOOSE s \in Sizes : TRUE,
              at |-> 0, upto |-> 0]

TypeOK ==
  /\ pending \in Seq(Entries)
  /\ curUsage \in Int
  /\ maxCapacity \in Capacities
  /\ wantsExit \in BOOLEAN
  /\ error \in {"none", "stored", "reported"}
  /\ numThreads \in Workers
  /\ item \in [Workers -> Entries \cup {NoItem}]
  /\ interrupted \in [Workers -> BOOLEAN]
  /\ wpc \in [Workers -> WorkerPlaces]
  /\ cpc \in [Clients -> ClientPlaces]
  /\ req \in [Clients -> [key : Keys, size : Sizes, at : 0..MaxThreads, upto : Nat]]
  /\ blocked \subseteq Clients
  /\ phase \in {"use", "shrink", "notify", "join", "destroyed"}
  /\ shrink \in [to : 0..MaxThreads, at : 0..MaxThreads]
  /\ called \in 0..MaxItems
  /\ lastId \in Nat
  /\ disk \in [Keys -> Nat]

-----------------------------------------------------------------------------
(* The mutex, the condition variables and the queries of the private part.  *)

\* m_mutex is held between two steps only by a worker about to test m_wantsExit
\* or about to look at the queue, and by a client in the loop of clear().
MutexFree ==
  /\ \A w \in Workers : wpc[w] \notin {"test", "loop"}
  /\ \A c \in Clients : cpc[c] # "clear"

\* Mutant: no worker is told of the new item.
NotifyNobody == wpc' = wpc

\* m_next.notify_one(): one sleeping worker, if there is one, wakes up.
NotifyNext ==
  LET asleep == {w \in Workers : wpc[w] = "asleep"}
  IN  IF asleep = {} THEN wpc' = wpc
      ELSE \E w \in asleep : wpc' = [wpc EXCEPT ![w] = "woken"]

\* m_next.notify_all()
NotifyAllNext == [w \in Workers |-> IF wpc[w] = "asleep" THEN "woken" ELSE wpc[w]]

\* Mutant: off by one.
MoreThanTwoWorkers == numThreads > 2

MultipleWorkers == numThreads > 1

\* The positions of the pending items of key k; find_if() meets the highest first.
PendingAt(k) == {i \in 1..Len(pending) : pending[i].key = k}

\* Mutant: the worker is thought done once serialize() has returned.
IsWriting(w, k) == item[w] # NoItem /\ item[w].key = k /\ wpc[w] = "serialize"

Processes(w, k) == item[w] # NoItem /\ item[w].key = k

\* Exceeding the capacity is tolerated when nothing is pending.
HasRoom(s) == curUsage + s <= maxCapacity \/ pending = <<>>

\* Mutant: the search starts at the oldest item.
FindOldest(k) ==
  IF PendingAt(k) # {}
  THEN pending[CHOOSE i \in PendingAt(k) : \A j \in PendingAt(k) : j >= i].id
  ELSE IF \E w \in 1..numThreads : Processes(w, k)
       THEN item[CHOOSE w \in 1..numThreads : Processes(w, k)].id
       ELSE 0

\* Mutant: the workers are not asked.
FindQueued(k) ==
  IF PendingAt(k) # {}
  THEN pending[CHOOSE i \in PendingAt(k) : \A j \in PendingAt(k) : j <= i].id
  ELSE 0

\* find_pending(k): the id of the value it returns, 0 when it returns false.
FindPending(k) ==
  IF PendingAt(k) # {}
  THEN pending[CHOOSE i \in PendingAt(k) : \A j \in PendingAt(k) : j <= i].id
  ELSE IF \E w \in 1..numThreads : Processes(w, k)
       THEN item[CHOOSE w \in 1..numThreads :
                   Processes(w, k) /\ \A v \in 1..(w - 1) : ~Processes(v, k)].id
       ELSE 0

Init ==
  /\ pending = <<>>
  /\ curUsage = 0
  /\ maxCapacity \in Capacities
  /\ wantsExit = FALSE
  /\ error = "none"
  /\ numThreads = 1                                  \* set_num_threads( 1u )
  /\ item = [w \in Workers |-> NoItem]
  /\ interrupted = [w \in Workers |-> FALSE]
  /\ wpc = [w \in Workers |-> IF w = 1 THEN "start" ELSE "off"]
  /\ cpc = [c \in Clients |-> "ready"]
  /\ req = [c \in Clients |-> NoRequest]
  /\ blocked = {}
  /\ phase = "use"
  /\ shrink = [to |-> 0, at |-> 0]
  /\ called = 0
  /\ lastId = 0
  /\ disk = [k \in Keys |-> 0]

-----------------------------------------------------------------------------
(* thread_impl: the worker threads.                                         *)

Goto(w, place) == wpc' = [wpc EXCEPT ![w] = place]

\* Mutant: front() and pop_front() instead of back() and pop_back().
TakeNewest(w) ==
  /\ pending # <<>>
  /\ item' = [item EXCEPT ![w] = Last(pending)]
  /\ pending' = Front(pending)
  /\ Goto(w, "serialize")

\* The head of the queue becomes the current item and the mutex is given back.
Take(w) ==
  /\ pending # <<>>
  /\ item' = [item EXCEPT ![w] = Head(pending)]
  /\ pending' = Tail(pending)
  /\ Goto(w, "serialize")

\* theLock.lock() on entry
Begin(w) ==
  /\ wpc[w] = "start" /\ MutexFree
  /\ Goto(w, "test")
  /\ UNCHANGED <<queueVars, item, interrupted, disk, clientVars, ownerVars, error>>

\* while( !m_wantsExit )
TestExit(w) ==
  /\ wpc[w] = "test"
  /\ Goto(w, IF wantsExit THEN "ended" ELSE "loop")
  /\ UNCHANGED <<queueVars, item, interrupted, disk, clientVars, ownerVars, error>>

\* if( m_pendingValues.empty() ) m_next.wait( theLock ), which first acts on an
\* interruption request
LookForWork(w) ==
  /\ wpc[w] = "loop"
  /\ \/ Take(w)
     \/ /\ pending = <<>>
        /\ Goto(w, IF interrupted[w] THEN "ended" ELSE "asleep")
        /\ UNCHANGED <<pending, item>>
  /\ UNCHANGED <<curUsage, maxCapacity, called, lastId, interrupted, disk, clientVars,
                 ownerVars, error>>

\* m_next.wait() returns with the mutex, or acts on an interruption request
WakeUp(w) ==
  /\ wpc[w] = "woken" /\ MutexFree
  /\ \/ ~interrupted[w] /\ Take(w)
     \/ /\ interrupted[w] \/ pending = <<>>
        /\ Goto(w, IF interrupted[w] THEN "ended" ELSE "test")
        /\ UNCHANGED <<pending, item>>
  /\ UNCHANGED <<curUsage, maxCapacity, called, lastId, interrupted, disk, clientVars,
                 ownerVars, error>>

\* m_theImpl.serialize(): it writes the value to its target, or it throws
Serialize(w) ==
  /\ wpc[w] = "serialize"
  /\ \/ /\ disk' = [disk EXCEPT ![item[w].key] = item[w].id]
        /\ Goto(w, "finish")
     \/ /\ MayThrow
        /\ Goto(w, "failed")
        /\ UNCHANGED disk
  /\ UNCHANGED <<queueVars, item, interrupted, clientVars, ownerVars, error>>

\* The mutex is taken again, the callback called, the item forgotten and m_avail
\* notified; then comes the interruption point, then the next item
Finish(w) ==
  /\ wpc[w] = "finish" /\ MutexFree
  /\ curUsage' = curUsage - item[w].size
  /\ blocked' = {}
  /\ \/ ~interrupted[w] /\ Take(w)
     \/ /\ interrupted[w] \/ pending = <<>>
        /\ item' = [item EXCEPT ![w] = NoItem]
        /\ Goto(w, IF interrupted[w] THEN "ended" ELSE "test")
        /\ UNCHANGED pending
  /\ UNCHANGED <<maxCapacity, called, lastId, interrupted, disk, cpc, req, ownerVars, error>>

\* Mutant: the clients are not told that the worker died.
FailSilently(w) ==
  /\ wpc[w] = "failed" \/ (MayThrow /\ wpc[w] = "finish")
  /\ MutexFree
  /\ error' = IF error = "none" THEN "stored" ELSE error
  /\ Goto(w, "ended")
  /\ UNCHANGED <<queueVars, item, interrupted, disk, clientVars, ownerVars>>

\* catch( ... ) of an exception of serialize() or of the callback: the thread ends
\* and its current item stays where it is
Fail(w) ==
  /\ wpc[w] = "failed" \/ (MayThrow /\ wpc[w] = "finish")
  /\ MutexFree
  /\ error' = IF error = "none" THEN "stored" ELSE error
  /\ blocked' = {}
  /\ Goto(w, "ended")
  /\ UNCHANGED <<queueVars, item, interrupted, disk, cpc, req, ownerVars>>

WorkerStep(w) ==
  \/ Begin(w) \/ TestExit(w) \/ LookForWork(w) \/ WakeUp(w)
  \/ Serialize(w) \/ Finish(w) \/ Fail(w)

-----------------------------------------------------------------------------
(* The clients.                                                             *)

\* A client calls f: the object is alive, and the thread of invoke_on_idle only
\* calls wait_for_idle.
Arrives(c, f) ==
  /\ f \in Calls /\ cpc[c] = "ready" /\ phase = "use" /\ MutexFree
  /\ c \in Detached => f = "wait_for_idle"

\* m_avail.wait() returns with the mutex
Resumes(c, place) ==
  /\ cpc[c] = place /\ c \notin blocked /\ phase # "destroyed" /\ MutexFree

Return(c) ==
  /\ cpc' = [cpc EXCEPT ![c] = "ready"]
  /\ req' = [req EXCEPT ![c] = NoRequest]
  /\ UNCHANGED blocked

\* m_avail.wait( theLock )
WaitAvail(c, place, r) ==
  /\ cpc' = [cpc EXCEPT ![c] = place]
  /\ req' = [req EXCEPT ![c] = r]
  /\ blocked' = blocked \cup {c}

\* check_for_exceptions(): when a worker has died the call throws
CheckThrows(c) ==
  /\ error # "none"
  /\ error' = "reported"
  /\ Return(c)

CheckPasses == error = "none" /\ UNCHANGED error

Push(k, s) ==
  /\ pending' = Append(pending, [key |-> k, size |-> s, id |-> lastId + 1])
  /\ curUsage' = curUsage + s
  /\ lastId' = lastId + 1
  /\ NotifyNext

\* Mutant: the old size stays in the usage.
ReplaceValue(k, s) ==
  \E i \in PendingAt(k) :
    /\ \A j \in PendingAt(k) : j <= i
    /\ pending' = [pending EXCEPT ![i] = [key |-> k, size |-> s, id |-> lastId + 1]]
    /\ lastId' = lastId + 1
    /\ UNCHANGED <<curUsage, wpc>>

\* A pending item with the same key gets the new value, whatever the capacity.
Replace(k, s) ==
  \E i \in PendingAt(k) :
    /\ \A j \in PendingAt(k) : j <= i
    /\ pending' = [pending EXCEPT ![i] = [key |-> k, size |-> s, id |-> lastId + 1]]
    /\ curUsage' = curUsage - pending[i].size + s
    /\ lastId' = lastId + 1
    /\ UNCHANGED wpc

\* The last loop of enqueue() and what follows it
AwaitRoom(c, k, s) ==
  \/ HasRoom(s) /\ Push(k, s) /\ Return(c)
  \/ /\ ~HasRoom(s)
     /\ WaitAvail(c, "room", [NoRequest EXCEPT !.key = k, !.size = s])
     /\ UNCHANGED <<pending, curUsage, lastId, wpc>>

\* enqueue() up to its first wait
Enqueue(c, k, s) ==
  /\ Arrives(c, "enqueue") /\ called < MaxItems
  /\ called' = called + 1
  /\ \/ CheckThrows(c) /\ UNCHANGED <<pending, curUsage, lastId, wpc>>
     \/ /\ CheckPasses /\ MultipleWorkers /\ PendingAt(k) # {}
        /\ Replace(k, s) /\ Return(c)
     \/ /\ CheckPasses /\ MultipleWorkers /\ PendingAt(k) = {}
        /\ \E w \in 1..numThreads :
             /\ Processes(w, k) /\ \A v \in 1..(w - 1) : ~Processes(v, k)
             /\ WaitAvail(c, "key", [NoRequest EXCEPT !.key = k, !.size = s, !.at = w])
        /\ UNCHANGED <<pending, curUsage, lastId, wpc>>
     \/ /\ CheckPasses
        /\ MultipleWorkers => /\ PendingAt(k) = {}
                              /\ \A w \in 1..numThreads : ~Processes(w, k)
        /\ AwaitRoom(c, k, s)
  /\ UNCHANGED <<maxCapacity, item, interrupted, disk, ownerVars>>

\* enqueue() after m_avail woke it while it waited for the worker of its key
ResumeKey(c) ==
  /\ Resumes(c, "key")
  /\ LET r == req[c] IN
     \/ CheckThrows(c) /\ UNCHANGED <<pending, curUsage, lastId, wpc>>
     \/ /\ CheckPasses /\ Processes(r.at, r.key)
        /\ WaitAvail(c, "key", r)
        /\ UNCHANGED <<pending, curUsage, lastId, wpc>>
     \/ /\ CheckPasses /\ ~Processes(r.at, r.key)
        /\ AwaitRoom(c, r.key, r.size)
  /\ UNCHANGED <<maxCapacity, called, item, interrupted, disk, ownerVars>>

\* enqueue() after m_avail woke it while it waited for room
ResumeRoom(c) ==
  /\ Resumes(c, "room")
  /\ \/ CheckThrows(c) /\ UNCHANGED <<pending, curUsage, lastId, wpc>>
     \/ CheckPasses /\ AwaitRoom(c, req[c].key, req[c].size)
  /\ UNCHANGED <<maxCapacity, called, item, interrupted, disk, ownerVars>>

\* try_enqueue(): where enqueue() would wait it returns false
TryEnqueue(c, k, s) ==
  /\ Arrives(c, "try_enqueue") /\ called < MaxItems
  /\ called' = called + 1
  /\ Return(c)
  /\ \/ CheckThrows(c) /\ UNCHANGED <<pending, curUsage, lastId, wpc>>
     \/ /\ CheckPasses /\ MultipleWorkers /\ PendingAt(k) # {}
        /\ Replace(k, s)
     \/ /\ CheckPasses
        /\ MultipleWorkers => PendingAt(k) = {}
        /\ IF HasRoom(s) /\ (MultipleWorkers => \A w \in 1..numThreads : ~Processes(w, k))
           THEN Push(k, s)
           ELSE UNCHANGED <<pending, curUsage, lastId, wpc>>
  /\ UNCHANGED <<maxCapacity, item, interrupted, disk, ownerVars>>

\* set_capacity(): the loop that waits until the usage fits
AwaitUsage(c, n) ==
  \/ curUsage <= n /\ Return(c)
  \/ curUsage > n /\ WaitAvail(c, "capacity", NoRequest)

SetCapacity(c, n, waitUntilNotExceeded) ==
  /\ Arrives(c, "set_capacity")
  /\ maxCapacity' = n
  /\ \/ ~waitUntilNotExceeded /\ Return(c) /\ UNCHANGED error
     \/ waitUntilNotExceeded /\ CheckThrows(c)
     \/ waitUntilNotExceeded /\ CheckPasses /\ AwaitUsage(c, n)
  /\ UNCHANGED <<pending, curUsage, called, lastId, workerVars, ownerVars>>

ResumeCapacity(c) ==
  /\ Resumes(c, "capacity")
  /\ \/ CheckThrows(c)
     \/ CheckPasses /\ AwaitUsage(c, maxCapacity)
  /\ UNCHANGED <<queueVars, workerVars, ownerVars>>

\* Mutant: after the wait the loop goes on with the next thread.
AwaitQuietOnce(c, from, upto) ==
  LET busy == {w \in from..numThreads : item[w] # NoItem}
  IN  \/ busy = {} /\ Return(c)
      \/ \E w \in busy :
           /\ \A v \in busy : w <= v
           /\ WaitAvail(c, "quiet", [NoRequest EXCEPT !.at = w + 1, !.upto = upto])

\* wait_for_idle(): its second loop, from the thread of index `from` on
AwaitQuiet(c, from, upto) ==
  LET busy == {w \in from..numThreads : item[w] # NoItem}
  IN  \/ busy = {} /\ Return(c)
      \/ \E w \in busy :
           /\ \A v \in busy : w <= v
           /\ WaitAvail(c, "quiet", [NoRequest EXCEPT !.at = w, !.upto = upto])

\* Mutant: what the workers hold is not awaited.
AwaitEmpty(c, upto) ==
  \/ pending = <<>> /\ Return(c)
  \/ pending # <<>> /\ WaitAvail(c, "drain", [NoRequest EXCEPT !.upto = upto])

\* wait_for_idle(): its first loop; upto is the last item accepted before the call
AwaitDrain(c, upto) ==
  \/ pending = <<>> /\ AwaitQuiet(c, 1, upto)
  \/ pending # <<>> /\ WaitAvail(c, "drain", [NoRequest EXCEPT !.upto = upto])

WaitForIdle(c) ==
  /\ Arrives(c, "wait_for_idle")
  /\ \/ CheckThrows(c)
     \/ CheckPasses /\ AwaitDrain(c, lastId)
  /\ UNCHANGED <<queueVars, workerVars, ownerVars>>

ResumeIdle(c) ==
  /\ \/ Resumes(c, "drain") /\ CheckPasses /\ AwaitDrain(c, req[c].upto)
     \/ Resumes(c, "quiet") /\ CheckPasses /\ AwaitQuiet(c, req[c].at, req[c].upto)
     \/ (Resumes(c, "drain") \/ Resumes(c, "quiet")) /\ CheckThrows(c)
  /\ UNCHANGED <<queueVars, workerVars, ownerVars>>

\* clear() takes the mutex ...
Clear(c) ==
  /\ Arrives(c, "clear")
  /\ cpc' = [cpc EXCEPT ![c] = "clear"]
  /\ UNCHANGED <<queueVars, workerVars, req, blocked, ownerVars, error>>

\* Mutant: the usage goes down by the first item only.
ClearAtOnce(c) ==
  /\ cpc[c] = "clear"
  /\ \/ /\ pending # <<>>
        /\ curUsage' = curUsage - Last(pending).size
        /\ pending' = <<>>
        /\ UNCHANGED clientVars
     \/ pending = <<>> /\ Return(c) /\ UNCHANGED <<curUsage, pending>>
  /\ UNCHANGED <<maxCapacity, called, lastId, workerVars, ownerVars, error>>

\* ... and pops the items from the front of the deque, one per iteration
ClearLoop(c) ==
  /\ cpc[c] = "clear"
  /\ \/ /\ pending # <<>>
        /\ curUsage' = curUsage - Last(pending).size
        /\ pending' = Front(pending)
        /\ UNCHANGED clientVars
     \/ pending = <<>> /\ Return(c) /\ UNCHANGED <<curUsage, pending>>
  /\ UNCHANGED <<maxCapacity, called, lastId, workerVars, ownerVars, error>>

ClientCall(c) ==
  \/ \E k \in Keys, s \in Sizes : Enqueue(c, k, s) \/ TryEnqueue(c, k, s)
  \/ \E n \in Capacities, b \in BOOLEAN : SetCapacity(c, n, b)
  \/ WaitForIdle(c)
  \/ Clear(c)

ClientContinues(c) ==
  \/ ResumeKey(c) \/ ResumeRoom(c) \/ ResumeCapacity(c) \/ ResumeIdle(c)
  \/ ClearLoop(c)

-----------------------------------------------------------------------------
(* The owner.  set_num_threads() and the destructor take no lock: they are   *)
(* called while no client is inside the object, except that the destructor   *)
(* may find the thread of invoke_on_idle there.                              *)

Idle == pending = <<>> /\ \A w \in Workers : item[w] = NoItem

\* boost::thread::interrupt(): it wakes every thread of the condition variable
\* its target sleeps on.
Interrupt(w) ==
  /\ interrupted' = [interrupted EXCEPT ![w] = TRUE]
  /\ \/ wpc[w] = "asleep" /\ wpc' = NotifyAllNext
     \/ wpc[w] = "woken" /\ wpc' \in {wpc, NotifyAllNext}
     \/ wpc[w] \notin {"asleep", "woken"} /\ UNCHANGED wpc

GrowThreads(n) ==
  /\ "set_num_threads" \in Calls /\ phase = "use"
  /\ \A c \in Clients : cpc[c] = "ready"
  /\ IdleResize => Idle
  /\ numThreads < n
  /\ numThreads' = n
  /\ wpc' = [w \in Workers |-> IF w \in (numThreads + 1)..n THEN "start" ELSE wpc[w]]
  /\ UNCHANGED <<queueVars, item, interrupted, disk, clientVars, wantsExit, phase, shrink, error>>

ShrinkThreads(n) ==
  /\ "set_num_threads" \in Calls /\ phase = "use"
  /\ \A c \in Clients : cpc[c] = "ready"
  /\ IdleResize => Idle
  /\ n < numThreads
  /\ phase' = "shrink"
  /\ shrink' = [to |-> n, at |-> n + 1]
  /\ Interrupt(n + 1)
  /\ UNCHANGED <<queueVars, item, disk, clientVars, wantsExit, numThreads, error>>

\* join() returned: on to the next thread, or drop the data of those that ended
ShrinkJoin ==
  /\ phase = "shrink" /\ wpc[shrink.at] = "ended"
  /\ \/ /\ shrink.at < numThreads
        /\ shrink' = [shrink EXCEPT !.at = shrink.at + 1]
        /\ Interrupt(shrink.at + 1)
        /\ UNCHANGED <<item, numThreads, phase>>
     \/ /\ shrink.at = numThreads
        /\ numThreads' = shrink.to
        /\ phase' = "use"
        /\ item' = [w \in Workers |-> IF w > shrink.to THEN NoItem ELSE item[w]]
        /\ wpc' = [w \in Workers |-> IF w > shrink.to THEN "off" ELSE wpc[w]]
        /\ interrupted' = [w \in Workers |-> FALSE]
        /\ UNCHANGED shrink
  /\ UNCHANGED <<queueVars, disk, clientVars, wantsExit, error>>

\* ~background_serializer(), without the mutex
Destroy ==
  /\ "destroy" \in Calls /\ phase = "use"
  /\ \A c \in Clients \ Detached : cpc[c] = "ready"
  /\ wantsExit' = TRUE
  /\ phase' = "notify"
  /\ UNCHANGED <<queueVars, workerVars, clientVars, numThreads, shrink, error>>

DestroyNotify ==
  /\ phase = "notify"
  /\ wpc' = NotifyAllNext
  /\ phase' = "join"
  /\ UNCHANGED <<queueVars, item, interrupted, disk, clientVars, wantsExit, numThreads, shrink, error>>

\* Mutant: the last thread is not joined.
DestroyJoinsButLast ==
  /\ phase = "join"
  /\ \A w \in 1..(numThreads - 1) : wpc[w] = "ended"
  /\ phase' = "destroyed"
  /\ UNCHANGED <<queueVars, workerVars, clientVars, wantsExit, numThreads, shrink, error>>

DestroyJoin ==
  /\ phase = "join"
  /\ \A w \in 1..numThreads : wpc[w] = "ended"
  /\ phase' = "destroyed"
  /\ UNCHANGED <<queueVars, workerVars, clientVars, wantsExit, numThreads, shrink, error>>

OwnerCall == Destroy \/ \E n \in Workers : GrowThreads(n) \/ ShrinkThreads(n)

OwnerContinues == ShrinkJoin \/ DestroyNotify \/ DestroyJoin

\* A condition variable may wake a thread nobody notified.
SpuriousWakeUp ==
  /\ Spurious
  /\ \/ \E w \in Workers : /\ wpc[w] = "asleep" /\ Goto(w, "woken")
                           /\ UNCHANGED blocked
     \/ \E c \in blocked : blocked' = blocked \ {c} /\ UNCHANGED wpc
  /\ UNCHANGED <<queueVars, item, interrupted, disk, cpc, req, ownerVars, error>>

\* The object is gone, or nobody will call again: the system may rest.
Rest ==
  /\ phase \in {"use", "destroyed"}
  /\ \A c \in Clients : cpc[c] = "ready"
  /\ UNCHANGED vars

Next ==
  \/ \E w \in Workers : WorkerStep(w)
  \/ \E c \in Clients : ClientCall(c) \/ ClientContinues(c)
  \/ OwnerCall \/ OwnerContinues
  \/ SpuriousWakeUp
  \/ Rest

Spec == Init /\ [][Next]_vars

\* The scheduler runs every thread that can go on; serialize() returns or throws.
\* Nobody has to call anything.
Fairness ==
  /\ \A w \in Workers : WF_vars(WorkerStep(w))
  /\ \A c \in Clients : WF_vars(ClientContinues(c))
  /\ WF_vars(OwnerContinues)

FairSpec == Spec /\ Fairness

-----------------------------------------------------------------------------
(* Properties.                                                              *)

Held(e) == e \in Range(pending) \/ \E w \in Workers : item[w] = e

SumOfSizes(s) == FoldSeq(LAMBDA e, n : e.size + n, 0, s)

\* m_curUsage is what the pending items and the items being serialized weigh:
\* no path (replacement, clear, retries after a wait) loses or doubles a size.
UsageAccounts ==
  LET busy == {w \in Workers : item[w] # NoItem}
  IN  curUsage = SumOfSizes(pending) + SumFunction([w \in busy |-> item[w].size])

\* The queue blocks its producers: unless the capacity is lowered under it, only a
\* queue of one item may exceed it (get_usage: "we always accept at least one item").
Backpressure == Len(pending) > 1 => curUsage <= maxCapacity

\* Both: what enqueue() compares with m_maxCapacity is the size of what is really held, also
\* after a worker died with its item, and it keeps every producer back.
Accounting == UsageAccounts /\ Backpressure

\* Two workers never write the same target in parallel (comment of enqueue and
\* try_enqueue: it "would cause the serializer to write to the same target (ie.
\* file) in parallel which would be bad").
NoParallelWrites ==
  \A v, w \in Workers :
    v # w /\ wpc[v] = "serialize" /\ wpc[w] = "serialize" => item[v].key # item[w].key

\* With several workers a key is pending, or being serialized, at most once (comment
\* of enqueue: "the pending queue would never have two items with the same key").
KeyHeldOnce ==
  numThreads > 1 =>
    /\ \A i, j \in 1..Len(pending) : pending[i].key = pending[j].key => i = j
    /\ \A v, w \in Workers :
         item[v] # NoItem /\ item[w] # NoItem /\ item[v].key = item[w].key => v = w
    /\ \A w \in Workers, i \in 1..Len(pending) :
         item[w] # NoItem => item[w].key # pending[i].key

\* With one worker the items reach their targets in the order of their acceptance
\* ("Items are serialized in FIFO manner").
FifoWrites ==
  [][\A k, j \in Keys : disk'[k] # disk[k] => disk'[k] > disk[j]]_vars

\* wait_for_idle() returns normally only when every item accepted before its call
\* has left the queue and its worker, though other clients keep adding items and
\* its second loop looks at one worker after the other.
IdleMeansDone ==
  [][\A c \in Clients :
       cpc[c] \in {"drain", "quiet"} /\ cpc'[c] = "ready" /\ error = "none"
         => /\ \A i \in 1..Len(pending) : pending[i].id > req[c].upto
            /\ \A w \in Workers : item[w] # NoItem => item[w].id > req[c].upto]_vars

\* What the queue promises to its users: see WriteBehind.
Promise == INSTANCE WriteBehind WITH
  accepted <- lastId,
  latest <- [k \in Keys |-> IF FindPending(k) # 0 THEN FindPending(k) ELSE disk[k]]

KeepsPromise == Promise!Spec

\* When the destructor returns no worker has a target half written, whatever was left
\* in the queue.
DestructorFinishesWrites ==
  phase = "destroyed" /\ error = "none" => \A w \in Workers : item[w] = NoItem

\* The destructor returns (same documentation).
DestructorReturns == phase = "notify" ~> phase = "destroyed"

\* Every call returns: nobody stays on m_avail, also when a worker dies ("We may
\* need to notify the main thread that we experienced a critical error, otherwise it
\* could block permanently").
CallsReturn == \A c \in Clients : cpc[c] # "ready" ~> cpc[c] = "ready"

\* Every accepted item leaves the queue (written, replaced or cleared) unless a
\* worker died: no notification of m_next is lost.
ItemsLeave ==
  \A n \in 1..MaxItems :
    lastId >= n ~> error # "none" \/ ~\E k \in Keys, s \in Sizes : Held([key |-> k, size |-> s, id |-> n])
=============================================================================
