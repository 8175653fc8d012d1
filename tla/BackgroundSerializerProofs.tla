--------------------- MODULE BackgroundSerializerProofs ---------------------
(***************************************************************************)
(* Proofs about BackgroundSerializer.  The first part needs no assumption on *)
(* its clients: the types, the destructor, and the size that enqueue()      *)
(* compares with the capacity.                                              *)
(*                                                                          *)
(* The second part is about the order in which it writes.  A key is never   *)
(* written by two workers at the same time, as the comments of enqueue()    *)
(* demand, when one client uses the object, and changes the number of       *)
(* threads while the queue is idle.  BackgroundSerializer implements        *)
(* WriteBehind, for any number of keys, sizes, items and capacities: with   *)
(* one worker whoever calls it, and with several workers in the supposed    *)
(* use.                                                                     *)
(***************************************************************************)
EXTENDS BackgroundSerializer, FoldLemmas

-----------------------------------------------------------------------------
(* Type correctness.  It is not inductive by itself: serialize() reads the   *)
(* item of its worker, so a worker at work must be known to have one, and    *)
(* set_num_threads() must be known to leave at least one thread.             *)

AtWorkHasItem ==
  \A w \in Workers : wpc[w] \in {"serialize", "finish", "failed"} => item[w] # NoItem

ShrinkHasGoal == phase = "shrink" => shrink.to \in Workers /\ shrink.to < numThreads

TypeInv == TypeOK /\ AtWorkHasItem /\ ShrinkHasGoal

Requests == [key : Keys, size : Sizes, at : 0..MaxThreads, upto : Nat]

LEMMA NoRequestType == NoRequest \in Requests
BY ConstantsAssumption DEF NoRequest, Requests

LEMMA HeadTailType ==
  ASSUME NEW q \in Seq(Entries), q # <<>>
  PROVE  Head(q) \in Entries /\ Tail(q) \in Seq(Entries)
OBVIOUS

LEMMA FrontLastType ==
  ASSUME NEW q \in Seq(Entries), q # <<>>
  PROVE  Front(q) \in Seq(Entries) /\ Last(q) \in Entries
BY DEF Front, Last

LEMMA EntryFields ==
  ASSUME NEW e \in Entries
  PROVE  e.key \in Keys /\ e.size \in Int /\ e.id \in Nat /\ e # NoItem
<1>1. e # NoItem
  BY ConstantsAssumption
<1>2. e.key \in Keys /\ e.size \in Sizes /\ e.id \in Nat
  BY DEF Entries
<1>3. \A s \in Sizes : s \in Int
  BY ConstantsAssumption
<1> QED BY <1>1, <1>2, <1>3

LEMMA TypeInit == Init => TypeInv
<1> SUFFICES ASSUME Init PROVE TypeInv
  OBVIOUS
<1>1. pending \in Seq(Entries) /\ AtWorkHasItem /\ ShrinkHasGoal
  BY DEF Init, AtWorkHasItem, ShrinkHasGoal
<1>2. req \in [Clients -> Requests]
  BY NoRequestType DEF Init
<1>3. /\ numThreads \in Workers
      /\ wpc \in [Workers -> WorkerPlaces]
      /\ shrink \in [to : 0..MaxThreads, at : 0..MaxThreads]
      /\ called \in 0..MaxItems
  BY ConstantsAssumption DEF Init, Workers, WorkerPlaces
<1>4. /\ item \in [Workers -> Entries \cup {NoItem}]
      /\ interrupted \in [Workers -> BOOLEAN]
      /\ cpc \in [Clients -> ClientPlaces]
      /\ disk \in [Keys -> Nat]
      /\ blocked \subseteq Clients
  BY DEF Init, ClientPlaces
<1>5. /\ curUsage \in Int /\ maxCapacity \in Capacities /\ lastId \in Nat
  BY DEF Init
<1>6. /\ wantsExit \in BOOLEAN
      /\ error \in {"none", "stored", "reported"}
      /\ phase \in {"use", "shrink", "notify", "join", "destroyed"}
  BY DEF Init
<1> QED BY <1>1, <1>2, <1>3, <1>4, <1>5, <1>6 DEF TypeInv, TypeOK, Requests

\* A worker takes the head of the queue.
LEMMA TypeTake ==
  ASSUME TypeInv, NEW w \in Workers, Take(w)
  PROVE  /\ pending' \in Seq(Entries)
         /\ item' \in [Workers -> Entries \cup {NoItem}]
         /\ wpc' \in [Workers -> WorkerPlaces]
         /\ AtWorkHasItem'
<1>1. Head(pending) \in Entries /\ Tail(pending) \in Seq(Entries)
  BY HeadTailType DEF Take, TypeInv, TypeOK
<1>2. Head(pending) # NoItem
  BY <1>1, EntryFields
<1> QED BY <1>1, <1>2 DEF Take, Goto, TypeInv, TypeOK, WorkerPlaces, AtWorkHasItem

LEMMA TypeWorker ==
  ASSUME TypeInv, NEW w \in Workers, WorkerStep(w)
  PROVE  TypeInv'
<1> USE DEF TypeInv, TypeOK, ShrinkHasGoal, WorkerPlaces, queueVars, clientVars, ownerVars
<1>1. CASE Begin(w)       BY <1>1 DEF Begin, Goto, AtWorkHasItem
<1>2. CASE TestExit(w)    BY <1>2 DEF TestExit, Goto, AtWorkHasItem
<1>3. CASE LookForWork(w)
  <2>1. CASE Take(w) BY <1>3, <2>1, TypeTake DEF LookForWork
  <2>2. CASE ~Take(w) BY <1>3, <2>2 DEF LookForWork, Goto, AtWorkHasItem
  <2> QED BY <2>1, <2>2
<1>4. CASE WakeUp(w)
  <2>1. CASE Take(w) BY <1>4, <2>1, TypeTake DEF WakeUp
  <2>2. CASE ~Take(w) BY <1>4, <2>2 DEF WakeUp, Goto, AtWorkHasItem
  <2> QED BY <2>1, <2>2
<1>5. CASE Serialize(w)
  <2>1. item[w].key \in Keys /\ item[w].id \in Nat
    BY <1>5, EntryFields DEF Serialize, AtWorkHasItem
  <2> QED BY <1>5, <2>1 DEF Serialize, Goto, AtWorkHasItem
<1>6. CASE Finish(w)
  <2>1. curUsage' \in Int
    BY <1>6, EntryFields DEF Finish, AtWorkHasItem
  <2>2. CASE Take(w) BY <1>6, <2>1, <2>2, TypeTake DEF Finish
  <2>3. CASE ~Take(w) BY <1>6, <2>1, <2>3 DEF Finish, Goto, AtWorkHasItem
  <2> QED BY <2>2, <2>3
<1>7. CASE Fail(w)        BY <1>7 DEF Fail, Goto, AtWorkHasItem
<1> QED BY <1>1, <1>2, <1>3, <1>4, <1>5, <1>6, <1>7 DEF WorkerStep

-----------------------------------------------------------------------------
(* The steps of the clients.                                                *)

\* Waking sleepers changes no place in which a worker has an item.
LEMMA NotifyType ==
  ASSUME TypeInv, NotifyNext \/ wpc' = NotifyAllNext \/ UNCHANGED wpc, UNCHANGED item
  PROVE  wpc' \in [Workers -> WorkerPlaces] /\ AtWorkHasItem'
<1> USE DEF TypeInv, TypeOK, WorkerPlaces, AtWorkHasItem
<1>1. CASE NotifyNext
  <2>1. CASE wpc' = wpc BY <1>1, <2>1
  <2>2. CASE wpc' # wpc
    <3>1. PICK w \in Workers : wpc' = [wpc EXCEPT ![w] = "woken"]
      BY <1>1, <2>2 DEF NotifyNext
    <3> QED BY <3>1
  <2> QED BY <2>1, <2>2
<1>2. CASE wpc' = NotifyAllNext BY <1>2 DEF NotifyAllNext
<1>3. CASE UNCHANGED wpc BY <1>3
<1> QED BY <1>1, <1>2, <1>3

LEMMA ReturnType ==
  ASSUME TypeInv, NEW c \in Clients, Return(c)
  PROVE  /\ cpc' \in [Clients -> ClientPlaces]
         /\ req' \in [Clients -> Requests]
         /\ blocked' \subseteq Clients
BY NoRequestType DEF Return, TypeInv, TypeOK, ClientPlaces, Requests

LEMMA WaitType ==
  ASSUME TypeInv, NEW c \in Clients, NEW place \in ClientPlaces, NEW r \in Requests,
         WaitAvail(c, place, r)
  PROVE  /\ cpc' \in [Clients -> ClientPlaces]
         /\ req' \in [Clients -> Requests]
         /\ blocked' \subseteq Clients
BY DEF WaitAvail, TypeInv, TypeOK, Requests

LEMMA PushType ==
  ASSUME TypeInv, NEW k \in Keys, NEW s \in Sizes, Push(k, s)
  PROVE  pending' \in Seq(Entries) /\ curUsage' \in Int /\ lastId' \in Nat /\ NotifyNext
<1>1. s \in Int /\ lastId + 1 \in Nat
  BY ConstantsAssumption DEF TypeInv, TypeOK
<1>2. [key |-> k, size |-> s, id |-> lastId + 1] \in Entries
  BY <1>1 DEF Entries
<1> QED BY <1>1, <1>2 DEF Push, TypeInv, TypeOK

LEMMA ReplaceType ==
  ASSUME TypeInv, NEW k \in Keys, NEW s \in Sizes, Replace(k, s)
  PROVE  pending' \in Seq(Entries) /\ curUsage' \in Int /\ lastId' \in Nat /\ UNCHANGED wpc
<1>1. s \in Int /\ lastId + 1 \in Nat
  BY ConstantsAssumption DEF TypeInv, TypeOK
<1>2. [key |-> k, size |-> s, id |-> lastId + 1] \in Entries
  BY <1>1 DEF Entries
<1>3. PICK i \in 1..Len(pending) :
        /\ pending' = [pending EXCEPT ![i] = [key |-> k, size |-> s, id |-> lastId + 1]]
        /\ curUsage' = curUsage - pending[i].size + s
  BY DEF Replace, PendingAt
<1>4. pending[i].size \in Int
  BY EntryFields DEF TypeInv, TypeOK
<1>5. pending' \in Seq(Entries)
  BY <1>2, <1>3, ExceptSeq DEF TypeInv, TypeOK
<1>6. lastId' \in Nat /\ UNCHANGED wpc
  BY <1>1 DEF Replace
<1> QED BY <1>1, <1>3, <1>4, <1>5, <1>6 DEF TypeInv, TypeOK

\* What enqueue() and try_enqueue() may do to the queue and to the clients.
QueueType ==
  /\ pending' \in Seq(Entries) /\ curUsage' \in Int /\ lastId' \in Nat
  /\ NotifyNext \/ UNCHANGED wpc

ClientsType ==
  /\ cpc' \in [Clients -> ClientPlaces]
  /\ req' \in [Clients -> Requests]
  /\ blocked' \subseteq Clients

LEMMA AwaitRoomType ==
  ASSUME TypeInv, NEW c \in Clients, NEW k \in Keys, NEW s \in Sizes, AwaitRoom(c, k, s)
  PROVE  QueueType /\ ClientsType
<1>1. CASE Push(k, s) /\ Return(c)
  BY <1>1, PushType, ReturnType DEF QueueType, ClientsType
<1>2. CASE ~(Push(k, s) /\ Return(c))
  <2>1. [NoRequest EXCEPT !.key = k, !.size = s] \in Requests
    BY NoRequestType DEF Requests
  <2> DEFINE r == [NoRequest EXCEPT !.key = k, !.size = s]
  <2>2. WaitAvail(c, "room", r) /\ UNCHANGED <<pending, curUsage, lastId, wpc>>
    BY <1>2 DEF AwaitRoom
  <2> HIDE DEF r
  <2>3. ClientsType
    BY <2>1, <2>2, WaitType DEF ClientPlaces, ClientsType, r
  <2> QED BY <2>2, <2>3 DEF QueueType, TypeInv, TypeOK
<1> QED BY <1>1, <1>2

\* The steps of the two functions that add items share this frame.
LEMMA TypeFrame ==
  ASSUME TypeInv, QueueType, ClientsType,
         error' \in {"none", "stored", "reported"}, called' \in 0..MaxItems,
         UNCHANGED <<maxCapacity, item, interrupted, disk, ownerVars>>
  PROVE  TypeInv'
<1>1. wpc' \in [Workers -> WorkerPlaces] /\ AtWorkHasItem'
  BY NotifyType DEF QueueType
<1> QED BY <1>1 DEF TypeInv, TypeOK, ShrinkHasGoal, QueueType, ClientsType, Requests, ownerVars

\* A call that throws leaves the queue alone.
LEMMA ThrowType ==
  ASSUME TypeInv, NEW c \in Clients, CheckThrows(c)
  PROVE  ClientsType /\ error' \in {"none", "stored", "reported"}
BY ReturnType DEF CheckThrows, ClientsType

LEMMA UnchangedQueueType ==
  ASSUME TypeInv, UNCHANGED <<pending, curUsage, lastId, wpc>>
  PROVE  QueueType
BY DEF QueueType, TypeInv, TypeOK

LEMMA TypeEnqueue ==
  ASSUME TypeInv, NEW c \in Clients, NEW k \in Keys, NEW s \in Sizes, Enqueue(c, k, s)
  PROVE  TypeInv'
<1>1. called' \in 0..MaxItems
  <2>1. called' = called + 1 /\ called < MaxItems /\ called \in 0..MaxItems
    BY DEF Enqueue, TypeInv, TypeOK
  <2> QED BY <2>1, ConstantsAssumption
<1>2. UNCHANGED <<maxCapacity, item, interrupted, disk, ownerVars>>
  BY DEF Enqueue
<1>3. CASE CheckThrows(c) /\ UNCHANGED <<pending, curUsage, lastId, wpc>>
  BY <1>1, <1>2, <1>3, ThrowType, UnchangedQueueType, TypeFrame
<1>4. CASE CheckPasses /\ Replace(k, s) /\ Return(c)
  <2>1. QueueType /\ ClientsType
    BY <1>4, ReplaceType, ReturnType DEF QueueType, ClientsType
  <2>2. error' \in {"none", "stored", "reported"}
    BY <1>4 DEF CheckPasses
  <2> QED BY <1>1, <1>2, <2>1, <2>2, TypeFrame
<1>5. CASE /\ CheckPasses /\ UNCHANGED <<pending, curUsage, lastId, wpc>>
           /\ \E w \in 1..numThreads :
                WaitAvail(c, "key", [NoRequest EXCEPT !.key = k, !.size = s, !.at = w])
  <2>1. PICK w \in 1..numThreads :
          WaitAvail(c, "key", [NoRequest EXCEPT !.key = k, !.size = s, !.at = w])
    BY <1>5
  <2>2. w \in 0..MaxThreads
    BY ConstantsAssumption DEF TypeInv, TypeOK, Workers
  <2> DEFINE r == [NoRequest EXCEPT !.key = k, !.size = s, !.at = w]
  <2>3. r \in Requests
    BY <2>2, NoRequestType DEF Requests
  <2>4. WaitAvail(c, "key", r)
    BY <2>1
  <2> HIDE DEF r
  <2>5. ClientsType
    BY <2>3, <2>4, WaitType DEF ClientPlaces, ClientsType
  <2>6. error' \in {"none", "stored", "reported"}
    BY <1>5 DEF CheckPasses
  <2>7. QueueType
    BY <1>5, UnchangedQueueType
  <2> QED BY <1>1, <1>2, <2>5, <2>6, <2>7, TypeFrame
<1>6. CASE CheckPasses /\ AwaitRoom(c, k, s)
  <2>1. error' \in {"none", "stored", "reported"}
    BY <1>6 DEF CheckPasses
  <2> QED BY <1>1, <1>2, <1>6, <2>1, AwaitRoomType, TypeFrame
<1> QED BY <1>3, <1>4, <1>5, <1>6 DEF Enqueue

LEMMA TypeResumeEnqueue ==
  ASSUME TypeInv, NEW c \in Clients, ResumeKey(c) \/ ResumeRoom(c)
  PROVE  TypeInv'
<1>1. called' \in 0..MaxItems /\ UNCHANGED <<maxCapacity, item, interrupted, disk, ownerVars>>
  BY DEF ResumeKey, ResumeRoom, TypeInv, TypeOK
<1>2. req[c] \in Requests
  BY DEF TypeInv, TypeOK, Requests
<1>3. req[c].key \in Keys /\ req[c].size \in Sizes
  BY <1>2 DEF Requests
<1>4. CASE CheckThrows(c) /\ UNCHANGED <<pending, curUsage, lastId, wpc>>
  BY <1>1, <1>4, ThrowType, UnchangedQueueType, TypeFrame
<1>5. CASE /\ CheckPasses /\ WaitAvail(c, "key", req[c])
           /\ UNCHANGED <<pending, curUsage, lastId, wpc>>
  <2>1. ClientsType
    BY <1>2, <1>5, WaitType DEF ClientPlaces, ClientsType
  <2>2. error' \in {"none", "stored", "reported"}
    BY <1>5 DEF CheckPasses
  <2> QED BY <1>1, <1>5, <2>1, <2>2, UnchangedQueueType, TypeFrame
<1>6. CASE CheckPasses /\ AwaitRoom(c, req[c].key, req[c].size)
  <2>1. error' \in {"none", "stored", "reported"}
    BY <1>6 DEF CheckPasses
  <2> QED BY <1>1, <1>3, <1>6, <2>1, AwaitRoomType, TypeFrame
<1> QED BY <1>4, <1>5, <1>6 DEF ResumeKey, ResumeRoom

LEMMA TypeTryEnqueue ==
  ASSUME TypeInv, NEW c \in Clients, NEW k \in Keys, NEW s \in Sizes, TryEnqueue(c, k, s)
  PROVE  TypeInv'
<1>1. called' \in 0..MaxItems
  BY ConstantsAssumption DEF TryEnqueue, TypeInv, TypeOK
<1>2. UNCHANGED <<maxCapacity, item, interrupted, disk, ownerVars>>
  BY DEF TryEnqueue
<1>3. ClientsType
  BY ReturnType DEF TryEnqueue, ClientsType
<1>4. QueueType
  BY PushType, ReplaceType, UnchangedQueueType DEF TryEnqueue, QueueType
<1>5. error' \in {"none", "stored", "reported"}
  BY DEF TryEnqueue, CheckThrows, CheckPasses
<1> QED BY <1>1, <1>2, <1>3, <1>4, <1>5, TypeFrame

\* The steps that leave the queue and the workers alone.
LEMMA TypeCallFrame ==
  ASSUME TypeInv, ClientsType, error' \in {"none", "stored", "reported"},
         maxCapacity' \in Capacities,
         UNCHANGED <<pending, curUsage, called, lastId, workerVars, ownerVars>>
  PROVE  TypeInv'
BY DEF TypeInv, TypeOK, ShrinkHasGoal, ClientsType, Requests, workerVars, ownerVars, AtWorkHasItem

LEMMA TypeSetCapacity ==
  ASSUME TypeInv, NEW c \in Clients,
         ResumeCapacity(c) \/ \E n \in Capacities, b \in BOOLEAN : SetCapacity(c, n, b)
  PROVE  TypeInv'
<1>1. /\ maxCapacity' \in Capacities
      /\ UNCHANGED <<pending, curUsage, called, lastId, workerVars, ownerVars>>
  BY DEF SetCapacity, ResumeCapacity, TypeInv, TypeOK, queueVars
<1>2. \A n : AwaitUsage(c, n) => ClientsType
  BY ReturnType, WaitType, NoRequestType DEF AwaitUsage, ClientsType, ClientPlaces
<1>3. ClientsType /\ error' \in {"none", "stored", "reported"}
  BY <1>2, ThrowType, ReturnType
     DEF SetCapacity, ResumeCapacity, CheckPasses, ClientsType, TypeInv, TypeOK
<1> QED BY <1>1, <1>3, TypeCallFrame

LEMMA AwaitQuietType ==
  ASSUME TypeInv, NEW c \in Clients, NEW from \in 0..MaxThreads, NEW upto \in Nat,
         AwaitQuiet(c, from, upto)
  PROVE  ClientsType
<1>1. CASE Return(c) BY <1>1, ReturnType DEF ClientsType
<1>2. CASE \E w \in from..numThreads :
             WaitAvail(c, "quiet", [NoRequest EXCEPT !.at = w, !.upto = upto])
  <2>1. PICK w \in from..numThreads :
          WaitAvail(c, "quiet", [NoRequest EXCEPT !.at = w, !.upto = upto])
    BY <1>2
  <2>2. w \in 0..MaxThreads
    BY ConstantsAssumption DEF TypeInv, TypeOK, Workers
  <2> DEFINE r == [NoRequest EXCEPT !.at = w, !.upto = upto]
  <2>3. r \in Requests
    BY <2>2, NoRequestType DEF Requests
  <2>4. WaitAvail(c, "quiet", r)
    BY <2>1
  <2> HIDE DEF r
  <2> QED BY <2>3, <2>4, WaitType DEF ClientPlaces, ClientsType
<1> QED BY <1>1, <1>2 DEF AwaitQuiet

LEMMA AwaitDrainType ==
  ASSUME TypeInv, NEW c \in Clients, NEW upto \in Nat, AwaitDrain(c, upto)
  PROVE  ClientsType
<1>1. CASE AwaitQuiet(c, 1, upto)
  <2>1. 1 \in 0..MaxThreads
    BY ConstantsAssumption
  <2> QED BY <1>1, <2>1, AwaitQuietType
<1>2. CASE WaitAvail(c, "drain", [NoRequest EXCEPT !.upto = upto])
  <2> DEFINE r == [NoRequest EXCEPT !.upto = upto]
  <2>1. r \in Requests
    BY NoRequestType DEF Requests
  <2>2. WaitAvail(c, "drain", r)
    BY <1>2
  <2> HIDE DEF r
  <2> QED BY <2>1, <2>2, WaitType DEF ClientPlaces, ClientsType
<1> QED BY <1>1, <1>2 DEF AwaitDrain

LEMMA TypeIdle ==
  ASSUME TypeInv, NEW c \in Clients, WaitForIdle(c) \/ ResumeIdle(c)
  PROVE  TypeInv'
<1>1. UNCHANGED <<queueVars, workerVars, ownerVars>>
  BY DEF WaitForIdle, ResumeIdle
<1>2. lastId \in Nat /\ req[c].upto \in Nat /\ req[c].at \in 0..MaxThreads
  BY DEF TypeInv, TypeOK
<1>3. ClientsType /\ error' \in {"none", "stored", "reported"}
  <2>1. CASE CheckThrows(c) BY <2>1, ThrowType
  <2>2. CASE CheckPasses
    <3>1. error' \in {"none", "stored", "reported"} BY <2>2 DEF CheckPasses
    <3>2. \/ AwaitDrain(c, lastId) \/ AwaitDrain(c, req[c].upto)
          \/ AwaitQuiet(c, req[c].at, req[c].upto)
      BY <2>2 DEF WaitForIdle, ResumeIdle, CheckThrows, CheckPasses
    <3> QED BY <1>2, <3>1, <3>2, AwaitDrainType, AwaitQuietType
  <2> QED BY <2>1, <2>2 DEF WaitForIdle, ResumeIdle
<1> QED BY <1>1, <1>3, TypeCallFrame DEF queueVars, TypeInv, TypeOK

LEMMA TypeClear ==
  ASSUME TypeInv, NEW c \in Clients, Clear(c) \/ ClearLoop(c)
  PROVE  TypeInv'
<1>1. CASE Clear(c)
  BY <1>1 DEF Clear, TypeInv, TypeOK, ClientPlaces, queueVars, workerVars, ownerVars,
              AtWorkHasItem, ShrinkHasGoal
<1>2. CASE ClearLoop(c) /\ pending # <<>>
  <2>0. pending \in Seq(Entries) /\ pending # <<>>
    BY <1>2 DEF TypeInv, TypeOK
  <2>1. Front(pending) \in Seq(Entries) /\ Last(pending).size \in Int
    BY SMTT(20), <2>0, FrontLastType, EntryFields
  <2> QED BY <1>2, <2>1
      DEF ClearLoop, TypeInv, TypeOK, workerVars, ownerVars, clientVars, AtWorkHasItem,
          ShrinkHasGoal
<1>3. CASE ClearLoop(c) /\ pending = <<>>
  BY <1>3, ReturnType
     DEF ClearLoop, TypeInv, TypeOK, Requests, workerVars, ownerVars, AtWorkHasItem,
         ShrinkHasGoal
<1> QED BY <1>1, <1>2, <1>3

LEMMA TypeClient ==
  ASSUME TypeInv, NEW c \in Clients, ClientCall(c) \/ ClientContinues(c)
  PROVE  TypeInv'
BY TypeEnqueue, TypeResumeEnqueue, TypeTryEnqueue, TypeSetCapacity, TypeIdle, TypeClear
   DEF ClientCall, ClientContinues

-----------------------------------------------------------------------------
(* The steps of the owner.                                                  *)

LEMMA InterruptType ==
  ASSUME TypeInv, NEW w \in Workers, Interrupt(w)
  PROVE  interrupted' \in [Workers -> BOOLEAN] /\ (wpc' = NotifyAllNext \/ UNCHANGED wpc)
BY DEF Interrupt, TypeInv, TypeOK

LEMMA TypeOwner ==
  ASSUME TypeInv, OwnerCall \/ OwnerContinues
  PROVE  TypeInv'
<1> USE DEF queueVars, clientVars, workerVars, ShrinkHasGoal
<1>1. ASSUME NEW n \in Workers, GrowThreads(n) PROVE TypeInv'
  <2>1. wpc' \in [Workers -> WorkerPlaces] /\ AtWorkHasItem'
    BY <1>1 DEF GrowThreads, TypeInv, TypeOK, WorkerPlaces, AtWorkHasItem
  <2> QED BY <1>1, <2>1 DEF GrowThreads, TypeInv, TypeOK
<1>2. ASSUME NEW n \in Workers, ShrinkThreads(n) PROVE TypeInv'
  <2>1. n + 1 \in Workers /\ n \in 0..MaxThreads
    BY <1>2, ConstantsAssumption DEF ShrinkThreads, TypeInv, TypeOK, Workers
  <2>2. shrink' \in [to : 0..MaxThreads, at : 0..MaxThreads]
    BY <1>2, <2>1 DEF ShrinkThreads, Workers
  <2>3. /\ interrupted' \in [Workers -> BOOLEAN]
        /\ wpc' \in [Workers -> WorkerPlaces] /\ AtWorkHasItem'
    BY <1>2, <2>1, InterruptType, NotifyType DEF ShrinkThreads
  <2> QED BY <1>2, <2>2, <2>3 DEF ShrinkThreads, TypeInv, TypeOK
<1>3. CASE ShrinkJoin /\ shrink.at < numThreads
  <2>1. shrink.at \in 0..MaxThreads /\ numThreads \in Workers
    BY DEF TypeInv, TypeOK
  <2>2. shrink.at # numThreads /\ shrink.at + 1 \in Workers
    BY <1>3, <2>1, ConstantsAssumption DEF Workers
  <2>3. /\ Interrupt(shrink.at + 1) /\ UNCHANGED <<item, numThreads, phase>>
        /\ shrink' = [shrink EXCEPT !.at = shrink.at + 1]
    BY <1>3, <2>2 DEF ShrinkJoin
  <2>4. shrink' \in [to : 0..MaxThreads, at : 0..MaxThreads] /\ shrink'.to = shrink.to
    BY <2>2, <2>3 DEF TypeInv, TypeOK, Workers
  <2>5. /\ interrupted' \in [Workers -> BOOLEAN]
        /\ wpc' \in [Workers -> WorkerPlaces] /\ AtWorkHasItem'
    BY <2>2, <2>3, InterruptType, NotifyType
  <2> QED BY <1>3, <2>3, <2>4, <2>5 DEF ShrinkJoin, TypeInv, TypeOK
<1>4. CASE ShrinkJoin /\ ~(shrink.at < numThreads)
  <2>1. /\ numThreads' = shrink.to /\ phase' = "use" /\ UNCHANGED shrink
        /\ item' = [w \in Workers |-> IF w > shrink.to THEN NoItem ELSE item[w]]
        /\ wpc' = [w \in Workers |-> IF w > shrink.to THEN "off" ELSE wpc[w]]
        /\ interrupted' = [w \in Workers |-> FALSE]
    BY <1>4 DEF ShrinkJoin
  <2>2. shrink.to \in Workers
    BY <1>4 DEF ShrinkJoin, TypeInv
  <2>3. /\ wpc' \in [Workers -> WorkerPlaces] /\ AtWorkHasItem'
        /\ item' \in [Workers -> Entries \cup {NoItem}]
    BY <2>1 DEF TypeInv, TypeOK, WorkerPlaces, AtWorkHasItem
  <2>4. interrupted' \in [Workers -> BOOLEAN]
    BY <2>1
  <2> QED BY <1>4, <2>1, <2>2, <2>3, <2>4 DEF ShrinkJoin, TypeInv, TypeOK
<1>5. CASE Destroy BY <1>5 DEF Destroy, TypeInv, TypeOK, AtWorkHasItem
<1>6. CASE DestroyNotify
  BY <1>6, NotifyType DEF DestroyNotify, TypeInv, TypeOK
<1>7. CASE DestroyJoin BY <1>7 DEF DestroyJoin, TypeInv, TypeOK, AtWorkHasItem
<1> QED BY <1>1, <1>2, <1>3, <1>4, <1>5, <1>6, <1>7 DEF OwnerCall, OwnerContinues

LEMMA TypeSpurious ==
  ASSUME TypeInv, SpuriousWakeUp
  PROVE  TypeInv'
BY DEF SpuriousWakeUp, Goto, TypeInv, TypeOK, AtWorkHasItem, WorkerPlaces,
       queueVars, ownerVars, ShrinkHasGoal

LEMMA TypeStutter ==
  ASSUME TypeInv, UNCHANGED vars
  PROVE  TypeInv'
BY DEF TypeInv, TypeOK, AtWorkHasItem, ShrinkHasGoal, vars, queueVars, workerVars, clientVars, ownerVars

\* Every variable keeps its type, in every execution with any number of clients,
\* threads, keys and sizes.
THEOREM TypeCorrect == Spec => []TypeOK
<1>1. TypeInv /\ [Next]_vars => TypeInv'
  BY TypeWorker, TypeClient, TypeOwner, TypeSpurious, TypeStutter DEF Next, Rest
<1>2. TypeInv => TypeOK
  BY DEF TypeInv
<1> QED BY <1>1, <1>2, TypeInit, PTL DEF Spec
-----------------------------------------------------------------------------
(* Where the items are, however the object is used.                         *)

\* A worker that waits has no item, and one that ended has an item only after an error.
AtRest ==
  /\ \A w \in Workers :
       wpc[w] \in {"off", "start", "test", "loop", "asleep", "woken"} => item[w] = NoItem
  /\ \A w \in Workers : w > numThreads => wpc[w] = "off"
  /\ \A w \in Workers : wpc[w] = "ended" /\ item[w] # NoItem => error # "none"
  /\ phase = "destroyed" => \A w \in Workers : wpc[w] \in {"off", "ended"}

LEMMA RestWorker ==
  ASSUME TypeInv, AtRest, NEW w \in Workers, WorkerStep(w) PROVE AtRest'
<1> USE DEF AtRest, Goto, ownerVars
<1>1. /\ item \in [Workers -> Entries \cup {NoItem}] /\ wpc \in [Workers -> WorkerPlaces]
      /\ \A v \in Workers : wpc[v] \in {"serialize", "finish", "failed"} => item[v] # NoItem
  BY DEF TypeInv, TypeOK, AtWorkHasItem
<1>2. CASE Take(w) /\ UNCHANGED <<error, numThreads, phase>> /\ wpc[w] \notin {"off", "ended"}
  BY <1>1, <1>2 DEF Take
<1>3. CASE Begin(w) BY <1>1, <1>3 DEF Begin
<1>4. CASE TestExit(w) BY <1>1, <1>4 DEF TestExit
<1>5. CASE LookForWork(w) BY <1>1, <1>2, <1>5 DEF LookForWork
<1>6. CASE WakeUp(w) BY <1>1, <1>2, <1>6 DEF WakeUp
<1>7. CASE Serialize(w) BY <1>1, <1>7 DEF Serialize
<1>8. CASE Finish(w) BY <1>1, <1>2, <1>8 DEF Finish
<1>9. CASE Fail(w) BY <1>1, <1>9 DEF Fail
<1> QED BY <1>3, <1>4, <1>5, <1>6, <1>7, <1>8, <1>9 DEF WorkerStep

\* Waking sleepers changes nothing.
LEMMA RestNotify ==
  ASSUME TypeInv, AtRest, UNCHANGED <<item, numThreads, phase>>, error # "none" => error' # "none",
         NotifyNext \/ wpc' = NotifyAllNext \/ UNCHANGED wpc
  PROVE  AtRest'
<1>1. wpc \in [Workers -> WorkerPlaces]
  BY DEF TypeInv, TypeOK
<1>2. \A w \in Workers : wpc'[w] = wpc[w] \/ (wpc[w] = "asleep" /\ wpc'[w] = "woken")
  BY <1>1 DEF NotifyNext, NotifyAllNext
<1> QED BY <1>1, <1>2 DEF AtRest

LEMMA RestClient ==
  ASSUME TypeInv, AtRest, NEW c \in Clients, ClientCall(c) \/ ClientContinues(c) PROVE AtRest'
<1>1. UNCHANGED <<item, numThreads, phase>> /\ (NotifyNext \/ UNCHANGED wpc) /\ (error # "none" => error' # "none")
  BY DEF ClientCall, ClientContinues, Enqueue, TryEnqueue, ResumeKey, ResumeRoom, AwaitRoom,
         Push, Replace, SetCapacity, ResumeCapacity, WaitForIdle, ResumeIdle, Clear, ClearLoop,
         workerVars, ownerVars, CheckThrows, CheckPasses
<1> QED BY <1>1, RestNotify

LEMMA RestOwner ==
  ASSUME TypeInv, AtRest, OwnerCall \/ OwnerContinues PROVE AtRest'
<1> USE DEF workerVars
<1>1. wpc \in [Workers -> WorkerPlaces] /\ numThreads \in Workers /\ Workers \subseteq Int
  BY DEF TypeInv, TypeOK, Workers
<1>2. ASSUME NEW w \in Workers, Interrupt(w) PROVE wpc' = NotifyAllNext \/ UNCHANGED wpc
  BY <1>2 DEF Interrupt
<1>3. ASSUME NEW n \in Workers, GrowThreads(n) PROVE AtRest'
  <2>1. \A w \in Workers : wpc'[w] = IF w \in (numThreads + 1)..n THEN "start" ELSE wpc[w]
    BY <1>3 DEF GrowThreads
  <2>2. \A w \in Workers : w \in (numThreads + 1)..n => wpc[w] = "off"
    BY <1>1 DEF AtRest
  <2>3. UNCHANGED <<item, phase, error>> /\ phase = "use" /\ numThreads < n /\ numThreads' = n
    BY <1>3 DEF GrowThreads
  <2> QED BY <1>1, <2>1, <2>2, <2>3 DEF AtRest
<1>4. CASE /\ wpc' = NotifyAllNext \/ UNCHANGED wpc
           /\ UNCHANGED <<item, numThreads, error>> /\ phase' # "destroyed"
  <2>1. \A w \in Workers : wpc'[w] = wpc[w] \/ (wpc[w] = "asleep" /\ wpc'[w] = "woken")
    BY <1>1, <1>4 DEF NotifyAllNext
  <2> QED BY <1>1, <1>4, <2>1 DEF AtRest
<1>5. ASSUME NEW n \in Workers, ShrinkThreads(n) PROVE AtRest'
  <2>1. n + 1 \in Workers BY <1>1, <1>5, ConstantsAssumption DEF ShrinkThreads, Workers
  <2> QED BY <1>2, <1>4, <1>5, <2>1 DEF ShrinkThreads
<1>6. CASE ShrinkJoin
  <2>1. CASE shrink.at < numThreads /\ Interrupt(shrink.at + 1) /\ UNCHANGED <<item, numThreads, phase>>
    BY <1>4, <1>6, <2>1 DEF ShrinkJoin, Interrupt
  <2>2. CASE /\ numThreads' = shrink.to /\ phase' = "use"
             /\ item' = [w \in Workers |-> IF w > shrink.to THEN NoItem ELSE item[w]]
             /\ wpc' = [w \in Workers |-> IF w > shrink.to THEN "off" ELSE wpc[w]]
    <3>1. shrink.to \in Int /\ error' = error
      BY <1>1, <1>6 DEF ShrinkJoin, TypeInv, ShrinkHasGoal
    <3> QED BY <1>1, <2>2, <3>1 DEF AtRest
  <2> QED BY <1>6, <2>1, <2>2 DEF ShrinkJoin
<1>7. CASE Destroy BY <1>1, <1>7 DEF Destroy, AtRest
<1>8. CASE DestroyNotify BY <1>4, <1>8 DEF DestroyNotify
<1>9. CASE DestroyJoin BY <1>1, <1>9 DEF DestroyJoin, AtRest, Workers
<1> QED BY <1>3, <1>5, <1>6, <1>7, <1>8, <1>9 DEF OwnerCall, OwnerContinues

LEMMA RestStep == TypeInv /\ AtRest /\ [Next]_vars => AtRest'
<1> SUFFICES ASSUME TypeInv, AtRest, [Next]_vars PROVE AtRest'
  OBVIOUS
<1>1. CASE SpuriousWakeUp
  BY <1>1 DEF SpuriousWakeUp, Goto, AtRest, TypeInv, TypeOK, ownerVars
<1>2. CASE UNCHANGED vars
  BY <1>2 DEF AtRest, vars, workerVars, ownerVars
<1> QED BY <1>1, <1>2, RestWorker, RestClient, RestOwner DEF Next, Rest

LEMMA TypeStep == TypeInv /\ [Next]_vars => TypeInv'
  BY TypeWorker, TypeClient, TypeOwner, TypeSpurious, TypeStutter DEF Next, Rest

LEMMA RestAlways == Spec => [](TypeInv /\ AtRest)
<1>1. Init => AtRest
  BY ConstantsAssumption DEF Init, AtRest, Workers
<1> QED BY <1>1, TypeInit, TypeStep, RestStep, PTL DEF Spec

\* The destructor leaves no item with a worker unless a worker has died, whoever used the
\* object and however the number of threads was changed.
THEOREM DestructorFinishes == Spec => []DestructorFinishesWrites
<1>1. TypeInv /\ AtRest => DestructorFinishesWrites
  BY DEF AtRest, DestructorFinishesWrites
<1> QED BY <1>1, RestAlways, PTL

-----------------------------------------------------------------------------
(* The threads of set_num_threads() have nothing left to do.                 *)

\* set_num_threads() is called on an idle queue, or never: a thread that it ends would take its
\* item along.
ResizesIdle == IdleResize \/ MaxThreads = 1

ShrinksIdle == phase = "shrink" => Idle /\ \A c \in Clients : cpc[c] = "ready"

LEMMA ShrinkStep ==
  ASSUME ResizesIdle, TypeInv, ShrinksIdle, [Next]_vars
  PROVE  ShrinksIdle'
<1> USE DEF ShrinksIdle, Idle
<1>1. item \in [Workers -> Entries \cup {NoItem}] /\ numThreads \in Workers
  BY DEF TypeInv, TypeOK
<1>2. ASSUME NEW w \in Workers, WorkerStep(w) PROVE ShrinksIdle'
  <2>1. phase' = phase
    BY <1>2 DEF WorkerStep, Begin, TestExit, LookForWork, WakeUp, Serialize, Finish, Fail, ownerVars
  <2>2. pending = <<>> =>
          pending' = pending /\ (item' = item \/ item' = [item EXCEPT ![w] = NoItem])
    BY <1>2 DEF WorkerStep, Begin, TestExit, LookForWork, WakeUp, Serialize, Finish, Fail, Take, queueVars
  <2>3. ASSUME phase = "shrink"
        PROVE  pending' = <<>> /\ (\A v \in Workers : item'[v] = NoItem) /\ cpc' = cpc
    <3>1. cpc' = cpc
      BY <1>2 DEF WorkerStep, Begin, TestExit, LookForWork, WakeUp, Serialize, Finish, Fail, clientVars
    <3> QED BY <1>1, <2>2, <2>3, <3>1
  <2> QED BY <2>1, <2>3
<1>3. ASSUME NEW c \in Clients, ClientCall(c) \/ ClientContinues(c) PROVE ShrinksIdle'
  <2>1. phase' = phase
    BY <1>3 DEF ClientCall, ClientContinues, Enqueue, TryEnqueue, ResumeKey, ResumeRoom, SetCapacity,
                ResumeCapacity, WaitForIdle, ResumeIdle, Clear, ClearLoop, ownerVars
  <2>2. phase = "use" \/ cpc[c] # "ready"
    BY <1>3 DEF ClientCall, ClientContinues, Enqueue, TryEnqueue, ResumeKey, ResumeRoom, SetCapacity,
                ResumeCapacity, WaitForIdle, ResumeIdle, Clear, ClearLoop, Arrives, Resumes
  <2> QED BY <2>1, <2>2
<1>4. ASSUME NEW n \in Workers, ShrinkThreads(n) PROVE ShrinksIdle'
  <2>1. n < numThreads /\ UNCHANGED <<pending, item, cpc>> /\ (IdleResize => Idle)
        /\ \A c \in Clients : cpc[c] = "ready"
    BY <1>4 DEF ShrinkThreads, queueVars, clientVars
  <2>2. MaxThreads # 1
    BY <1>1, <2>1 DEF Workers
  <2> QED BY <2>1, <2>2 DEF ResizesIdle
<1>5. CASE ShrinkJoin
  BY <1>5 DEF ShrinkJoin, queueVars, clientVars
<1>6. ASSUME NEW n \in Workers, GrowThreads(n) PROVE ShrinksIdle'
  BY <1>6 DEF GrowThreads
<1>7. CASE Destroy \/ DestroyNotify \/ DestroyJoin
  BY <1>7 DEF Destroy, DestroyNotify, DestroyJoin
<1>8. CASE SpuriousWakeUp
  BY <1>8 DEF SpuriousWakeUp, queueVars, ownerVars
<1>9. CASE UNCHANGED vars
  BY <1>9 DEF vars, queueVars, workerVars, clientVars, ownerVars
<1> QED BY <1>2, <1>3, <1>4, <1>5, <1>6, <1>7, <1>8, <1>9
        DEF Next, Rest, OwnerCall, OwnerContinues

-----------------------------------------------------------------------------
(* The size of the items in the queue, and of those the workers have.        *)

SizesOf(q)   == [i \in 1..Len(q) |-> q[i].size]
QueueSize(q) == SumOn(SizesOf(q), 1..Len(q))

SizeHeld(e)  == IF e = NoItem THEN 0 ELSE e.size
HeldBy(it)   == [w \in Workers |-> SizeHeld(it[w])]
HeldSize(it) == SumOn(HeldBy(it), Workers)

LEMMA EntrySize == ASSUME NEW e \in Entries PROVE e.size \in Nat /\ e # NoItem
<1>1. e.size \in Sizes
  BY DEF Entries
<1> QED BY <1>1, ConstantsAssumption

LEMMA SizesType ==
  ASSUME NEW q \in Seq(Entries)
  PROVE  /\ Len(q) \in Nat /\ QueueSize(q) \in Nat
         /\ \A i \in 1..Len(q) : SizesOf(q)[i] = q[i].size /\ SizesOf(q)[i] \in Nat
<1>1. \A i \in 1..Len(q) : SizesOf(q)[i] = q[i].size /\ SizesOf(q)[i] \in Nat
  BY EntrySize DEF SizesOf
<1>2. Len(q) \in Nat /\ IsFiniteSet(1..Len(q))
  BY FS_Interval
<1> QED BY <1>1, <1>2, SumOnNat DEF QueueSize

LEMMA SizeAppend ==
  ASSUME NEW q \in Seq(Entries), NEW e \in Entries
  PROVE  QueueSize(Append(q, e)) = QueueSize(q) + e.size
<1>0. PICK n \in Nat : n = Len(q)
  OBVIOUS
<1>1. PICK r : r = Append(q, e)
  OBVIOUS
<1>2. r \in Seq(Entries) /\ Len(r) = n + 1 /\ r[n + 1] = e /\ \A i \in 1..n : r[i] = q[i]
  BY <1>0, <1>1
<1>3. \A i \in 1..(n + 1) : SizesOf(r)[i] \in Int
  BY <1>2, SizesType
<1>4. SumOn(SizesOf(r), 1..(n + 1)) = SumOn(SizesOf(r), 1..n) + SizesOf(r)[n + 1]
  BY <1>3, SumOnInterval
<1>5. SizesOf(r)[n + 1] = e.size
  BY <1>2 DEF SizesOf
<1>6. \A i \in 1..n : SizesOf(r)[i] = SizesOf(q)[i]
  BY <1>0, <1>2 DEF SizesOf
<1>7. SumOn(SizesOf(r), 1..n) = SumOn(SizesOf(q), 1..n)
  <2>1. IsFiniteSet(1..n)
    BY FS_Interval
  <2>2. PICK g, h : g = SizesOf(r) /\ h = SizesOf(q)
    OBVIOUS
  <2>3. \A i \in 1..n : g[i] = h[i]
    BY <1>6, <2>2
  <2> QED BY <2>1, <2>2, <2>3, SumOnSame
<1> QED BY <1>0, <1>1, <1>2, <1>4, <1>5, <1>7 DEF QueueSize

LEMMA SizeTail ==
  ASSUME NEW q \in Seq(Entries), q # <<>>
  PROVE  QueueSize(q) = Head(q).size + QueueSize(Tail(q))
<1>0. PICK n \in Nat : n + 1 = Len(q)
  BY Len(q) - 1 \in Nat
<1>1. PICK r : r = Tail(q)
  OBVIOUS
<1>2. r \in Seq(Entries) /\ Len(r) = n /\ Head(q) = q[1] /\ \A i \in 1..n : r[i] = q[i + 1]
  BY <1>0, <1>1
<1>3. \A i \in 1..(n + 1) : SizesOf(q)[i] \in Int
  BY <1>0, SizesType
<1>4. \A i \in 1..n : SizesOf(r)[i] = SizesOf(q)[i + 1]
  BY <1>0, <1>2 DEF SizesOf
<1>5. SumOn(SizesOf(q), 1..(n + 1)) = SizesOf(q)[1] + SumOn(SizesOf(r), 1..n)
  BY <1>3, <1>4, SumOnTail
<1>6. SizesOf(q)[1] = Head(q).size
  BY <1>0, <1>2 DEF SizesOf
<1> QED BY <1>0, <1>1, <1>2, <1>5, <1>6 DEF QueueSize

LEMMA SizeFront ==
  ASSUME NEW q \in Seq(Entries), q # <<>>
  PROVE  QueueSize(q) = QueueSize(Front(q)) + Last(q).size
<1>0. PICK n \in Nat : n + 1 = Len(q)
  BY Len(q) - 1 \in Nat
<1>1. PICK r : r = Front(q)
  OBVIOUS
<1>2. r \in Seq(Entries) /\ Len(r) = n /\ Last(q) = q[n + 1] /\ \A i \in 1..n : r[i] = q[i]
  BY <1>0, <1>1 DEF Front, Last
<1>3. q = Append(r, q[n + 1]) /\ q[n + 1] \in Entries
  BY <1>0, <1>2
<1> QED BY <1>1, <1>2, <1>3, SizeAppend

LEMMA FrontLen == ASSUME NEW q \in Seq(Entries), q # <<>> PROVE Len(Front(q)) = Len(q) - 1
<1>0. PICK n \in Nat : n + 1 = Len(q)
  BY Len(q) - 1 \in Nat
<1>1. Len(Front(q)) = n
  BY <1>0 DEF Front
<1> QED BY <1>0, <1>1

LEMMA SizeChange ==
  ASSUME NEW q \in Seq(Entries), NEW i \in 1..Len(q), NEW e \in Entries
  PROVE  QueueSize([q EXCEPT ![i] = e]) = QueueSize(q) - q[i].size + e.size
<1>0. PICK n \in Nat : n = Len(q)
  OBVIOUS
<1>1. PICK r : r = [q EXCEPT ![i] = e]
  OBVIOUS
<1>2. r \in Seq(Entries) /\ Len(r) = n /\ r[i] = e /\ \A j \in (1..n) \ {i} : r[j] = q[j]
  BY <1>0, <1>1
<1>3. \A j \in 1..n : SizesOf(q)[j] \in Int /\ SizesOf(r)[j] \in Int
  BY <1>0, <1>2, SizesType
<1>4. \A j \in (1..n) \ {i} : SizesOf(r)[j] = SizesOf(q)[j]
  BY <1>0, <1>2 DEF SizesOf
<1>5. IsFiniteSet(1..n) /\ i \in 1..n
  BY <1>0, FS_Interval
<1>6. SumOn(SizesOf(r), 1..n) = SumOn(SizesOf(q), 1..n) - SizesOf(q)[i] + SizesOf(r)[i]
  <2>1. PICK S, p, g, h : S = 1..n /\ p = i /\ g = SizesOf(q) /\ h = SizesOf(r)
    OBVIOUS
  <2>2. IsFiniteSet(S) /\ p \in S
    BY <1>5, <2>1
  <2>3. \A j \in S : g[j] \in Int /\ h[j] \in Int
    BY <1>3, <2>1
  <2>4. \A j \in S \ {p} : h[j] = g[j]
    BY <1>4, <2>1
  <2>5. SumOn(h, S) = SumOn(g, S) - g[p] + h[p]
    BY <2>2, <2>3, <2>4, SumOnChange
  <2> QED BY <2>1, <2>5
<1>7. SizesOf(q)[i] = q[i].size /\ SizesOf(r)[i] = e.size
  BY <1>0, <1>2 DEF SizesOf
<1> QED BY <1>0, <1>1, <1>2, <1>6, <1>7 DEF QueueSize

Items == Entries \cup {NoItem}

LEMMA HeldType ==
  ASSUME NEW it \in [Workers -> Items]
  PROVE  /\ IsFiniteSet(Workers) /\ HeldSize(it) \in Nat
         /\ \A w \in Workers : HeldBy(it)[w] = SizeHeld(it[w]) /\ HeldBy(it)[w] \in Nat
<1>1. \A w \in Workers : HeldBy(it)[w] = SizeHeld(it[w]) /\ HeldBy(it)[w] \in Nat
  BY EntrySize DEF HeldBy, SizeHeld, Items
<1>2. IsFiniteSet(Workers)
  BY ConstantsAssumption, FS_Interval DEF Workers
<1> QED BY <1>1, <1>2, SumOnNat DEF HeldSize

LEMMA HeldChange ==
  ASSUME NEW it \in [Workers -> Items], NEW w \in Workers, NEW e \in Items
  PROVE  HeldSize([it EXCEPT ![w] = e]) = HeldSize(it) - SizeHeld(it[w]) + SizeHeld(e)
<1>1. PICK jt : jt = [it EXCEPT ![w] = e]
  OBVIOUS
<1>2. jt \in [Workers -> Items] /\ jt[w] = e /\ \A v \in Workers \ {w} : jt[v] = it[v]
  BY <1>1
<1>3. \A v \in Workers : HeldBy(it)[v] \in Int /\ HeldBy(jt)[v] \in Int
  BY <1>2, HeldType
<1>4. \A v \in Workers \ {w} : HeldBy(jt)[v] = HeldBy(it)[v]
  BY <1>2 DEF HeldBy
<1>5. SumOn(HeldBy(jt), Workers) = SumOn(HeldBy(it), Workers) - HeldBy(it)[w] + HeldBy(jt)[w]
  BY <1>3, <1>4, HeldType, SumOnChange
<1>6. HeldBy(it)[w] = SizeHeld(it[w]) /\ HeldBy(jt)[w] = SizeHeld(e)
  BY <1>2 DEF HeldBy
<1> QED BY <1>1, <1>5, <1>6 DEF HeldSize

\* SumOfSizes adds the sizes in the order a CHOOSE picks them; SumOn does the same.
SizeFolds(it, q, S) ==
  it = [T \in SUBSET S |-> IF T = {} THEN 0 ELSE q[Choice(T)].size + it[T \ {Choice(T)}]]

LEMMA FoldsAreSums ==
  ASSUME NEW q \in Seq(Entries), NEW it, NEW S, S = 1..Len(q)
  PROVE  SizeFolds(it, q, S) <=> Sums(it, SizesOf(q), S)
<1>1. ASSUME NEW T \in SUBSET S, T # {} PROVE q[Choice(T)].size = SizesOf(q)[Choice(T)]
  BY <1>1, ChoiceIn DEF SizesOf
<1>2. [T \in SUBSET S |-> IF T = {} THEN 0 ELSE q[Choice(T)].size + it[T \ {Choice(T)}]]
        = [T \in SUBSET S |-> IF T = {} THEN 0 ELSE SizesOf(q)[Choice(T)] + it[T \ {Choice(T)}]]
  BY <1>1
<1> QED BY Zenon, <1>2 DEF SizeFolds, Sums

LEMMA QueueSizeIs == ASSUME NEW q \in Seq(Entries) PROVE SumOfSizes(q) = QueueSize(q)
<1>1. PICK S : S = 1..Len(q) /\ S = DOMAIN q /\ IsFiniteSet(S)
  BY FS_Interval
<1> DEFINE jt == CHOOSE it : SizeFolds(it, q, S)
<1>2. PICK it : Sums(it, SizesOf(q), S) /\ SumOn(SizesOf(q), S) = it[S]
  BY <1>1, SumOnDef
<1>3. SizeFolds(jt, q, S)
  BY <1>1, <1>2, FoldsAreSums
<1>4. SumOfSizes(q) = jt[S]
  BY Zenon, <1>1 DEF SumOfSizes, FoldSeq, FoldFunction, FoldFunctionOnSet, MapThenFoldSet, SizeFolds, Choice
<1> HIDE DEF jt
<1>5. Sums(jt, SizesOf(q), S)
  BY <1>1, <1>3, FoldsAreSums
<1>6. jt[S] = it[S]
  BY <1>1, <1>2, <1>5, SumsUnique
<1> QED BY <1>1, <1>2, <1>4, <1>6 DEF QueueSize

LEMMA HeldSizeIs ==
  ASSUME NEW it \in [Workers -> Items]
  PROVE  LET busy == {w \in Workers : it[w] # NoItem}
         IN  SumFunction([w \in busy |-> it[w].size]) = HeldSize(it)
<1> DEFINE busy == {w \in Workers : it[w] # NoItem}
           g == [w \in busy |-> it[w].size]
<1>1. busy \subseteq Workers /\ IsFiniteSet(busy) /\ DOMAIN g = busy
  BY HeldType, FS_Subset
<1>2. \A w \in busy : g[w] = HeldBy(it)[w]
  BY DEF HeldBy, SizeHeld
<1>3. \A w \in Workers \ busy : HeldBy(it)[w] = 0
  BY DEF HeldBy, SizeHeld
<1>4. SumFunction(g) = SumOn(g, busy)
  BY <1>1 DEF SumFunction, SumOn
<1> HIDE DEF g, busy
<1>5. SumOn(g, busy) = SumOn(HeldBy(it), busy)
  BY <1>1, <1>2, SumOnSame
<1>6. \A w \in Workers : HeldBy(it)[w] \in Int
  BY HeldType
<1>7. SumOn(HeldBy(it), Workers) = SumOn(HeldBy(it), busy)
  BY <1>1, <1>3, <1>6, HeldType, SumOnZeros
<1> QED BY <1>4, <1>5, <1>7 DEF HeldSize, g, busy

UsageInv == curUsage = QueueSize(pending) + HeldSize(item)

LEMMA UsageIs == TypeOK => (UsageAccounts <=> UsageInv)
  BY QueueSizeIs, HeldSizeIs DEF UsageAccounts, UsageInv, TypeOK, Items

\* What a step does to the items and to the usage: nothing; a worker gives back the size of
\* its item, if it has one, and takes another one or none; an item is added, replaced, or
\* dropped by clear().
GivesBack(w) ==
  /\ curUsage' = curUsage - SizeHeld(item[w])
  /\ \/ pending # <<>> /\ pending' = Tail(pending) /\ item' = [item EXCEPT ![w] = Head(pending)]
     \/ pending' = pending /\ item' = [item EXCEPT ![w] = NoItem]
PutsIn(e) ==
  /\ pending' = Append(pending, e) /\ item' = item
  /\ curUsage' = curUsage + e.size
  /\ HasRoom(e.size)
PutsFor(i, e) ==
  /\ pending' = [pending EXCEPT ![i] = e] /\ item' = item
  /\ curUsage' = curUsage - pending[i].size + e.size
  /\ MultipleWorkers
DropsLast ==
  /\ pending # <<>> /\ pending' = Front(pending) /\ item' = item
  /\ curUsage' = curUsage - Last(pending).size

UsageEffect ==
  \/ UNCHANGED <<pending, item, curUsage>>
  \/ \E w \in Workers : GivesBack(w)
  \/ \E e \in Entries : PutsIn(e)
  \/ \E i \in 1..Len(pending), e \in Entries : PutsFor(i, e)
  \/ DropsLast

LEMMA UsageWorker == ASSUME TypeInv, AtRest, NEW w \in Workers, WorkerStep(w) PROVE UsageEffect
<1>1. /\ item \in [Workers -> Items] /\ curUsage \in Int
      /\ wpc[w] \in {"finish", "serialize", "failed"} => item[w] # NoItem
      /\ wpc[w] \in {"loop", "woken"} => item[w] = NoItem
  BY DEF TypeInv, TypeOK, AtWorkHasItem, AtRest, Items
<1>2. CASE item[w] = NoItem /\ Take(w) /\ UNCHANGED curUsage
  <2>1. curUsage' = curUsage - SizeHeld(item[w])
    BY <1>1, <1>2 DEF SizeHeld
  <2>2. GivesBack(w)
    BY <1>2, <2>1 DEF Take, GivesBack
  <2> QED BY <2>2 DEF UsageEffect
<1>3. CASE Begin(w) \/ TestExit(w) \/ Serialize(w) \/ Fail(w)
  BY <1>3 DEF Begin, TestExit, Serialize, Fail, queueVars, UsageEffect
<1>4. CASE LookForWork(w) \/ WakeUp(w)
  <2>1. CASE Take(w)
    BY <1>1, <1>2, <1>4, <2>1 DEF LookForWork, WakeUp
  <2>2. CASE UNCHANGED <<pending, item>>
    BY <1>4, <2>2 DEF LookForWork, WakeUp, UsageEffect
  <2> QED BY <1>4, <2>1, <2>2 DEF LookForWork, WakeUp
<1>5. CASE Finish(w)
  <2>1. curUsage' = curUsage - SizeHeld(item[w])
    BY <1>1, <1>5 DEF Finish, SizeHeld
  <2>2. GivesBack(w)
    BY <1>5, <2>1 DEF Finish, Take, GivesBack
  <2> QED BY <2>2 DEF UsageEffect
<1> QED BY <1>3, <1>4, <1>5 DEF WorkerStep

LEMMA UsageClient ==
  ASSUME TypeInv, NEW c \in Clients, ClientCall(c) \/ ClientContinues(c) PROVE UsageEffect
<1>1. UNCHANGED item /\ lastId + 1 \in Nat
  <2>1. UNCHANGED item
    BY DEF ClientCall, ClientContinues, Enqueue, TryEnqueue, ResumeKey, ResumeRoom, SetCapacity,
           ResumeCapacity, WaitForIdle, ResumeIdle, Clear, ClearLoop, workerVars
  <2>2. lastId + 1 \in Nat
    BY DEF TypeInv, TypeOK
  <2> QED BY <2>1, <2>2
<1>2. ASSUME NEW k \in Keys, NEW s \in Sizes, Push(k, s), HasRoom(s) PROVE UsageEffect
  <2>1. PICK e : e = [key |-> k, size |-> s, id |-> lastId + 1]
    OBVIOUS
  <2>2. e \in Entries /\ PutsIn(e)
    BY <1>1, <1>2, <2>1 DEF Push, Entries, PutsIn
  <2> QED BY <2>2 DEF UsageEffect
<1>3. ASSUME NEW k \in Keys, NEW s \in Sizes, Replace(k, s), MultipleWorkers PROVE UsageEffect
  <2>1. PICK e : e = [key |-> k, size |-> s, id |-> lastId + 1]
    OBVIOUS
  <2>2. PICK i \in PendingAt(k) : pending' = [pending EXCEPT ![i] = e] /\ curUsage' = curUsage - pending[i].size + s
    BY <1>3, <2>1 DEF Replace
  <2>3. e \in Entries /\ e.size = s /\ i \in 1..Len(pending)
    BY <1>1, <2>1 DEF Entries, PendingAt
  <2>4. PutsFor(i, e)
    BY <1>1, <1>3, <2>2, <2>3 DEF PutsFor
  <2> QED BY <2>3, <2>4 DEF UsageEffect
<1>4. CASE UNCHANGED <<pending, curUsage>>
  BY <1>1, <1>4 DEF UsageEffect
<1>5. ASSUME NEW k \in Keys, NEW s \in Sizes, Enqueue(c, k, s) \/ TryEnqueue(c, k, s) PROVE UsageEffect
  <2>1. \/ HasRoom(s) /\ Push(k, s)
        \/ Replace(k, s) /\ MultipleWorkers
        \/ UNCHANGED <<pending, curUsage>>
    BY <1>5 DEF Enqueue, TryEnqueue, AwaitRoom
  <2> QED BY <2>1, <1>2, <1>3, <1>4
<1>6. CASE ResumeKey(c) \/ ResumeRoom(c)
  <2>1. (HasRoom(req[c].size) /\ Push(req[c].key, req[c].size)) \/ UNCHANGED <<pending, curUsage>>
    BY <1>6 DEF ResumeKey, ResumeRoom, AwaitRoom
  <2>2. req[c].key \in Keys /\ req[c].size \in Sizes
    BY DEF TypeInv, TypeOK
  <2> QED BY <2>1, <2>2, <1>2, <1>4
<1>7. CASE ClearLoop(c) /\ pending # <<>>
  <2>1. DropsLast BY <1>1, <1>7 DEF ClearLoop, DropsLast
  <2> QED BY <2>1 DEF UsageEffect
<1>8. CASE \/ ClearLoop(c) /\ pending = <<>>
           \/ ResumeCapacity(c) \/ ResumeIdle(c) \/ WaitForIdle(c) \/ Clear(c)
           \/ \E n \in Capacities, b \in BOOLEAN : SetCapacity(c, n, b)
  BY <1>4, <1>8 DEF ClearLoop, ResumeCapacity, ResumeIdle, WaitForIdle, Clear, SetCapacity, queueVars
<1> QED BY <1>5, <1>6, <1>7, <1>8 DEF ClientCall, ClientContinues

LEMMA UsageOwner == ASSUME TypeInv, ShrinksIdle, OwnerCall \/ OwnerContinues PROVE UsageEffect
<1>1. UNCHANGED <<pending, curUsage>>
  BY DEF OwnerCall, OwnerContinues, GrowThreads, ShrinkThreads, ShrinkJoin, Destroy, DestroyNotify,
         DestroyJoin, queueVars
<1>2. CASE ShrinkJoin
  <2>1. item \in [Workers -> Items] /\ \A w \in Workers : item[w] = NoItem
    BY <1>2 DEF ShrinkJoin, ShrinksIdle, Idle, TypeInv, TypeOK, Items
  <2>2. UNCHANGED item \/ item' = [w \in Workers |-> IF w > shrink.to THEN NoItem ELSE item[w]]
    BY <1>2 DEF ShrinkJoin
  <2>3. item' = item
    BY <2>1, <2>2
  <2> QED BY <1>1, <2>3 DEF UsageEffect
<1>3. CASE ~ShrinkJoin
  BY <1>1, <1>3 DEF OwnerCall, OwnerContinues, GrowThreads, ShrinkThreads, Destroy, DestroyNotify,
         DestroyJoin, workerVars, UsageEffect
<1> QED BY <1>2, <1>3

LEMMA UsageStep == ASSUME TypeInv, AtRest, ShrinksIdle, [Next]_vars PROVE UsageEffect
<1>1. CASE SpuriousWakeUp \/ UNCHANGED vars
  BY <1>1 DEF SpuriousWakeUp, vars, queueVars, workerVars, UsageEffect
<1> QED BY <1>1, UsageWorker, UsageClient, UsageOwner DEF Next, Rest

\* Each effect changes the usage by what it adds to the queue and to the workers.
LEMMA UsageKeeps == ASSUME TypeInv, UsageInv, UsageEffect PROVE UsageInv'
<1>1. /\ pending \in Seq(Entries) /\ item \in [Workers -> Items] /\ NoItem \in Items
      /\ QueueSize(pending) \in Nat /\ HeldSize(item) \in Nat
  BY SizesType, HeldType DEF TypeInv, TypeOK, Items
<1>2. \A e \in Entries : SizeHeld(e) = e.size /\ e.size \in Nat /\ e \in Items
  BY EntrySize DEF SizeHeld, Items
<1>3. SizeHeld(NoItem) = 0 /\ \A w \in Workers : SizeHeld(item[w]) \in Nat
  BY <1>1, <1>2 DEF SizeHeld, Items
<1>4. CASE UNCHANGED <<pending, item, curUsage>>
  BY <1>4 DEF UsageInv
<1>5. ASSUME NEW w \in Workers, GivesBack(w) PROVE UsageInv'
  <2>1. CASE pending # <<>> /\ pending' = Tail(pending) /\ item' = [item EXCEPT ![w] = Head(pending)]
    <3>1. PICK e \in Entries : e = Head(pending)
      BY <1>1, <2>1
    <3>2. HeldSize(item') = HeldSize(item) - SizeHeld(item[w]) + e.size
      BY <1>1, <1>2, <2>1, <3>1, HeldChange
    <3>3. QueueSize(pending) = e.size + QueueSize(pending') /\ QueueSize(pending') \in Nat
      <4>1. QueueSize(pending) = Head(pending).size + QueueSize(Tail(pending))
        BY <1>1, <2>1, SizeTail
      <4>2. Tail(pending) \in Seq(Entries)
        BY <1>1, <2>1
      <4>3. QueueSize(Tail(pending)) \in Nat
        BY <4>2, SizesType
      <4> QED BY <2>1, <3>1, <4>1, <4>3
    <3>4. curUsage' = curUsage - SizeHeld(item[w])
      BY <1>5 DEF GivesBack
    <3> QED BY SMTT(20), <1>1, <1>2, <1>3, <3>1, <3>2, <3>3, <3>4 DEF UsageInv
  <2>2. CASE pending' = pending /\ item' = [item EXCEPT ![w] = NoItem]
    <3>1. HeldSize(item') = HeldSize(item) - SizeHeld(item[w]) + 0
      BY <1>1, <1>3, <2>2, HeldChange
    <3> QED BY <1>1, <1>3, <1>5, <2>2, <3>1 DEF UsageInv, GivesBack
  <2> QED BY <1>5, <2>1, <2>2 DEF GivesBack
<1>6. ASSUME NEW e \in Entries, PutsIn(e) PROVE UsageInv'
  <2>1. QueueSize(pending') = QueueSize(pending) + e.size
    BY <1>1, <1>6, SizeAppend DEF PutsIn
  <2>2. item' = item /\ curUsage' = curUsage + e.size
    BY <1>6 DEF PutsIn
  <2> QED BY <1>1, <1>2, <2>1, <2>2 DEF UsageInv
<1>7. ASSUME NEW i \in 1..Len(pending), NEW e \in Entries, PutsFor(i, e) PROVE UsageInv'
  <2>1. QueueSize(pending') = QueueSize(pending) - pending[i].size + e.size
    BY <1>1, <1>7, SizeChange DEF PutsFor
  <2>2. pending[i] \in Entries
    BY <1>1
  <2>3. PICK a, b : a = pending[i].size /\ b = e.size
    OBVIOUS
  <2>4. a \in Nat /\ b \in Nat
    BY <1>2, <2>2, <2>3
  <2>5. item' = item /\ curUsage' = curUsage - a + b
    BY <1>7, <2>3 DEF PutsFor
  <2>6. QueueSize(pending') = QueueSize(pending) - a + b
    BY <2>1, <2>3
  <2>7. curUsage' = QueueSize(pending') + HeldSize(item)
    BY <1>1, <2>4, <2>5, <2>6 DEF UsageInv
  <2> QED BY <2>5, <2>7 DEF UsageInv
<1>8. CASE DropsLast
  <2>1. QueueSize(pending) = QueueSize(pending') + Last(pending).size
    BY <1>1, <1>8, SizeFront DEF DropsLast
  <2>2. pending' \in Seq(Entries) /\ Last(pending) \in Entries
    BY <1>1, <1>8, FrontLastType DEF DropsLast
  <2>3. QueueSize(pending') \in Nat /\ Last(pending).size \in Nat
    BY <1>2, <2>2, SizesType
  <2> QED BY <1>1, <1>8, <2>1, <2>3 DEF UsageInv, DropsLast
<1> QED BY <1>4, <1>5, <1>6, <1>7, <1>8 DEF UsageEffect

\* What is known without an assumption on the clients.
UsagePlaced == TypeInv /\ AtRest /\ ShrinksIdle /\ UsageInv

LEMMA UsageInit == Init => UsagePlaced
<1> SUFFICES ASSUME Init PROVE UsagePlaced
  OBVIOUS
<1>1. TypeInv /\ AtRest /\ ShrinksIdle
  BY TypeInit, ConstantsAssumption DEF Init, AtRest, Workers, ShrinksIdle
<1>2. QueueSize(<<>>) = 0
  <2>1. 1..Len(<<>>) = {}
    OBVIOUS
  <2> QED BY <2>1, SumOnEmpty DEF QueueSize
<1>3. HeldSize(item) = 0
  <2>1. \A w \in Workers : HeldBy(item)[w] = 0
    BY DEF Init, HeldBy, SizeHeld
  <2>2. item \in [Workers -> Items]
    BY DEF Init, Items
  <2>3. SumOn(HeldBy(item), Workers) = SumOn(HeldBy(item), {})
    BY <2>1, <2>2, HeldType, SumOnZeros
  <2> QED BY <2>3, SumOnEmpty DEF HeldSize
<1> QED BY <1>1, <1>2, <1>3 DEF Init, UsagePlaced, UsageInv

LEMMA UsageAlways == ASSUME ResizesIdle PROVE Spec => []UsagePlaced
<1>1. UsagePlaced /\ [Next]_vars => UsagePlaced'
  BY TypeStep, RestStep, ShrinkStep, UsageStep, UsageKeeps DEF UsagePlaced
<1> QED BY <1>1, UsageInit, PTL DEF Spec

\* The usage is what the items in the queue and with the workers weigh, also after a worker
\* died with its item, whoever calls, replaces and clears.
THEOREM UsageIsHeld == ASSUME ResizesIdle PROVE Spec => []UsageAccounts
<1>1. UsagePlaced => UsageAccounts
  BY UsageIs DEF UsagePlaced, TypeInv
<1> QED BY <1>1, UsageAlways, PTL

-----------------------------------------------------------------------------
(* The capacity keeps the producers back.                                   *)

\* The capacity is not lowered under a queue, and a queued item is never replaced by a
\* larger one: with one worker nothing is replaced.
FixedCapacity  == "set_capacity" \notin Calls \/ \A m, n \in Capacities : m = n
NothingEnlarged == MaxThreads = 1 \/ \A s, t \in Sizes : s = t

LEMMA CapacityStays ==
  ASSUME FixedCapacity, TypeOK, TypeOK', [Next]_vars PROVE maxCapacity' = maxCapacity
<1>1. CASE \E c \in Clients, n \in Capacities, b \in BOOLEAN : SetCapacity(c, n, b)
  BY SMTT(20), <1>1 DEF SetCapacity, Arrives, FixedCapacity, TypeOK
<1>2. CASE ~\E c \in Clients, n \in Capacities, b \in BOOLEAN : SetCapacity(c, n, b)
  BY ZenonT(40), <1>2 DEF Next, Rest, vars, queueVars, WorkerStep, Begin, TestExit, LookForWork, WakeUp, Serialize, Finish, Fail,
     ClientCall, ClientContinues, Enqueue, TryEnqueue, ResumeKey, ResumeRoom, ResumeCapacity, WaitForIdle,
     ResumeIdle, Clear, ClearLoop, OwnerCall, OwnerContinues, GrowThreads, ShrinkThreads, ShrinkJoin, Destroy,
     DestroyNotify, DestroyJoin, SpuriousWakeUp
<1> QED BY <1>1, <1>2

LEMMA BackpressureKeeps ==
  ASSUME NothingEnlarged, TypeInv, Backpressure, UsageEffect, maxCapacity' = maxCapacity PROVE Backpressure'
<1>1. pending \in Seq(Entries) /\ item \in [Workers -> Items] /\ curUsage \in Int /\ maxCapacity \in Int /\ Len(pending) \in Nat
  BY ConstantsAssumption DEF TypeInv, TypeOK, Items
<1>2. \A w \in Workers : SizeHeld(item[w]) \in Nat
  BY <1>1, EntrySize DEF SizeHeld, Items
<1>3. \A i \in 1..Len(pending) : pending[i] \in Entries /\ pending[i].size \in Nat
  BY <1>1, EntrySize
<1>4. CASE UNCHANGED <<pending, item, curUsage>>
  BY <1>4 DEF Backpressure
<1>5. ASSUME NEW w \in Workers, GivesBack(w) PROVE Backpressure'
  <2>1. Len(pending') <= Len(pending)
    BY <1>1, <1>5 DEF GivesBack
  <2>2. Len(pending') \in Nat
    BY <1>1, <1>5 DEF GivesBack
  <2> QED BY <1>1, <1>2, <1>5, <2>1, <2>2 DEF Backpressure, GivesBack
<1>6. ASSUME NEW e \in Entries, PutsIn(e) PROVE Backpressure'
  <2>1. Len(pending') = Len(pending) + 1 /\ e.size \in Nat
    BY <1>1, <1>6, EntrySize DEF PutsIn
  <2>2. Len(pending') > 1 => pending # <<>>
    BY <1>1, <2>1
  <2> QED BY <1>1, <1>6, <2>1, <2>2 DEF Backpressure, PutsIn, HasRoom
<1>7. ASSUME NEW i \in 1..Len(pending), NEW e \in Entries, PutsFor(i, e) PROVE Backpressure'
  <2>1. MaxThreads # 1
    BY <1>7 DEF PutsFor, MultipleWorkers, TypeInv, TypeOK, Workers
  <2>2. e.size = pending[i].size
    BY <1>3, <2>1 DEF NothingEnlarged, Entries
  <2>3. Len(pending') = Len(pending) /\ curUsage' = curUsage
    BY <1>1, <1>3, <1>7, <2>2 DEF PutsFor
  <2> QED BY <2>3 DEF Backpressure
<1>8. CASE DropsLast
  <2>1. Len(pending') = Len(pending) - 1
    BY <1>1, <1>8, FrontLen DEF DropsLast
  <2>2. Last(pending) \in Entries
    BY <1>1, <1>8, FrontLastType DEF DropsLast
  <2>3. Last(pending).size \in Nat
    BY <2>2, EntrySize
  <2> QED BY <1>1, <1>8, <2>1, <2>3 DEF Backpressure, DropsLast
<1> QED BY <1>4, <1>5, <1>6, <1>7, <1>8 DEF UsageEffect

\* What enqueue() compares with the capacity is the size of what is really held, and a queue
\* of more than one item stays within the capacity.
THEOREM ProducersKeptBack ==
  ASSUME ResizesIdle, FixedCapacity, NothingEnlarged PROVE Spec => []Accounting
<1>1. UsagePlaced /\ UsagePlaced' /\ Backpressure /\ [Next]_vars => Backpressure'
  <2> SUFFICES ASSUME UsagePlaced, UsagePlaced', Backpressure, [Next]_vars PROVE Backpressure'
    OBVIOUS
  <2>1. TypeInv /\ TypeOK /\ TypeOK'
    BY DEF UsagePlaced, TypeInv
  <2>2. maxCapacity' = maxCapacity
    BY <2>1, CapacityStays
  <2>3. UsageEffect
    BY UsageStep DEF UsagePlaced
  <2> QED BY <2>1, <2>2, <2>3, BackpressureKeeps
<1>2. Init => Backpressure
  BY DEF Init, Backpressure
<1>3. UsagePlaced /\ Backpressure => Accounting
  BY UsageIs DEF UsagePlaced, TypeInv, Accounting
<1> QED BY <1>1, <1>2, <1>3, UsageAlways, PTL DEF Spec

-----------------------------------------------------------------------------
(* Keys and the order of the writes.                                         *)

\* The use supposed: it takes two clients to break what the comments of enqueue() say.
OneClient == \A c, d \in Clients : c = d

Pends(k) == \E i \in 1..Len(pending) : pending[i].key = k

\* KeyHeldOnce is not inductive by itself: enqueue() adds an item after a wait without
\* looking again for its key, which is sound only while nobody else can add it.
KeyAwaited ==
  \A c \in Clients :
    cpc[c] = "key" =>
      /\ ~Pends(req[c].key)
      /\ \A w \in Workers : item[w] # NoItem /\ item[w].key = req[c].key => w = req[c].at

RoomAwaited ==
  \A c \in Clients :
    cpc[c] = "room" /\ numThreads > 1 =>
      /\ ~Pends(req[c].key)
      /\ \A w \in Workers : item[w] # NoItem => item[w].key # req[c].key

NoThreadNoItem ==
  \A w \in Workers : w > numThreads => wpc[w] = "off" /\ item[w] = NoItem

KeyInv == TypeInv /\ KeyHeldOnce /\ KeyAwaited /\ RoomAwaited /\ NoThreadNoItem

LEMMA KeyInit == Init => KeyInv
<1> SUFFICES ASSUME Init PROVE KeyInv
  OBVIOUS
<1>1. KeyHeldOnce /\ KeyAwaited /\ RoomAwaited
  BY DEF Init, KeyHeldOnce, KeyAwaited, RoomAwaited
<1>2. NoThreadNoItem
  BY DEF Init, NoThreadNoItem, Workers
<1> QED BY <1>1, <1>2, TypeInit DEF KeyInv

-----------------------------------------------------------------------------
(* Steps that leave the items where they are, move one, or drop some.        *)

\* The facts about keys speak of where the items are and of what the clients await.
KeyFacts == KeyHeldOnce /\ KeyAwaited /\ RoomAwaited

LEMMA ItemsStay ==
  ASSUME KeyInv, UNCHANGED <<pending, item, numThreads, cpc, req>>
  PROVE  KeyFacts'
BY DEF KeyInv, KeyFacts, KeyHeldOnce, KeyAwaited, RoomAwaited, Pends

LEMMA ItemTaken ==
  ASSUME KeyInv, NEW w \in Workers, Take(w), UNCHANGED <<numThreads, cpc, req>>
  PROVE  KeyFacts'
<1>1. /\ pending \in Seq(Entries) /\ pending # <<>>
      /\ item \in [Workers -> Entries \cup {NoItem}]
      /\ item' = [item EXCEPT ![w] = Head(pending)]
      /\ pending' = Tail(pending)
  BY DEF Take, KeyInv, TypeInv, TypeOK
<1>2. /\ Len(pending') = Len(pending) - 1 /\ Len(pending) \in Nat \ {0}
      /\ \A i \in 1..Len(pending') : i + 1 \in 1..Len(pending) /\ pending'[i] = pending[i + 1]
      /\ 1 \in 1..Len(pending) /\ Head(pending) = pending[1]
  BY <1>1
<1>3. KeyHeldOnce'
  BY <1>1, <1>2 DEF KeyInv, KeyHeldOnce
<1>4. KeyAwaited'
  BY <1>1, <1>2 DEF KeyInv, KeyAwaited, Pends
<1>5. RoomAwaited'
  BY <1>1, <1>2 DEF KeyInv, RoomAwaited, Pends
<1> QED BY <1>3, <1>4, <1>5 DEF KeyFacts

LEMMA ItemDropped ==
  ASSUME KeyInv, NEW w \in Workers, item' = [item EXCEPT ![w] = NoItem],
         UNCHANGED <<pending, numThreads, cpc, req>>
  PROVE  KeyFacts'
<1>1. item \in [Workers -> Entries \cup {NoItem}]
  BY DEF KeyInv, TypeInv, TypeOK
<1>2. KeyHeldOnce' BY <1>1 DEF KeyInv, KeyHeldOnce
<1>3. KeyAwaited' BY <1>1 DEF KeyInv, KeyAwaited, Pends
<1>4. RoomAwaited' BY <1>1 DEF KeyInv, RoomAwaited, Pends
<1> QED BY <1>2, <1>3, <1>4 DEF KeyFacts

LEMMA KeyWorker ==
  ASSUME KeyInv, NEW w \in Workers, WorkerStep(w)
  PROVE  KeyInv'
<1>1. UNCHANGED <<numThreads, cpc, req>>
  BY DEF WorkerStep, Begin, TestExit, LookForWork, WakeUp, Serialize, Finish, Fail,
         clientVars, ownerVars
<1>2. wpc[w] # "off" /\ \A v \in Workers \ {w} : wpc'[v] = wpc[v] /\ item'[v] = item[v]
  BY DEF WorkerStep, Begin, TestExit, LookForWork, WakeUp, Serialize, Finish, Fail, Take, Goto,
         KeyInv, TypeInv, TypeOK
<1>3. NoThreadNoItem'
  BY <1>1, <1>2 DEF KeyInv, NoThreadNoItem
<1>4. \/ UNCHANGED <<pending, item>>
      \/ Take(w)
      \/ item' = [item EXCEPT ![w] = NoItem] /\ UNCHANGED pending
  BY DEF WorkerStep, Begin, TestExit, LookForWork, WakeUp, Serialize, Finish, Fail, queueVars
<1>5. KeyFacts'
  BY <1>1, <1>4, ItemsStay, ItemTaken, ItemDropped
<1>6. TypeInv'
  BY TypeWorker DEF KeyInv
<1> QED BY <1>3, <1>5, <1>6 DEF KeyInv, KeyFacts

-----------------------------------------------------------------------------
(* The steps of the client.                                                 *)

Absent(k) ==
  /\ ~Pends(k)
  /\ \A w \in Workers : item[w] # NoItem => item[w].key # k

\* A key is added while nothing holds it.
LEMMA KeyPushed ==
  ASSUME KeyInv, NEW k \in Keys, NEW s \in Sizes, Push(k, s), numThreads > 1 => Absent(k),
         UNCHANGED <<item, numThreads>>
  PROVE  KeyHeldOnce'
<1> DEFINE e == [key |-> k, size |-> s, id |-> lastId + 1]
<1>1. pending \in Seq(Entries) /\ pending' = Append(pending, e) /\ e.key = k /\ e \in Entries
  BY DEF Push, KeyInv, TypeInv, TypeOK, Entries
<1> HIDE DEF e
<1>2. /\ Len(pending') = Len(pending) + 1 /\ Len(pending) \in Nat
      /\ \A i \in 1..Len(pending') :
           pending'[i].key = IF i = Len(pending') THEN k ELSE pending[i].key
      /\ \A i \in 1..Len(pending') : i # Len(pending') => i \in 1..Len(pending)
  BY <1>1
<1>3. SUFFICES ASSUME numThreads > 1 PROVE KeyHeldOnce'
  BY DEF KeyHeldOnce
<1> QED BY <1>2, <1>3 DEF KeyInv, KeyHeldOnce, Absent, Pends

LEMMA KeyReplaced ==
  ASSUME KeyInv, NEW k \in Keys, NEW s \in Sizes, Replace(k, s), UNCHANGED <<item, numThreads>>
  PROVE  KeyHeldOnce'
<1>1. PICK i \in 1..Len(pending) :
        /\ pending[i].key = k
        /\ pending' = [pending EXCEPT ![i] = [key |-> k, size |-> s, id |-> lastId + 1]]
  BY DEF Replace, PendingAt
<1> DEFINE e == [key |-> k, size |-> s, id |-> lastId + 1]
<1>2. pending \in Seq(Entries) /\ e \in Entries /\ e.key = k
  BY DEF KeyInv, TypeInv, TypeOK, Entries
<1>3. pending' = [pending EXCEPT ![i] = e]
  BY <1>1
<1> HIDE DEF e
<1>4. Len(pending') = Len(pending) /\ \A j \in 1..Len(pending) : pending'[j].key = pending[j].key
  BY <1>1, <1>2, <1>3, ExceptSeq
<1> QED BY <1>4 DEF KeyInv, KeyHeldOnce

\* With one client, that client waits in one place: what it awaits is all that matters.
LEMMA NobodyWaits ==
  ASSUME KeyInv, OneClient, NEW c \in Clients, Return(c)
  PROVE  KeyAwaited' /\ RoomAwaited'
<1>1. cpc' = [cpc EXCEPT ![c] = "ready"] /\ cpc \in [Clients -> ClientPlaces]
  BY DEF Return, KeyInv, TypeInv, TypeOK
<1>2. \A d \in Clients : cpc'[d] = "ready"
  BY <1>1 DEF OneClient
<1> QED BY <1>2 DEF KeyAwaited, RoomAwaited

LEMMA ClientWaits ==
  ASSUME KeyInv, OneClient, NEW c \in Clients, NEW place \in ClientPlaces, NEW r \in Requests,
         WaitAvail(c, place, r), UNCHANGED <<pending, item, numThreads>>,
         place = "key" => /\ ~Pends(r.key)
                          /\ \A w \in Workers : item[w] # NoItem /\ item[w].key = r.key => w = r.at,
         place = "room" /\ numThreads > 1 => Absent(r.key)
  PROVE  KeyAwaited' /\ RoomAwaited'
<1>1. /\ cpc' = [cpc EXCEPT ![c] = place] /\ cpc \in [Clients -> ClientPlaces]
      /\ req' = [req EXCEPT ![c] = r] /\ DOMAIN req = Clients
  BY DEF WaitAvail, KeyInv, TypeInv, TypeOK
<1>2. \A d \in Clients : d = c /\ cpc'[d] = place /\ req'[d] = r
  BY <1>1 DEF OneClient
<1>3. \A k : Pends(k)' = Pends(k)
  BY DEF Pends
<1> QED BY <1>2, <1>3 DEF KeyAwaited, RoomAwaited, Absent

LEMMA KeyAwaitRoom ==
  ASSUME KeyInv, OneClient, NEW c \in Clients, NEW k \in Keys, NEW s \in Sizes,
         AwaitRoom(c, k, s), numThreads > 1 => Absent(k), UNCHANGED <<item, numThreads>>
  PROVE  KeyFacts'
<1>1. CASE Push(k, s) /\ Return(c)
  BY <1>1, KeyPushed, NobodyWaits DEF KeyFacts
<1>2. CASE ~(Push(k, s) /\ Return(c))
  <2> DEFINE r == [NoRequest EXCEPT !.key = k, !.size = s]
  <2>1. r \in Requests /\ r.key = k
    BY NoRequestType DEF Requests
  <2>2. WaitAvail(c, "room", r) /\ UNCHANGED pending
    BY <1>2 DEF AwaitRoom
  <2> HIDE DEF r
  <2>3. KeyAwaited' /\ RoomAwaited'
    BY <2>1, <2>2, ClientWaits DEF ClientPlaces
  <2>4. KeyHeldOnce'
    BY <2>2 DEF KeyInv, KeyHeldOnce
  <2> QED BY <2>3, <2>4 DEF KeyFacts
<1> QED BY <1>1, <1>2

LEMMA QueueUnchanged ==
  ASSUME KeyInv, UNCHANGED <<pending, item, numThreads>>
  PROVE  KeyHeldOnce'
BY DEF KeyInv, KeyHeldOnce

\* What find_thread_processing() does not find is absent from the workers.
LEMMA NotProcessed ==
  ASSUME KeyInv, NEW k, \A w \in 1..numThreads : ~Processes(w, k)
  PROVE  \A w \in Workers : item[w] # NoItem => item[w].key # k
BY DEF KeyInv, NoThreadNoItem, Processes, TypeInv, TypeOK, Workers

LEMMA NotPending ==
  ASSUME NEW k, PendingAt(k) = {}
  PROVE  ~Pends(k)
BY DEF PendingAt, Pends

LEMMA KeyEnqueue ==
  ASSUME KeyInv, OneClient, NEW c \in Clients, NEW k \in Keys, NEW s \in Sizes, Enqueue(c, k, s)
  PROVE  KeyFacts'
<1>1. UNCHANGED <<item, numThreads>>
  BY DEF Enqueue, ownerVars
<1>2. CASE Return(c) /\ UNCHANGED pending
  BY <1>1, <1>2, QueueUnchanged, NobodyWaits DEF KeyFacts
<1>3. CASE Replace(k, s) /\ Return(c)
  BY <1>1, <1>3, KeyReplaced, NobodyWaits DEF KeyFacts
<1>4. CASE /\ MultipleWorkers /\ PendingAt(k) = {} /\ UNCHANGED pending
           /\ \E w \in 1..numThreads :
                /\ Processes(w, k)
                /\ WaitAvail(c, "key", [NoRequest EXCEPT !.key = k, !.size = s, !.at = w])
  <2>1. PICK w \in 1..numThreads :
          /\ Processes(w, k)
          /\ WaitAvail(c, "key", [NoRequest EXCEPT !.key = k, !.size = s, !.at = w])
    BY <1>4
  <2>2. w \in 0..MaxThreads /\ w \in Workers
    BY ConstantsAssumption DEF KeyInv, TypeInv, TypeOK, Workers
  <2> DEFINE r == [NoRequest EXCEPT !.key = k, !.size = s, !.at = w]
  <2>3. r \in Requests /\ r.key = k /\ r.at = w
    BY <2>2, NoRequestType DEF Requests
  <2>4. WaitAvail(c, "key", r)
    BY <2>1
  <2> HIDE DEF r
  <2>5. \A v \in Workers : item[v] # NoItem /\ item[v].key = k => v = w
    BY <1>4, <2>1, <2>2 DEF MultipleWorkers, Processes, KeyInv, KeyHeldOnce
  <2>6. KeyAwaited' /\ RoomAwaited'
    BY <1>1, <1>4, <2>3, <2>4, <2>5, NotPending, ClientWaits DEF ClientPlaces
  <2> QED BY <1>1, <1>4, <2>6, QueueUnchanged DEF KeyFacts
<1>5. CASE /\ MultipleWorkers => /\ PendingAt(k) = {}
                                 /\ \A w \in 1..numThreads : ~Processes(w, k)
           /\ AwaitRoom(c, k, s)
  <2>1. numThreads > 1 => Absent(k)
    BY <1>5, NotProcessed, NotPending DEF MultipleWorkers, Absent
  <2> QED BY <1>1, <1>5, <2>1, KeyAwaitRoom
<1> QED BY <1>2, <1>3, <1>4, <1>5 DEF Enqueue, CheckThrows

LEMMA KeyTryEnqueue ==
  ASSUME KeyInv, OneClient, NEW c \in Clients, NEW k \in Keys, NEW s \in Sizes, TryEnqueue(c, k, s)
  PROVE  KeyFacts'
<1>1. UNCHANGED <<item, numThreads>> /\ Return(c)
  BY DEF TryEnqueue, ownerVars
<1>2. CASE UNCHANGED pending
  BY <1>1, <1>2, QueueUnchanged, NobodyWaits DEF KeyFacts
<1>3. CASE Replace(k, s)
  BY <1>1, <1>3, KeyReplaced, NobodyWaits DEF KeyFacts
<1>4. CASE /\ MultipleWorkers => PendingAt(k) = {}
           /\ MultipleWorkers => \A w \in 1..numThreads : ~Processes(w, k)
           /\ Push(k, s)
  <2>1. numThreads > 1 => Absent(k)
    BY <1>4, NotProcessed, NotPending DEF MultipleWorkers, Absent
  <2> QED BY <1>1, <1>4, <2>1, KeyPushed, NobodyWaits DEF KeyFacts
<1> QED BY <1>2, <1>3, <1>4 DEF TryEnqueue

LEMMA KeyResume ==
  ASSUME KeyInv, OneClient, NEW c \in Clients, ResumeKey(c) \/ ResumeRoom(c)
  PROVE  KeyFacts'
<1>1. UNCHANGED <<item, numThreads>>
  BY DEF ResumeKey, ResumeRoom, ownerVars
<1>2. req[c] \in Requests /\ req[c].key \in Keys /\ req[c].size \in Sizes
  BY DEF KeyInv, TypeInv, TypeOK, Requests
<1>3. CASE Return(c) /\ UNCHANGED pending
  BY <1>1, <1>3, QueueUnchanged, NobodyWaits DEF KeyFacts
<1>4. CASE cpc[c] = "key" /\ WaitAvail(c, "key", req[c]) /\ UNCHANGED pending
  <2>1. KeyAwaited' /\ RoomAwaited'
    BY <1>1, <1>2, <1>4, ClientWaits DEF ClientPlaces, KeyInv, KeyAwaited
  <2> QED BY <1>1, <1>4, <2>1, QueueUnchanged DEF KeyFacts
<1>5. CASE /\ cpc[c] = "key" /\ ~Processes(req[c].at, req[c].key)
           /\ AwaitRoom(c, req[c].key, req[c].size)
  <2>1. Absent(req[c].key)
    BY <1>5 DEF KeyInv, KeyAwaited, Absent, Processes
  <2> QED BY <1>1, <1>2, <1>5, <2>1, KeyAwaitRoom
<1>6. CASE cpc[c] = "room" /\ AwaitRoom(c, req[c].key, req[c].size)
  <2>1. numThreads > 1 => Absent(req[c].key)
    BY <1>6 DEF KeyInv, RoomAwaited, Absent
  <2> QED BY <1>1, <1>2, <1>6, <2>1, KeyAwaitRoom
<1> QED BY <1>3, <1>4, <1>5, <1>6 DEF ResumeKey, ResumeRoom, Resumes, CheckThrows

\* set_capacity() and wait_for_idle() wait for something else than a key or room.
LEMMA KeyOtherWaits ==
  ASSUME KeyInv, OneClient, NEW c \in Clients, UNCHANGED <<pending, item, numThreads>>,
         \/ Return(c)
         \/ \E place \in {"capacity", "drain", "quiet"}, r \in Requests : WaitAvail(c, place, r)
  PROVE  KeyFacts'
<1>1. CASE Return(c)
  BY <1>1, NobodyWaits, QueueUnchanged DEF KeyFacts
<1>2. CASE \E place \in {"capacity", "drain", "quiet"}, r \in Requests : WaitAvail(c, place, r)
  BY <1>2, ClientWaits, QueueUnchanged DEF KeyFacts, ClientPlaces
<1> QED BY <1>1, <1>2

LEMMA AwaitQuietWaits ==
  ASSUME KeyInv, NEW c \in Clients, NEW from \in Nat, NEW upto \in Nat, AwaitQuiet(c, from, upto)
  PROVE  Return(c) \/ \E r \in Requests : WaitAvail(c, "quiet", r)
<1>1. CASE Return(c) BY <1>1
<1>2. CASE \E w \in from..numThreads :
             WaitAvail(c, "quiet", [NoRequest EXCEPT !.at = w, !.upto = upto])
  <2>1. PICK w \in from..numThreads :
          WaitAvail(c, "quiet", [NoRequest EXCEPT !.at = w, !.upto = upto])
    BY <1>2
  <2>2. w \in 0..MaxThreads
    BY ConstantsAssumption DEF KeyInv, TypeInv, TypeOK, Workers
  <2>3. [NoRequest EXCEPT !.at = w, !.upto = upto] \in Requests
    BY <2>2, NoRequestType DEF Requests
  <2> QED BY <2>1, <2>3
<1> QED BY <1>1, <1>2 DEF AwaitQuiet

LEMMA AwaitDrainWaits ==
  ASSUME KeyInv, NEW c \in Clients, NEW upto \in Nat, AwaitDrain(c, upto)
  PROVE  Return(c) \/ \E place \in {"drain", "quiet"}, r \in Requests : WaitAvail(c, place, r)
<1>1. CASE AwaitQuiet(c, 1, upto) BY <1>1, AwaitQuietWaits
<1>2. CASE WaitAvail(c, "drain", [NoRequest EXCEPT !.upto = upto])
  <2>1. [NoRequest EXCEPT !.upto = upto] \in Requests
    BY NoRequestType DEF Requests
  <2> QED BY <1>2, <2>1
<1> QED BY <1>1, <1>2 DEF AwaitDrain

LEMMA KeyOtherCalls ==
  ASSUME KeyInv, OneClient, NEW c \in Clients,
         \/ ResumeCapacity(c) \/ \E n \in Capacities, b \in BOOLEAN : SetCapacity(c, n, b)
         \/ WaitForIdle(c) \/ ResumeIdle(c)
  PROVE  KeyFacts'
<1>1. UNCHANGED <<pending, item, numThreads>>
  BY DEF ResumeCapacity, SetCapacity, WaitForIdle, ResumeIdle, queueVars, workerVars, ownerVars
<1>2. CASE ResumeCapacity(c) \/ \E n \in Capacities, b \in BOOLEAN : SetCapacity(c, n, b)
  <2>1. Return(c) \/ WaitAvail(c, "capacity", NoRequest)
    BY <1>2 DEF ResumeCapacity, SetCapacity, AwaitUsage, CheckThrows
  <2> QED BY <1>1, <2>1, NoRequestType, KeyOtherWaits
<1>3. CASE WaitForIdle(c) \/ ResumeIdle(c)
  <2>1. lastId \in Nat /\ req[c].upto \in Nat /\ req[c].at \in Nat
    BY DEF KeyInv, TypeInv, TypeOK
  <2>2. \/ Return(c) \/ AwaitDrain(c, lastId) \/ AwaitDrain(c, req[c].upto)
        \/ AwaitQuiet(c, req[c].at, req[c].upto)
    BY <1>3 DEF WaitForIdle, ResumeIdle, CheckThrows
  <2> QED BY <1>1, <2>1, <2>2, AwaitQuietWaits, AwaitDrainWaits, KeyOtherWaits
<1> QED BY <1>2, <1>3

LEMMA KeyClear ==
  ASSUME KeyInv, OneClient, NEW c \in Clients, Clear(c) \/ ClearLoop(c)
  PROVE  KeyFacts'
<1>1. CASE Clear(c)
  <2>1. cpc' = [cpc EXCEPT ![c] = "clear"] /\ UNCHANGED <<pending, item, numThreads, req>>
    BY <1>1 DEF Clear, queueVars, workerVars, ownerVars
  <2>2. \A d \in Clients : cpc'[d] = "clear"
    BY <2>1 DEF OneClient, KeyInv, TypeInv, TypeOK
  <2> QED BY <2>1, <2>2, QueueUnchanged DEF KeyFacts, KeyAwaited, RoomAwaited
<1>2. CASE ClearLoop(c) /\ pending # <<>>
  <2>1. /\ cpc[c] = "clear" /\ pending' = Front(pending)
        /\ UNCHANGED <<item, numThreads, cpc, req>>
    BY <1>2 DEF ClearLoop, workerVars, ownerVars, clientVars
  <2>2. /\ Len(pending') \in Nat /\ Len(pending') <= Len(pending) /\ Len(pending) \in Nat
        /\ \A i \in 1..Len(pending') : i \in 1..Len(pending) /\ pending'[i] = pending[i]
    BY <1>2, <2>1 DEF Front, KeyInv, TypeInv, TypeOK
  <2>3. \A d \in Clients : cpc'[d] = "clear"
    BY <2>1 DEF OneClient
  <2>4. KeyHeldOnce'
    BY <2>1, <2>2 DEF KeyInv, KeyHeldOnce
  <2> QED BY <2>3, <2>4 DEF KeyFacts, KeyAwaited, RoomAwaited
<1>3. CASE ClearLoop(c) /\ pending = <<>>
  BY <1>3, NobodyWaits, QueueUnchanged DEF ClearLoop, KeyFacts, workerVars, ownerVars
<1> QED BY <1>1, <1>2, <1>3

LEMMA KeyClient ==
  ASSUME KeyInv, OneClient, NEW c \in Clients, ClientCall(c) \/ ClientContinues(c)
  PROVE  KeyInv'
<1>1. KeyFacts'
  BY KeyEnqueue, KeyTryEnqueue, KeyResume, KeyOtherCalls, KeyClear
     DEF ClientCall, ClientContinues
<1>2. UNCHANGED <<item, numThreads>> /\ (NotifyNext \/ UNCHANGED wpc)
  BY DEF ClientCall, ClientContinues, Enqueue, TryEnqueue, ResumeKey, ResumeRoom, AwaitRoom,
         Push, Replace, SetCapacity, ResumeCapacity, WaitForIdle, ResumeIdle, Clear, ClearLoop,
         workerVars, ownerVars
<1>3. NoThreadNoItem'
  <2>1. CASE UNCHANGED wpc
    BY <1>2, <2>1 DEF KeyInv, NoThreadNoItem
  <2>2. CASE NotifyNext
    BY <1>2, <2>2 DEF NotifyNext, KeyInv, NoThreadNoItem, TypeInv, TypeOK
  <2> QED BY <1>2, <2>1, <2>2
<1>4. TypeInv'
  BY TypeClient DEF KeyInv
<1> QED BY <1>1, <1>3, <1>4 DEF KeyInv, KeyFacts

-----------------------------------------------------------------------------
(* The steps of the owner, and the theorems.                                *)

LEMMA KeyOwner ==
  ASSUME KeyInv, IdleResize, OwnerCall \/ OwnerContinues
  PROVE  KeyInv'
<1>1. TypeInv'
  BY TypeOwner DEF KeyInv
<1> SUFFICES KeyFacts' /\ NoThreadNoItem'
  BY <1>1 DEF KeyInv, KeyFacts
<1> USE DEF queueVars, clientVars, workerVars
<1>2. ASSUME NEW n \in Workers, GrowThreads(n) PROVE KeyFacts' /\ NoThreadNoItem'
  <2>1. /\ pending = <<>> /\ \A w \in Workers : item[w] = NoItem
        /\ \A c \in Clients : cpc[c] = "ready"
        /\ UNCHANGED <<pending, item, cpc>>
    BY <1>2 DEF GrowThreads, Idle
  <2>2. KeyFacts'
    BY <2>1 DEF KeyFacts, KeyHeldOnce, KeyAwaited, RoomAwaited
  <2>3. NoThreadNoItem'
    <3>1. numThreads \in Workers /\ n > numThreads /\ numThreads' = n
      BY <1>2 DEF GrowThreads, KeyInv, TypeInv, TypeOK, Workers
    <3>2. wpc' = [w \in Workers |-> IF w \in (numThreads + 1)..n THEN "start" ELSE wpc[w]]
      BY <1>2 DEF GrowThreads
    <3>3. ASSUME NEW w \in Workers, w > n PROVE wpc'[w] = "off" /\ item'[w] = NoItem
      BY <2>1, <3>1, <3>2, <3>3 DEF KeyInv, NoThreadNoItem, Workers
    <3>4. \A w \in Workers : w > numThreads' => wpc'[w] = "off" /\ item'[w] = NoItem
      BY <3>1, <3>3
    <3> QED BY <3>4 DEF NoThreadNoItem
  <2> QED BY <2>2, <2>3
<1>3. CASE UNCHANGED <<pending, item, numThreads, cpc, req>> /\ (wpc' = NotifyAllNext \/ UNCHANGED wpc)
  <2>1. KeyFacts'
    BY <1>3, ItemsStay
  <2>2. NoThreadNoItem'
    BY <1>3 DEF NotifyAllNext, KeyInv, NoThreadNoItem
  <2> QED BY <2>1, <2>2
<1>4. CASE /\ ShrinkJoin /\ numThreads' = shrink.to
           /\ item' = [w \in Workers |-> IF w > shrink.to THEN NoItem ELSE item[w]]
           /\ wpc' = [w \in Workers |-> IF w > shrink.to THEN "off" ELSE wpc[w]]
  <2>1. NoThreadNoItem'
    BY <1>4 DEF NoThreadNoItem
  <2>2. UNCHANGED <<pending, cpc, req>>
    BY <1>4 DEF ShrinkJoin
  <2>3. shrink.to > 1 => numThreads > 1
    <3>1. shrink.to < numThreads /\ shrink.to \in Workers /\ numThreads \in Workers
      BY <1>4 DEF ShrinkJoin, KeyInv, TypeInv, TypeOK, ShrinkHasGoal
    <3> QED BY <3>1, ConstantsAssumption DEF Workers
  <2>4. \A w \in Workers : item'[w] # NoItem => item'[w] = item[w]
    BY <1>4
  <2>5. KeyHeldOnce'
    BY <1>4, <2>2, <2>3, <2>4 DEF KeyInv, KeyHeldOnce
  <2>6. KeyAwaited' /\ RoomAwaited'
    BY <1>4, <2>2, <2>3, <2>4 DEF KeyInv, KeyAwaited, RoomAwaited, Pends
  <2> QED BY <2>1, <2>5, <2>6 DEF KeyFacts
<1>5. ASSUME NEW w, Interrupt(w) PROVE wpc' = NotifyAllNext \/ UNCHANGED wpc
  BY <1>5 DEF Interrupt
<1>6. ASSUME NEW n \in Workers, ShrinkThreads(n) PROVE KeyFacts' /\ NoThreadNoItem'
  BY <1>3, <1>5, <1>6 DEF ShrinkThreads
<1>7. CASE ShrinkJoin
  BY <1>3, <1>4, <1>5, <1>7 DEF ShrinkJoin
<1>8. CASE Destroy \/ DestroyNotify \/ DestroyJoin
  BY <1>3, <1>8 DEF Destroy, DestroyNotify, DestroyJoin
<1> QED BY <1>2, <1>6, <1>7, <1>8 DEF OwnerCall, OwnerContinues

LEMMA KeyStep ==
  ASSUME KeyInv, OneClient, IdleResize, [Next]_vars
  PROVE  KeyInv'
<1>1. CASE SpuriousWakeUp
  <2>1. KeyFacts'
    BY <1>1, ItemsStay DEF SpuriousWakeUp, queueVars, ownerVars
  <2>2. NoThreadNoItem'
    BY <1>1 DEF SpuriousWakeUp, Goto, KeyInv, NoThreadNoItem, TypeInv, TypeOK, ownerVars
  <2> QED BY <1>1, <2>1, <2>2, TypeSpurious DEF KeyInv, KeyFacts
<1>2. CASE UNCHANGED vars
  <2>1. KeyFacts' /\ NoThreadNoItem'
    BY <1>2, ItemsStay
       DEF KeyInv, NoThreadNoItem, vars, queueVars, workerVars, clientVars, ownerVars
  <2> QED BY <1>2, <2>1, TypeStutter DEF KeyInv, KeyFacts
<1> QED BY <1>1, <1>2, KeyWorker, KeyClient, KeyOwner DEF Next, Rest

\* One client, resizing on an idle queue: with several workers a key is pending, or being
\* serialized, at most once.
THEOREM KeysHeldOnce ==
  ASSUME OneClient, IdleResize
  PROVE  Spec => []KeyHeldOnce
<1>1. KeyInv /\ [Next]_vars => KeyInv'
  BY KeyStep
<1>2. KeyInv => KeyHeldOnce
  BY DEF KeyInv
<1> QED BY <1>1, <1>2, KeyInit, PTL DEF Spec

\* Hence no two workers serialize the same target in parallel.
THEOREM NoTwoWriters ==
  ASSUME OneClient, IdleResize
  PROVE  Spec => []NoParallelWrites
<1>1. KeyInv /\ [Next]_vars => KeyInv'
  BY KeyStep
<1>2. KeyInv => NoParallelWrites
  <2> SUFFICES ASSUME KeyInv, NEW v \in Workers, NEW w \in Workers, v # w,
                      wpc[v] = "serialize", wpc[w] = "serialize"
               PROVE  item[v].key # item[w].key
    BY DEF NoParallelWrites
  <2>1. item[v] # NoItem /\ item[w] # NoItem
    BY DEF KeyInv, TypeInv, AtWorkHasItem
  <2>2. v <= numThreads /\ w <= numThreads
    BY DEF KeyInv, NoThreadNoItem, TypeInv, TypeOK, Workers
  <2>3. numThreads > 1
    BY <2>2 DEF KeyInv, TypeInv, TypeOK, Workers
  <2> QED BY <2>1, <2>3 DEF KeyInv, KeyHeldOnce
<1> QED BY <1>1, <1>2, KeyInit, PTL DEF Spec

-----------------------------------------------------------------------------
(* The order of the items.                                                  *)

\* Two items are written in the order of their acceptance if they have the same target, or
\* if there is one worker.
Related(k, j) == k = j \/ MaxThreads = 1

\* The items pass the queue and the workers in the order of their acceptance.
QueueOrdered ==
  \A i, j \in 1..Len(pending) :
    i < j /\ Related(pending[i].key, pending[j].key) => pending[i].id < pending[j].id
HeldOrdered ==
  \A w \in Workers, i \in 1..Len(pending) :
    item[w] # NoItem /\ Related(item[w].key, pending[i].key) => item[w].id < pending[i].id
DiskBehindQueue ==
  \A k \in Keys, i \in 1..Len(pending) : Related(k, pending[i].key) => disk[k] < pending[i].id
DiskBehindHeld ==
  \A w \in Workers, k \in Keys :
    item[w] # NoItem /\ Related(item[w].key, k)
      => disk[k] <= item[w].id /\ (wpc[w] = "serialize" => disk[k] < item[w].id)
FinishedOnDisk == \A w \in Workers : wpc[w] = "finish" => disk[item[w].key] = item[w].id

Ordered == QueueOrdered /\ HeldOrdered /\ DiskBehindQueue /\ DiskBehindHeld /\ FinishedOnDisk

\* No value was invented.
Accepted ==
  /\ \A i \in 1..Len(pending) : pending[i].id \in 1..lastId
  /\ \A w \in Workers : item[w] # NoItem => item[w].id \in 1..lastId
  /\ \A k \in Keys : disk[k] <= lastId

\* A target has one worker.
SoleHolder ==
  \A v, w \in Workers :
    item[v] # NoItem /\ item[w] # NoItem /\ item[v].key = item[w].key => v = w

\* What is known about the places of the items without their order.
Placed == TypeInv /\ AtRest /\ NoThreadNoItem /\ SoleHolder /\ ShrinksIdle

PromiseInv == Ordered /\ Accepted

-----------------------------------------------------------------------------
(* The value a reader of k finds is the newest of those on their way to k.   *)

LatestOf(k) == IF FindPending(k) # 0 THEN FindPending(k) ELSE disk[k]

OnItsWay(k, n) ==
  \/ n = disk[k]
  \/ \E i \in 1..Len(pending) : pending[i].key = k /\ pending[i].id = n
  \/ \E w \in Workers : item[w] # NoItem /\ item[w].key = k /\ item[w].id = n

\* A set of positions that is not empty has a greatest element.
LEMMA GreatestOf ==
  ASSUME NEW n \in Nat, NEW S, S \subseteq 1..n, S # {} PROVE \E x \in S : \A y \in S : y <= x
<1> DEFINE T == {n - i : i \in S}
<1>1. T \subseteq Nat
  BY \A i \in S : n - i \in Nat
<1>2. T # {}
  OBVIOUS
<1>3. PICK x \in T : \A y \in T : x <= y
  BY <1>1, <1>2, LeastNat
<1>4. PICK i \in S : x = n - i
  OBVIOUS
<1>5. \A j \in S : n - i <= n - j
  BY <1>3, <1>4
<1> QED BY <1>5

LEMMA LatestIsNewest ==
  Placed /\ PromiseInv => \A k \in Keys :
    LatestOf(k) \in Nat /\ OnItsWay(k, LatestOf(k)) /\ \A n : OnItsWay(k, n) => n <= LatestOf(k)
<1> SUFFICES ASSUME Placed, PromiseInv, NEW k \in Keys
             PROVE  LatestOf(k) \in Nat /\ OnItsWay(k, LatestOf(k)) /\ \A n : OnItsWay(k, n) => n <= LatestOf(k)
  OBVIOUS
<1> USE DEF Placed, PromiseInv
<1>1. /\ Len(pending) \in Nat /\ lastId \in Nat /\ disk[k] \in Nat
      /\ \A i \in 1..Len(pending) : pending[i].id \in Nat \ {0}
      /\ \A w \in Workers : item[w] # NoItem => item[w].id \in Nat \ {0}
  BY DEF TypeInv, TypeOK, Accepted
<1>2. CASE PendingAt(k) # {}
  <2>1. PendingAt(k) \subseteq 1..Len(pending) BY DEF PendingAt
  <2>2. \E i \in PendingAt(k) : \A j \in PendingAt(k) : j <= i
    BY <1>1, <1>2, <2>1, GreatestOf
  <2> DEFINE m == CHOOSE i \in PendingAt(k) : \A j \in PendingAt(k) : j <= i
  <2>3. m \in PendingAt(k) /\ \A j \in PendingAt(k) : j <= m
    BY <2>2
  <2>4. FindPending(k) = pending[m].id
    BY <1>2 DEF FindPending
  <2> HIDE DEF m
  <2>5. m \in 1..Len(pending) /\ pending[m].key = k
    BY <2>3 DEF PendingAt
  <2>6. LatestOf(k) = pending[m].id
    BY <1>1, <2>4, <2>5 DEF LatestOf
  <2>7. disk[k] <= pending[m].id
    BY <1>1, <2>5 DEF Ordered, QueueOrdered, HeldOrdered, DiskBehindQueue, DiskBehindHeld, Related
  <2>8. ASSUME NEW i \in 1..Len(pending), pending[i].key = k PROVE pending[i].id <= pending[m].id
    <3>1. i <= m BY <2>3, <2>8 DEF PendingAt
    <3>2. CASE i = m BY <3>2, <2>5, <1>1
    <3>3. CASE i < m BY <3>3, <2>5, <2>8, <1>1 DEF Ordered, QueueOrdered, HeldOrdered, DiskBehindQueue, DiskBehindHeld, Related
    <3> QED BY <3>1, <3>2, <3>3, <2>5, <1>1
  <2>9. ASSUME NEW w \in Workers, item[w] # NoItem, item[w].key = k PROVE item[w].id <= pending[m].id
    BY <1>1, <2>5, <2>9 DEF Ordered, QueueOrdered, HeldOrdered, DiskBehindQueue, DiskBehindHeld, Related
  <2> QED BY <1>1, <2>5, <2>6, <2>7, <2>8, <2>9 DEF OnItsWay
<1>3. CASE PendingAt(k) = {} /\ \E w \in 1..numThreads : Processes(w, k)
  <2>1. PICK w \in 1..numThreads : Processes(w, k)
    BY <1>3
  <2>2. w \in Workers /\ item[w] # NoItem /\ item[w].key = k
    BY <2>1, ConstantsAssumption DEF Processes, Workers, TypeInv, TypeOK
  <2>3. \A v \in Workers : item[v] # NoItem /\ item[v].key = k => v = w
    BY <2>2 DEF SoleHolder
  <2>4. \A v \in 1..numThreads : v \in Workers
    BY ConstantsAssumption DEF Workers, TypeInv, TypeOK
  <2>5. \A v \in 1..(w - 1) : ~Processes(v, k)
    <3>1. \A v \in 1..(w - 1) : v \in 1..numThreads /\ v # w BY <2>1 DEF Workers, TypeInv, TypeOK
    <3> QED BY <3>1, <2>3, <2>4 DEF Processes
  <2> DEFINE m == CHOOSE v \in 1..numThreads : Processes(v, k) /\ \A u \in 1..(v - 1) : ~Processes(u, k)
  <2>6. m \in 1..numThreads /\ Processes(m, k)
    BY <2>1, <2>5
  <2>7. m = w
    BY <2>3, <2>4, <2>6 DEF Processes
  <2>8. FindPending(k) = item[w].id
    BY <1>3, <2>7 DEF FindPending
  <2>9. LatestOf(k) = item[w].id
    BY <1>1, <2>2, <2>8 DEF LatestOf
  <2>10. disk[k] <= item[w].id
    BY <2>2 DEF Ordered, QueueOrdered, HeldOrdered, DiskBehindQueue, DiskBehindHeld, Related
  <2>11. \A i \in 1..Len(pending) : pending[i].key # k
    BY <1>3 DEF PendingAt
  <2>12. \A n : OnItsWay(k, n) => n = disk[k] \/ n = item[w].id
    BY <2>3, <2>11 DEF OnItsWay
  <2>13. OnItsWay(k, item[w].id)
    BY <2>2 DEF OnItsWay
  <2> QED BY <1>1, <2>2, <2>9, <2>10, <2>12, <2>13
<1>4. CASE PendingAt(k) = {} /\ ~\E w \in 1..numThreads : Processes(w, k)
  <2>1. LatestOf(k) = disk[k] BY <1>4 DEF LatestOf, FindPending
  <2>2. \A i \in 1..Len(pending) : pending[i].key # k BY <1>4 DEF PendingAt
  <2>3. \A w \in Workers : ~(item[w] # NoItem /\ item[w].key = k)
    BY <1>4 DEF NoThreadNoItem, Processes, TypeInv, TypeOK, Workers
  <2> QED BY <1>1, <2>1, <2>2, <2>3 DEF OnItsWay
<1> QED BY <1>2, <1>3, <1>4

-----------------------------------------------------------------------------
(* Placed holds in every state of the supposed use.                          *)

\* One worker, or the use that KeysHeldOnce is about.
SupposedUse == (OneClient /\ IdleResize) \/ MaxThreads = 1

LEMMA PlacedAlways == ASSUME SupposedUse PROVE Spec => []Placed
<1> DEFINE Keeps == KeyHeldOnce \/ MaxThreads = 1
<1>1. Spec => []Keeps
  <2>1. CASE OneClient /\ IdleResize
    <3>1. KeyHeldOnce => Keeps OBVIOUS
    <3>2. Spec => []KeyHeldOnce BY <2>1, KeysHeldOnce
    <3> HIDE DEF Keeps
    <3> QED BY <3>1, <3>2, PTL
  <2>2. CASE MaxThreads = 1
    <3>1. Keeps BY <2>2
    <3>2. Init => Keeps BY <3>1
    <3>3. Keeps' BY <2>2
    <3>4. Keeps /\ [Next]_vars => Keeps' BY <3>3
    <3> HIDE DEF Keeps
    <3> QED BY <3>2, <3>4, PTL DEF Spec
  <2> QED BY <2>1, <2>2 DEF SupposedUse
<1>2. Spec => []ShrinksIdle
  <2>1. Init => ShrinksIdle BY DEF Init, ShrinksIdle
  <2>2. TypeInv /\ ShrinksIdle /\ [Next]_vars => ShrinksIdle' BY ShrinkStep DEF SupposedUse, ResizesIdle
  <2> QED BY <2>1, <2>2, RestAlways, PTL DEF Spec
<1>3. Keeps /\ ShrinksIdle /\ TypeInv /\ AtRest => Placed
  <2> SUFFICES ASSUME Keeps, ShrinksIdle, TypeInv, AtRest PROVE NoThreadNoItem /\ SoleHolder
    BY DEF Placed
  <2>1. NoThreadNoItem
    BY DEF AtRest, NoThreadNoItem
  <2>2. CASE numThreads > 1 /\ KeyHeldOnce
    BY <2>1, <2>2, Zenon DEF KeyHeldOnce, SoleHolder
  <2>3. CASE ~(numThreads > 1) \/ MaxThreads = 1
    <3>1. \A w \in Workers : item[w] # NoItem => w = 1
      BY <2>1, <2>3 DEF NoThreadNoItem, TypeInv, TypeOK, Workers
    <3>2. \A v, w \in Workers : item[v] # NoItem /\ item[w] # NoItem => v = w
      BY <3>1
    <3> QED BY <2>1, <3>2, Zenon DEF SoleHolder
  <2> QED BY <2>1, <2>2, <2>3
<1> HIDE DEF Keeps
<1> QED BY <1>1, <1>2, <1>3, RestAlways, PTL

-----------------------------------------------------------------------------
(* What a step can do to the items: the seven effects.                       *)

SteadyAt(w) ==
  item'[w] = item[w] /\ (wpc'[w] = wpc[w] \/ wpc'[w] \notin {"serialize", "finish"})
Steady == \A w \in Workers : SteadyAt(w)
SteadyBut(w) == \A v \in Workers \ {w} : SteadyAt(v)

Rests == UNCHANGED <<pending, disk, lastId>> /\ Steady
Takes(w) ==
  /\ pending # <<>> /\ pending' = Tail(pending)
  /\ item[w] = NoItem \/ wpc[w] = "finish"
  /\ item'[w] = Head(pending) /\ wpc'[w] = "serialize"
  /\ SteadyBut(w) /\ UNCHANGED <<disk, lastId>>
Drops(w) ==
  /\ wpc[w] = "finish" /\ wpc'[w] \notin {"serialize", "finish"}
  /\ item'[w] = NoItem
  /\ SteadyBut(w) /\ UNCHANGED <<pending, disk, lastId>>
Writes(w) ==
  /\ wpc[w] = "serialize" /\ wpc'[w] = "finish"
  /\ disk' = [disk EXCEPT ![item[w].key] = item[w].id]
  /\ SteadyBut(w) /\ UNCHANGED <<pending, item, lastId>>
Adds(k) ==
  /\ \E s \in Sizes : pending' = Append(pending, [key |-> k, size |-> s, id |-> lastId + 1])
  /\ lastId' = lastId + 1
  /\ Steady /\ UNCHANGED disk
Replaces(k) ==
  /\ MaxThreads # 1
  /\ \E i \in PendingAt(k), s \in Sizes :
       /\ \A j \in PendingAt(k) : j <= i
       /\ pending' = [pending EXCEPT ![i] = [key |-> k, size |-> s, id |-> lastId + 1]]
  /\ lastId' = lastId + 1
  /\ Steady /\ UNCHANGED disk
ClearsLast ==
  /\ pending # <<>> /\ pending' = Front(pending)
  /\ Steady /\ UNCHANGED <<disk, lastId>>

Effect ==
  \/ Rests \/ ClearsLast
  \/ \E w \in Workers : Takes(w) \/ Drops(w) \/ Writes(w)
  \/ \E k \in Keys : Adds(k) \/ Replaces(k)

LEMMA WorkerEffect ==
  ASSUME TypeInv, AtRest, NEW w \in Workers, WorkerStep(w) PROVE Effect
<1> USE DEF Goto, queueVars
<1>1. /\ item \in [Workers -> Entries \cup {NoItem}] /\ wpc \in [Workers -> WorkerPlaces]
  BY DEF TypeInv, TypeOK
<1>2. CASE Take(w) /\ (item[w] = NoItem \/ wpc[w] = "finish") /\ UNCHANGED <<disk, lastId>>
  <2>1. Takes(w)
    BY <1>1, <1>2 DEF Take, Takes, SteadyBut, SteadyAt
  <2> QED BY <2>1 DEF Effect
<1>3. ASSUME NEW p, wpc' = [wpc EXCEPT ![w] = p], p \notin {"serialize", "finish"},
             UNCHANGED <<pending, disk, lastId, item>>
      PROVE  Effect
  <2>1. Rests
    BY <1>1, <1>3 DEF Rests, Steady, SteadyAt
  <2> QED BY <2>1 DEF Effect
<1>4. CASE Begin(w)
  <2>1. /\ wpc' = [wpc EXCEPT ![w] = "test"] /\ "test" \notin {"serialize", "finish"}
        /\ UNCHANGED <<pending, disk, lastId, item>>
    BY <1>4 DEF Begin
  <2> QED BY <2>1, <1>3
<1>5. CASE TestExit(w)
  <2>1. (IF wantsExit THEN "ended" ELSE "loop") \notin {"serialize", "finish"} OBVIOUS
  <2> QED BY <1>3, <1>5, <2>1 DEF TestExit
<1>6. CASE LookForWork(w)
  <2>1. (IF interrupted[w] THEN "ended" ELSE "asleep") \notin {"serialize", "finish"} OBVIOUS
  <2> QED BY <1>2, <1>3, <1>6, <2>1 DEF LookForWork, AtRest
<1>7. CASE WakeUp(w)
  <2>1. (IF interrupted[w] THEN "ended" ELSE "test") \notin {"serialize", "finish"} OBVIOUS
  <2> QED BY <1>2, <1>3, <1>7, <2>1 DEF WakeUp, AtRest
<1>8. CASE Serialize(w)
  <2>1. CASE /\ disk' = [disk EXCEPT ![item[w].key] = item[w].id]
             /\ Goto(w, "finish")
    <3>1. Writes(w)
      BY <1>1, <1>8, <2>1 DEF Serialize, Writes, SteadyBut, SteadyAt
    <3> QED BY <3>1 DEF Effect
  <2>2. CASE Goto(w, "failed") /\ UNCHANGED disk
    <3>1. /\ wpc' = [wpc EXCEPT ![w] = "failed"] /\ "failed" \notin {"serialize", "finish"}
          /\ UNCHANGED <<pending, disk, lastId, item>>
      BY <1>8, <2>2 DEF Serialize
    <3> QED BY <3>1, <1>3
  <2> QED BY <1>8, <2>1, <2>2 DEF Serialize
<1>9. CASE Finish(w)
  <2>1. CASE Take(w)
    BY <1>2, <1>9, <2>1 DEF Finish
  <2>2. CASE /\ item' = [item EXCEPT ![w] = NoItem]
             /\ Goto(w, IF interrupted[w] THEN "ended" ELSE "test")
             /\ UNCHANGED pending
    <3>1. (IF interrupted[w] THEN "ended" ELSE "test") \notin {"serialize", "finish"} OBVIOUS
    <3>2. Drops(w)
      BY <1>1, <1>9, <2>2, <3>1 DEF Finish, Drops, SteadyBut, SteadyAt
    <3> QED BY <3>2 DEF Effect
  <2> QED BY <1>9, <2>1, <2>2 DEF Finish
<1>10. CASE Fail(w)
  <2>1. /\ wpc' = [wpc EXCEPT ![w] = "ended"] /\ "ended" \notin {"serialize", "finish"}
        /\ UNCHANGED <<pending, disk, lastId, item>>
    BY <1>10 DEF Fail
  <2> QED BY <2>1, <1>3
<1> QED BY <1>4, <1>5, <1>6, <1>7, <1>8, <1>9, <1>10 DEF WorkerStep

\* Waking sleepers leaves the workers where they were.
LEMMA NotifySteady ==
  ASSUME TypeInv, UNCHANGED item, NotifyNext \/ wpc' = NotifyAllNext \/ UNCHANGED wpc
  PROVE  Steady
<1>1. wpc \in [Workers -> WorkerPlaces]
  BY DEF TypeInv, TypeOK
<1>2. \A w \in Workers : wpc'[w] = wpc[w] \/ wpc'[w] = "woken"
  BY <1>1 DEF NotifyNext, NotifyAllNext
<1> QED BY <1>2 DEF Steady, SteadyAt

LEMMA ClientEffect ==
  ASSUME TypeInv, NEW c \in Clients, ClientCall(c) \/ ClientContinues(c) PROVE Effect
<1>1. Steady /\ UNCHANGED disk
  <2>1. UNCHANGED <<item, disk>> /\ (NotifyNext \/ UNCHANGED wpc)
    BY DEF ClientCall, ClientContinues, Enqueue, TryEnqueue, ResumeKey, ResumeRoom, AwaitRoom,
           Push, Replace, SetCapacity, ResumeCapacity, WaitForIdle, ResumeIdle, Clear, ClearLoop,
           workerVars, ownerVars
  <2> QED BY <2>1, NotifySteady
<1>2. ASSUME NEW k \in Keys, NEW s \in Sizes, Push(k, s) PROVE Effect
  <2>1. Adds(k) BY <1>1, <1>2 DEF Push, Adds
  <2> QED BY <2>1 DEF Effect
<1>3. ASSUME NEW k \in Keys, NEW s \in Sizes, Replace(k, s), MultipleWorkers PROVE Effect
  <2>1. MaxThreads # 1
    BY <1>3 DEF MultipleWorkers, TypeInv, TypeOK, Workers
  <2>2. Replaces(k) BY <1>1, <1>3, <2>1 DEF Replace, Replaces
  <2> QED BY <2>2 DEF Effect
<1>4. CASE UNCHANGED <<pending, lastId>>
  BY <1>1, <1>4 DEF Effect, Rests
<1>5. ASSUME NEW k \in Keys, NEW s \in Sizes, Enqueue(c, k, s) \/ TryEnqueue(c, k, s) PROVE Effect
  <2>1. \/ Push(k, s)
        \/ Replace(k, s) /\ MultipleWorkers
        \/ UNCHANGED <<pending, lastId>>
    BY <1>5 DEF Enqueue, TryEnqueue, AwaitRoom
  <2> QED BY <2>1, <1>2, <1>3, <1>4
<1>6. CASE ResumeKey(c) \/ ResumeRoom(c)
  <2>1. Push(req[c].key, req[c].size) \/ UNCHANGED <<pending, lastId>>
    BY <1>6 DEF ResumeKey, ResumeRoom, AwaitRoom
  <2>2. req[c].key \in Keys /\ req[c].size \in Sizes
    BY DEF TypeInv, TypeOK
  <2> QED BY <2>1, <2>2, <1>2, <1>4
<1>7. CASE ClearLoop(c) /\ pending # <<>>
  <2>1. ClearsLast BY <1>1, <1>7 DEF ClearLoop, ClearsLast
  <2> QED BY <2>1 DEF Effect
<1>8. CASE \/ ClearLoop(c) /\ pending = <<>>
           \/ ResumeCapacity(c) \/ ResumeIdle(c) \/ WaitForIdle(c) \/ Clear(c)
           \/ \E n \in Capacities, b \in BOOLEAN : SetCapacity(c, n, b)
  BY <1>4, <1>8 DEF ClearLoop, ResumeCapacity, ResumeIdle, WaitForIdle, Clear, SetCapacity, queueVars
<1> QED BY <1>5, <1>6, <1>7, <1>8 DEF ClientCall, ClientContinues

LEMMA OwnerEffect ==
  ASSUME Placed, OwnerCall \/ OwnerContinues PROVE Effect
<1> USE DEF workerVars, queueVars
<1>1. SUFFICES Steady /\ UNCHANGED <<pending, disk, lastId>>
  BY DEF Effect, Rests
<1>2. UNCHANGED <<pending, disk, lastId>>
  BY DEF OwnerCall, OwnerContinues, GrowThreads, ShrinkThreads, ShrinkJoin, Destroy, DestroyNotify,
         DestroyJoin
<1>3. wpc \in [Workers -> WorkerPlaces] /\ TypeInv
  BY DEF Placed, TypeInv, TypeOK
<1>4. ASSUME NEW n \in Workers, GrowThreads(n) PROVE Steady
  BY <1>3, <1>4 DEF GrowThreads, Steady, SteadyAt
<1>5. ASSUME NEW w, Interrupt(w), UNCHANGED item PROVE Steady
  BY <1>3, <1>5, NotifySteady DEF Interrupt
<1>6. ASSUME NEW n \in Workers, ShrinkThreads(n) PROVE Steady
  BY <1>5, <1>6 DEF ShrinkThreads
<1>7. CASE ShrinkJoin
  <2>1. CASE Interrupt(shrink.at + 1) /\ UNCHANGED item
    BY <1>2, <1>5, <2>1
  <2>2. CASE /\ item' = [w \in Workers |-> IF w > shrink.to THEN NoItem ELSE item[w]]
             /\ wpc' = [w \in Workers |-> IF w > shrink.to THEN "off" ELSE wpc[w]]
    <3>1. \A w \in Workers : item[w] = NoItem
      BY <1>7 DEF ShrinkJoin, Placed, ShrinksIdle, Idle
    <3> QED BY <1>2, <2>2, <3>1 DEF Steady, SteadyAt
  <2> QED BY <1>7, <2>1, <2>2 DEF ShrinkJoin
<1>8. CASE Destroy \/ DestroyNotify \/ DestroyJoin
  BY <1>3, <1>8, NotifySteady DEF Destroy, DestroyNotify, DestroyJoin
<1> QED BY <1>2, <1>4, <1>6, <1>7, <1>8 DEF OwnerCall, OwnerContinues

LEMMA StepEffect == ASSUME Placed, [Next]_vars PROVE Effect
<1>1. TypeInv /\ AtRest
  BY DEF Placed
<1>2. CASE SpuriousWakeUp
  <2>1. UNCHANGED <<item, pending, disk, lastId>>
    BY <1>2 DEF SpuriousWakeUp, queueVars
  <2>2. wpc \in [Workers -> WorkerPlaces]
    BY <1>1 DEF TypeInv, TypeOK
  <2>3. Steady
    BY <1>2, <2>1, <2>2 DEF SpuriousWakeUp, Goto, Steady, SteadyAt
  <2> QED BY <2>1, <2>3 DEF Effect, Rests
<1>3. CASE UNCHANGED vars
  BY <1>3 DEF vars, queueVars, workerVars, Effect, Rests, Steady, SteadyAt
<1> QED BY <1>1, <1>2, <1>3, WorkerEffect, ClientEffect, OwnerEffect DEF Next, Rest

-----------------------------------------------------------------------------
(* Each effect keeps the order of the items.                                 *)

\* What the types say of the items.
LEMMA ItemTypes ==
  Placed =>
    /\ pending \in Seq(Entries) /\ Len(pending) \in Nat
    /\ \A i \in 1..Len(pending) :
         pending[i] \in Entries /\ pending[i].id \in Int /\ pending[i].key \in Keys
    /\ \A w \in Workers :
         item[w] # NoItem => item[w] \in Entries /\ item[w].id \in Int /\ item[w].key \in Keys
    /\ \A w \in Workers : wpc[w] \in {"serialize", "finish"} => item[w] # NoItem
    /\ lastId \in Nat /\ disk \in [Keys -> Nat] /\ \A k \in Keys : disk[k] \in Int
<1> SUFFICES ASSUME TypeInv
             PROVE  /\ pending \in Seq(Entries) /\ Len(pending) \in Nat
                    /\ \A i \in 1..Len(pending) : pending[i] \in Entries
                    /\ \A w \in Workers : item[w] # NoItem => item[w] \in Entries
                    /\ \A w \in Workers : wpc[w] \in {"serialize", "finish"} => item[w] # NoItem
                    /\ lastId \in Nat /\ disk \in [Keys -> Nat] /\ \A k \in Keys : disk[k] \in Int
  <2>1. \A e \in Entries : e.id \in Int /\ e.key \in Keys
    BY DEF Entries
  <2> QED BY <2>1 DEF Placed
<1>1. pending \in Seq(Entries) /\ item \in [Workers -> Entries \cup {NoItem}]
  BY DEF TypeInv, TypeOK
<1>2. Len(pending) \in Nat /\ \A i \in 1..Len(pending) : pending[i] \in Entries
  BY <1>1
<1>3. \A w \in Workers : wpc[w] \in {"serialize", "finish"} => item[w] # NoItem
  BY DEF TypeInv, AtWorkHasItem
<1>4. lastId \in Nat /\ disk \in [Keys -> Nat] /\ \A k \in Keys : disk[k] \in Int
  BY DEF TypeInv, TypeOK
<1> QED BY <1>1, <1>2, <1>3, <1>4

LEMMA RestsOrdered == ASSUME Placed, PromiseInv, Rests PROVE PromiseInv'
<1>1. \A w \in Workers : item'[w] = item[w] /\ (wpc'[w] = wpc[w] \/ wpc'[w] \notin {"serialize", "finish"})
  BY DEF Rests, Steady, SteadyAt
<1>2. UNCHANGED <<pending, disk, lastId>>
  BY DEF Rests
<1> QED BY <1>1, <1>2
        DEF PromiseInv, Ordered, QueueOrdered, HeldOrdered, DiskBehindQueue, DiskBehindHeld,
            FinishedOnDisk, Accepted

LEMMA DropsOrdered == ASSUME Placed, PromiseInv, NEW w \in Workers, Drops(w) PROVE PromiseInv'
<1>1. \A v \in Workers : v # w =>
        item'[v] = item[v] /\ (wpc'[v] = wpc[v] \/ wpc'[v] \notin {"serialize", "finish"})
  BY DEF Drops, SteadyBut, SteadyAt
<1>2. /\ UNCHANGED <<pending, disk, lastId>>
      /\ item'[w] = NoItem /\ wpc'[w] \notin {"serialize", "finish"}
  BY DEF Drops
<1> QED BY <1>1, <1>2
        DEF PromiseInv, Ordered, QueueOrdered, HeldOrdered, DiskBehindQueue, DiskBehindHeld,
            FinishedOnDisk, Accepted

LEMMA TakesOrdered == ASSUME Placed, PromiseInv, NEW w \in Workers, Takes(w) PROVE PromiseInv'
<1>1. \A v \in Workers : v # w =>
        item'[v] = item[v] /\ (wpc'[v] = wpc[v] \/ wpc'[v] \notin {"serialize", "finish"})
  BY DEF Takes, SteadyBut, SteadyAt
<1>2. /\ UNCHANGED <<disk, lastId>>
      /\ item'[w] = Head(pending) /\ wpc'[w] = "serialize"
      /\ pending # <<>> /\ pending' = Tail(pending)
  BY DEF Takes
<1>3. /\ Len(pending') = Len(pending) - 1 /\ Len(pending) \in Nat \ {0}
      /\ \A i \in 1..Len(pending') : i + 1 \in 1..Len(pending) /\ pending'[i] = pending[i + 1]
      /\ 1 \in 1..Len(pending) /\ Head(pending) = pending[1]
  BY <1>2, ItemTypes
<1>4. QueueOrdered'
  <2> SUFFICES ASSUME NEW i \in 1..Len(pending'), NEW j \in 1..Len(pending'), i < j,
                      Related(pending[i + 1].key, pending[j + 1].key)
               PROVE  pending[i + 1].id < pending[j + 1].id
    BY <1>3 DEF QueueOrdered, Related
  <2>1. i + 1 \in 1..Len(pending) /\ j + 1 \in 1..Len(pending) /\ i + 1 < j + 1
    BY <1>3
  <2> QED BY <2>1 DEF PromiseInv, Ordered, QueueOrdered
<1>5. HeldOrdered'
  BY <1>1, <1>2, <1>3 DEF PromiseInv, Ordered, QueueOrdered, HeldOrdered
<1>6. DiskBehindQueue'
  BY <1>2, <1>3 DEF PromiseInv, Ordered, DiskBehindQueue
<1>7. DiskBehindHeld'
  <2>1. \A k \in Keys : Related(pending[1].key, k) => disk[k] < pending[1].id
    BY <1>3 DEF PromiseInv, Ordered, DiskBehindQueue, Related
  <2>2. \A k \in Keys : disk[k] \in Int /\ pending[1].id \in Int
    BY <1>3, ItemTypes
  <2> QED BY <1>1, <1>2, <1>3, <2>1, <2>2 DEF PromiseInv, Ordered, DiskBehindHeld
<1>8. FinishedOnDisk'
  BY <1>1, <1>2 DEF PromiseInv, Ordered, FinishedOnDisk
<1>9. Accepted'
  BY <1>1, <1>2, <1>3 DEF PromiseInv, Accepted
<1> QED BY <1>4, <1>5, <1>6, <1>7, <1>8, <1>9 DEF PromiseInv, Ordered

LEMMA WritesOrdered == ASSUME Placed, PromiseInv, NEW w \in Workers, Writes(w) PROVE PromiseInv'
<1>1. \A v \in Workers : v # w => wpc'[v] = wpc[v] \/ wpc'[v] \notin {"serialize", "finish"}
  BY DEF Writes, SteadyBut, SteadyAt
<1>2. /\ UNCHANGED <<pending, item, lastId>>
      /\ wpc[w] = "serialize" /\ wpc'[w] = "finish"
      /\ disk' = [disk EXCEPT ![item[w].key] = item[w].id]
  BY DEF Writes
<1>3. /\ item[w] # NoItem /\ item[w].key \in Keys /\ item[w].id \in Int
      /\ \A k \in Keys : disk'[k] = IF k = item[w].key THEN item[w].id ELSE disk[k]
      /\ \A k \in Keys : disk[k] \in Int
  BY <1>2, ItemTypes
<1>4. \A v \in Workers : item[v] # NoItem /\ Related(item[v].key, item[w].key) => v = w
  BY <1>3 DEF Placed, SoleHolder, Related, Workers
<1>5. QueueOrdered' BY <1>2 DEF PromiseInv, Ordered, QueueOrdered
<1>6. HeldOrdered' BY <1>2 DEF PromiseInv, Ordered, HeldOrdered
<1>7. DiskBehindQueue'
  BY <1>2, <1>3 DEF PromiseInv, Ordered, DiskBehindQueue, HeldOrdered
<1>8. DiskBehindHeld'
  BY <1>1, <1>2, <1>3, <1>4 DEF PromiseInv, Ordered, DiskBehindHeld, Related
<1>9. FinishedOnDisk'
  <2>1. \A v \in Workers : wpc[v] = "finish" => item[v] # NoItem /\ item[v].key \in Keys
    BY ItemTypes
  <2>2. \A v \in Workers : v # w /\ wpc[v] = "finish" => item[v].key # item[w].key
    BY <1>4, <2>1 DEF Related
  <2> QED BY <1>1, <1>2, <1>3, <2>1, <2>2 DEF PromiseInv, Ordered, FinishedOnDisk
<1>10. Accepted'
  BY <1>2, <1>3, ItemTypes DEF PromiseInv, Accepted
<1> QED BY <1>5, <1>6, <1>7, <1>8, <1>9, <1>10 DEF PromiseInv, Ordered

LEMMA FrontShape ==
  ASSUME NEW q \in Seq(Entries), q # <<>>
  PROVE  /\ Len(Front(q)) = Len(q) - 1 /\ Len(q) \in Nat \ {0}
         /\ \A i \in 1..Len(Front(q)) : i \in 1..Len(q) /\ Front(q)[i] = q[i]
<1> DEFINE n == Len(q) - 1
<1>1. n \in Nat /\ Len(q) = n + 1 /\ \A i \in 1..n : q[i] \in Entries OBVIOUS
<1>2. Front(q) = SubSeq(q, 1, n) BY DEF Front
<1> HIDE DEF n
<1>3. /\ Len(SubSeq(q, 1, n)) = IF 1 <= n THEN n - 1 + 1 ELSE 0
      /\ \A i \in 1..(n - 1 + 1) : SubSeq(q, 1, n)[i] = q[1 + i - 1]
  BY <1>1, SubSeqProperties
<1> QED BY <1>1, <1>2, <1>3

LEMMA ClearsOrdered == ASSUME Placed, PromiseInv, ClearsLast PROVE PromiseInv'
<1>1. \A v \in Workers :
        item'[v] = item[v] /\ (wpc'[v] = wpc[v] \/ wpc'[v] \notin {"serialize", "finish"})
  BY DEF ClearsLast, Steady, SteadyAt
<1>2. UNCHANGED <<disk, lastId>> /\ pending # <<>> /\ pending' = Front(pending)
  BY DEF ClearsLast
<1>3. /\ Len(pending') = Len(pending) - 1 /\ Len(pending) \in Nat \ {0}
      /\ \A i \in 1..Len(pending') : i \in 1..Len(pending) /\ pending'[i] = pending[i]
  BY <1>2, ItemTypes, FrontShape
<1>4. QueueOrdered'
  BY <1>3 DEF PromiseInv, Ordered, QueueOrdered
<1>5. HeldOrdered'
  BY <1>1, <1>3 DEF PromiseInv, Ordered, HeldOrdered
<1>6. DiskBehindQueue'
  BY <1>2, <1>3 DEF PromiseInv, Ordered, DiskBehindQueue
<1>7. DiskBehindHeld' /\ FinishedOnDisk'
  BY <1>1, <1>2 DEF PromiseInv, Ordered, DiskBehindHeld, FinishedOnDisk
<1>8. Accepted'
  BY <1>1, <1>2, <1>3 DEF PromiseInv, Accepted
<1> QED BY <1>4, <1>5, <1>6, <1>7, <1>8 DEF PromiseInv, Ordered

\* A new item gets the highest rank: it fits in at its place if no related item comes later.
LEMMA NewItemOrdered ==
  ASSUME Placed, PromiseInv, Steady, UNCHANGED disk, lastId' = lastId + 1,
         NEW m \in 1..Len(pending'),
         \A i \in 1..Len(pending') : i # m => i \in 1..Len(pending) /\ pending'[i] = pending[i],
         pending'[m].id = lastId + 1,
         \A j \in 1..Len(pending') : j > m => ~Related(pending'[m].key, pending[j].key)
  PROVE  PromiseInv'
<1>1. \A v \in Workers :
        item'[v] = item[v] /\ (wpc'[v] = wpc[v] \/ wpc'[v] \notin {"serialize", "finish"})
  BY DEF Steady, SteadyAt
<1>2. /\ \A i \in 1..Len(pending) : pending[i].id \in 1..lastId
      /\ \A w \in Workers : item[w] # NoItem => item[w].id \in 1..lastId
      /\ \A k \in Keys : disk[k] <= lastId /\ disk[k] \in Int
      /\ lastId \in Nat
  BY ItemTypes DEF PromiseInv, Accepted
<1>3. QueueOrdered'
  <2> SUFFICES ASSUME NEW i \in 1..Len(pending'), NEW j \in 1..Len(pending'), i < j,
                      Related(pending'[i].key, pending'[j].key)
               PROVE  pending'[i].id < pending'[j].id
    BY DEF QueueOrdered, Related
  <2>1. i # m BY DEF Related
  <2>2. CASE j = m BY <1>2, <2>1, <2>2
  <2>3. CASE j # m BY <2>1, <2>3 DEF PromiseInv, Ordered, QueueOrdered
  <2> QED BY <2>2, <2>3
<1>4. HeldOrdered'
  BY <1>1, <1>2 DEF PromiseInv, Ordered, HeldOrdered, Related
<1>5. DiskBehindQueue'
  BY <1>2 DEF PromiseInv, Ordered, DiskBehindQueue, Related
<1>6. DiskBehindHeld' /\ FinishedOnDisk'
  BY <1>1 DEF PromiseInv, Ordered, DiskBehindHeld, FinishedOnDisk
<1>7. Accepted'
  BY <1>1, <1>2 DEF Accepted
<1> QED BY <1>3, <1>4, <1>5, <1>6, <1>7 DEF PromiseInv, Ordered

\* What Adds and Replaces do to the queue: the new item, and where it is.
LEMMA AddsWhere ==
  ASSUME Placed, NEW k \in Keys, Adds(k)
  PROVE  /\ Len(pending') = Len(pending) + 1
         /\ pending'[Len(pending')].key = k /\ pending'[Len(pending')].id = lastId + 1
         /\ \A i \in 1..Len(pending) : pending'[i] = pending[i]
<1>1. PICK s \in Sizes : pending' = Append(pending, [key |-> k, size |-> s, id |-> lastId + 1])
  BY DEF Adds
<1> DEFINE e == [key |-> k, size |-> s, id |-> lastId + 1]
<1>2. e.key = k /\ e.id = lastId + 1 OBVIOUS
<1>3. e \in Entries BY ItemTypes DEF Entries
<1>4. pending' = Append(pending, e) /\ pending \in Seq(Entries) BY <1>1, ItemTypes
<1> HIDE DEF e
<1> QED BY <1>2, <1>3, <1>4

LEMMA ReplacesWhere ==
  ASSUME Placed, NEW k \in Keys, Replaces(k)
  PROVE  \E m \in PendingAt(k) :
           /\ \A j \in PendingAt(k) : j <= m
           /\ Len(pending') = Len(pending)
           /\ pending'[m].key = k /\ pending'[m].id = lastId + 1
           /\ \A i \in 1..Len(pending) : i # m => pending'[i] = pending[i]
<1>1. PICK m \in PendingAt(k), s \in Sizes :
        /\ \A j \in PendingAt(k) : j <= m
        /\ pending' = [pending EXCEPT ![m] = [key |-> k, size |-> s, id |-> lastId + 1]]
  BY DEF Replaces
<1> DEFINE e == [key |-> k, size |-> s, id |-> lastId + 1]
<1>2. e.key = k /\ e.id = lastId + 1 OBVIOUS
<1>3. e \in Entries BY ItemTypes DEF Entries
<1>4. pending' = [pending EXCEPT ![m] = e] /\ pending \in Seq(Entries) BY <1>1, ItemTypes
<1>5. m \in 1..Len(pending) BY DEF PendingAt
<1> HIDE DEF e
<1>6. /\ Len(pending') = Len(pending) /\ pending'[m] = e
      /\ \A i \in 1..Len(pending) : i # m => pending'[i] = pending[i]
  BY <1>3, <1>4, <1>5, ExceptSeq
<1> QED BY <1>1, <1>2, <1>6

LEMMA AddsOrdered == ASSUME Placed, PromiseInv, NEW k \in Keys, Adds(k) PROVE PromiseInv'
<1>1. Len(pending) \in Nat BY ItemTypes
<1>2. Steady /\ UNCHANGED disk /\ lastId' = lastId + 1 BY DEF Adds
<1> QED BY <1>1, <1>2, AddsWhere, NewItemOrdered

LEMMA ReplacesOrdered == ASSUME Placed, PromiseInv, NEW k \in Keys, Replaces(k) PROVE PromiseInv'
<1>1. Steady /\ UNCHANGED disk /\ lastId' = lastId + 1 /\ MaxThreads # 1 BY DEF Replaces
<1>2. PICK m \in PendingAt(k) :
        /\ \A j \in PendingAt(k) : j <= m
        /\ Len(pending') = Len(pending)
        /\ pending'[m].key = k /\ pending'[m].id = lastId + 1
        /\ \A i \in 1..Len(pending) : i # m => pending'[i] = pending[i]
  BY ReplacesWhere
<1>3. m \in 1..Len(pending') BY <1>2 DEF PendingAt
<1>4. \A j \in 1..Len(pending') : j > m => ~Related(pending'[m].key, pending[j].key)
  BY <1>1, <1>2, <1>3 DEF PendingAt, Related
<1> QED BY <1>1, <1>2, <1>3, <1>4, NewItemOrdered

LEMMA PromiseStep == Placed /\ PromiseInv /\ [Next]_vars => PromiseInv'
  BY StepEffect, RestsOrdered, DropsOrdered, TakesOrdered, WritesOrdered, ClearsOrdered,
     AddsOrdered, ReplacesOrdered DEF Effect

LEMMA PromiseInit == Init => PromiseInv
<1> SUFFICES ASSUME Init PROVE PromiseInv
  OBVIOUS
<1>1. Len(pending) = 0 /\ lastId = 0
  BY DEF Init
<1>2. \A w \in Workers : item[w] = NoItem /\ wpc[w] # "finish"
  BY DEF Init
<1>3. \A k \in Keys : disk[k] = 0
  BY DEF Init
<1> QED BY <1>1, <1>2, <1>3
        DEF PromiseInv, Ordered, QueueOrdered, HeldOrdered, DiskBehindQueue, DiskBehindHeld,
            FinishedOnDisk, Accepted

LEMMA PromiseAlways == ASSUME SupposedUse PROVE Spec => [](Placed /\ PromiseInv)
<1>1. Spec => []Placed BY PlacedAlways
<1> QED BY <1>1, PromiseInit, PromiseStep, PTL DEF Spec

\* With one worker the items are written in the order of their acceptance, whoever calls
\* ("Items are serialized in FIFO manner").
THEOREM WritesInOrder == ASSUME MaxThreads = 1 PROVE Spec => FifoWrites
<1>1. Spec => [](Placed /\ PromiseInv)
  BY PromiseAlways DEF SupposedUse
<1>2. Placed /\ PromiseInv /\ [Next]_vars
        => [\A k, j \in Keys : disk'[k] # disk[k] => disk'[k] > disk[j]]_vars
  <2> SUFFICES ASSUME Placed, PromiseInv, [Next]_vars, NEW k \in Keys, NEW j \in Keys,
                      disk'[k] # disk[k]
               PROVE  disk'[k] > disk[j]
    OBVIOUS
  <2>1. PICK w \in Workers : Writes(w)
    BY StepEffect DEF Effect, Rests, ClearsLast, Takes, Drops, Adds, Replaces
  <2>2. item[w] # NoItem /\ item[w].id \in Int /\ disk[j] \in Int /\ disk \in [Keys -> Nat]
    BY <2>1, ItemTypes DEF Writes
  <2>3. disk'[k] = item[w].id
    BY <2>1, <2>2 DEF Writes
  <2>4. disk[j] < item[w].id
    BY <2>1, <2>2 DEF Writes, PromiseInv, Ordered, DiskBehindHeld, Related
  <2> QED BY <2>2, <2>3, <2>4
<1> QED BY <1>1, <1>2, PTL DEF Spec, FifoWrites

-----------------------------------------------------------------------------
(* Each effect is a step of WriteBehind, or none.                            *)

\* The value a reader finds before and after a step, by what is on its way then.
Known == Placed /\ PromiseInv

FoundNewest ==
  \A k \in Keys : \A n : OnItsWay(k, n) /\ (\A m : OnItsWay(k, m) => m <= n) => LatestOf(k) = n

LEMMA NewestIsLatest == Known => FoundNewest
<1> SUFFICES ASSUME Known, NEW k \in Keys, NEW n, OnItsWay(k, n), \A m : OnItsWay(k, m) => m <= n
             PROVE  LatestOf(k) = n
  BY DEF FoundNewest
<1>1. LatestOf(k) \in Nat /\ OnItsWay(k, LatestOf(k)) /\ \A m : OnItsWay(k, m) => m <= LatestOf(k)
  BY LatestIsNewest DEF Known
<1>2. n \in Int
  BY ItemTypes DEF OnItsWay, Known
<1>3. n <= LatestOf(k) /\ LatestOf(k) <= n
  BY <1>1
<1> QED BY <1>1, <1>2, <1>3

LEMMA FoundNext == Known' => FoundNewest'
  BY NewestIsLatest, PTL

NewestFound ==
  \A k \in Keys :
    LatestOf(k) \in Nat /\ OnItsWay(k, LatestOf(k)) /\ \A n : OnItsWay(k, n) => n <= LatestOf(k)

LEMMA NewestNow == Known => NewestFound
  BY LatestIsNewest DEF Known, NewestFound

LEMMA NewestNext == Known' => NewestFound'
  BY NewestNow, PTL

LEMMA SameWays ==
  ASSUME Known, Known', NEW k \in Keys, \A n : OnItsWay(k, n)' <=> OnItsWay(k, n)
  PROVE  LatestOf(k)' = LatestOf(k)
<1>1. LatestOf(k) \in Nat /\ OnItsWay(k, LatestOf(k)) /\ \A n : OnItsWay(k, n) => n <= LatestOf(k)
  BY LatestIsNewest DEF Known
<1> QED BY <1>1, FoundNext DEF FoundNewest

\* The steps of WriteBehind, in the words of this module.
LEMMA MapsToAccept ==
  ASSUME NEW k \in Keys, UNCHANGED disk, lastId' = lastId + 1, LatestOf(k)' = lastId + 1,
         \A j \in Keys : j # k => LatestOf(j)' = LatestOf(j)
  PROVE  Promise!Accept(k)
BY DEF Promise!Accept, LatestOf

LEMMA MapsToWrite ==
  ASSUME NEW k \in Keys, UNCHANGED lastId, NEW n \in Int, disk' = [disk EXCEPT ![k] = n],
         disk \in [Keys -> Nat], n > disk[k], n <= LatestOf(k),
         \A j \in Keys : LatestOf(j)' = LatestOf(j)
  PROVE  Promise!Write(k)
BY DEF Promise!Write, LatestOf

LEMMA MapsToGiveUp ==
  ASSUME NEW k \in Keys, UNCHANGED <<lastId, disk>>, LatestOf(k)' < LatestOf(k),
         LatestOf(k)' >= disk[k], \A j \in Keys : j # k => LatestOf(j)' = LatestOf(j)
  PROVE  Promise!GiveUp(k)
BY DEF Promise!GiveUp, LatestOf

LEMMA MapsToNothing ==
  ASSUME UNCHANGED <<lastId, disk>>, \A k \in Keys : LatestOf(k)' = LatestOf(k)
  PROVE  UNCHANGED Promise!vars
BY DEF Promise!vars, LatestOf

LEMMA MapRests == ASSUME Known, Known', Rests PROVE UNCHANGED Promise!vars
<1>1. UNCHANGED <<pending, disk, lastId>> /\ \A w \in Workers : item'[w] = item[w]
  BY DEF Rests, Steady, SteadyAt
<1>2. \A k \in Keys : \A n : OnItsWay(k, n)' <=> OnItsWay(k, n)
  BY <1>1 DEF OnItsWay
<1> QED BY <1>1, <1>2, SameWays, MapsToNothing

\* What a worker has finished is on the disk.
LEMMA MapDrops == ASSUME Known, Known', NEW w \in Workers, Drops(w) PROVE UNCHANGED Promise!vars
<1>1. /\ UNCHANGED <<pending, disk, lastId>> /\ item'[w] = NoItem
      /\ \A v \in Workers : v # w => item'[v] = item[v]
      /\ disk[item[w].key] = item[w].id
  BY DEF Drops, SteadyBut, SteadyAt, Known, PromiseInv, Ordered, FinishedOnDisk
<1>2. \A k \in Keys : \A n : OnItsWay(k, n)' <=> OnItsWay(k, n)
  BY <1>1 DEF OnItsWay
<1> QED BY <1>1, <1>2, SameWays, MapsToNothing

LEMMA MapTakes == ASSUME Known, Known', NEW w \in Workers, Takes(w) PROVE UNCHANGED Promise!vars
<1>1. /\ UNCHANGED <<disk, lastId>> /\ item'[w] = Head(pending)
      /\ pending # <<>> /\ pending' = Tail(pending)
      /\ \A v \in Workers : v # w => item'[v] = item[v]
      /\ item[w] = NoItem \/ disk[item[w].key] = item[w].id
  BY DEF Takes, SteadyBut, SteadyAt, Known, PromiseInv, Ordered, FinishedOnDisk
<1>2. /\ Len(pending') = Len(pending) - 1 /\ Len(pending) \in Nat \ {0}
      /\ \A i \in 1..Len(pending') : pending'[i] = pending[i + 1]
      /\ 1 \in 1..Len(pending) /\ Head(pending) = pending[1] /\ Head(pending) # NoItem
  BY <1>1, ItemTypes, ConstantsAssumption DEF Known
<1>3. ASSUME NEW k \in Keys, NEW n PROVE OnItsWay(k, n)' <=> OnItsWay(k, n)
  <2>1. ASSUME OnItsWay(k, n)' PROVE OnItsWay(k, n)
    <3>1. \A i \in 1..Len(pending') : i + 1 \in 1..Len(pending) BY <1>2
    <3> QED BY <1>1, <1>2, <2>1, <3>1 DEF OnItsWay
  <2>2. ASSUME OnItsWay(k, n) PROVE OnItsWay(k, n)'
    <3>1. CASE n = disk[k]
      BY <1>1, <3>1 DEF OnItsWay
    <3>2. ASSUME NEW i \in 1..Len(pending), pending[i].key = k, pending[i].id = n PROVE OnItsWay(k, n)'
      <4>1. CASE i = 1
        BY <1>1, <1>2, <3>2, <4>1 DEF OnItsWay
      <4>2. CASE i # 1
        <5>1. i - 1 \in 1..Len(pending') /\ pending'[i - 1] = pending[i]
          BY <1>2, <4>2
        <5> QED BY <3>2, <5>1 DEF OnItsWay
      <4> QED BY <4>1, <4>2
    <3>3. ASSUME NEW v \in Workers, item[v] # NoItem, item[v].key = k, item[v].id = n
          PROVE  OnItsWay(k, n)'
      BY <1>1, <3>3 DEF OnItsWay
    <3> QED BY <2>2, <3>1, <3>2, <3>3 DEF OnItsWay
  <2> QED BY <2>1, <2>2
<1> QED BY <1>1, <1>3, SameWays, MapsToNothing

\* The target moves on to the value of the worker; what a reader finds stays.
LEMMA MapWrites ==
  ASSUME Known, Known', NEW w \in Workers, Writes(w), NEW k \in Keys, k = item[w].key
  PROVE  Promise!Write(k)
<1>1. /\ UNCHANGED <<pending, item, lastId>> /\ disk' = [disk EXCEPT ![k] = item[w].id]
      /\ item[w] # NoItem /\ item[w].id \in Int
      /\ disk \in [Keys -> Nat] /\ disk[k] \in Int
      /\ disk[k] < item[w].id
  BY ItemTypes DEF Writes, Known, PromiseInv, Ordered, DiskBehindHeld, Related
<1>2. \A j \in Keys : disk'[j] = IF j = k THEN item[w].id ELSE disk[j]
  BY <1>1
<1>3. OnItsWay(k, item[w].id)
  BY <1>1 DEF OnItsWay
<1>4. ASSUME NEW j \in Keys, j # k PROVE LatestOf(j)' = LatestOf(j)
  <2>1. \A n : OnItsWay(j, n)' <=> OnItsWay(j, n)
    BY <1>1, <1>2, <1>4 DEF OnItsWay
  <2> QED BY <2>1, SameWays
<1>5. PICK n \in Nat : n = LatestOf(k)
  BY LatestIsNewest DEF Known
<1>6. OnItsWay(k, n) /\ (\A m : OnItsWay(k, m) => m <= n) /\ item[w].id <= n
  BY <1>3, <1>5, LatestIsNewest DEF Known
<1>7. OnItsWay(k, n)'
  <2>1. n # disk[k] BY <1>1, <1>6
  <2> QED BY <1>1, <1>6, <2>1 DEF OnItsWay
<1>8. ASSUME NEW m, OnItsWay(k, m)' PROVE m <= n
  <2>1. m = item[w].id \/ OnItsWay(k, m)
    BY <1>1, <1>2, <1>8 DEF OnItsWay
  <2> QED BY <1>6, <2>1
<1>9. LatestOf(k)' = LatestOf(k)
  BY <1>5, <1>7, <1>8, FoundNext DEF FoundNewest
<1> QED BY <1>1, <1>4, <1>5, <1>6, <1>9, MapsToWrite

\* An item on its way has a rank that was given.
LEMMA WaysGiven ==
  ASSUME Known, NEW k \in Keys, NEW n, OnItsWay(k, n)
  PROVE  n \in Int /\ n <= lastId
BY ItemTypes DEF OnItsWay, Known, PromiseInv, Accepted

LEMMA MapNewItem ==
  ASSUME Known, Known', NEW k \in Keys, NEW m, m = lastId + 1, UNCHANGED disk, lastId' = m,
         OnItsWay(k, m)',
         \A n : OnItsWay(k, n)' => n = m \/ OnItsWay(k, n),
         \A j \in Keys : \A n : j # k => (OnItsWay(j, n)' <=> OnItsWay(j, n))
  PROVE  Promise!Accept(k)
<1>1. lastId \in Nat
  BY ItemTypes DEF Known
<1>2. ASSUME NEW n, OnItsWay(k, n)' PROVE n <= m
  <2>1. n = m \/ (n \in Int /\ n <= lastId)
    BY <1>2, WaysGiven
  <2> QED BY <1>1, <2>1
<1>3. LatestOf(k)' = m
  BY <1>2, FoundNext DEF FoundNewest
<1>4. \A j \in Keys : j # k => LatestOf(j)' = LatestOf(j)
  BY SameWays
<1> QED BY <1>3, <1>4, MapsToAccept

LEMMA MapAdds == ASSUME Known, Known', NEW k \in Keys, Adds(k) PROVE Promise!Accept(k)
<1>1. /\ UNCHANGED disk /\ lastId' = lastId + 1 /\ lastId \in Nat
      /\ \A w \in Workers : item'[w] = item[w]
  BY ItemTypes DEF Adds, Steady, SteadyAt, Known
<1>0. PICK rank \in Nat : rank = lastId + 1
  BY <1>1
<1>2. /\ Len(pending') = Len(pending) + 1 /\ Len(pending) \in Nat
      /\ pending'[Len(pending')].key = k /\ pending'[Len(pending')].id = rank
      /\ \A i \in 1..Len(pending) : pending'[i] = pending[i]
  BY <1>0, AddsWhere, ItemTypes DEF Known
<1>3. \A i \in 1..Len(pending') : i = Len(pending') \/ i \in 1..Len(pending)
  BY <1>2
<1>4. Len(pending') \in 1..Len(pending') /\ \A i \in 1..Len(pending) : i \in 1..Len(pending')
  BY <1>2
<1>5. OnItsWay(k, rank)'
  BY <1>2, <1>4 DEF OnItsWay
<1>6. \A n : OnItsWay(k, n)' => n = rank \/ OnItsWay(k, n)
  BY <1>1, <1>2, <1>3 DEF OnItsWay
<1>7. \A j \in Keys : \A n : j # k => (OnItsWay(j, n)' <=> OnItsWay(j, n))
  BY <1>1, <1>2, <1>3, <1>4 DEF OnItsWay
<1> QED BY <1>0, <1>1, <1>5, <1>6, <1>7, MapNewItem

LEMMA MapReplaces == ASSUME Known, Known', NEW k \in Keys, Replaces(k) PROVE Promise!Accept(k)
<1>1. /\ UNCHANGED disk /\ lastId' = lastId + 1 /\ lastId \in Nat
      /\ \A w \in Workers : item'[w] = item[w]
  BY ItemTypes DEF Replaces, Steady, SteadyAt, Known
<1>0. PICK rank \in Nat : rank = lastId + 1
  BY <1>1
<1>2. PICK m \in PendingAt(k) :
        /\ Len(pending') = Len(pending)
        /\ pending'[m].key = k /\ pending'[m].id = rank
        /\ \A i \in 1..Len(pending) : i # m => pending'[i] = pending[i]
  BY <1>0, ReplacesWhere DEF Known
<1>3. m \in 1..Len(pending) /\ pending[m].key = k
  BY DEF PendingAt
<1>4. OnItsWay(k, rank)'
  BY <1>2, <1>3 DEF OnItsWay
<1>5. \A n : OnItsWay(k, n)' => n = rank \/ OnItsWay(k, n)
  BY <1>1, <1>2, <1>3 DEF OnItsWay
<1>6. \A j \in Keys : \A n : j # k => (OnItsWay(j, n)' <=> OnItsWay(j, n))
  BY <1>1, <1>2, <1>3 DEF OnItsWay
<1> QED BY <1>0, <1>1, <1>4, <1>5, <1>6, MapNewItem

\* clear() takes the newest item: a reader finds an older one, or what is written.
LEMMA MapClears ==
  ASSUME Known, Known', ClearsLast
  PROVE  UNCHANGED Promise!vars \/ \E k \in Keys : Promise!GiveUp(k)
<1>1. /\ UNCHANGED <<disk, lastId>> /\ pending # <<>> /\ pending' = Front(pending)
      /\ \A w \in Workers : item'[w] = item[w]
  BY DEF ClearsLast, Steady, SteadyAt
<1>2. /\ Len(pending') = Len(pending) - 1 /\ Len(pending) \in Nat \ {0}
      /\ \A i \in 1..Len(pending') : i \in 1..Len(pending) /\ pending'[i] = pending[i]
  BY <1>1, ItemTypes, FrontShape DEF Known
<1>3. PICK k \in Keys : k = pending[Len(pending)].key
  BY <1>2, ItemTypes DEF Known
<1>4. \A i \in 1..Len(pending) : i = Len(pending) \/ i \in 1..Len(pending')
  BY <1>2
<1>5. \A j \in Keys : j # k => LatestOf(j)' = LatestOf(j)
  <2>1. \A j \in Keys : \A n : j # k => (OnItsWay(j, n)' <=> OnItsWay(j, n))
    BY <1>1, <1>2, <1>3, <1>4 DEF OnItsWay
  <2> QED BY <2>1, SameWays
<1>6. \A n : OnItsWay(k, n)' => OnItsWay(k, n)
  BY <1>1, <1>2 DEF OnItsWay
<1>7. LatestOf(k) \in Nat /\ \A n : OnItsWay(k, n) => n <= LatestOf(k)
  BY <1>3, LatestIsNewest DEF Known
<1>8. LatestOf(k)' \in Nat /\ OnItsWay(k, LatestOf(k))' /\ \A n : OnItsWay(k, n)' => n <= LatestOf(k)'
  BY <1>3, NewestNext DEF NewestFound
<1>9. LatestOf(k)' <= LatestOf(k)
  BY <1>6, <1>7, <1>8
<1>10. LatestOf(k)' >= disk[k]
  <2>1. PICK n \in Int : n = disk[k]
    BY <1>3, ItemTypes DEF Known
  <2>2. OnItsWay(k, n)'
    BY <1>1, <2>1 DEF OnItsWay
  <2> QED BY <1>8, <2>1, <2>2
<1>11. CASE LatestOf(k)' = LatestOf(k)
  BY <1>1, <1>5, <1>11, MapsToNothing
<1>12. CASE LatestOf(k)' < LatestOf(k)
  BY <1>1, <1>3, <1>5, <1>10, <1>12, MapsToGiveUp
<1> QED BY <1>7, <1>8, <1>9, <1>11, <1>12

LEMMA MapStep == Known /\ Known' /\ [Next]_vars => [Promise!Next]_(Promise!vars)
<1> SUFFICES ASSUME Known, Known', [Next]_vars PROVE [Promise!Next]_(Promise!vars)
  OBVIOUS
<1>1. Effect
  BY StepEffect DEF Known
<1>2. ASSUME NEW w \in Workers, Writes(w) PROVE Promise!Next
  <2>1. PICK k \in Keys : k = item[w].key BY <1>2, ItemTypes DEF Known, Writes
  <2> QED BY <1>2, <2>1, MapWrites DEF Promise!Next
<1> QED BY <1>1, <1>2, MapRests, MapDrops, MapTakes, MapAdds, MapReplaces, MapClears
        DEF Effect, Promise!Next

LEMMA MapInit == Init => Promise!Init
<1> SUFFICES ASSUME Init PROVE Promise!Init
  OBVIOUS
<1>1. \A k \in Keys : PendingAt(k) = {} /\ \A w \in 1..numThreads : ~Processes(w, k)
  BY ConstantsAssumption DEF Init, PendingAt, Processes, Workers
<1>2. \A k \in Keys : FindPending(k) = 0
  BY <1>1 DEF FindPending
<1> QED BY <1>2 DEF Init, Promise!Init

\* The queue keeps what WriteBehind promises to its users: a reader finds the newest value
\* accepted for its target, and the target goes through ever newer values that were accepted.
THEOREM PromiseKept == ASSUME SupposedUse PROVE Spec => KeepsPromise
<1>1. Spec => []Known
  BY PromiseAlways DEF Known
<1> QED BY <1>1, MapInit, MapStep, PTL DEF Spec, KeepsPromise, Promise!Spec
=============================================================================
