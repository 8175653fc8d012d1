---------------------- MODULE BufferedProducerConsumer ----------------------
(***************************************************************************)
(* buffered_producer_consumer<M> (frantic/threads/                          *)
(* buffered_producer_consumer.hpp) with the producers of its one user,      *)
(* concatenated_parallel_particle_istream: worker threads share a list of   *)
(* streams, read them into buffers, and exchange full buffers for empty     *)
(* ones with one consumer thread through two concurrent queues.             *)
(*                                                                          *)
(* No lock covers the flags.  An action is the code between two accesses to *)
(* what the threads share: the queues, the atomic flags and counter, the    *)
(* exception pointer.  The consumer is either run() or a reader that steals *)
(* full buffers, as get_particles() does, and may be destroyed half way.    *)
(***************************************************************************)
EXTENDS Integers, Sequences, FiniteSets, SequencesExt

CONSTANTS
  NumWorkers, \* the number of producer threads
  Counts,     \* Counts[d]: the number of particles of the stream d
  Half,       \* half the capacity of a buffer (50000)
  Modes,      \* the consumers tried: "run", "read"
  NoBuffer

Workers   == 1..NumWorkers
Streams   == DOMAIN Counts
Particles == UNION {{d} \X (1..Counts[d]) : d \in Streams}

ASSUME ProducerAssumption ==
  /\ NumWorkers \in Nat \ {0}
  /\ Counts \in Seq(Nat)
  /\ Half \in Nat \ {0}
  /\ Modes \subseteq {"run", "read"}
  /\ NoBuffer \notin Seq(Particles)

VARIABLES
  current,       \* m_currentDelegate: the next stream to hand out, from 1
  read,          \* read[d]: the number of particles read from the stream d
  emptyItems,    \* the number of buffers in emptyItems
  fullItems,     \* the queue fullItems
  remaining,     \* numThreadsRemaining
  errorOccurred, stopRequested,
  error,         \* the stored exception: "none", "producer" or "interrupted"
  wpc,           \* where each worker is in producer_fn
  pin,           \* m_currentPin of each worker, 0 for none
  held,          \* the buffer each worker holds
  fault,         \* the exception each worker caught
  mode,          \* which consumer this is
  cpc,           \* where the consumer is
  out,           \* the buffer the consumer holds (m_outputBuffer)
  delivered,     \* the particles the consumer was given, in order
  outcome        \* how the consumer's work ended

sharedVars   == <<emptyItems, fullItems, remaining, errorOccurred, stopRequested, error>>
workerVars   == <<current, read, wpc, pin, held, fault>>
consumerVars == <<mode, cpc, out, delivered, outcome>>
vars         == <<sharedVars, workerVars, consumerVars>>

WorkerPlaces   == {"start", "test", "more", "fill", "pop", "spin", "catch", "store", "stop", "exit", "done"}
ConsumerPlaces == {"idle", "pop", "error", "remaining", "last", "consume", "stop", "join", "ended", "destroy", "destroyed"}

TypeOK ==
  /\ current \in 1..(Len(Counts) + 1)
  /\ read \in [Streams -> Nat] /\ \A d \in Streams : read[d] <= Counts[d]
  /\ emptyItems \in 0..(2 * NumWorkers)
  /\ fullItems \in Seq(Seq(Particles))
  /\ remaining \in 0..NumWorkers
  /\ errorOccurred \in BOOLEAN /\ stopRequested \in BOOLEAN
  /\ error \in {"none", "producer", "interrupted"}
  /\ wpc \in [Workers -> WorkerPlaces]
  /\ pin \in [Workers -> Streams \cup {0}]
  /\ held \in [Workers -> Seq(Particles) \cup {NoBuffer}]
  /\ fault \in [Workers -> {"none", "producer", "interrupted"}]
  /\ mode \in Modes /\ cpc \in ConsumerPlaces
  /\ out \in Seq(Particles) \cup {NoBuffer}
  /\ delivered \in Seq(Particles)
  /\ outcome \in {"none", "end", "returned", "error", "consumer error"}

Init ==
  /\ current = 1 /\ read = [d \in Streams |-> 0]
  /\ emptyItems = 0 /\ fullItems = <<>>
  /\ remaining = NumWorkers
  /\ errorOccurred = FALSE /\ stopRequested = FALSE /\ error = "none"
  /\ wpc = [w \in Workers |-> "start"]
  /\ pin = [w \in Workers |-> 0]
  /\ held = [w \in Workers |-> NoBuffer]
  /\ fault = [w \in Workers |-> "none"]
  /\ mode \in Modes
  /\ cpc = IF mode = "run" THEN "pop" ELSE "idle"
  /\ out = NoBuffer /\ delivered = <<>> /\ outcome = "none"

Go(w, place) == wpc' = [wpc EXCEPT ![w] = place]

-----------------------------------------------------------------------------
(* A worker (producer_fn).                                                  *)

\* One buffer is made for later use and one to fill.
Start(w) ==
  /\ wpc[w] = "start" /\ Go(w, "test")
  /\ emptyItems' = emptyItems + 1
  /\ held' = [held EXCEPT ![w] = <<>>]
  /\ UNCHANGED <<fullItems, remaining, errorOccurred, stopRequested, error, current, read, pin, fault, consumerVars>>

TestStop(w) ==
  /\ wpc[w] = "test"
  /\ IF stopRequested
     THEN Go(w, "catch") /\ fault' = [fault EXCEPT ![w] = "interrupted"]
     ELSE Go(w, "more") /\ UNCHANGED fault
  /\ UNCHANGED <<sharedVars, current, read, pin, held, consumerVars>>

\* can_produce_more() is false: the buffer is handed over, full or empty.
ProduceNoMore(w) ==
  /\ wpc[w] = "more" /\ pin[w] = 0 /\ current > Len(Counts)
  /\ Go(w, "exit")
  /\ IF held[w] = <<>>
     THEN emptyItems' = emptyItems + 1 /\ UNCHANGED fullItems
     ELSE fullItems' = Append(fullItems, held[w]) /\ UNCHANGED emptyItems
  /\ held' = [held EXCEPT ![w] = NoBuffer]
  /\ UNCHANGED <<remaining, errorOccurred, stopRequested, error, current, read, pin, fault, consumerVars>>

\* Mutant: the shared position is not moved on when a stream is taken, but when it is read up.
TakeStreamAgain(w) ==
  /\ wpc[w] = "more" /\ pin[w] = 0 /\ current <= Len(Counts)
  /\ pin' = [pin EXCEPT ![w] = current]
  /\ current' = IF read[current] = Counts[current] THEN current + 1 ELSE current
  /\ UNCHANGED <<sharedVars, read, wpc, held, fault, consumerVars>>

\* can_produce_more() takes the next stream of the list, under m_pinMutex.
TakeStream(w) ==
  /\ wpc[w] = "more" /\ pin[w] = 0 /\ current <= Len(Counts)
  /\ pin' = [pin EXCEPT ![w] = current]
  /\ current' = current + 1
  /\ UNCHANGED <<sharedVars, read, wpc, held, fault, consumerVars>>

\* A full buffer is handed over; another is filled if there is room in this one.
HandOver(w) ==
  /\ wpc[w] = "more" /\ pin[w] # 0
  /\ IF Len(held[w]) > Half
     THEN /\ fullItems' = Append(fullItems, held[w])
          /\ held' = [held EXCEPT ![w] = NoBuffer] /\ Go(w, "pop")
     ELSE Go(w, "fill") /\ UNCHANGED <<fullItems, held>>
  /\ UNCHANGED <<emptyItems, remaining, errorOccurred, stopRequested, error, current, read, pin, fault, consumerVars>>

PopEmpty(w) ==
  /\ wpc[w] = "pop"
  /\ IF emptyItems > 0
     THEN /\ emptyItems' = emptyItems - 1
          /\ held' = [held EXCEPT ![w] = <<>>] /\ Go(w, "fill")
     ELSE Go(w, "spin") /\ UNCHANGED <<emptyItems, held>>
  /\ UNCHANGED <<fullItems, remaining, errorOccurred, stopRequested, error, current, read, pin, fault, consumerVars>>

\* Mutant: a worker that waits for a buffer is deaf to stopRequested.
SpinOn(w) ==
  /\ wpc[w] = "spin" /\ Go(w, "pop")
  /\ UNCHANGED <<sharedVars, current, read, pin, held, fault, consumerVars>>

SpinTestStop(w) ==
  /\ wpc[w] = "spin"
  /\ IF stopRequested
     THEN Go(w, "catch") /\ fault' = [fault EXCEPT ![w] = "interrupted"]
     ELSE Go(w, "pop") /\ UNCHANGED fault
  /\ UNCHANGED <<sharedVars, current, read, pin, held, consumerVars>>

\* get_particles() of the stream w reads gives n particles, and says whether there may be
\* more; fill_buffer() repeats it up to half a buffer.
Fill(w) ==
  /\ wpc[w] = "fill"
  /\ LET d == pin[w]
         room == 2 * Half - Len(held[w])
         left == Counts[d] - read[d]
     IN \E n \in 0..room, more \in BOOLEAN :
        /\ n <= left /\ (n = 0 => left = 0) /\ (more <=> n > 0 /\ (n < left \/ n = room))
        /\ read' = [read EXCEPT ![d] = read[d] + n]
        /\ held' = [held EXCEPT ![w] = held[w] \o [i \in 1..n |-> <<d, read[d] + i>>]]
        /\ pin' = [pin EXCEPT ![w] = IF more THEN d ELSE 0]
        /\ Go(w, IF more /\ Len(held[w]) + n < Half THEN "fill" ELSE "test")
  /\ UNCHANGED <<sharedVars, current, fault, consumerVars>>

\* The stream throws, or the making of a buffer does.
Throws(w) ==
  /\ wpc[w] \in {"start", "fill"} /\ Go(w, "catch")
  /\ fault' = [fault EXCEPT ![w] = "producer"]
  /\ UNCHANGED <<sharedVars, current, read, pin, held, consumerVars>>

\* Mutant: every worker that fails stores its exception.
CatchLast(w) ==
  /\ wpc[w] = "catch" /\ Go(w, "store")
  /\ held' = [held EXCEPT ![w] = NoBuffer]
  /\ errorOccurred' = TRUE
  /\ UNCHANGED <<emptyItems, fullItems, remaining, stopRequested, error, current, read, pin, fault, consumerVars>>

\* catch( ... ): the first worker to fail stores its exception, then stops the others.
\* The buffer it held is deleted.
Catch(w) ==
  /\ wpc[w] = "catch"
  /\ held' = [held EXCEPT ![w] = NoBuffer]
  /\ errorOccurred' = TRUE
  /\ Go(w, IF errorOccurred THEN "exit" ELSE "store")
  /\ UNCHANGED <<emptyItems, fullItems, remaining, stopRequested, error, current, read, pin, fault, consumerVars>>

Store(w) ==
  /\ wpc[w] = "store" /\ Go(w, "stop")
  /\ error' = fault[w]
  /\ UNCHANGED <<emptyItems, fullItems, remaining, errorOccurred, stopRequested, current, read, pin, held, fault, consumerVars>>

RequestStop(w) ==
  /\ wpc[w] = "stop" /\ Go(w, "exit")
  /\ stopRequested' = TRUE
  /\ UNCHANGED <<emptyItems, fullItems, remaining, errorOccurred, error, current, read, pin, held, fault, consumerVars>>

Exit(w) ==
  /\ wpc[w] = "exit" /\ Go(w, "done")
  /\ remaining' = remaining - 1
  /\ UNCHANGED <<emptyItems, fullItems, errorOccurred, stopRequested, error, current, read, pin, held, fault, consumerVars>>

WorkerStep(w) ==
  \/ Start(w) \/ TestStop(w) \/ ProduceNoMore(w) \/ TakeStream(w) \/ HandOver(w)
  \/ PopEmpty(w) \/ SpinTestStop(w) \/ Fill(w) \/ Throws(w)
  \/ Catch(w) \/ Store(w) \/ RequestStop(w) \/ Exit(w)

-----------------------------------------------------------------------------
(* The consumer.                                                            *)

NoWorkerStep == UNCHANGED workerVars

\* Mutant: the last particle that was copied is not counted.
ReadOneLess ==
  /\ cpc = "idle" /\ out # NoBuffer
  /\ \E n \in 1..Len(out) :
       LET kept == SubSeq(out, 1, Len(out) - n) IN
       /\ delivered' = delivered \o Reverse(SubSeq(out, IF n < Len(out) THEN Len(out) - n ELSE 1, Len(out)))
       /\ IF kept = <<>>
          THEN out' = NoBuffer /\ emptyItems' = emptyItems + 1
          ELSE out' = kept /\ UNCHANGED emptyItems
  /\ UNCHANGED <<fullItems, remaining, errorOccurred, stopRequested, error, mode, cpc, outcome>>
  /\ NoWorkerStep

\* get_particles() with a buffer in hand gives n particles from its end; the buffer goes
\* back when nothing is left in it.
Read ==
  /\ cpc = "idle" /\ out # NoBuffer
  /\ \E n \in 1..Len(out) :
       LET kept == SubSeq(out, 1, Len(out) - n) IN
       /\ delivered' = delivered \o Reverse(SubSeq(out, Len(out) - n + 1, Len(out)))
       /\ IF kept = <<>>
          THEN out' = NoBuffer /\ emptyItems' = emptyItems + 1
          ELSE out' = kept /\ UNCHANGED emptyItems
  /\ UNCHANGED <<fullItems, remaining, errorOccurred, stopRequested, error, mode, cpc, outcome>>
  /\ NoWorkerStep

\* get_particles() without a buffer steals a full one.
ReadNext ==
  /\ cpc = "idle" /\ out = NoBuffer
  /\ cpc' = "pop"
  /\ UNCHANGED <<sharedVars, mode, out, delivered, outcome>>
  /\ NoWorkerStep

\* fullItems.try_pop(): with a buffer the reader returns and run() consumes it.
Pop ==
  /\ cpc = "pop"
  /\ IF fullItems # <<>>
     THEN /\ out' = Head(fullItems) /\ fullItems' = Tail(fullItems)
          /\ cpc' = IF mode = "run" THEN "consume" ELSE "idle"
     ELSE cpc' = "error" /\ UNCHANGED <<out, fullItems>>
  /\ UNCHANGED <<emptyItems, remaining, errorOccurred, stopRequested, error, mode, delivered, outcome>>
  /\ NoWorkerStep

\* No full buffer and an error: the reader is given null, run() leaves its loop.
TestError ==
  /\ cpc = "error"
  /\ IF errorOccurred
     THEN /\ stopRequested' = TRUE
          /\ IF mode = "run" THEN cpc' = "stop" /\ UNCHANGED outcome
                             ELSE cpc' = "ended" /\ outcome' = "end"
     ELSE cpc' = "remaining" /\ UNCHANGED <<stopRequested, outcome>>
  /\ UNCHANGED <<emptyItems, fullItems, remaining, errorOccurred, error, mode, out, delivered>>
  /\ NoWorkerStep

TestRemaining ==
  /\ cpc = "remaining"
  /\ cpc' = IF remaining = 0 THEN "last" ELSE "pop"
  /\ UNCHANGED <<sharedVars, mode, out, delivered, outcome>>
  /\ NoWorkerStep

\* Mutant: the queue is not looked at again.
PopLastNever ==
  /\ cpc = "last"
  /\ IF mode = "run" THEN cpc' = "stop" /\ UNCHANGED outcome
                     ELSE cpc' = "ended" /\ outcome' = "end"
  /\ UNCHANGED <<sharedVars, mode, out, delivered>>
  /\ NoWorkerStep

\* All workers are gone: a buffer pushed before the last one left is still found.
PopLast ==
  /\ cpc = "last"
  /\ IF fullItems # <<>>
     THEN /\ out' = Head(fullItems) /\ fullItems' = Tail(fullItems)
          /\ cpc' = IF mode = "run" THEN "consume" ELSE "idle"
          /\ UNCHANGED outcome
     ELSE /\ UNCHANGED <<out, fullItems>>
          /\ IF mode = "run" THEN cpc' = "stop" /\ UNCHANGED outcome
                             ELSE cpc' = "ended" /\ outcome' = "end"
  /\ UNCHANGED <<emptyItems, remaining, errorOccurred, stopRequested, error, mode, delivered>>
  /\ NoWorkerStep

\* consume_buffer() and the return of the buffer.
Consume ==
  /\ cpc = "consume" /\ cpc' = "pop"
  /\ delivered' = delivered \o out
  /\ out' = NoBuffer /\ emptyItems' = emptyItems + 1
  /\ UNCHANGED <<fullItems, remaining, errorOccurred, stopRequested, error, mode, outcome>>
  /\ NoWorkerStep

\* consume_buffer() throws: the buffer is deleted.
ConsumeThrows ==
  /\ cpc = "consume" /\ cpc' = "stop"
  /\ out' = NoBuffer /\ outcome' = "consumer error"
  /\ UNCHANGED <<sharedVars, mode, delivered>>
  /\ NoWorkerStep

StopWorkers ==
  /\ cpc = "stop" /\ cpc' = "join"
  /\ stopRequested' = TRUE
  /\ UNCHANGED <<emptyItems, fullItems, remaining, errorOccurred, error, mode, out, delivered, outcome>>
  /\ NoWorkerStep

\* Mutant: the stored exception is looked at before the workers are joined.
JoinLate ==
  /\ cpc = "join"
  /\ outcome' = IF outcome # "none" THEN outcome ELSE IF error # "none" THEN "error" ELSE "returned"
  /\ cpc' = "ended"
  /\ UNCHANGED <<sharedVars, mode, out, delivered>>
  /\ NoWorkerStep

\* The end of run(): the workers are joined, then the stored exception is rethrown.
Join ==
  /\ cpc = "join" /\ \A w \in Workers : wpc[w] = "done"
  /\ outcome' = IF outcome # "none" THEN outcome ELSE IF error # "none" THEN "error" ELSE "returned"
  /\ cpc' = "ended"
  /\ UNCHANGED <<sharedVars, mode, out, delivered>>
  /\ NoWorkerStep

\* The destructor, before or after the end of the streams, asks the workers to stop.
Destroy ==
  /\ cpc \in {"idle", "ended"} /\ cpc' = "destroy"
  /\ stopRequested' = TRUE
  /\ out' = NoBuffer
  /\ UNCHANGED <<emptyItems, fullItems, remaining, errorOccurred, error, mode, delivered, outcome>>
  /\ NoWorkerStep

\* It deletes the buffers in the queues when the workers are gone.
DestroyJoin ==
  /\ cpc = "destroy" /\ \A w \in Workers : wpc[w] = "done"
  /\ cpc' = "destroyed"
  /\ emptyItems' = 0 /\ fullItems' = <<>>
  /\ UNCHANGED <<remaining, errorOccurred, stopRequested, error, mode, out, delivered, outcome>>
  /\ NoWorkerStep

ConsumerStep ==
  \/ Read \/ ReadNext \/ Pop \/ TestError \/ TestRemaining \/ PopLast
  \/ Consume \/ ConsumeThrows \/ StopWorkers \/ Join \/ Destroy \/ DestroyJoin

Rest == cpc = "destroyed" /\ UNCHANGED vars

Next == (\E w \in Workers : WorkerStep(w)) \/ ConsumerStep \/ Rest

Spec == Init /\ [][Next]_vars
FairSpec == Spec /\ (\A w \in Workers : WF_vars(WorkerStep(w))) /\ WF_vars(ConsumerStep)

-----------------------------------------------------------------------------
(* Correctness.                                                             *)

HeldBy(w) == IF held[w] = NoBuffer THEN <<>> ELSE held[w]
InHand    == IF out = NoBuffer THEN <<>> ELSE out
Buffers   == [w \in Workers |-> HeldBy(w)]

\* As long as no exception and no destructor deletes a buffer, a particle that was read from
\* its stream is in one place: in one buffer or with the consumer, neither lost nor twice.
Everywhere == FlattenSeq(Buffers) \o FlattenSeq(fullItems) \o InHand \o delivered
ReadSoFar  == UNION {{d} \X (1..read[d]) : d \in Streams}
EachInOnePlace ==
  /\ IsInjective(Everywhere)
  /\ (\A w \in Workers : fault[w] = "none") /\ outcome # "consumer error" /\ cpc \notin {"destroy", "destroyed"}
       => Range(Everywhere) = ReadSoFar

\* Two workers are never at the same stream: the streams are not made for two threads.
OneReaderPerStream == \A v, w \in Workers : (v # w /\ pin[v] = pin[w]) => pin[v] = 0

\* run() returns without an exception only after consume_buffer() was given every particle
\* of every stream; a reader without an error is told of the end only after that too.
EndMeansAll ==
  (outcome = "returned" \/ (outcome = "end" /\ ~errorOccurred)) => Range(delivered) = Particles

\* The exception that run() rethrows is what a stream threw, never the "worker interrupted"
\* by which run() itself stops the other workers; and run() returns only if no worker failed,
\* although errorOccurred is set before the exception is stored.
RethrowsTheCause ==
  /\ outcome = "error" => error = "producer"
  /\ outcome = "returned" => ~errorOccurred

\* run() gives the particles of a stream in their order, whichever worker read it and
\* however the workers' buffers are mixed.
InStreamOrder ==
  mode = "run" =>
    \A i, j \in DOMAIN delivered :
      (i < j /\ delivered[i][1] = delivered[j][1]) => delivered[i][2] < delivered[j][2]

\* When the destructor has returned no buffer is left in a queue or with a worker, and
\* no buffer is handed out twice: the workers make two each.
NoBufferLeft ==
  /\ emptyItems + Len(fullItems) + Cardinality({w \in Workers : held[w] # NoBuffer})
       + (IF out = NoBuffer THEN 0 ELSE 1) <= 2 * NumWorkers
  /\ cpc = "destroyed" => /\ \A w \in Workers : held[w] = NoBuffer
                          /\ emptyItems = 0 /\ fullItems = <<>> /\ out = NoBuffer

\* The three together: no particle and no buffer is lost, doubled or overtaken on its way from
\* a stream through the two queues to consume_buffer().
Conserved == TypeOK /\ EachInOnePlace /\ InStreamOrder /\ NoBufferLeft

\* The consumer always comes to an end, also when it stops half way with all buffers full:
\* the workers it joins are not left waiting for an empty buffer.
ConsumerEnds == <>(cpc = "destroyed")

=============================================================================
