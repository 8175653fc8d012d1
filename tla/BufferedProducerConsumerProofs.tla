------------------- MODULE BufferedProducerConsumerProofs -------------------
(***************************************************************************)
(* Proofs about BufferedProducerConsumer, for any number of workers and      *)
(* streams and any length of the buffers: a stream has one reader at a time, *)
(* run() rethrows the exception that a stream threw, and the consumer that   *)
(* is told of the end without an error was given every particle; then, that a *)
(* particle that was read is in one place, run() gives the particles of a   *)
(* stream in their order, and no buffer is left or handed out twice.        *)
(***************************************************************************)
EXTENDS BufferedProducerConsumer, FiniteSetTheorems, SequenceTheorems, FoldLemmas, TLAPS

Running == {w \in Workers : wpc[w] # "done"}
AllDone == \A w \in Workers : wpc[w] = "done"

\* The consumer itself has made the workers stop, so that "worker interrupted" may be stored.
Excused == mode = "read" \/ outcome = "consumer error" \/ cpc \in {"destroy", "destroyed"}

\* Streams are handed out in their order, so that a new one is nobody else's.
Pins ==
  /\ current \in Nat \ {0}
  /\ pin \in [Workers -> Nat]
  /\ \A w \in Workers : pin[w] < current
  /\ OneReaderPerStream

\* The worker that set errorOccurred first stores its exception; what it caught is an
\* interruption only if the consumer caused it.
Faults ==
  /\ wpc \in [Workers -> WorkerPlaces]
  /\ fault \in [Workers -> {"none", "producer", "interrupted"}]
  /\ error \in {"none", "producer", "interrupted"}
  /\ errorOccurred \in BOOLEAN /\ stopRequested \in BOOLEAN
  /\ \A w \in Workers :
       /\ wpc[w] \in {"catch", "store"} => fault[w] # "none"
       /\ wpc[w] \in {"store", "stop"} => errorOccurred
       /\ wpc[w] = "catch" /\ fault[w] = "interrupted" /\ ~errorOccurred => Excused
       /\ wpc[w] = "store" /\ fault[w] = "interrupted" => Excused
  /\ errorOccurred => error # "none" \/ \E w \in Workers : wpc[w] = "store"
  /\ error # "none" => errorOccurred
  /\ error = "interrupted" => Excused

\* The consumer stops the workers because of an error, because it must go, or when they are
\* gone; the counter tells it when they are.
Consumer ==
  /\ remaining = Cardinality(Running)
  /\ mode \in {"run", "read"} /\ cpc \in ConsumerPlaces
  /\ outcome \in {"none", "end", "returned", "error", "consumer error"}
  /\ stopRequested /\ ~errorOccurred => Excused \/ AllDone
  /\ cpc = "last" => AllDone
  /\ cpc = "consume" => mode = "run"
  /\ cpc \in {"stop", "join"} => mode = "run" /\ (Excused \/ errorOccurred \/ AllDone)
  /\ cpc \notin {"join", "ended", "destroy", "destroyed"} => outcome \in {"none", "consumer error"}
  /\ cpc = "join" => outcome \in {"none", "consumer error"}
  /\ outcome \in {"returned", "error"} => AllDone

PCInv == Pins /\ Faults /\ Consumer /\ RethrowsTheCause

-----------------------------------------------------------------------------
\* The workers can be counted.
LEMMA WorkersFinite == IsFiniteSet(Workers)
  BY ProducerAssumption, FS_Interval DEF Workers

\* The counter follows the workers: only its last step takes a worker out of the running.
LEMMA RunningCount ==
  ASSUME NEW w \in Workers, wpc \in [Workers -> WorkerPlaces],
         remaining = Cardinality(Running), wpc[w] # "done", NEW place \in WorkerPlaces,
         wpc' = [wpc EXCEPT ![w] = place]
  PROVE  /\ remaining \in Nat
         /\ place # "done" => Cardinality(Running') = remaining
         /\ place = "done" => Cardinality(Running') = remaining - 1
<1>1. IsFiniteSet(Running) /\ w \in Running
  BY WorkersFinite, FS_Subset DEF Running
<1>2. remaining \in Nat BY <1>1, FS_CardinalityType
<1>3. place # "done" => Running' = Running BY DEF Running
<1>4. place = "done" => Running' = Running \ {w} BY DEF Running
<1> QED BY <1>1, <1>2, <1>3, <1>4, FS_RemoveElement

\* A counter of 0 means that no worker is left.
LEMMA ZeroMeansDone == ASSUME remaining = Cardinality(Running), remaining = 0 PROVE AllDone
<1>1. IsFiniteSet(Running) BY WorkersFinite, FS_Subset DEF Running
<1>2. Running = {} BY <1>1, FS_EmptySet
<1> QED BY <1>2 DEF Running, AllDone

\* It holds at first.
LEMMA PCInit == Init => PCInv
<1> SUFFICES ASSUME Init PROVE PCInv
  OBVIOUS
<1>1. Pins BY DEF Init, Pins, OneReaderPerStream
<1>2. Faults BY DEF Init, Faults, WorkerPlaces
<1>3. Consumer
  <2>1. Running = Workers BY DEF Running, Init
  <2>2. Cardinality(Workers) = NumWorkers BY ProducerAssumption, FS_Interval DEF Workers
  <2> QED BY <2>1, <2>2, ProducerAssumption DEF Init, Consumer, ConsumerPlaces
<1>4. RethrowsTheCause BY DEF Init, RethrowsTheCause
<1> QED BY <1>1, <1>2, <1>3, <1>4 DEF PCInv

\* A step of a worker.
LEMMA WorkerKeeps ==
  ASSUME PCInv, NEW w \in Workers, WorkerStep(w) PROVE PCInv'
<1> USE DEF PCInv, Go, consumerVars
<1>0. wpc[w] # "done" /\ ~AllDone
  BY DEF WorkerStep, Start, TestStop, ProduceNoMore, TakeStream, HandOver, PopEmpty, SpinTestStop, Fill, Throws, Catch, Store, RequestStop, Exit, AllDone
<1>1. Pins'
  <2> USE DEF Pins, OneReaderPerStream
  <2>1. CASE TakeStream(w) BY <2>1 DEF TakeStream
  <2>2. CASE Fill(w) 
    <3>1. current' = current /\ \E n \in {0, pin[w]} : pin' = [pin EXCEPT ![w] = n]
      BY <2>2 DEF Fill
    <3> QED BY <3>1
  <2>3. CASE UNCHANGED <<current, pin>> BY <2>3
  <2> QED BY <2>1, <2>2, <2>3 DEF WorkerStep, Start, TestStop, ProduceNoMore, HandOver, PopEmpty, SpinTestStop, Throws, Catch, Store, RequestStop, Exit
<1>2. UNCHANGED <<mode, cpc, out, delivered, outcome>> /\ (Excused' <=> Excused)
  BY DEF WorkerStep, Start, TestStop, ProduceNoMore, TakeStream, HandOver, PopEmpty, SpinTestStop, Fill, Throws, Catch, Store, RequestStop, Exit, Excused
<1>3. \E place \in WorkerPlaces : wpc' = [wpc EXCEPT ![w] = place] /\ (place = "done" <=> Exit(w))
  BY <1>0 DEF WorkerStep, Start, TestStop, ProduceNoMore, TakeStream, HandOver, PopEmpty, SpinTestStop, Fill, Throws, Catch, Store, RequestStop, Exit, WorkerPlaces, Faults
<1>4. Faults'
  <2> USE DEF Faults, WorkerPlaces
  <2>1. CASE Start(w) \/ PopEmpty(w) \/ HandOver(w) \/ ProduceNoMore(w) \/ TakeStream(w)
    <3>1. /\ UNCHANGED <<fault, error, errorOccurred, stopRequested>>
          /\ wpc[w] \notin {"catch", "store", "stop"}
          /\ wpc' = wpc \/ \E place \in {"test", "spin", "fill", "pop", "exit"} : wpc' = [wpc EXCEPT ![w] = place]
      BY <2>1 DEF Start, PopEmpty, HandOver, ProduceNoMore, TakeStream, sharedVars
    <3>2. errorOccurred' <=> errorOccurred BY <3>1
    <3> QED BY <1>2, <3>1, <3>2
  <2>2. CASE TestStop(w) \/ SpinTestStop(w)
    <3>1. UNCHANGED <<error, errorOccurred, stopRequested>> /\ wpc[w] \in {"test", "spin"}
      BY <2>2 DEF TestStop, SpinTestStop, sharedVars
    <3>2. errorOccurred' <=> errorOccurred BY <3>1
    <3>3. CASE stopRequested
      <4>1. wpc' = [wpc EXCEPT ![w] = "catch"] /\ fault' = [fault EXCEPT ![w] = "interrupted"]
        BY <2>2, <3>3 DEF TestStop, SpinTestStop
      <4>2. ~errorOccurred => Excused BY <1>0, <3>3 DEF Consumer
      <4> QED BY <1>2, <3>1, <3>2, <4>1, <4>2
    <3>4. CASE ~stopRequested
      <4>1. fault' = fault /\ \E place \in {"more", "pop"} : wpc' = [wpc EXCEPT ![w] = place]
        BY <2>2, <3>4 DEF TestStop, SpinTestStop
      <4> QED BY <1>2, <3>1, <3>2, <4>1
    <3> QED BY <3>3, <3>4
  <2>3. CASE Fill(w)
    <3>1. UNCHANGED <<fault, sharedVars>> /\ \E place \in {"fill", "test"} : wpc' = [wpc EXCEPT ![w] = place]
      BY <2>3 DEF Fill
    <3> QED BY <1>2, <2>3, <3>1 DEF sharedVars, Fill
  <2>4. CASE Throws(w) BY <1>2, <2>4 DEF Throws, sharedVars
  <2>5. CASE Catch(w) BY <1>2, <2>5 DEF Catch
  <2>6. CASE Store(w) BY <1>2, <2>6 DEF Store
  <2>7. CASE RequestStop(w) BY <1>2, <2>7 DEF RequestStop
  <2>8. CASE Exit(w) BY <1>2, <2>8 DEF Exit
  <2> QED BY <2>1, <2>2, <2>3, <2>4, <2>5, <2>6, <2>7, <2>8 DEF WorkerStep
<1>5. remaining' = Cardinality(Running') /\ (stopRequested' => stopRequested \/ errorOccurred') /\ (errorOccurred => errorOccurred')
  <2>1. PICK place \in WorkerPlaces : wpc' = [wpc EXCEPT ![w] = place] /\ (place = "done" <=> Exit(w))
    BY <1>3
  <2>2. Exit(w) => remaining' = remaining - 1
    BY DEF Exit
  <2>3. ~Exit(w) => remaining' = remaining
    BY DEF WorkerStep, Start, TestStop, ProduceNoMore, TakeStream, HandOver, PopEmpty, SpinTestStop, Fill, Throws, Catch, Store, RequestStop, sharedVars
  <2>4. (stopRequested' => stopRequested \/ errorOccurred') /\ (errorOccurred => errorOccurred')
    BY DEF WorkerStep, Start, TestStop, ProduceNoMore, TakeStream, HandOver, PopEmpty, SpinTestStop, Fill, Throws, Catch, Store, RequestStop, Exit, sharedVars, Faults
  <2>5. Running' = {v \in Workers : wpc'[v] # "done"} BY DEF Running
  <2> QED BY <1>0, <2>1, <2>2, <2>3, <2>4, RunningCount DEF Faults, Consumer
<1>6. Consumer' BY <1>0, <1>2, <1>5 DEF Consumer
<1>7. RethrowsTheCause' BY <1>0, <1>2 DEF Consumer, RethrowsTheCause
<1> QED BY <1>1, <1>4, <1>6, <1>7

\* A step of the consumer: no worker moves.
LEMMA ConsumerKeeps == ASSUME PCInv, ConsumerStep PROVE PCInv'
<1> USE DEF PCInv, NoWorkerStep, workerVars
<1>1. Pins'
  <2>1. UNCHANGED workerVars
    BY DEF ConsumerStep, Read, ReadNext, Pop, TestError, TestRemaining, PopLast, Consume, ConsumeThrows, StopWorkers, Join, Destroy, DestroyJoin
  <2> QED BY <2>1 DEF Pins, OneReaderPerStream
<1>2. UNCHANGED <<wpc, fault, error, errorOccurred, remaining, mode>>
  BY DEF ConsumerStep, Read, ReadNext, Pop, TestError, TestRemaining, PopLast, Consume, ConsumeThrows, StopWorkers, Join, Destroy, DestroyJoin, sharedVars
<1>3. Running' = Running /\ (AllDone' <=> AllDone) /\ (errorOccurred' <=> errorOccurred)
  BY <1>2 DEF Running, AllDone
<1>4. (Excused => Excused') /\ stopRequested' \in BOOLEAN
  BY DEF ConsumerStep, Read, ReadNext, Pop, TestError, TestRemaining, PopLast, Consume, ConsumeThrows, StopWorkers, Join, Destroy, DestroyJoin, sharedVars, Excused, Faults, Consumer, ConsumerPlaces
<1>5. Faults' BY <1>2, <1>4 DEF Faults
<1>6. Consumer' /\ RethrowsTheCause'
  <2> USE <1>2, <1>3 DEF Consumer, ConsumerPlaces, sharedVars, RethrowsTheCause, Excused
  <2>1. CASE Read \/ ReadNext
    <3>1. UNCHANGED <<stopRequested, outcome>> /\ cpc = "idle" /\ cpc' \in {"idle", "pop"} BY <2>1 DEF Read, ReadNext
    <3> QED BY <3>1
  <2>2. CASE Pop
    <3>1. UNCHANGED <<stopRequested, outcome>> /\ cpc = "pop"
      BY <2>2 DEF Pop
    <3>2. cpc' \in {"idle", "error"} \/ (cpc' = "consume" /\ mode = "run")
      BY <2>2 DEF Pop
    <3> QED BY <3>1, <3>2
  <2>3. CASE TestError BY <2>3 DEF TestError, Faults
  <2>4. CASE TestRemaining BY <2>4, ZeroMeansDone DEF TestRemaining
  <2>5. CASE PopLast BY <2>5 DEF PopLast
  <2>6. CASE Consume BY <2>6 DEF Consume
  <2>7. CASE ConsumeThrows BY <2>7 DEF ConsumeThrows
  <2>8. CASE StopWorkers BY <2>8 DEF StopWorkers
  <2>9. CASE Join
    <3>1. AllDone BY <2>9 DEF Join, AllDone
    <3>2. errorOccurred => error # "none" BY <3>1 DEF Faults, AllDone
    <3>3. outcome = "none" /\ error # "none" => error = "producer" BY <2>9 DEF Join, Faults
    <3> QED BY <2>9, <3>1, <3>2, <3>3 DEF Join
  <2>10. CASE Destroy BY <2>10 DEF Destroy
  <2>11. CASE DestroyJoin BY <2>11 DEF DestroyJoin
  <2> QED BY <2>1, <2>2, <2>3, <2>4, <2>5, <2>6, <2>7, <2>8, <2>9, <2>10, <2>11 DEF ConsumerStep
<1> QED BY <1>1, <1>5, <1>6

\* Any step.
LEMMA PCStep == PCInv /\ [Next]_vars => PCInv'
<1> SUFFICES ASSUME PCInv, [Next]_vars PROVE PCInv'
  OBVIOUS
<1>1. CASE \E w \in Workers : WorkerStep(w) BY <1>1, WorkerKeeps
<1>2. CASE ConsumerStep BY <1>2, ConsumerKeeps
<1>3. CASE UNCHANGED vars
  BY <1>3 DEF PCInv, Pins, OneReaderPerStream, Faults, Consumer, RethrowsTheCause, Excused, AllDone, Running, vars, sharedVars, workerVars, consumerVars
<1> QED BY <1>1, <1>2, <1>3 DEF Next, Rest

\* The invariant of the flags and of the exceptions.
THEOREM PCAlways == Spec => []PCInv
  BY PCInit, PCStep, PTL DEF Spec

\* A stream is read by one worker at a time, however many workers and streams there are.
THEOREM OneReader == Spec => []OneReaderPerStream
<1>1. PCInv => OneReaderPerStream BY DEF PCInv, Pins
<1> QED BY <1>1, PCAlways, PTL

\* run() rethrows what a stream threw, and returns only if nothing was thrown: the worker that
\* was first to set errorOccurred has stored its exception before it can be joined.
THEOREM FirstCause == Spec => []RethrowsTheCause
<1>1. PCInv => RethrowsTheCause BY DEF PCInv
<1> QED BY <1>1, PCAlways, PTL

-----------------------------------------------------------------------------
(* The end of the streams.                                                  *)

Holds(s, x) == \E i \in 1..Len(s) : s[i] = x

\* The particle x is in a buffer, wherever that is, or was delivered.
Kept(x) ==
  \/ \E w \in Workers : held[w] # NoBuffer /\ Holds(held[w], x)
  \/ \E q \in 1..Len(fullItems) : Holds(fullItems[q], x)
  \/ out # NoBuffer /\ Holds(out, x)
  \/ Holds(delivered, x)

Ranges ==
  /\ current \in 1..(Len(Counts) + 1)
  /\ read \in [Streams -> Nat]
  /\ held \in [Workers -> Seq(Particles) \cup {NoBuffer}]
  /\ fullItems \in Seq(Seq(Particles))
  /\ out \in Seq(Particles) \cup {NoBuffer}
  /\ delivered \in Seq(Particles)

\* Which workers hold a buffer, and which a stream.
Hands ==
  \A w \in Workers :
    /\ wpc[w] \in {"test", "more", "fill"} => held[w] # NoBuffer
    /\ wpc[w] \in {"start", "pop", "spin", "store", "stop", "exit", "done"} => held[w] = NoBuffer
    /\ wpc[w] \in {"fill", "pop", "spin"} => pin[w] # 0
    /\ wpc[w] \in {"exit", "done"} => errorOccurred \/ (pin[w] = 0 /\ current > Len(Counts))

\* A stream that was handed out is read up, or a worker is still at it.
Drained ==
  \A d \in Streams :
    /\ read[d] <= Counts[d]
    /\ d < current => read[d] = Counts[d] \/ \E w \in Workers : pin[w] = d

\* Nothing deletes a buffer but an error and the destructor.
Intact == ~errorOccurred /\ outcome # "consumer error" /\ cpc \notin {"destroy", "destroyed"}
Located == Intact => \A d \in Streams : \A i \in 1..read[d] : Kept(<<d, i>>)

\* run() leaves its loop without an error only when it has seen the queue empty after the
\* last worker.
Left ==
  /\ cpc \notin {"idle", "consume"} => out = NoBuffer
  /\ cpc = "consume" => out # NoBuffer
  /\ cpc \in {"idle", "pop", "error", "remaining", "last", "consume"} => outcome = "none"
  /\ cpc \in {"stop", "join"} /\ outcome = "none" /\ ~errorOccurred => AllDone /\ fullItems = <<>>

EndInv == Ranges /\ Hands /\ Drained /\ Located /\ Left /\ EndMeansAll

-----------------------------------------------------------------------------
(* Sequences.                                                               *)

\* The streams are numbered from 1.
LEMMA StreamsAreNumbers == Streams = 1..Len(Counts) /\ Len(Counts) \in Nat /\ \A d \in Streams : Counts[d] \in Nat
  BY ProducerAssumption DEF Streams

\* The particles of a stream.
LEMMA ParticlePairs == \A d \in Streams : \A i \in 1..Counts[d] : <<d, i>> \in Particles
  BY DEF Particles

\* The stream a worker reads exists.
LEMMA PinnedStream == ASSUME Pins, Ranges, NEW w \in Workers, pin[w] # 0 PROVE pin[w] \in Streams
  BY StreamsAreNumbers DEF Pins, Ranges

\* What a concatenation holds is in one of its parts.
LEMMA HoldsConcat ==
  ASSUME NEW S, NEW s \in Seq(S), NEW t \in Seq(S), NEW x
  PROVE  s \o t \in Seq(S) /\ (Holds(s \o t, x) <=> Holds(s, x) \/ Holds(t, x))
<1> DEFINE m == Len(s)
           n == Len(t)
           u == s \o t
<1>1. /\ m \in Nat /\ n \in Nat /\ u \in Seq(S) /\ Len(u) = m + n
      /\ \A i \in 1..(m + n) : u[i] = IF i <= m THEN s[i] ELSE t[i - m]
  OBVIOUS
<1> HIDE DEF m, n, u
<1>2. ASSUME NEW i \in 1..(m + n), u[i] = x PROVE (\E j \in 1..m : s[j] = x) \/ \E j \in 1..n : t[j] = x
  <2>1. CASE i <= m BY <2>1, <1>2, <1>1
  <2>2. CASE ~(i <= m)
    <3>1. i - m \in 1..n BY <2>2, <1>1
    <3> QED BY <3>1, <2>2, <1>2, <1>1
  <2> QED BY <2>1, <2>2
<1>3. ASSUME NEW j \in 1..m, s[j] = x PROVE \E i \in 1..(m + n) : u[i] = x
  BY <1>1, <1>3
<1>4. ASSUME NEW j \in 1..n, t[j] = x PROVE \E i \in 1..(m + n) : u[i] = x
  <2>1. j + m \in 1..(m + n) /\ ~(j + m <= m) /\ (j + m) - m = j BY <1>1
  <2> QED BY <2>1, <1>1, <1>4
<1> QED BY <1>1, <1>2, <1>3, <1>4 DEF Holds, m, n, u

\* The empty sequence holds nothing.
LEMMA HoldsNothing == \A x : ~Holds(<<>>, x)
  BY DEF Holds

\* A queue with one buffer more.
LEMMA HoldsQueued ==
  ASSUME fullItems \in Seq(Seq(Particles)), NEW b \in Seq(Particles), fullItems' = Append(fullItems, b)
  PROVE  /\ fullItems' \in Seq(Seq(Particles))
         /\ \A x : (\E q \in 1..Len(fullItems) : Holds(fullItems[q], x)) \/ Holds(b, x)
                    => \E q \in 1..Len(fullItems') : Holds(fullItems'[q], x)
<1>1. /\ fullItems' \in Seq(Seq(Particles)) /\ Len(fullItems') = Len(fullItems) + 1 /\ Len(fullItems) \in Nat
      /\ \A q \in 1..Len(fullItems) : fullItems'[q] = fullItems[q]
      /\ fullItems'[Len(fullItems) + 1] = b
  OBVIOUS
<1>2. \A q \in 1..Len(fullItems) : q \in 1..Len(fullItems')
  BY <1>1
<1>3. Len(fullItems) + 1 \in 1..Len(fullItems')
  BY <1>1
<1>4. ASSUME NEW x, NEW q \in 1..Len(fullItems), Holds(fullItems[q], x)
      PROVE  \E r \in 1..Len(fullItems') : Holds(fullItems'[r], x)
  <2>1. fullItems'[q] = fullItems[q] BY <1>1
  <2>2. Holds(fullItems'[q], x) BY <2>1, <1>4
  <2> QED BY <1>2, <2>2
<1>5. ASSUME NEW x, Holds(b, x)
      PROVE  \E r \in 1..Len(fullItems') : Holds(fullItems'[r], x)
  <2>1. Holds(fullItems'[Len(fullItems) + 1], x) BY <1>1, <1>5
  <2> QED BY <1>3, <2>1
<1> QED BY <1>1, <1>4, <1>5

\* What get_particles() of a stream adds to a buffer.
Given(d, n) == [i \in 1..n |-> <<d, read[d] + i>>]

\* A buffer that is filled holds what it held and what the stream gave.
LEMMA HoldsFilled ==
  ASSUME Ranges, Drained, NEW d \in Streams, NEW n \in Nat, n <= Counts[d] - read[d],
         NEW b \in Seq(Particles)
  PROVE  /\ b \o Given(d, n) \in Seq(Particles)
         /\ \A x : Holds(b, x) => Holds(b \o Given(d, n), x)
         /\ \A i \in (read[d] + 1)..(read[d] + n) : Holds(b \o Given(d, n), <<d, i>>)
<1> DEFINE e == Given(d, n)
<1>1. read[d] \in Nat /\ Counts[d] \in Nat
  BY StreamsAreNumbers DEF Ranges
<1>2. \A i \in 1..n : <<d, read[d] + i>> \in Particles
  <2> SUFFICES ASSUME NEW i \in 1..n PROVE <<d, read[d] + i>> \in Particles
    OBVIOUS
  <2>1. read[d] + i \in 1..Counts[d] BY <1>1
  <2> QED BY <2>1, ParticlePairs
<1>3. e \in Seq(Particles) /\ Len(e) = n /\ \A i \in 1..n : e[i] = <<d, read[d] + i>>
  BY <1>2 DEF Given
<1> HIDE DEF e
<1>4. \A i \in (read[d] + 1)..(read[d] + n) : Holds(e, <<d, i>>)
  <2> SUFFICES ASSUME NEW i \in (read[d] + 1)..(read[d] + n) PROVE Holds(e, <<d, i>>)
    OBVIOUS
  <2>1. i - read[d] \in 1..n /\ read[d] + (i - read[d]) = i BY <1>1
  <2>2. e[i - read[d]] = <<d, i>> BY <2>1, <1>3
  <2> QED BY <2>1, <2>2, <1>3 DEF Holds
<1>5. b \o e \in Seq(Particles) /\ \A x : Holds(b \o e, x) <=> Holds(b, x) \/ Holds(e, x)
  BY <1>3, HoldsConcat
<1> QED BY <1>4, <1>5 DEF e

-----------------------------------------------------------------------------
(* A step of a worker.                                                      *)

\* A particle stays in a buffer unless an error deletes the buffer.
LEMMA WorkerLosesNothing ==
  ASSUME Pins, Ranges, Hands, Drained, NEW w \in Workers, WorkerStep(w), ~errorOccurred', NEW x, Kept(x)
  PROVE  Kept(x)'
<1> USE DEF Ranges, consumerVars, sharedVars
<1>0. UNCHANGED <<out, delivered>>
  BY DEF WorkerStep, Start, TestStop, ProduceNoMore, TakeStream, HandOver, PopEmpty, SpinTestStop, Fill, Throws, Catch, Store, RequestStop, Exit
<1>1. CASE UNCHANGED <<held, fullItems>>
  BY <1>0, <1>1 DEF Kept
<1>2. CASE held[w] = NoBuffer /\ fullItems' = fullItems /\ \E b : held' = [held EXCEPT ![w] = b]
  <2>1. \A v \in Workers : held[v] # NoBuffer => held'[v] = held[v]
    BY <1>2
  <2> QED BY <1>0, <1>2, <2>1 DEF Kept
<1>3. CASE /\ held[w] # NoBuffer /\ held' = [held EXCEPT ![w] = NoBuffer]
           /\ fullItems' = Append(fullItems, held[w])
  <2>1. /\ \A q \in 1..Len(fullItems) : Holds(fullItems[q], x) => \E r \in 1..Len(fullItems') : Holds(fullItems'[r], x)
        /\ Holds(held[w], x) => \E r \in 1..Len(fullItems') : Holds(fullItems'[r], x)
    BY <1>3, HoldsQueued
  <2>2. \A v \in Workers \ {w} : held'[v] = held[v]
    BY <1>3
  <2> QED BY <1>0, <2>1, <2>2 DEF Kept
<1>4. CASE Start(w) \/ PopEmpty(w)
  <2>1. held[w] = NoBuffer BY <1>4 DEF Start, PopEmpty, Hands
  <2> QED BY <1>1, <1>2, <1>4, <2>1 DEF Start, PopEmpty
<1>5. CASE HandOver(w)
  <2>1. held[w] # NoBuffer BY <1>5 DEF HandOver, Hands
  <2> QED BY <1>1, <1>3, <1>5, <2>1 DEF HandOver
<1>6. CASE ProduceNoMore(w)
  <2>1. held[w] # NoBuffer BY <1>6 DEF ProduceNoMore, Hands
  <2>2. CASE held[w] # <<>>
    BY <1>3, <1>6, <2>1, <2>2 DEF ProduceNoMore
  <2>3. CASE held[w] = <<>>
    <3>1. fullItems' = fullItems /\ ~Holds(held[w], x) /\ \A v \in Workers \ {w} : held'[v] = held[v]
      BY <1>6, <2>3, HoldsNothing DEF ProduceNoMore
    <3> QED BY <1>0, <3>1 DEF Kept
  <2> QED BY <2>2, <2>3
<1>7. CASE Fill(w)
  <2>1. held[w] # NoBuffer /\ held[w] \in Seq(Particles) /\ pin[w] # 0
    BY <1>7 DEF Fill, Hands
  <2>2. fullItems' = fullItems /\ \E c : held' = [held EXCEPT ![w] = c] /\ (Holds(held[w], x) => Holds(c, x)) /\ c # NoBuffer
    <3>1. PICK c : held' = [held EXCEPT ![w] = c] /\ \E n \in 0..(2 * Half - Len(held[w])) :
                 c = held[w] \o Given(pin[w], n) /\ n <= Counts[pin[w]] - read[pin[w]]
      BY <1>7 DEF Fill, Given
    <3>2. PICK n \in 0..(2 * Half - Len(held[w])) :
             c = held[w] \o Given(pin[w], n) /\ n <= Counts[pin[w]] - read[pin[w]]
      BY <3>1
    <3>3. n \in Nat BY ProducerAssumption, <2>1
    <3>4. pin[w] \in Streams BY <2>1, PinnedStream, Zenon
    <3>5. c \in Seq(Particles) /\ (Holds(held[w], x) => Holds(c, x))
      BY <2>1, <3>2, <3>3, <3>4, HoldsFilled
    <3> QED BY <1>7, <3>1, <3>5, ProducerAssumption DEF Fill
  <2>3. \A v \in Workers \ {w} : held'[v] = held[v]
    BY <2>2
  <2>4. Holds(held[w], x) => held'[w] # NoBuffer /\ Holds(held'[w], x)
    BY <2>2
  <2> QED BY <1>0, <2>2, <2>3, <2>4 DEF Kept
<1>8. CASE Catch(w) BY <1>8 DEF Catch
<1> QED BY <1>1, <1>4, <1>5, <1>6, <1>7, <1>8 DEF WorkerStep, TestStop, TakeStream, SpinTestStop, Throws, Store, RequestStop, Exit

\* What a step of get_particles() does, read off the definition.
LEMMA FillGives ==
  ASSUME Pins, Ranges, Hands, Drained, NEW w \in Workers, Fill(w)
  PROVE  /\ pin[w] \in Streams /\ held[w] \in Seq(Particles)
         /\ \E n \in Nat :
              /\ n <= Counts[pin[w]] - read[pin[w]]
              /\ read' = [read EXCEPT ![pin[w]] = read[pin[w]] + n]
              /\ held' = [held EXCEPT ![w] = held[w] \o Given(pin[w], n)]
              /\ pin' = pin \/ (pin' = [pin EXCEPT ![w] = 0] /\ read[pin[w]] + n = Counts[pin[w]])
<1>1. pin[w] \in Streams
  BY PinnedStream DEF Fill, Hands
<1>2. held[w] \in Seq(Particles)
  BY DEF Fill, Hands, Ranges
<1>3. read[pin[w]] \in Nat /\ Counts[pin[w]] \in Nat
  BY <1>1, StreamsAreNumbers DEF Ranges
<1> DEFINE room == 2 * Half - Len(held[w])
           left == Counts[pin[w]] - read[pin[w]]
<1>4. room \in Int
  BY <1>2, ProducerAssumption
<1>5. PICK n \in 0..room, more \in BOOLEAN :
        /\ n <= left /\ (n = 0 => left = 0) /\ (more <=> n > 0 /\ (n < left \/ n = room))
        /\ read' = [read EXCEPT ![pin[w]] = read[pin[w]] + n]
        /\ held' = [held EXCEPT ![w] = held[w] \o Given(pin[w], n)]
        /\ pin' = [pin EXCEPT ![w] = IF more THEN pin[w] ELSE 0]
  BY DEF Fill, Given
<1>6. n \in Nat /\ left \in Int
  BY <1>3, <1>4
<1> HIDE DEF room, left
<1>7. n <= left /\ (pin' = pin \/ (pin' = [pin EXCEPT ![w] = 0] /\ n = left))
  <2>1. CASE more
    <3>1. pin' = [pin EXCEPT ![w] = pin[w]] BY <1>5, <2>1
    <3> QED BY <3>1, <1>5 DEF Pins
  <2>2. CASE ~more
    <3>1. n = left BY <2>2, <1>5, <1>6, <1>4
    <3> QED BY <3>1, <2>2, <1>5
  <2> QED BY <2>1, <2>2
<1>8. n = left => read[pin[w]] + n = Counts[pin[w]]
  BY <1>3 DEF left
<1>9. n <= Counts[pin[w]] - read[pin[w]]
  BY <1>7 DEF left
<1> QED BY <1>1, <1>2, <1>5, <1>6, <1>7, <1>8, <1>9

\* A step of a worker keeps the invariant.
LEMMA EndWorker ==
  ASSUME PCInv, PCInv', EndInv, NEW w \in Workers, WorkerStep(w) PROVE EndInv'
<1> USE DEF PCInv, EndInv, consumerVars
<1>1. /\ UNCHANGED <<cpc, out, delivered, outcome>> /\ (errorOccurred => errorOccurred') /\ ~AllDone
  BY DEF WorkerStep, Start, TestStop, ProduceNoMore, TakeStream, HandOver, PopEmpty, SpinTestStop, Fill, Throws, Catch, Store, RequestStop, Exit, sharedVars, AllDone, Faults
<1>2. Ranges'
  <2> USE DEF Ranges
  <2>1. CASE Fill(w)
    <3>1. PICK n \in Nat :
              /\ n <= Counts[pin[w]] - read[pin[w]]
              /\ read' = [read EXCEPT ![pin[w]] = read[pin[w]] + n]
              /\ held' = [held EXCEPT ![w] = held[w] \o Given(pin[w], n)]
      BY <2>1, FillGives
    <3>2. pin[w] \in Streams /\ held[w] \in Seq(Particles)
      BY <2>1, FillGives
    <3>3. held[w] \o Given(pin[w], n) \in Seq(Particles)
      BY <3>1, <3>2, HoldsFilled
    <3>4. read' \in [Streams -> Nat] /\ held' \in [Workers -> Seq(Particles) \cup {NoBuffer}]
      BY <3>1, <3>2, <3>3
    <3> QED BY <1>1, <2>1, <3>4 DEF Fill, sharedVars
  <2>2. CASE TakeStream(w)
    BY <1>1, <2>2, StreamsAreNumbers DEF TakeStream, sharedVars
  <2>3. CASE UNCHANGED <<current, read, held, fullItems>>
    BY <1>1, <2>3
  <2>4. CASE UNCHANGED <<current, read, fullItems>> /\ \E b \in {<<>>, NoBuffer} : held' = [held EXCEPT ![w] = b]
    <3>1. <<>> \in Seq(Particles) OBVIOUS
    <3>2. held' \in [Workers -> Seq(Particles) \cup {NoBuffer}]
      BY <2>4, <3>1
    <3> QED BY <1>1, <2>4, <3>2
  <2>5. CASE /\ UNCHANGED <<current, read>> /\ held[w] # NoBuffer /\ fullItems' = Append(fullItems, held[w])
             /\ held' = [held EXCEPT ![w] = NoBuffer]
    <3>1. fullItems' \in Seq(Seq(Particles)) BY <2>5, HoldsQueued
    <3> QED BY <1>1, <2>5, <3>1
  <2>6. CASE Start(w) BY <2>4, <2>6 DEF Start
  <2>7. CASE ProduceNoMore(w)
    BY <2>4, <2>5, <2>7 DEF ProduceNoMore, Hands
  <2>8. CASE HandOver(w)
    BY <2>3, <2>5, <2>8 DEF HandOver, Hands
  <2>9. CASE PopEmpty(w) BY <2>3, <2>4, <2>9 DEF PopEmpty
  <2>10. CASE Catch(w) BY <2>4, <2>10 DEF Catch
  <2> QED BY <2>1, <2>2, <2>3, <2>6, <2>7, <2>8, <2>9, <2>10 DEF WorkerStep, TestStop, SpinTestStop, Throws, Store, RequestStop, Exit, sharedVars
<1>3. Drained'
  <2>1. CASE Fill(w)
    <3>1. PICK n \in Nat :
              /\ n <= Counts[pin[w]] - read[pin[w]]
              /\ read' = [read EXCEPT ![pin[w]] = read[pin[w]] + n]
              /\ pin' = pin \/ (pin' = [pin EXCEPT ![w] = 0] /\ read[pin[w]] + n = Counts[pin[w]])
      BY <2>1, FillGives
    <3>2. pin[w] \in Streams /\ read \in [Streams -> Nat] /\ Counts[pin[w]] \in Nat /\ current' = current
      BY <2>1, FillGives, StreamsAreNumbers DEF Ranges, Fill
    <3>3. read'[pin[w]] <= Counts[pin[w]] /\ (read'[pin[w]] = Counts[pin[w]] \/ pin'[w] = pin[w])
      BY <3>1, <3>2
    <3>4. ASSUME NEW d \in Streams, d # pin[w] PROVE read'[d] = read[d] /\ \A v \in Workers : pin[v] = d => pin'[v] = d
      BY <3>1, <3>2, <3>4 DEF Pins
    <3> QED BY <3>2, <3>3, <3>4 DEF Drained
  <2>2. CASE TakeStream(w)
    <3>1. read' = read /\ current' = current + 1 /\ pin' = [pin EXCEPT ![w] = current] /\ pin[w] = 0
      BY <2>2 DEF TakeStream
    <3>2. ASSUME NEW d \in Streams PROVE (d < current' => d < current \/ d = current) /\ d # 0
      BY <3>1, StreamsAreNumbers DEF Ranges
    <3>3. pin'[w] = current /\ \A v \in Workers : pin[v] # 0 => pin'[v] = pin[v]
      BY <3>1 DEF Pins
    <3> QED BY <3>1, <3>2, <3>3 DEF Drained
  <2>3. CASE UNCHANGED <<current, read, pin>> BY <2>3 DEF Drained
  <2> QED BY <2>1, <2>2, <2>3 DEF WorkerStep, Start, TestStop, ProduceNoMore, HandOver, PopEmpty, SpinTestStop, Throws, Catch, Store, RequestStop, Exit
<1>4. Located'
  <2> SUFFICES ASSUME Intact', NEW d \in Streams, NEW i \in 1..read'[d] PROVE Kept(<<d, i>>)'
    BY DEF Located
  <2>1. Intact /\ ~errorOccurred' BY <1>1 DEF Intact
  <2>2. CASE i \in 1..read[d]
    <3>1. Kept(<<d, i>>) BY <2>1, <2>2 DEF Located
    <3> QED BY <2>1, <3>1, WorkerLosesNothing
  <2>3. CASE i \notin 1..read[d]
    <3>1. Fill(w)
      <4>1. read' # read BY <2>3
      <4> QED BY <4>1 DEF WorkerStep, Start, TestStop, ProduceNoMore, TakeStream, HandOver, PopEmpty, SpinTestStop, Throws, Catch, Store, RequestStop, Exit
    <3>2. PICK n \in Nat :
              /\ n <= Counts[pin[w]] - read[pin[w]]
              /\ read' = [read EXCEPT ![pin[w]] = read[pin[w]] + n]
              /\ held' = [held EXCEPT ![w] = held[w] \o Given(pin[w], n)]
      BY <3>1, FillGives
    <3>3. pin[w] \in Streams /\ held[w] \in Seq(Particles) /\ read \in [Streams -> Nat]
      BY <3>1, FillGives DEF Ranges
    <3>4. d = pin[w] BY <2>3, <3>2, <3>3
    <3>5. i \in (read[d] + 1)..(read[d] + n) BY <2>3, <3>2, <3>3, <3>4
    <3>6. /\ held[w] \o Given(d, n) \in Seq(Particles)
          /\ \A j \in (read[d] + 1)..(read[d] + n) : Holds(held[w] \o Given(d, n), <<d, j>>)
      BY <3>2, <3>3, <3>4, HoldsFilled
    <3>7. held'[w] = held[w] \o Given(d, n) BY <3>2, <3>4 DEF Ranges
    <3>8. held'[w] # NoBuffer /\ Holds(held'[w], <<d, i>>)
      BY <3>5, <3>6, <3>7, ProducerAssumption
    <3> QED BY <3>8 DEF Kept
  <2> QED BY <2>2, <2>3
<1>5. Left'
  BY <1>1 DEF Left
<1>6. EndMeansAll'
  BY <1>1 DEF EndMeansAll
<1>7. Hands'
  <2> USE DEF Hands, Go, Faults
  <2>1. wpc \in [Workers -> WorkerPlaces] /\ pin \in [Workers -> Nat] /\ held \in [Workers -> Seq(Particles) \cup {NoBuffer}] /\ <<>> # NoBuffer
    <3>1. <<>> \in Seq(Particles) OBVIOUS
    <3>2. <<>> # NoBuffer BY <3>1, ProducerAssumption
    <3> QED BY <3>2 DEF Pins, Ranges
  <2>2. CASE Fill(w)
    <3>1. /\ held'[w] # NoBuffer /\ (wpc'[w] = "fill" => pin'[w] # 0) /\ wpc'[w] \in {"fill", "test"}
      <4>1. PICK n \in Nat : n <= Counts[pin[w]] - read[pin[w]] /\ held' = [held EXCEPT ![w] = held[w] \o Given(pin[w], n)]
        BY <2>2, FillGives
      <4>2. held[w] \o Given(pin[w], n) \in Seq(Particles)
        BY <2>2, <4>1, FillGives, HoldsFilled
      <4>3. held'[w] # NoBuffer BY <4>1, <4>2, <2>1, ProducerAssumption
      <4>4. (wpc'[w] = "fill" => pin'[w] # 0) /\ wpc'[w] \in {"fill", "test"}
        BY <2>1, <2>2 DEF Fill
      <4> QED BY <4>3, <4>4
    <3>2. \A v \in Workers \ {w} : wpc'[v] = wpc[v] /\ pin'[v] = pin[v] /\ held'[v] = held[v]
      BY <2>1, <2>2 DEF Fill
    <3>3. current' = current /\ (errorOccurred' <=> errorOccurred) BY <2>2 DEF Fill, sharedVars
    <3> QED BY <3>1, <3>2, <3>3
  <2>3. CASE TakeStream(w)
    <3>1. /\ UNCHANGED <<wpc, held>> /\ (errorOccurred' <=> errorOccurred) /\ wpc[w] = "more"
          /\ pin' = [pin EXCEPT ![w] = current] /\ current' = current + 1
          /\ current \in Nat \ {0} /\ ~(current > Len(Counts))
      BY <2>3, StreamsAreNumbers DEF TakeStream, sharedVars, Pins
    <3>2. \A v \in Workers \ {w} : wpc'[v] = wpc[v] /\ pin'[v] = pin[v] /\ held'[v] = held[v]
      BY <3>1, <2>1
    <3>3. wpc'[w] = "more" /\ pin'[w] # 0 /\ held'[w] # NoBuffer
      BY <3>1, <2>1
    <3> QED BY <3>1, <3>2, <3>3
  <2>4. CASE Start(w) \/ PopEmpty(w)
    <3>1. UNCHANGED <<pin, current>> /\ (errorOccurred' <=> errorOccurred)
      BY <2>4 DEF Start, PopEmpty
    <3>2. \/ held' = [held EXCEPT ![w] = <<>>] /\ wpc' = [wpc EXCEPT ![w] = "test"]
          \/ held' = [held EXCEPT ![w] = <<>>] /\ wpc' = [wpc EXCEPT ![w] = "fill"] /\ pin[w] # 0
          \/ held' = held /\ wpc' = [wpc EXCEPT ![w] = "spin"] /\ wpc[w] = "pop"
      BY <2>4 DEF Start, PopEmpty
    <3> QED BY <2>1, <3>1, <3>2
  <2>5. CASE ProduceNoMore(w) BY <2>1, <2>5 DEF ProduceNoMore
  <2>6. CASE HandOver(w) BY <2>1, <2>6 DEF HandOver
  <2>7. CASE TestStop(w) BY <2>1, <2>7 DEF TestStop, sharedVars
  <2>8. CASE SpinTestStop(w) BY <2>1, <2>8 DEF SpinTestStop, sharedVars
  <2>9. CASE Throws(w) BY <2>1, <2>9 DEF Throws, sharedVars
  <2>10. CASE Catch(w) BY <2>1, <2>10 DEF Catch
  <2>11. CASE Store(w) BY <2>1, <2>11 DEF Store
  <2>12. CASE RequestStop(w) BY <2>1, <2>12 DEF RequestStop
  <2>13. CASE Exit(w) BY <2>1, <2>13 DEF Exit
  <2> QED BY <2>2, <2>3, <2>4, <2>5, <2>6, <2>7, <2>8, <2>9, <2>10, <2>11, <2>12, <2>13 DEF WorkerStep
<1> QED BY <1>2, <1>3, <1>4, <1>5, <1>6, <1>7

-----------------------------------------------------------------------------
(* A step of the consumer.                                                  *)

\* What get_particles() leaves in the buffer and what it gives are all that was in it.
LEMMA HoldsSplit ==
  ASSUME NEW b \in Seq(Particles), NEW n \in 1..Len(b)
  PROVE  LET kept  == SubSeq(b, 1, Len(b) - n)
             given == Reverse(SubSeq(b, Len(b) - n + 1, Len(b)))
         IN  /\ kept \in Seq(Particles) /\ given \in Seq(Particles)
             /\ \A x : Holds(b, x) => Holds(kept, x) \/ Holds(given, x)
<1> DEFINE m == Len(b)
           kept  == SubSeq(b, 1, m - n)
           rest  == SubSeq(b, m - n + 1, m)
           given == Reverse(rest)
<1>1. m \in Nat /\ n \in 1..m /\ \A i \in 1..m : b[i] \in Particles
  OBVIOUS
<1>2. kept \in Seq(Particles) /\ Len(kept) = m - n /\ \A i \in 1..(m - n) : kept[i] = b[i]
  BY <1>1
<1>3. rest \in Seq(Particles) /\ Len(rest) = n /\ \A i \in 1..n : rest[i] = b[m - n + i]
  <2>1. /\ rest \in Seq(Particles)
        /\ Len(rest) = IF m - n + 1 <= m THEN m - (m - n + 1) + 1 ELSE 0
        /\ \A i \in 1..(m - (m - n + 1) + 1) : rest[i] = b[(m - n + 1) + i - 1]
    BY <1>1, SubSeqProperties
  <2> HIDE DEF m, rest
  <2>2. m - (m - n + 1) + 1 = n /\ m - n + 1 <= m /\ \A i \in 1..n : (m - n + 1) + i - 1 = m - n + i
    BY <1>1
  <2> QED BY <2>1, <2>2
<1> HIDE DEF rest, kept
<1>4. given = [i \in 1..n |-> rest[(n - i) + 1]]
  BY <1>3 DEF Reverse
<1>5. given \in Seq(Particles) /\ Len(given) = n /\ \A i \in 1..n : given[i] = rest[(n - i) + 1]
  <2>1. \A i \in 1..n : (n - i) + 1 \in 1..n BY <1>1
  <2>2. \A i \in 1..n : rest[(n - i) + 1] \in Particles BY <2>1, <1>3
  <2>3. n \in Nat BY <1>1
  <2> QED BY <1>4, <2>2, <2>3
<1> HIDE DEF given
<1>6. ASSUME NEW j \in 1..m PROVE (\E i \in 1..(m - n) : kept[i] = b[j]) \/ \E i \in 1..n : given[i] = b[j]
  <2>1. CASE j <= m - n
    <3>1. j \in 1..(m - n) BY <2>1, <1>1
    <3> QED BY <3>1, <1>2
  <2>2. CASE ~(j <= m - n)
    <3> DEFINE i == m - j + 1
    <3>1. i \in 1..n /\ (n - i) + 1 \in 1..n /\ m - n + ((n - i) + 1) = j
      BY <2>2, <1>1
    <3> HIDE DEF i
    <3>2. given[i] = b[j] BY <3>1, <1>3, <1>5
    <3> QED BY <3>1, <3>2
  <2> QED BY <2>1, <2>2
<1>7. \A x : Holds(b, x) => Holds(kept, x) \/ Holds(given, x)
  <2> SUFFICES ASSUME NEW x, NEW j \in 1..m, b[j] = x PROVE Holds(kept, x) \/ Holds(given, x)
    BY DEF Holds
  <2> QED BY <1>2, <1>5, <1>6 DEF Holds
<1> QED BY <1>2, <1>5, <1>7 DEF kept, given, rest

\* The head of the queue and the rest of it.
LEMMA HoldsPopped ==
  ASSUME NEW f \in Seq(Seq(Particles)), f # <<>>
  PROVE  /\ Head(f) \in Seq(Particles) /\ Tail(f) \in Seq(Seq(Particles))
         /\ \A x : (\E q \in 1..Len(f) : Holds(f[q], x))
                    => Holds(Head(f), x) \/ \E q \in 1..Len(Tail(f)) : Holds(Tail(f)[q], x)
<1>1. /\ Head(f) \in Seq(Particles) /\ Head(f) = f[1] /\ Tail(f) \in Seq(Seq(Particles))
      /\ Len(f) \in Nat \ {0} /\ Len(Tail(f)) = Len(f) - 1
      /\ \A q \in 1..(Len(f) - 1) : Tail(f)[q] = f[q + 1]
  OBVIOUS
<1>2. ASSUME NEW x, NEW q \in 1..Len(f), Holds(f[q], x)
      PROVE  Holds(Head(f), x) \/ \E r \in 1..Len(Tail(f)) : Holds(Tail(f)[r], x)
  <2>1. CASE q = 1 BY <2>1, <1>1, <1>2
  <2>2. CASE q # 1
    <3>1. q - 1 \in 1..Len(Tail(f)) /\ Tail(f)[q - 1] = f[q] BY <2>2, <1>1
    <3>2. Holds(Tail(f)[q - 1], x) BY <3>1, <1>2
    <3> QED BY <3>1, <3>2
  <2> QED BY <2>1, <2>2
<1> QED BY <1>1, <1>2

\* When no buffer has anything left, the consumer was given everything.
LEMMA AllDelivered ==
  ASSUME PCInv, EndInv, AllDone, Intact, fullItems = <<>>, out = NoBuffer
  PROVE  Range(delivered) = Particles
<1> USE DEF PCInv, EndInv
<1>1. \A w \in Workers : held[w] = NoBuffer /\ pin[w] = 0 /\ current > Len(Counts)
  BY DEF AllDone, Hands, Intact
<1>2. current > Len(Counts)
  BY <1>1, ProducerAssumption DEF Workers
<1>3. ASSUME NEW d \in Streams PROVE read[d] = Counts[d]
  <2>1. d < current /\ d # 0 BY <1>2, StreamsAreNumbers DEF Ranges
  <2> QED BY <2>1, <1>1 DEF Drained
<1>4. ASSUME NEW d \in Streams, NEW i \in 1..Counts[d] PROVE Holds(delivered, <<d, i>>)
  <2>1. Kept(<<d, i>>) BY <1>3 DEF Located
  <2>2. Len(fullItems) = 0 OBVIOUS
  <2>3. ~\E q \in 1..Len(fullItems) : Holds(fullItems[q], <<d, i>>) BY <2>2
  <2> QED BY <2>1, <2>3, <1>1 DEF Kept
<1>5. delivered \in Seq(Particles) /\ DOMAIN delivered = 1..Len(delivered) /\ \A i \in DOMAIN delivered : delivered[i] \in Particles
  BY DEF Ranges
<1>6. \A x \in Particles : \E i \in DOMAIN delivered : delivered[i] = x
  <2>1. \A x \in Particles : \E d \in Streams : \E i \in 1..Counts[d] : x = <<d, i>>
    BY DEF Particles
  <2>2. \A x \in Particles : Holds(delivered, x)
    BY <1>4, <2>1
  <2> QED BY <1>5, <2>2 DEF Holds
<1> QED BY <1>5, <1>6 DEF Range

\* A step of the consumer keeps the invariant.
LEMMA EndConsumer == ASSUME PCInv, PCInv', EndInv, ConsumerStep PROVE EndInv'
<1> USE DEF PCInv, EndInv, NoWorkerStep, workerVars
<1>1. UNCHANGED <<current, read, wpc, pin, held, errorOccurred>> /\ (errorOccurred' <=> errorOccurred) /\ (AllDone' <=> AllDone)
  <2>1. UNCHANGED workerVars /\ errorOccurred' = errorOccurred
    BY DEF ConsumerStep, Read, ReadNext, Pop, TestError, TestRemaining, PopLast, Consume, ConsumeThrows, StopWorkers, Join, Destroy, DestroyJoin, sharedVars
  <2>2. (errorOccurred' <=> errorOccurred) /\ (AllDone' <=> AllDone)
    BY <2>1 DEF AllDone
  <2> QED BY <2>1, <2>2
<1>2. Hands' /\ Drained' BY <1>1 DEF Hands, Drained
<1>3. ASSUME fullItems' \in Seq(Seq(Particles)), out' \in Seq(Particles) \cup {NoBuffer}, delivered' \in Seq(Particles)
      PROVE  Ranges'
  BY <1>1, <1>3 DEF Ranges
<1>4. ASSUME Intact' => Intact /\ \A d \in Streams : \A i \in 1..read[d] : Kept(<<d, i>>) => Kept(<<d, i>>)'
      PROVE  Located'
  BY <1>1, <1>4 DEF Located
<1>5. CASE UNCHANGED <<fullItems, out, delivered>> /\ (Intact' => Intact)
  <2>1. Ranges' BY <1>3, <1>5 DEF Ranges
  <2>2. Located' BY <1>1, <1>4, <1>5 DEF Kept
  <2>3. Left' /\ EndMeansAll'
    <3> USE DEF Left, EndMeansAll
    <3>1. CASE ReadNext BY <1>1, <1>5, <3>1 DEF ReadNext
    <3>2. CASE Pop BY <1>1, <1>5, <3>2 DEF Pop, Ranges
    <3>3. CASE TestError BY <1>1, <1>5, <3>3 DEF TestError
    <3>4. CASE TestRemaining BY <1>1, <1>5, <3>4 DEF TestRemaining
    <3>5. CASE PopLast /\ fullItems = <<>>
      <4>1. AllDone /\ out = NoBuffer BY <3>5 DEF PopLast, Consumer
      <4>2. ~errorOccurred => Intact BY <3>5 DEF Intact, PopLast
      <4>3. ~errorOccurred => Range(delivered) = Particles BY <4>1, <4>2, <3>5, AllDelivered
      <4> QED BY <1>1, <1>5, <3>5, <4>1, <4>3 DEF PopLast
    <3>6. CASE StopWorkers BY <1>1, <1>5, <3>6 DEF StopWorkers
    <3>7. CASE Join
      <4>1. AllDone /\ out = NoBuffer BY <3>7 DEF Join, AllDone
      <4>2. error = "none" => ~errorOccurred BY <4>1 DEF Faults, AllDone
      <4>3. outcome = "none" /\ error = "none" => Intact /\ fullItems = <<>> BY <3>7, <4>2 DEF Intact, Join
      <4>4. outcome = "none" /\ error = "none" => Range(delivered) = Particles BY <4>1, <4>3, AllDelivered
      <4> QED BY <1>1, <1>5, <3>7, <4>1, <4>4 DEF Join, Consumer
    <3>8. CASE Destroy BY <1>1, <1>5, <3>8 DEF Destroy
    <3>9. CASE DestroyJoin BY <1>1, <1>5, <3>9 DEF DestroyJoin
    <3>10. CASE Read \/ Consume \/ ConsumeThrows \/ (PopLast /\ fullItems # <<>>)
      <4>1. out' = out /\ fullItems' = fullItems BY <1>5
      <4>2. ~Consume /\ ~ConsumeThrows
        BY <4>1 DEF Consume, ConsumeThrows
      <4>3. ~(PopLast /\ fullItems # <<>>)
        <5>1. fullItems # <<>> => Tail(fullItems) # fullItems
          <6>1. fullItems # <<>> => Len(Tail(fullItems)) = Len(fullItems) - 1 /\ Len(fullItems) \in Nat BY DEF Ranges
          <6> QED BY <6>1
        <5> QED BY <4>1, <5>1 DEF PopLast
      <4>4. Read BY <3>10, <4>2, <4>3
      <4> QED BY <1>1, <1>5, <4>4 DEF Read
    <3> QED BY <3>1, <3>2, <3>3, <3>4, <3>5, <3>6, <3>7, <3>8, <3>9, <3>10 DEF ConsumerStep
  <2> QED BY <1>2, <2>1, <2>2, <2>3
<1>6. CASE Read
  <2>1. /\ out \in Seq(Particles) /\ fullItems' = fullItems /\ outcome = "none" /\ outcome' = "none" /\ cpc' = cpc /\ cpc = "idle"
    BY <1>6 DEF Read, Ranges, Left
  <2>2. PICK n \in 1..Len(out) : LET kept == SubSeq(out, 1, Len(out) - n) IN
           /\ delivered' = delivered \o Reverse(SubSeq(out, Len(out) - n + 1, Len(out)))
           /\ IF kept = <<>> THEN out' = NoBuffer ELSE out' = kept
    BY <1>6 DEF Read
  <2> DEFINE kept  == SubSeq(out, 1, Len(out) - n)
             given == Reverse(SubSeq(out, Len(out) - n + 1, Len(out)))
  <2>3. /\ kept \in Seq(Particles) /\ given \in Seq(Particles)
        /\ \A x : Holds(out, x) => Holds(kept, x) \/ Holds(given, x)
    BY <2>1, HoldsSplit
  <2>4. delivered' = delivered \o given /\ out' = IF kept = <<>> THEN NoBuffer ELSE kept
    BY <2>2
  <2> HIDE DEF kept, given
  <2>5. delivered' \in Seq(Particles) /\ \A x : Holds(delivered, x) \/ Holds(given, x) => Holds(delivered', x)
    BY <2>3, <2>4, HoldsConcat DEF Ranges
  <2>6. \A x : Holds(kept, x) => out' # NoBuffer /\ Holds(out', x)
    BY <2>3, <2>4, HoldsNothing, ProducerAssumption
  <2>7. Ranges' BY <1>3, <2>1, <2>3, <2>4, <2>5 DEF Ranges
  <2>8. \A x : Kept(x) => Kept(x)' BY <1>1, <2>1, <2>3, <2>5, <2>6 DEF Kept
  <2>9. Located' BY <1>1, <1>4, <2>1, <2>8 DEF Intact
  <2>10. Left' /\ EndMeansAll' BY <2>1 DEF Left, EndMeansAll
  <2> QED BY <1>2, <2>7, <2>9, <2>10
<1>7. CASE (Pop \/ PopLast) /\ fullItems # <<>>
  <2>1. /\ out = NoBuffer /\ outcome = "none" /\ outcome' = "none" /\ delivered' = delivered
        /\ out' = Head(fullItems) /\ fullItems' = Tail(fullItems) /\ cpc' \in {"consume", "idle"} /\ cpc \in {"pop", "last"}
    BY <1>7 DEF Pop, PopLast, Left
  <2>2. fullItems \in Seq(Seq(Particles)) BY DEF Ranges
  <2>3. /\ out' \in Seq(Particles) /\ fullItems' \in Seq(Seq(Particles))
        /\ \A x : (\E q \in 1..Len(fullItems) : Holds(fullItems[q], x))
                   => Holds(out', x) \/ \E q \in 1..Len(fullItems') : Holds(fullItems'[q], x)
    BY <1>7, <2>1, <2>2, HoldsPopped
  <2>4. out' # NoBuffer BY <2>3, ProducerAssumption
  <2>5. Ranges' BY <1>3, <2>1, <2>3 DEF Ranges
  <2>6. \A x : Kept(x) => Kept(x)' BY <1>1, <2>1, <2>3, <2>4 DEF Kept
  <2>7. Located' BY <1>1, <1>4, <2>1, <2>6 DEF Intact
  <2>8. Left' /\ EndMeansAll' BY <2>1, <2>4 DEF Left, EndMeansAll
  <2> QED BY <1>2, <2>5, <2>7, <2>8
<1>8. CASE Consume
  <2>1. /\ out \in Seq(Particles) /\ fullItems' = fullItems /\ outcome = "none" /\ outcome' = "none"
        /\ out' = NoBuffer /\ delivered' = delivered \o out /\ cpc' = "pop" /\ cpc = "consume"
    BY <1>8 DEF Consume, Ranges, Left
  <2>2. delivered' \in Seq(Particles) /\ \A x : Holds(delivered, x) \/ Holds(out, x) => Holds(delivered', x)
    BY <2>1, HoldsConcat DEF Ranges
  <2>3. Ranges' BY <1>3, <2>1, <2>2 DEF Ranges
  <2>4. \A x : Kept(x) => Kept(x)' BY <1>1, <2>1, <2>2 DEF Kept
  <2>5. Located' BY <1>1, <1>4, <2>1, <2>4 DEF Intact
  <2>6. Left' /\ EndMeansAll' BY <2>1 DEF Left, EndMeansAll
  <2> QED BY <1>2, <2>3, <2>5, <2>6
<1>9. CASE ConsumeThrows \/ Destroy \/ DestroyJoin
  <2>1. /\ out' = NoBuffer \/ out' = out
        /\ fullItems' = fullItems \/ fullItems' = <<>>
        /\ delivered' = delivered /\ ~Intact'
    BY <1>9 DEF ConsumeThrows, Destroy, DestroyJoin, Intact, sharedVars
  <2>2. Ranges'
    <3>1. <<>> \in Seq(Seq(Particles)) OBVIOUS
    <3> QED BY <1>3, <2>1, <3>1 DEF Ranges
  <2>3. Located' BY <2>1 DEF Located
  <2>4. Left' /\ EndMeansAll'
    BY <1>1, <1>9, <2>1 DEF ConsumeThrows, Destroy, DestroyJoin, Left, EndMeansAll
  <2> QED BY <1>2, <2>2, <2>3, <2>4
<1>10. CASE ReadNext \/ TestError \/ TestRemaining \/ StopWorkers \/ Join \/ ((Pop \/ PopLast) /\ fullItems = <<>>)
  <2>1. UNCHANGED <<fullItems, out, delivered>>
    BY <1>10 DEF ReadNext, TestError, TestRemaining, StopWorkers, Join, Pop, PopLast, sharedVars
  <2>2. Intact' => Intact
    BY <1>1, <1>10 DEF ReadNext, TestError, TestRemaining, StopWorkers, Join, Pop, PopLast, Intact, Left
  <2> QED BY <1>5, <2>1, <2>2
<1> QED BY <1>6, <1>7, <1>8, <1>9, <1>10 DEF ConsumerStep

-----------------------------------------------------------------------------
\* It holds at first.
LEMMA EndInit == Init => EndInv
<1> SUFFICES ASSUME Init PROVE EndInv
  OBVIOUS
<1> USE DEF Init
<1>1. <<>> \in Seq(Seq(Particles)) /\ <<>> \in Seq(Particles)
  OBVIOUS
<1>2. Ranges BY <1>1, StreamsAreNumbers DEF Ranges
<1>3. Drained /\ Located /\ Hands
  BY StreamsAreNumbers DEF Drained, Located, Hands
<1>4. Left /\ EndMeansAll BY DEF Left, EndMeansAll
<1> QED BY <1>2, <1>3, <1>4 DEF EndInv

\* Any step.
LEMMA EndStep == PCInv /\ PCInv' /\ EndInv /\ [Next]_vars => EndInv'
<1> SUFFICES ASSUME PCInv, PCInv', EndInv, [Next]_vars PROVE EndInv'
  OBVIOUS
<1>1. CASE \E w \in Workers : WorkerStep(w) BY <1>1, EndWorker
<1>2. CASE ConsumerStep BY <1>2, EndConsumer
<1>3. CASE UNCHANGED vars
  BY <1>3 DEF EndInv, Ranges, Hands, Drained, Located, Intact, Kept, Left, EndMeansAll, AllDone, vars, sharedVars, workerVars, consumerVars
<1> QED BY <1>1, <1>2, <1>3 DEF Next, Rest

\* The invariant of the end of the streams.
THEOREM EndAlways == Spec => []EndInv
  BY EndInit, EndStep, PCAlways, PTL DEF Spec

\* run() returns without an exception, and a reader without an error is told of the end, only
\* when every particle of every stream was delivered, for any number of workers and streams.
THEOREM EverythingDelivered == Spec => []EndMeansAll
<1>1. EndInv => EndMeansAll BY DEF EndInv
<1> QED BY <1>1, EndAlways, PTL

-----------------------------------------------------------------------------
(* The particles and the buffers.                                           *)


\* No exception and no destructor has deleted a buffer yet.
Undisturbed ==
  (\A w \in Workers : fault[w] = "none") /\ outcome # "consumer error" /\ cpc \notin {"destroy", "destroyed"}

\* The particle x was read from its stream.
IsRead(x) == x[2] <= read[x[1]]

\* A particle is nowhere before it was read, and in one place after that.
Counted ==
  \A x \in Particles :
    /\ Times(Everywhere, x) <= 1
    /\ Times(Everywhere, x) > 0 => IsRead(x)
    /\ Undisturbed /\ IsRead(x) => Times(Everywhere, x) > 0

\* In s, and between s and t, the particles of a stream are in their order.
Ordered(s)   == \A i, j \in 1..Len(s) : i < j /\ s[i][1] = s[j][1] => s[i][2] < s[j][2]
Before(s, t) == \A i \in 1..Len(s), j \in 1..Len(t) : s[i][1] = t[j][1] => s[i][2] < t[j][2]

\* What run() has given and is going to give.
Line == (delivered \o InHand) \o FlattenSeq(fullItems)
Queued == Ordered(Line) /\ \A w \in Workers : Ordered(HeldBy(w)) /\ Before(Line, HeldBy(w))

\* A stream is read by one worker alone, from its beginning to its end.
StreamsIn(s) == {s[i][1] : i \in 1..Len(s)}
Apart ==
  \A v, w \in Workers : v # w => StreamsIn(HeldBy(v)) \cap (StreamsIn(HeldBy(w)) \cup {pin[w]}) = {}
Fresh == \A d \in Streams : d >= current => read[d] = 0

Looping == {"pop", "error", "remaining", "last", "consume"}
InOrder ==
  /\ Apart /\ Fresh /\ mode \in Modes
  /\ mode = "run" => cpc # "idle" /\ Ordered(delivered) /\ (cpc \in Looping => Queued)

\* The buffers that exist, and those that the workers have yet to make.
Holders  == {w \in Workers : held[w] # NoBuffer}
Starters == {w \in Workers : wpc[w] = "start"}
InUse == emptyItems + Len(fullItems) + Cardinality(Holders) + (IF out = NoBuffer THEN 0 ELSE 1)
TwoEach ==
  /\ emptyItems \in Nat
  /\ InUse + 2 * Cardinality(Starters) <= 2 * NumWorkers
  /\ cpc = "destroyed" => AllDone /\ emptyItems = 0 /\ fullItems = <<>> /\ out = NoBuffer

Flow == Counted /\ InOrder /\ TwoEach

-----------------------------------------------------------------------------
(* The places.                                                              *)

Content(b) == IF b = NoBuffer THEN <<>> ELSE b

\* NoBuffer is no sequence, and stands for an empty one.
LEMMA NoBufferIsNone ==
  /\ <<>> \in Seq(Particles) /\ <<>> # NoBuffer /\ Content(NoBuffer) = <<>> /\ Content(<<>>) = <<>>
  /\ \A b \in Seq(Particles) : b # NoBuffer /\ Content(b) = b
  BY EmptySeq, ProducerAssumption DEF Content

\* The buffers of the workers as a sequence.
LEMMA PlacesType ==
  ASSUME NEW h \in [Workers -> Seq(Particles) \cup {NoBuffer}]
  PROVE  LET bs == [w \in Workers |-> Content(h[w])]
         IN  /\ bs \in Seq(Seq(Particles)) /\ Len(bs) = NumWorkers
             /\ \A w \in Workers : Content(h[w]) \in Seq(Particles)
<1>1. \A w \in Workers : Content(h[w]) \in Seq(Particles)
  BY NoBufferIsNone DEF Content
<1> QED BY <1>1, ProducerAssumption DEF Workers

\* The operators of the model in these words.
LEMMA BuffersAre == Buffers = [w \in Workers |-> Content(held[w])] /\ InHand = Content(out)
  BY DEF Buffers, HeldBy, InHand, Content

\* All places together hold a particle as often as each of them.
LEMMA CountParts ==
  ASSUME NEW bs \in Seq(Seq(Particles)), NEW f \in Seq(Seq(Particles)),
         NEW o \in Seq(Particles), NEW d \in Seq(Particles), NEW x
  PROVE  LET all == FlattenSeq(bs) \o FlattenSeq(f) \o o \o d
         IN  /\ all \in Seq(Particles)
             /\ Times(all, x) = Times(FlattenSeq(bs), x) + Times(FlattenSeq(f), x) + Times(o, x) + Times(d, x)
<1>1. PICK s \in Seq(Particles), t \in Seq(Particles) : s = FlattenSeq(bs) /\ t = FlattenSeq(f)
  BY FlattenType
<1>2. s \o t \in Seq(Particles) /\ Times(s \o t, x) = Times(s, x) + Times(t, x)
  BY TimesConcat, ConcatProperties
<1>3. PICK u \in Seq(Particles) : u = s \o t
  BY <1>2
<1>4. u \o o \in Seq(Particles) /\ Times(u \o o, x) = Times(u, x) + Times(o, x)
  BY TimesConcat, ConcatProperties
<1>5. PICK v \in Seq(Particles) : v = u \o o
  BY <1>4
<1>6. v \o d \in Seq(Particles) /\ Times(v \o d, x) = Times(v, x) + Times(d, x)
  BY TimesConcat, ConcatProperties
<1> QED BY <1>1, <1>2, <1>3, <1>4, <1>5, <1>6

\* The number of a particle in the four kinds of places, in this state and in the next.
InBuffers(x) == Times(FlattenSeq(Buffers), x)
InQueue(x)   == Times(FlattenSeq(fullItems), x)

\* The number of a particle is the sum over the four kinds of places.
LEMMA NumberNow ==
  ASSUME Ranges, NEW x
  PROVE  /\ Everywhere \in Seq(Particles)
         /\ Times(Everywhere, x) = InBuffers(x) + InQueue(x) + Times(InHand, x) + Times(delivered, x)
         /\ InBuffers(x) \in Nat /\ InQueue(x) \in Nat /\ Times(InHand, x) \in Nat /\ Times(delivered, x) \in Nat
<1>1. PICK bs \in Seq(Seq(Particles)), f \in Seq(Seq(Particles)), o \in Seq(Particles), d \in Seq(Particles) :
         bs = Buffers /\ f = fullItems /\ o = InHand /\ d = delivered
  BY PlacesType, BuffersAre, NoBufferIsNone DEF Ranges, Content
<1>2. FlattenSeq(bs) \in Seq(Particles) /\ FlattenSeq(f) \in Seq(Particles)
  BY FlattenType
<1>3. Times(FlattenSeq(bs), x) \in Nat /\ Times(FlattenSeq(f), x) \in Nat /\ Times(o, x) \in Nat /\ Times(d, x) \in Nat
  BY <1>2, TimesType
<1> QED BY <1>1, <1>3, CountParts DEF Everywhere, InBuffers, InQueue

\* The same in the next state.
LEMMA NumberNext ==
  ASSUME Ranges', NEW x
  PROVE  /\ Everywhere' \in Seq(Particles)
         /\ Times(Everywhere', x) = InBuffers(x)' + InQueue(x)' + Times(InHand', x) + Times(delivered', x)
         /\ InBuffers(x)' \in Nat /\ InQueue(x)' \in Nat /\ Times(InHand', x) \in Nat /\ Times(delivered', x) \in Nat
<1>1. PICK bs \in Seq(Seq(Particles)), f \in Seq(Seq(Particles)), o \in Seq(Particles), d \in Seq(Particles) :
         bs = Buffers' /\ f = fullItems' /\ o = InHand' /\ d = delivered'
  BY PlacesType, BuffersAre, NoBufferIsNone DEF Ranges, Content, Buffers, InHand, HeldBy
<1>2. FlattenSeq(bs) \in Seq(Particles) /\ FlattenSeq(f) \in Seq(Particles)
  BY FlattenType
<1>3. Times(FlattenSeq(bs), x) \in Nat /\ Times(FlattenSeq(f), x) \in Nat /\ Times(o, x) \in Nat /\ Times(d, x) \in Nat
  BY <1>2, TimesType
<1> QED BY <1>1, <1>3, CountParts DEF Everywhere, InBuffers, InQueue

\* A worker exchanges its buffer.
LEMMA BufferExchanged ==
  ASSUME Ranges, NEW w \in Workers, NEW b \in Seq(Particles) \cup {NoBuffer},
         held' = [held EXCEPT ![w] = b], NEW x
  PROVE  InBuffers(x)' = InBuffers(x) - Times(HeldBy(w), x) + Times(Content(b), x)
<1>1. PICK h : h = [held EXCEPT ![w] = b]
  OBVIOUS
<1>2. /\ held \in [Workers -> Seq(Particles) \cup {NoBuffer}] /\ h \in [Workers -> Seq(Particles) \cup {NoBuffer}]
      /\ h[w] = b /\ \A v \in Workers \ {w} : h[v] = held[v]
  BY <1>1 DEF Ranges
<1>3. PICK ss, tt : ss = [v \in Workers |-> Content(held[v])] /\ tt = [v \in Workers |-> Content(h[v])]
  OBVIOUS
<1>4. /\ ss \in Seq(Seq(Particles)) /\ tt \in Seq(Seq(Particles))
      /\ Len(ss) = NumWorkers /\ Len(tt) = NumWorkers /\ Content(b) \in Seq(Particles)
  BY <1>2, <1>3, PlacesType
<1>5. w \in 1..Len(ss) /\ ss[w] = HeldBy(w) /\ tt[w] = Content(b)
  BY <1>2, <1>3, <1>4 DEF Workers, HeldBy, Content
<1>6. Len(tt) = Len(ss) /\ \A i \in (1..Len(ss)) \ {w} : tt[i] = ss[i]
  BY <1>2, <1>3, <1>4 DEF Workers
<1>7. Times(FlattenSeq(tt), x) = Times(FlattenSeq(ss), x) - Times(ss[w], x) + Times(Content(b), x)
  <2>1. PICK i, c : i = w /\ c = Content(b)
    OBVIOUS
  <2>2. ss \in Seq(Seq(Particles)) /\ tt \in Seq(Seq(Particles)) /\ i \in 1..Len(ss) /\ c \in Seq(Particles)
    BY <1>4, <1>5, <2>1
  <2>3. Len(tt) = Len(ss) /\ tt[i] = c
    BY <1>5, <1>6, <2>1
  <2>4. \A j \in (1..Len(ss)) \ {i} : tt[j] = ss[j]
    BY <1>6, <2>1
  <2>5. Times(FlattenSeq(tt), x) = Times(FlattenSeq(ss), x) - Times(ss[i], x) + Times(c, x)
    BY ONLY <2>2, <2>3, <2>4, TimesFlattenChange
  <2> QED BY <2>1, <2>5
<1>8. ss = Buffers /\ tt = Buffers'
  BY <1>1, <1>3 DEF Buffers, HeldBy, Content
<1> QED BY <1>5, <1>7, <1>8 DEF InBuffers

-----------------------------------------------------------------------------
(* What a step does to the number of a particle: it carries it to another    *)
(* place or drops it, and get_particles() of a stream adds it.              *)

\* A buffer is pushed.
LEMMA QueueLonger ==
  ASSUME Ranges, NEW b \in Seq(Particles), fullItems' = Append(fullItems, b), NEW x
  PROVE  InQueue(x)' = InQueue(x) + Times(b, x)
<1>1. PICK f \in Seq(Seq(Particles)) : f = fullItems
  BY DEF Ranges
<1>2. PICK s \in Seq(Particles) : s = FlattenSeq(f)
  BY FlattenType
<1>3. FlattenSeq(Append(f, b)) = s \o b
  BY <1>2, FlattenAppend
<1>4. Times(s \o b, x) = Times(s, x) + Times(b, x)
  BY TimesConcat
<1> QED BY <1>1, <1>2, <1>3, <1>4 DEF InQueue

\* A buffer is popped.
LEMMA QueueShorter ==
  ASSUME Ranges, fullItems # <<>>, fullItems' = Tail(fullItems), NEW x
  PROVE  Head(fullItems) \in Seq(Particles) /\ InQueue(x) = Times(Head(fullItems), x) + InQueue(x)'
<1>1. PICK f \in Seq(Seq(Particles)) : f = fullItems /\ f # <<>>
  BY DEF Ranges
<1>2. Head(f) \in Seq(Particles) /\ Tail(f) \in Seq(Seq(Particles))
  BY <1>1, HeadTailProperties
<1>3. PICK h \in Seq(Particles), t \in Seq(Particles) : h = Head(f) /\ t = FlattenSeq(Tail(f))
  BY <1>2, FlattenType
<1>4. FlattenSeq(f) = h \o t
  BY <1>1, <1>3, FlattenTail
<1>5. Times(h \o t, x) = Times(h, x) + Times(t, x)
  BY TimesConcat
<1> QED BY <1>1, <1>2, <1>3, <1>4, <1>5 DEF InQueue

\* A worker carries particles, except when it fills its buffer or its exception deletes it.
LEMMA WorkerCarries ==
  ASSUME Ranges, Ranges', Hands, NEW w \in Workers, WorkerStep(w), NEW x
  PROVE  \/ Fill(w)
         \/ Times(Everywhere', x) = Times(Everywhere, x)
         \/ Catch(w) /\ Times(Everywhere', x) <= Times(Everywhere, x)
<1> DEFINE Keeps == Times(Everywhere', x) = Times(Everywhere, x)
<1>9. /\ Times(Everywhere, x) = InBuffers(x) + InQueue(x) + Times(InHand, x) + Times(delivered, x)
      /\ Times(Everywhere', x) = InBuffers(x)' + InQueue(x)' + Times(InHand', x) + Times(delivered', x)
      /\ InBuffers(x) \in Nat /\ InQueue(x) \in Nat /\ Times(InHand, x) \in Nat /\ Times(delivered, x) \in Nat
      /\ InBuffers(x)' \in Nat /\ InQueue(x)' \in Nat /\ Times(InHand', x) \in Nat /\ Times(delivered', x) \in Nat
  BY NumberNow, NumberNext
<1>0. UNCHANGED <<out, delivered>> /\ InHand' = InHand
  BY DEF WorkerStep, Start, TestStop, ProduceNoMore, TakeStream, HandOver, PopEmpty, SpinTestStop, Fill, Throws, Catch, Store, RequestStop, Exit, consumerVars, InHand
<1>1. CASE UNCHANGED <<held, fullItems>>
  <2>1. Everywhere' = Everywhere BY <1>0, <1>1 DEF Everywhere, Buffers, HeldBy
  <2> QED BY <2>1
<1>2. ASSUME held[w] \in {NoBuffer, <<>>}, fullItems' = fullItems, NEW b \in {NoBuffer, <<>>}, held' = [held EXCEPT ![w] = b]
      PROVE  Keeps
  <2>1. HeldBy(w) = <<>> /\ Content(b) = <<>> /\ b \in Seq(Particles) \cup {NoBuffer}
    BY <1>2, NoBufferIsNone DEF HeldBy
  <2>2. InBuffers(x)' = InBuffers(x) - Times(<<>>, x) + Times(<<>>, x)
    BY <1>2, <2>1, BufferExchanged
  <2>3. InBuffers(x) \in Nat /\ InBuffers(x)' = InBuffers(x)
    BY <2>2, NumberNow, TimesEmpty
  <2>4. InQueue(x)' = InQueue(x)
    BY <1>2 DEF InQueue
  <2> QED BY <1>0, <2>3, <2>4, <1>9
<1>3. ASSUME held[w] # NoBuffer, held' = [held EXCEPT ![w] = NoBuffer], fullItems' = Append(fullItems, held[w])
      PROVE  Keeps
  <2>1. held[w] \in Seq(Particles) /\ HeldBy(w) = held[w]
    BY <1>3 DEF Ranges, HeldBy
  <2>2. InBuffers(x)' = InBuffers(x) - Times(held[w], x) + Times(Content(NoBuffer), x)
    BY <1>3, <2>1, BufferExchanged
  <2>3. InQueue(x)' = InQueue(x) + Times(held[w], x)
    BY <1>3, <2>1, QueueLonger
  <2>4. Times(Content(NoBuffer), x) = 0 /\ Times(held[w], x) \in Nat
    BY <2>1, NoBufferIsNone, TimesEmpty, TimesType
  <2> QED BY <1>0, <2>2, <2>3, <2>4, <1>9
<1>4. CASE Start(w) \/ PopEmpty(w)
  <2>1. held[w] = NoBuffer BY <1>4 DEF Start, PopEmpty, Hands
  <2>2. UNCHANGED <<held, fullItems>> \/ (fullItems' = fullItems /\ held' = [held EXCEPT ![w] = <<>>])
    BY <1>4 DEF Start, PopEmpty
  <2> QED BY <1>1, <1>2, <2>1, <2>2
<1>5. CASE HandOver(w)
  <2>1. held[w] # NoBuffer BY <1>5 DEF HandOver, Hands
  <2> QED BY <1>1, <1>3, <1>5, <2>1 DEF HandOver
<1>6. CASE ProduceNoMore(w)
  <2>1. held[w] # NoBuffer BY <1>6 DEF ProduceNoMore, Hands
  <2> QED BY <1>2, <1>3, <1>6, <2>1 DEF ProduceNoMore
<1>7. CASE Catch(w)
  <2>1. HeldBy(w) \in Seq(Particles) BY NoBufferIsNone DEF HeldBy, Ranges
  <2>2. held' = [held EXCEPT ![w] = NoBuffer] /\ fullItems' = fullItems BY <1>7 DEF Catch
  <2>3. InBuffers(x)' = InBuffers(x) - Times(HeldBy(w), x) + Times(Content(NoBuffer), x)
    BY <2>2, BufferExchanged
  <2>4. Times(Content(NoBuffer), x) = 0 /\ Times(HeldBy(w), x) \in Nat
    BY <2>1, NoBufferIsNone, TimesEmpty, TimesType
  <2>5. InQueue(x)' = InQueue(x) BY <2>2 DEF InQueue
  <2> QED BY <1>0, <1>7, <2>3, <2>4, <2>5, <1>9
<1>8. CASE TestStop(w) \/ TakeStream(w) \/ SpinTestStop(w) \/ Throws(w) \/ Store(w) \/ RequestStop(w) \/ Exit(w)
  BY <1>1, <1>8 DEF TestStop, TakeStream, SpinTestStop, Throws, Store, RequestStop, Exit, sharedVars
<1> QED BY <1>4, <1>5, <1>6, <1>7, <1>8 DEF WorkerStep

\* What a stream gives is a sequence of its particles.
LEMMA GivenType ==
  ASSUME Ranges, Drained, NEW d \in Streams, NEW n \in Nat, n <= Counts[d] - read[d]
  PROVE  Given(d, n) \in Seq(Particles) /\ Len(Given(d, n)) = n /\ \A i \in 1..n : Given(d, n)[i] = <<d, read[d] + i>>
<1>1. read[d] \in Nat
  BY DEF Ranges
<1>2. Given(d, n) \in Seq(Particles)
  <2>1. \A i \in 1..n : read[d] + i \in 1..Counts[d]
    BY <1>1, StreamsAreNumbers
  <2> QED BY <2>1, ParticlePairs DEF Given
<1>3. PICK s : s = Given(d, n)
  OBVIOUS
<1>4. s \in Seq(Particles) /\ s = [i \in 1..n |-> <<d, read[d] + i>>]
  BY <1>2, <1>3 DEF Given
<1>5. Len(s) = n /\ \A i \in 1..n : s[i] = <<d, read[d] + i>>
  BY <1>4
<1> QED BY <1>3, <1>4, <1>5

\* A stream gives each of its particles once.
LEMMA GivenOnce ==
  ASSUME Ranges, Drained, NEW d \in Streams, NEW n \in Nat, n <= Counts[d] - read[d], NEW x \in Particles
  PROVE  /\ Times(Given(d, n), x) <= 1
         /\ Times(Given(d, n), x) > 0 <=> x[1] = d /\ read[d] < x[2] /\ x[2] <= read[d] + n
<1>1. read[d] \in Nat
  BY DEF Ranges
<1>3. PICK s \in Seq(Particles) : s = Given(d, n) /\ Len(s) = n /\ \A i \in 1..n : s[i] = <<d, read[d] + i>>
  BY GivenType
<1>4. \A i, j \in 1..Len(s) : s[i] = s[j] => i = j
  BY <1>1, <1>3
<1>5. Times(s, x) <= 1
  BY <1>4, TimesOfInjective
<1>6. Times(s, x) > 0 <=> \E i \in 1..n : s[i] = x
  BY <1>3, TimesType
<1>7. PICK e \in Streams, k \in Nat : x = <<e, k>>
  BY StreamsAreNumbers DEF Particles
<1>8. (\E i \in 1..n : s[i] = x) <=> e = d /\ read[d] < k /\ k <= read[d] + n
  <2>1. ASSUME NEW i \in 1..n, s[i] = x PROVE e = d /\ read[d] < k /\ k <= read[d] + n
    BY <1>1, <1>3, <1>7, <2>1
  <2>2. ASSUME e = d, read[d] < k, k <= read[d] + n PROVE \E i \in 1..n : s[i] = x
    <3>1. k - read[d] \in 1..n /\ read[d] + (k - read[d]) = k BY <1>1, <2>2
    <3>2. s[k - read[d]] = x BY <1>3, <1>7, <2>2, <3>1
    <3> QED BY <3>1, <3>2
  <2> QED BY <2>1, <2>2
<1> QED BY <1>3, <1>5, <1>6, <1>7, <1>8

\* A worker that fills its buffer adds what the stream gives, and nothing else.
LEMMA FillAdds ==
  ASSUME Pins, Ranges, Ranges', Hands, Drained, NEW w \in Workers, Fill(w)
  PROVE  \E n \in Nat :
           /\ pin[w] \in Streams /\ n <= Counts[pin[w]] - read[pin[w]]
           /\ read' = [read EXCEPT ![pin[w]] = read[pin[w]] + n]
           /\ HeldBy(w)' = HeldBy(w) \o Given(pin[w], n) /\ \A v \in Workers \ {w} : HeldBy(v)' = HeldBy(v)
           /\ \A x \in Particles : Times(Everywhere', x) = Times(Everywhere, x) + Times(Given(pin[w], n), x)
<1>1. UNCHANGED <<out, delivered, fullItems>> /\ InHand' = InHand
  BY DEF Fill, consumerVars, sharedVars, InHand
<1>2. PICK n \in Nat :
              /\ n <= Counts[pin[w]] - read[pin[w]]
              /\ read' = [read EXCEPT ![pin[w]] = read[pin[w]] + n]
              /\ held' = [held EXCEPT ![w] = held[w] \o Given(pin[w], n)]
  BY FillGives
<1>3. pin[w] \in Streams /\ held[w] \in Seq(Particles) /\ HeldBy(w) = held[w]
  BY FillGives, NoBufferIsNone DEF HeldBy
<1>4. PICK g : g = Given(pin[w], n) /\ g \in Seq(Particles)
  BY <1>2, <1>3, GivenType
<1>5. PICK b : b = held[w] \o g /\ b \in Seq(Particles)
  BY <1>3, <1>4, ConcatProperties
<1>6. held' = [held EXCEPT ![w] = b] /\ Content(b) = b
  BY <1>2, <1>4, <1>5, NoBufferIsNone
<1>7. HeldBy(w)' = HeldBy(w) \o g /\ \A v \in Workers \ {w} : HeldBy(v)' = HeldBy(v)
  BY <1>3, <1>5, <1>6 DEF HeldBy, Content, Ranges
<1>8. ASSUME NEW x \in Particles PROVE Times(Everywhere', x) = Times(Everywhere, x) + Times(g, x)
  <2>1. InBuffers(x)' = InBuffers(x) - Times(HeldBy(w), x) + Times(b, x)
    BY <1>5, <1>6, BufferExchanged
  <2>2. Times(b, x) = Times(HeldBy(w), x) + Times(g, x) /\ Times(HeldBy(w), x) \in Nat /\ Times(g, x) \in Nat
    BY <1>3, <1>4, <1>5, TimesConcat, TimesType
  <2>3. InQueue(x)' = InQueue(x)
    BY <1>1 DEF InQueue
  <2>4. /\ Times(Everywhere, x) = InBuffers(x) + InQueue(x) + Times(InHand, x) + Times(delivered, x)
        /\ Times(Everywhere', x) = InBuffers(x)' + InQueue(x)' + Times(InHand', x) + Times(delivered', x)
        /\ InBuffers(x) \in Nat /\ InQueue(x) \in Nat /\ Times(InHand, x) \in Nat /\ Times(delivered, x) \in Nat
        /\ InBuffers(x)' \in Nat /\ InQueue(x)' \in Nat /\ Times(InHand', x) \in Nat /\ Times(delivered', x) \in Nat
    BY NumberNow, NumberNext
  <2>5. InHand' = InHand /\ delivered' = delivered
    BY <1>1
  <2> QED BY ONLY <2>1, <2>2, <2>3, <2>4, <2>5
<1> QED BY <1>2, <1>3, <1>4, <1>7, <1>8

\* get_particles() gives what is at the end of the buffer, and all buffers the consumer takes
\* are whole.
LEMMA SplitParts ==
  ASSUME NEW b \in Seq(Particles), NEW n \in 1..Len(b), NEW x
  PROVE  LET kept  == SubSeq(b, 1, Len(b) - n)
             given == Reverse(SubSeq(b, Len(b) - n + 1, Len(b)))
         IN  Times(b, x) = Times(kept, x) + Times(given, x)
<1>1. PICK m \in Nat : m = Len(b) /\ n \in 1..m
  BY LenProperties
<1>2. PICK k \in Nat : k = m - n /\ k \in 0..m /\ k + 1 \in 1..(m + 1)
  <2>1. n \in Nat /\ 1 <= n /\ n <= m
    BY <1>1
  <2>2. PICK a : a = n
    OBVIOUS
  <2>3. m - a \in Nat /\ m - a \in 0..m /\ (m - a) + 1 \in 1..(m + 1)
    BY ONLY <2>1, <2>2, m \in Nat
  <2> QED BY <2>2, <2>3
<1>3. PICK s, t : s = SubSeq(b, 1, k) /\ t = SubSeq(b, k + 1, m)
  OBVIOUS
<1>4. \A i \in 1..m : b[i] \in Particles
  BY <1>1, ElementOfSeq
<1>5. s \in Seq(Particles)
  <2>1. 1 \in Int /\ k \in Int /\ \A i \in 1..k : b[i] \in Particles BY <1>2, <1>4
  <2> QED BY ONLY <1>3, <2>1, SubSeqProperties
<1>6. t \in Seq(Particles)
  <2>1. k + 1 \in Int /\ m \in Int /\ \A i \in (k + 1)..m : b[i] \in Particles BY <1>2, <1>4
  <2> QED BY ONLY <1>3, <2>1, SubSeqProperties
<1>7. b = s \o t
  <2>1. 1 \in 1..(Len(b) + 1) /\ k \in (1 - 1)..Len(b) /\ Len(b) \in k..Len(b) BY <1>1, <1>2
  <2>2. SubSeq(b, 1, k) \o SubSeq(b, k + 1, Len(b)) = SubSeq(b, 1, Len(b))
    BY <2>1, ConcatAdjacentSubSeq
  <2>3. SubSeq(b, 1, Len(b)) = b BY SubSeqFull
  <2> QED BY <1>1, <1>3, <2>2, <2>3
<1>8. Times(b, x) = Times(s, x) + Times(t, x)
  BY <1>5, <1>6, <1>7, TimesConcat
<1>9. Times(Reverse(t), x) = Times(t, x)
  BY <1>6, TimesReverse
<1> QED BY <1>1, <1>2, <1>3, <1>8, <1>9

\* The consumer carries particles, unless it deletes a buffer.
LEMMA ConsumerCarries ==
  ASSUME Ranges, Ranges', Left, ConsumerStep, NEW x
  PROVE  \/ Times(Everywhere', x) = Times(Everywhere, x)
         \/ (ConsumeThrows \/ Destroy \/ DestroyJoin) /\ Times(Everywhere', x) <= Times(Everywhere, x)
<1> DEFINE Keeps == Times(Everywhere', x) = Times(Everywhere, x)
<1>9. /\ Times(Everywhere, x) = InBuffers(x) + InQueue(x) + Times(InHand, x) + Times(delivered, x)
      /\ Times(Everywhere', x) = InBuffers(x)' + InQueue(x)' + Times(InHand', x) + Times(delivered', x)
      /\ InBuffers(x) \in Nat /\ InQueue(x) \in Nat /\ Times(InHand, x) \in Nat /\ Times(delivered, x) \in Nat
      /\ InBuffers(x)' \in Nat /\ InQueue(x)' \in Nat /\ Times(InHand', x) \in Nat /\ Times(delivered', x) \in Nat
  BY NumberNow, NumberNext
<1>0. held' = held /\ InBuffers(x)' = InBuffers(x)
  <2>1. held' = held
    BY DEF ConsumerStep, Read, ReadNext, Pop, TestError, TestRemaining, PopLast, Consume, ConsumeThrows, StopWorkers, Join, Destroy, DestroyJoin, NoWorkerStep, workerVars
  <2> QED BY <2>1 DEF InBuffers, Buffers, HeldBy
<1>1. CASE UNCHANGED <<fullItems, out, delivered>>
  <2>1. InQueue(x)' = InQueue(x) /\ InHand' = InHand BY <1>1 DEF InQueue, InHand
  <2> QED BY <1>0, <1>1, <2>1, <1>9
<1>2. CASE Read
  <2>1. PICK b \in Seq(Particles) : b = out /\ b # NoBuffer /\ fullItems' = fullItems
    BY <1>2 DEF Read, Ranges
  <2>2. PICK n \in 1..Len(b) :
          /\ delivered' = delivered \o Reverse(SubSeq(b, Len(b) - n + 1, Len(b)))
          /\ out' = IF SubSeq(b, 1, Len(b) - n) = <<>> THEN NoBuffer ELSE SubSeq(b, 1, Len(b) - n)
    BY <1>2, <2>1 DEF Read
  <2>3. PICK kept \in Seq(Particles), given \in Seq(Particles) :
          kept = SubSeq(b, 1, Len(b) - n) /\ given = Reverse(SubSeq(b, Len(b) - n + 1, Len(b)))
    BY HoldsSplit
  <2>4. Times(b, x) = Times(kept, x) + Times(given, x)
    BY <2>3, SplitParts
  <2>5. InHand = b /\ InHand' = kept
    BY <2>1, <2>2, <2>3, NoBufferIsNone DEF InHand
  <2>6. Times(delivered', x) = Times(delivered, x) + Times(given, x)
    <3>1. PICK d \in Seq(Particles) : d = delivered BY DEF Ranges
    <3> QED BY <2>2, <2>3, <3>1, TimesConcat
  <2>7. InQueue(x)' = InQueue(x) BY <2>1 DEF InQueue
  <2>8. Times(given, x) \in Nat /\ Times(kept, x) \in Nat BY TimesType
  <2> QED BY <1>0, <2>4, <2>5, <2>6, <2>7, <2>8, <1>9
<1>3. CASE (Pop \/ PopLast) /\ fullItems # <<>>
  <2>1. out = NoBuffer /\ delivered' = delivered /\ out' = Head(fullItems) /\ fullItems' = Tail(fullItems)
    BY <1>3 DEF Pop, PopLast, Left
  <2>2. Head(fullItems) \in Seq(Particles) /\ InQueue(x) = Times(Head(fullItems), x) + InQueue(x)'
    BY <1>3, <2>1, QueueShorter
  <2>3. InHand = <<>> /\ InHand' = Head(fullItems)
    BY <2>1, <2>2, NoBufferIsNone DEF InHand
  <2> QED BY <1>0, <2>1, <2>2, <2>3, <1>9, TimesEmpty
<1>4. CASE Consume
  <2>1. PICK b \in Seq(Particles), d \in Seq(Particles) :
          b = out /\ d = delivered /\ delivered' = d \o b /\ out' = NoBuffer /\ fullItems' = fullItems
    BY <1>4 DEF Consume, Ranges, Left
  <2>2. Times(d \o b, x) = Times(d, x) + Times(b, x) BY TimesConcat
  <2>3. InHand = b /\ InHand' = <<>> BY <2>1, NoBufferIsNone DEF InHand
  <2>4. InQueue(x)' = InQueue(x) BY <2>1 DEF InQueue
  <2> QED BY <1>0, <2>1, <2>2, <2>3, <2>4, <1>9, TimesEmpty
<1>5. CASE ConsumeThrows \/ Destroy \/ DestroyJoin
  <2>1. delivered' = delivered /\ (out' = NoBuffer \/ out' = out) /\ (fullItems' = fullItems \/ fullItems' = <<>>)
    BY <1>5 DEF ConsumeThrows, Destroy, DestroyJoin, sharedVars
  <2>2. Times(InHand', x) = Times(InHand, x) \/ Times(InHand', x) = 0
    BY <2>1, TimesEmpty DEF InHand
  <2>3. InQueue(x)' = InQueue(x) \/ InQueue(x)' = 0
    BY <2>1, FlattenEmpty, TimesEmpty DEF InQueue
  <2> QED BY <1>0, <1>5, <2>1, <2>2, <2>3, <1>9
<1>6. CASE ReadNext \/ TestError \/ TestRemaining \/ StopWorkers \/ Join \/ ((Pop \/ PopLast) /\ fullItems = <<>>)
  BY <1>1, <1>6 DEF ReadNext, TestError, TestRemaining, StopWorkers, Join, Pop, PopLast, sharedVars
<1> QED BY <1>2, <1>3, <1>4, <1>5, <1>6 DEF ConsumerStep

\* A particle keeps its one place: it is carried, or added when it is read, and dropped only
\* after an exception or by the destructor.
LEMMA CountedStep ==
  ASSUME PCInv, PCInv', EndInv, EndInv', Counted, Next PROVE Counted'
<1> USE DEF PCInv, EndInv
<1> DEFINE N(x) == Times(Everywhere, x)
<1>0. \A x \in Particles : Times(Everywhere, x) \in Nat /\ Times(Everywhere', x) \in Nat
  <2>1. ASSUME NEW x \in Particles PROVE Times(Everywhere, x) \in Nat
    BY NumberNow
  <2>2. ASSUME NEW x \in Particles PROVE Times(Everywhere', x) \in Nat
    BY NumberNext
  <2> QED BY <2>1, <2>2
<1>1. Undisturbed' => Undisturbed
  <2>1. ASSUME NEW w \in Workers, WorkerStep(w) PROVE Undisturbed' => Undisturbed
    <3>1. fault' = fault \/ \E f \in {"producer", "interrupted"} : fault' = [fault EXCEPT ![w] = f]
      BY <2>1 DEF WorkerStep, Start, TestStop, ProduceNoMore, TakeStream, HandOver, PopEmpty, SpinTestStop, Fill, Throws, Catch, Store, RequestStop, Exit
    <3>2. UNCHANGED <<cpc, outcome>>
      BY <2>1 DEF WorkerStep, Start, TestStop, ProduceNoMore, TakeStream, HandOver, PopEmpty, SpinTestStop, Fill, Throws, Catch, Store, RequestStop, Exit, consumerVars
    <3>3. (\A v \in Workers : fault'[v] = "none") => \A v \in Workers : fault[v] = "none"
      BY <3>1 DEF Faults
    <3> QED BY <3>2, <3>3 DEF Undisturbed
  <2>2. ASSUME ConsumerStep PROVE Undisturbed' => Undisturbed
    <3>1. fault' = fault
      BY <2>2 DEF ConsumerStep, Read, ReadNext, Pop, TestError, TestRemaining, PopLast, Consume, ConsumeThrows, StopWorkers, Join, Destroy, DestroyJoin, NoWorkerStep, workerVars
    <3>2. outcome = "consumer error" => outcome' = outcome
      BY <2>2 DEF ConsumerStep, Read, ReadNext, Pop, TestError, TestRemaining, PopLast, Consume, ConsumeThrows, StopWorkers, Join, Destroy, DestroyJoin, Left
    <3>3. cpc \in {"destroy", "destroyed"} => cpc' \in {"destroy", "destroyed"}
      BY <2>2 DEF ConsumerStep, Read, ReadNext, Pop, TestError, TestRemaining, PopLast, Consume, ConsumeThrows, StopWorkers, Join, Destroy, DestroyJoin
    <3> QED BY <3>1, <3>2, <3>3 DEF Undisturbed
  <2>3. ASSUME Rest PROVE Undisturbed' => Undisturbed
    BY <2>3 DEF Rest, vars, workerVars, consumerVars, Undisturbed
  <2> QED BY <2>1, <2>2, <2>3 DEF Next
<1>2. ASSUME read' = read,
             \A x \in Particles : \/ Times(Everywhere', x) = Times(Everywhere, x)
                                  \/ ~Undisturbed' /\ Times(Everywhere', x) <= Times(Everywhere, x)
      PROVE  Counted'
  BY <1>0, <1>1, <1>2 DEF Counted, IsRead
<1>3. ASSUME NEW w \in Workers, Fill(w) PROVE Counted'
  <2>1. PICK n \in Nat :
           /\ pin[w] \in Streams /\ n <= Counts[pin[w]] - read[pin[w]]
           /\ read' = [read EXCEPT ![pin[w]] = read[pin[w]] + n]
           /\ \A x \in Particles : Times(Everywhere', x) = Times(Everywhere, x) + Times(Given(pin[w], n), x)
    BY <1>3, FillAdds
  <2>2. PICK d \in Streams : d = pin[w] BY <2>1
  <2>3. SUFFICES ASSUME NEW x \in Particles
                 PROVE  /\ Times(Everywhere', x) <= 1
                        /\ Times(Everywhere', x) > 0 => IsRead(x)'
                        /\ Undisturbed' /\ IsRead(x)' => Times(Everywhere', x) > 0
    BY DEF Counted
  <2>4. PICK g : g = Times(Given(d, n), x) OBVIOUS
  <2>5. g <= 1 /\ g \in Nat /\ (g > 0 <=> x[1] = d /\ read[d] < x[2] /\ x[2] <= read[d] + n)
    <3>1. Given(d, n) \in Seq(Particles) /\ Times(Given(d, n), x) <= 1
      BY <2>1, <2>2, GivenOnce, GivenType
    <3>2. Times(Given(d, n), x) > 0 <=> x[1] = d /\ read[d] < x[2] /\ x[2] <= read[d] + n
      BY <2>1, <2>2, GivenOnce
    <3> QED BY <2>4, <3>1, <3>2, TimesType
  <2>6. x[1] \in Streams /\ x[2] \in Nat
    BY StreamsAreNumbers DEF Particles
  <2>7. read \in [Streams -> Nat]
    BY DEF Ranges
  <2>8. IsRead(x)' <=> IsRead(x) \/ (x[1] = d /\ read[d] < x[2] /\ x[2] <= read[d] + n)
    <3>1. CASE x[1] = d
      <4>1. read'[x[1]] = read[d] + n /\ read[d] \in Nat BY <2>1, <2>2, <2>7, <3>1
      <4> QED BY <2>6, <3>1, <4>1 DEF IsRead
    <3>2. CASE x[1] # d
      <4>1. read'[x[1]] = read[x[1]] BY <2>1, <2>2, <2>6, <2>7, <3>2
      <4> QED BY <3>2, <4>1 DEF IsRead
    <3> QED BY <3>1, <3>2
  <2>9. g > 0 => ~IsRead(x)
    BY <2>5, <2>6, <2>7 DEF IsRead
  <2>10. PICK a \in Nat, b \in Nat : a = Times(Everywhere, x) /\ b = Times(Everywhere', x) /\ b = a + g
    BY <1>0, <2>1, <2>2, <2>4
  <2>11. a <= 1 /\ (a > 0 => IsRead(x)) /\ (Undisturbed /\ IsRead(x) => a > 0)
    BY <2>10 DEF Counted
  <2> QED BY <1>1, <2>5, <2>8, <2>9, <2>10, <2>11
<1>4. ASSUME NEW w \in Workers, WorkerStep(w), ~Fill(w) PROVE Counted'
  <2>1. read' = read
    BY <1>4 DEF WorkerStep, Start, TestStop, ProduceNoMore, TakeStream, HandOver, PopEmpty, SpinTestStop, Throws, Catch, Store, RequestStop, Exit
  <2>2. Catch(w) => ~Undisturbed'
    BY DEF Catch, Undisturbed, Faults
  <2>3. \A x \in Particles : \/ Times(Everywhere', x) = Times(Everywhere, x)
                             \/ ~Undisturbed' /\ Times(Everywhere', x) <= Times(Everywhere, x)
    BY <1>4, <2>2, WorkerCarries
  <2> QED BY <1>2, <2>1, <2>3
<1>5. CASE ConsumerStep
  <2>1. read' = read
    BY <1>5 DEF ConsumerStep, Read, ReadNext, Pop, TestError, TestRemaining, PopLast, Consume, ConsumeThrows, StopWorkers, Join, Destroy, DestroyJoin, NoWorkerStep, workerVars
  <2>2. ConsumeThrows \/ Destroy \/ DestroyJoin => ~Undisturbed'
    BY DEF ConsumeThrows, Destroy, DestroyJoin, Undisturbed
  <2>3. \A x \in Particles : \/ Times(Everywhere', x) = Times(Everywhere, x)
                             \/ ~Undisturbed' /\ Times(Everywhere', x) <= Times(Everywhere, x)
    BY <1>5, <2>2, ConsumerCarries
  <2> QED BY <1>2, <2>1, <2>3
<1>6. CASE Rest
  BY <1>6 DEF Rest, vars, sharedVars, workerVars, consumerVars, Counted, IsRead, Undisturbed, Everywhere, Buffers, HeldBy, InHand
<1> QED BY <1>3, <1>4, <1>5, <1>6 DEF Next

\* Counting says that no place has a particle twice and that none is lost.
LEMMA OnePlace == ASSUME Ranges, Drained, Counted PROVE EachInOnePlace
<1>1. Everywhere \in Seq(Particles)
  BY NumberNow
<1>2. DOMAIN Everywhere = 1..Len(Everywhere) /\ \A i \in 1..Len(Everywhere) : Everywhere[i] \in Particles
  BY <1>1, LenProperties, ElementOfSeq
<1>3. IsInjective(Everywhere)
  <2>1. \A x \in Particles : Times(Everywhere, x) <= 1
    BY DEF Counted
  <2>2. \A i, j \in 1..Len(Everywhere) : Everywhere[i] = Everywhere[j] => i = j
    BY <1>1, <2>1, TimesOnce
  <2> QED BY <1>2, <2>2 DEF IsInjective
<1>4. ASSUME Undisturbed PROVE Range(Everywhere) = ReadSoFar
  <2>1. ASSUME NEW i \in 1..Len(Everywhere) PROVE Everywhere[i] \in ReadSoFar
    <3>1. PICK x \in Particles : x = Everywhere[i] BY <1>2
    <3>2. Times(Everywhere, x) > 0 BY <1>1, <3>1, TimesType
    <3>3. IsRead(x) BY <3>2 DEF Counted
    <3>4. PICK d \in Streams : \E k \in 1..Counts[d] : x = <<d, k>> BY DEF Particles
    <3>7. PICK k \in 1..Counts[d] : x = <<d, k>> BY <3>4
    <3>5. k \in Nat /\ 1 <= k /\ read[d] \in Nat /\ k <= read[d]
      <4>1. Counts[d] \in Nat /\ read[d] \in Nat BY StreamsAreNumbers DEF Ranges
      <4>2. x[1] = d /\ x[2] = k BY <3>7
      <4>3. k <= read[d] BY <3>3, <4>2 DEF IsRead
      <4> QED BY <4>1, <4>3
    <3>6. <<d, k>> \in {d} \X (1..read[d]) BY <3>5
    <3> QED BY <3>1, <3>7, <3>6 DEF ReadSoFar
  <2>2. ASSUME NEW d \in Streams, NEW k \in 1..read[d] PROVE \E i \in 1..Len(Everywhere) : Everywhere[i] = <<d, k>>
    <3>1. k \in 1..Counts[d]
      <4>1. Counts[d] \in Nat /\ read[d] \in Nat /\ read[d] <= Counts[d]
        BY StreamsAreNumbers DEF Drained, Ranges
      <4> QED BY <4>1
    <3>2. PICK x \in Particles : x = <<d, k>> BY <3>1, ParticlePairs
    <3>3. IsRead(x) BY <3>2 DEF IsRead, Ranges
    <3>4. Times(Everywhere, x) > 0 BY <1>4, <3>3 DEF Counted
    <3>5. \E i \in 1..Len(Everywhere) : Everywhere[i] = x BY <1>1, <3>4, TimesType
    <3> QED BY <3>2, <3>5
  <2>3. \A y \in ReadSoFar : \E d \in Streams : \E k \in 1..read[d] : y = <<d, k>>
    BY DEF ReadSoFar
  <2>4. Range(Everywhere) = {Everywhere[i] : i \in 1..Len(Everywhere)}
    BY <1>2 DEF Range
  <2>5. Range(Everywhere) \subseteq ReadSoFar
    BY <2>1, <2>4
  <2>6. ReadSoFar \subseteq Range(Everywhere)
    BY <2>2, <2>3, <2>4
  <2> QED BY <2>5, <2>6
<1> QED BY <1>3, <1>4 DEF EachInOnePlace, Undisturbed

-----------------------------------------------------------------------------
(* The buffers.                                                             *)

\* The workers can be counted.
LEMMA HoldersFinite ==
  /\ IsFiniteSet(Holders) /\ Cardinality(Holders) \in Nat
  /\ IsFiniteSet(Starters) /\ Cardinality(Starters) \in Nat
<1>1. Holders \subseteq Workers /\ Starters \subseteq Workers
  BY DEF Holders, Starters
<1> QED BY <1>1, WorkersFinite, FS_Subset, FS_CardinalityType

\* A worker takes a buffer or gives it away.
LEMMA HoldersChange ==
  ASSUME Ranges, NEW w \in Workers, NEW b, held' = [held EXCEPT ![w] = b]
  PROVE  /\ held[w] = NoBuffer /\ b # NoBuffer => Cardinality(Holders') = Cardinality(Holders) + 1
         /\ held[w] # NoBuffer /\ b = NoBuffer => Cardinality(Holders') = Cardinality(Holders) - 1
         /\ (held[w] = NoBuffer <=> b = NoBuffer) => Holders' = Holders
<1>1. held'[w] = b /\ \A v \in Workers \ {w} : held'[v] = held[v]
  BY DEF Ranges
<1>2. ASSUME held[w] = NoBuffer, b # NoBuffer PROVE Cardinality(Holders') = Cardinality(Holders) + 1
  <2>1. Holders' = Holders \cup {w} /\ w \notin Holders
    BY <1>1, <1>2 DEF Holders
  <2> QED BY <2>1, HoldersFinite, FS_AddElement
<1>3. ASSUME held[w] # NoBuffer, b = NoBuffer PROVE Cardinality(Holders') = Cardinality(Holders) - 1
  <2>1. Holders' = Holders \ {w} /\ w \in Holders
    BY <1>1, <1>3 DEF Holders
  <2> QED BY <2>1, HoldersFinite, FS_RemoveElement
<1>4. ASSUME held[w] = NoBuffer <=> b = NoBuffer PROVE Holders' = Holders
  BY <1>1, <1>4 DEF Holders
<1> QED BY <1>2, <1>3, <1>4

\* No worker begins again.
LEMMA StartersChange ==
  ASSUME Faults, NEW w \in Workers, WorkerStep(w)
  PROVE  /\ Cardinality(Starters') \in Nat /\ Cardinality(Starters') <= Cardinality(Starters)
         /\ Start(w) => Cardinality(Starters') = Cardinality(Starters) - 1
<1>1. wpc' = wpc \/ \E place \in WorkerPlaces \ {"start"} : wpc' = [wpc EXCEPT ![w] = place]
  BY DEF Faults, WorkerPlaces, Go, WorkerStep, Start, TestStop, ProduceNoMore, TakeStream, HandOver, PopEmpty, SpinTestStop, Fill, Throws, Catch, Store, RequestStop, Exit
<1>2. Starters' \subseteq Starters
  BY <1>1 DEF Starters, Faults
<1>3. ASSUME Start(w) PROVE Cardinality(Starters') = Cardinality(Starters) - 1
  <2>1. wpc[w] = "start" /\ wpc' = [wpc EXCEPT ![w] = "test"] BY <1>3 DEF Start, Go
  <2>2. Starters' = Starters \ {w} /\ w \in Starters BY <2>1 DEF Starters, Faults
  <2> QED BY <2>2, HoldersFinite, FS_RemoveElement
<1> QED BY <1>2, <1>3, HoldersFinite, FS_Subset, FS_CardinalityType

\* A worker makes two buffers when it starts; after that it only exchanges them.
LEMMA TwoEachWorker ==
  ASSUME PCInv, EndInv, EndInv', TwoEach, NEW w \in Workers, WorkerStep(w) PROVE TwoEach'
<1> USE DEF PCInv, EndInv
<1>0. ~AllDone /\ UNCHANGED <<cpc, out>>
  BY DEF WorkerStep, Start, TestStop, ProduceNoMore, TakeStream, HandOver, PopEmpty, SpinTestStop, Fill, Throws, Catch, Store, RequestStop, Exit, AllDone, consumerVars
<1>1. PICK e, f, h, s, o, ee, ff, hh, ss :
         /\ e = emptyItems /\ f = Len(fullItems) /\ h = Cardinality(Holders) /\ s = Cardinality(Starters)
         /\ ee = emptyItems' /\ ff = Len(fullItems') /\ hh = Cardinality(Holders') /\ ss = Cardinality(Starters')
         /\ o = IF out = NoBuffer THEN 0 ELSE 1
  OBVIOUS
<1>2. e \in Nat /\ f \in Nat /\ h \in Nat /\ s \in Nat /\ ff \in Nat /\ hh \in Nat /\ ss \in Nat /\ ss <= s /\ o \in Nat
  <2>1. e \in Nat /\ f \in Nat /\ ff \in Nat /\ o \in Nat BY <1>1 DEF TwoEach, Ranges
  <2>2. h \in Nat /\ s \in Nat BY <1>1, HoldersFinite
  <2>3. IsFiniteSet(Holders')
    <3>1. Holders' \subseteq Workers BY DEF Holders
    <3> QED BY <3>1, WorkersFinite, FS_Subset
  <2>4. hh \in Nat BY <1>1, <2>3, FS_CardinalityType
  <2>5. ss \in Nat /\ ss <= s BY <1>1, StartersChange
  <2> QED BY <2>1, <2>2, <2>4, <2>5
<1>3. e + f + h + o + 2 * s <= 2 * NumWorkers
  BY <1>1 DEF TwoEach, InUse
<1>4. ee \in Nat /\ ee + ff + hh + 2 * ss <= e + f + h + 2 * s
  <2>1. hh = h \/ held' # held
    BY <1>1 DEF Holders
  <2>2. CASE Start(w)
    <3>1. ss = s - 1 BY <1>1, <2>2, StartersChange
    <3>2. held[w] = NoBuffer /\ held' = [held EXCEPT ![w] = <<>>] BY <2>2 DEF Start, Hands
    <3>3. hh = h + 1 BY <1>1, <3>2, HoldersChange, NoBufferIsNone
    <3>4. emptyItems' = emptyItems + 1 /\ fullItems' = fullItems BY <2>2 DEF Start
    <3>5. ee = e + 1 /\ ff = f BY <1>1, <3>4
    <3> QED BY <1>2, <3>1, <3>3, <3>5
  <2>3. CASE ProduceNoMore(w)
    <3>1. held[w] # NoBuffer /\ held' = [held EXCEPT ![w] = NoBuffer] BY <2>3 DEF ProduceNoMore, Hands
    <3>2. hh = h - 1 BY <1>1, <3>1, HoldersChange
    <3>3. \/ emptyItems' = emptyItems + 1 /\ fullItems' = fullItems
          \/ emptyItems' = emptyItems /\ fullItems' = Append(fullItems, held[w])
      BY <2>3 DEF ProduceNoMore
    <3>4. \/ emptyItems' = emptyItems + 1 /\ Len(fullItems') = Len(fullItems)
          \/ emptyItems' = emptyItems /\ Len(fullItems') = Len(fullItems) + 1
      BY <3>3 DEF Ranges
    <3>5. (ee = e + 1 /\ ff = f) \/ (ee = e /\ ff = f + 1) BY <1>1, <3>4
    <3> QED BY <1>2, <3>2, <3>5
  <2>4. CASE HandOver(w)
    <3>1. CASE Len(held[w]) > Half
      <4>1. held[w] # NoBuffer /\ held' = [held EXCEPT ![w] = NoBuffer] BY <2>4, <3>1 DEF HandOver, Hands
      <4>2. hh = h - 1 BY <1>1, <4>1, HoldersChange
      <4>3. emptyItems' = emptyItems /\ Len(fullItems') = Len(fullItems) + 1 BY <2>4, <3>1 DEF HandOver, Ranges
      <4>4. ee = e /\ ff = f + 1 BY <1>1, <4>3
      <4> QED BY <1>2, <4>2, <4>4
    <3>2. CASE ~(Len(held[w]) > Half)
      <4>1. UNCHANGED <<held, fullItems, emptyItems>> BY <2>4, <3>2 DEF HandOver
      <4>2. ee = e /\ ff = f /\ hh = h BY <1>1, <2>1, <4>1
      <4> QED BY <1>2, <4>2
    <3> QED BY <3>1, <3>2
  <2>5. CASE PopEmpty(w)
    <3>1. held[w] = NoBuffer BY <2>5 DEF PopEmpty, Hands
    <3>2. CASE emptyItems > 0
      <4>1. emptyItems' = emptyItems - 1 /\ fullItems' = fullItems /\ held' = [held EXCEPT ![w] = <<>>]
        BY <2>5, <3>2 DEF PopEmpty
      <4>2. hh = h + 1 BY <1>1, <3>1, <4>1, HoldersChange, NoBufferIsNone
      <4>3. ee = e - 1 /\ ff = f /\ e > 0 BY <1>1, <3>2, <4>1
      <4> QED BY <1>2, <4>2, <4>3
    <3>3. CASE ~(emptyItems > 0)
      <4>1. UNCHANGED <<held, fullItems, emptyItems>> BY <2>5, <3>3 DEF PopEmpty
      <4>2. ee = e /\ ff = f /\ hh = h BY <1>1, <2>1, <4>1
      <4> QED BY <1>2, <4>2
    <3> QED BY <3>2, <3>3
  <2>6. CASE Fill(w)
    <3>1. PICK b : held' = [held EXCEPT ![w] = b] BY <2>6 DEF Fill
    <3>2. held[w] # NoBuffer /\ b # NoBuffer
      <4>1. wpc[w] = "fill" /\ \E place \in {"fill", "test"} : wpc' = [wpc EXCEPT ![w] = place]
        BY <2>6 DEF Fill, Go
      <4>2. wpc'[w] \in {"fill", "test"} BY <4>1 DEF Faults
      <4>3. held'[w] = b BY <3>1 DEF Ranges
      <4> QED BY <4>1, <4>2, <4>3 DEF Hands
    <3>3. hh = h BY <1>1, <3>1, <3>2, HoldersChange
    <3>4. UNCHANGED <<fullItems, emptyItems>> BY <2>6 DEF Fill, sharedVars
    <3>5. ee = e /\ ff = f BY <1>1, <3>4
    <3> QED BY <1>2, <3>3, <3>5
  <2>7. CASE Catch(w)
    <3>1. held' = [held EXCEPT ![w] = NoBuffer] /\ UNCHANGED <<fullItems, emptyItems>> BY <2>7 DEF Catch
    <3>2. hh = h \/ hh = h - 1 BY <1>1, <3>1, HoldersChange
    <3>3. ee = e /\ ff = f BY <1>1, <3>1
    <3> QED BY <1>2, <3>2, <3>3
  <2>8. CASE TestStop(w) \/ TakeStream(w) \/ SpinTestStop(w) \/ Throws(w) \/ Store(w) \/ RequestStop(w) \/ Exit(w)
    <3>1. UNCHANGED <<held, fullItems, emptyItems>>
      BY <2>8 DEF TestStop, TakeStream, SpinTestStop, Throws, Store, RequestStop, Exit, sharedVars
    <3>2. ee = e /\ ff = f /\ hh = h BY <1>1, <2>1, <3>1
    <3> QED BY <1>2, <3>2
  <2> QED BY <2>2, <2>3, <2>4, <2>5, <2>6, <2>7, <2>8 DEF WorkerStep
<1>5. InUse' = ee + ff + hh + o
  BY <1>0, <1>1 DEF InUse
<1>6. ee + ff + hh + o + 2 * ss <= 2 * NumWorkers
  BY <1>2, <1>3, <1>4, ProducerAssumption
<1>7. InUse' + 2 * Cardinality(Starters') <= 2 * NumWorkers
  BY <1>1, <1>5, <1>6
<1> QED BY <1>0, <1>1, <1>4, <1>7 DEF TwoEach

\* The consumer exchanges buffers or deletes them.
LEMMA TwoEachConsumer ==
  ASSUME PCInv, EndInv, EndInv', TwoEach, ConsumerStep PROVE TwoEach'
<1> USE DEF PCInv, EndInv
<1>1. UNCHANGED workerVars
  BY DEF ConsumerStep, Read, ReadNext, Pop, TestError, TestRemaining, PopLast, Consume, ConsumeThrows, StopWorkers, Join, Destroy, DestroyJoin, NoWorkerStep
<1>2. Holders' = Holders /\ Starters' = Starters /\ (AllDone' <=> AllDone)
  BY <1>1 DEF Holders, Starters, AllDone, workerVars
<1>3. PICK e, f, o, h, ee, ff, oo :
         /\ e = emptyItems /\ f = Len(fullItems) /\ h = Cardinality(Holders)
         /\ ee = emptyItems' /\ ff = Len(fullItems')
         /\ o = (IF out = NoBuffer THEN 0 ELSE 1) /\ oo = (IF out' = NoBuffer THEN 0 ELSE 1)
  OBVIOUS
<1>4. e \in Nat /\ f \in Nat /\ o \in Nat /\ h \in Nat /\ ff \in Nat /\ oo \in Nat
  BY <1>3, HoldersFinite DEF TwoEach, Ranges
<1>5. ee \in Nat /\ ee + ff + oo <= e + f + o
  <2>1. CASE Read
    <3>1. fullItems' = fullItems /\ out # NoBuffer /\ ((out' = NoBuffer /\ emptyItems' = emptyItems + 1) \/ emptyItems' = emptyItems)
      BY <2>1 DEF Read
    <3>2. ff = f /\ o = 1 /\ ((oo = 0 /\ ee = e + 1) \/ (oo <= 1 /\ ee = e))
      BY <1>3, <3>1
    <3> QED BY <1>4, <3>2
  <2>2. CASE (Pop \/ PopLast) /\ fullItems # <<>>
    <3>1. out = NoBuffer /\ emptyItems' = emptyItems /\ fullItems' = Tail(fullItems)
      BY <2>2 DEF Pop, PopLast, Left
    <3>2. Len(fullItems') = Len(fullItems) - 1
      BY <2>2, <3>1 DEF Ranges
    <3>3. ee = e /\ ff = f - 1 /\ o = 0 /\ oo <= 1
      BY <1>3, <3>1, <3>2
    <3> QED BY <1>4, <3>3
  <2>3. CASE Consume
    <3>1. out # NoBuffer /\ out' = NoBuffer /\ emptyItems' = emptyItems + 1 /\ fullItems' = fullItems
      BY <2>3 DEF Consume, Left
    <3>2. o = 1 /\ oo = 0 /\ ee = e + 1 /\ ff = f
      BY <1>3, <3>1
    <3> QED BY <1>4, <3>2
  <2>4. CASE ConsumeThrows \/ Destroy
    <3>1. out' = NoBuffer /\ UNCHANGED <<emptyItems, fullItems>>
      BY <2>4 DEF ConsumeThrows, Destroy, sharedVars
    <3>2. oo = 0 /\ ee = e /\ ff = f
      BY <1>3, <3>1
    <3> QED BY <1>4, <3>2
  <2>5. CASE DestroyJoin
    <3>1. out' = out /\ emptyItems' = 0 /\ fullItems' = <<>>
      BY <2>5 DEF DestroyJoin
    <3>2. oo = o /\ ee = 0 /\ ff = 0
      BY <1>3, <3>1
    <3> QED BY <1>4, <3>2
  <2>6. CASE ReadNext \/ TestError \/ TestRemaining \/ StopWorkers \/ Join \/ ((Pop \/ PopLast) /\ fullItems = <<>>)
    <3>1. UNCHANGED <<emptyItems, fullItems, out>>
      BY <2>6 DEF ReadNext, TestError, TestRemaining, StopWorkers, Join, Pop, PopLast, sharedVars
    <3>2. oo = o /\ ee = e /\ ff = f
      BY <1>3, <3>1
    <3> QED BY <1>4, <3>2
  <2> QED BY <2>1, <2>2, <2>3, <2>4, <2>5, <2>6 DEF ConsumerStep
<1>6. cpc' = "destroyed" => AllDone /\ emptyItems' = 0 /\ fullItems' = <<>> /\ out' = NoBuffer
  <2>1. CASE DestroyJoin
    BY <2>1 DEF DestroyJoin, AllDone, Left
  <2>2. CASE ~DestroyJoin
    <3>1. cpc' # "destroyed"
      BY <2>2 DEF ConsumerStep, Read, ReadNext, Pop, TestError, TestRemaining, PopLast, Consume, ConsumeThrows, StopWorkers, Join, Destroy
    <3> QED BY <3>1
  <2> QED BY <2>1, <2>2
<1>7. InUse = e + f + h + o /\ InUse' = ee + ff + h + oo
  BY <1>2, <1>3 DEF InUse
<1>8. PICK s \in Nat : s = Cardinality(Starters)
  BY HoldersFinite
<1>9. e + f + h + o + 2 * s <= 2 * NumWorkers
  BY <1>7, <1>8 DEF TwoEach
<1>10. ee + ff + h + oo + 2 * s <= 2 * NumWorkers
  BY <1>4, <1>5, <1>9, ProducerAssumption
<1>11. InUse' + 2 * Cardinality(Starters') <= 2 * NumWorkers
  BY <1>2, <1>7, <1>8, <1>10
<1> QED BY <1>2, <1>3, <1>5, <1>6, <1>11 DEF TwoEach

\* When the destructor has returned, each worker is gone and has left its buffer.
LEMMA NoneLeft == ASSUME Ranges, Hands, TwoEach PROVE NoBufferLeft
<1>1. PICK u, s : u = InUse /\ s = Cardinality(Starters) /\ s \in Nat
  BY HoldersFinite
<1>2. u + 2 * s <= 2 * NumWorkers /\ u \in Int
  <2>1. emptyItems \in Nat /\ Len(fullItems) \in Nat /\ Cardinality(Holders) \in Nat
    BY HoldersFinite DEF TwoEach, Ranges
  <2> QED BY <1>1, <2>1 DEF TwoEach, InUse
<1>3. u <= 2 * NumWorkers
  BY <1>1, <1>2, ProducerAssumption
<1>4. AllDone => \A w \in Workers : held[w] = NoBuffer
  BY DEF AllDone, Hands
<1> QED BY <1>1, <1>3, <1>4 DEF TwoEach, NoBufferLeft, InUse, Holders

-----------------------------------------------------------------------------
(* Order.                                                                   *)

\* Where a place of s \o t is.
LEMMA ConcatAt ==
  ASSUME NEW s \in Seq(Particles), NEW t \in Seq(Particles)
  PROVE  /\ s \o t \in Seq(Particles) /\ Len(s) \in Nat /\ Len(t) \in Nat /\ Len(s \o t) = Len(s) + Len(t)
         /\ \A i \in 1..Len(s) : i \in 1..Len(s \o t) /\ (s \o t)[i] = s[i]
         /\ \A j \in 1..Len(t) : Len(s) + j \in 1..Len(s \o t) /\ (s \o t)[Len(s) + j] = t[j]
         /\ \A k \in 1..Len(s \o t) : k \in 1..Len(s) \/ \E j \in 1..Len(t) : k = Len(s) + j
<1> DEFINE m == Len(s)
           n == Len(t)
           u == s \o t
<1>1. /\ m \in Nat /\ n \in Nat /\ u \in Seq(Particles) /\ Len(u) = m + n
      /\ \A i \in 1..(m + n) : u[i] = IF i <= m THEN s[i] ELSE t[i - m]
  OBVIOUS
<1> HIDE DEF m, n, u
<1>2. \A i \in 1..m : i \in 1..(m + n) /\ u[i] = s[i]
  BY <1>1
<1>3. ASSUME NEW j \in 1..n PROVE m + j \in 1..(m + n) /\ u[m + j] = t[j]
  <2>1. m + j \in 1..(m + n) /\ ~(m + j <= m) /\ (m + j) - m = j BY <1>1
  <2> QED BY <1>1, <2>1
<1>4. ASSUME NEW k \in 1..(m + n), k \notin 1..m PROVE \E j \in 1..n : k = m + j
  <2>1. k - m \in 1..n /\ k = m + (k - m) BY <1>1, <1>4
  <2> QED BY <2>1
<1> QED BY <1>1, <1>2, <1>3, <1>4 DEF m, n, u

\* What is before u is so part by part.
LEMMA BeforeLeft ==
  ASSUME NEW s \in Seq(Particles), NEW t \in Seq(Particles), NEW u
  PROVE  Before(s \o t, u) <=> Before(s, u) /\ Before(t, u)
<1>1. ASSUME Before(s \o t, u) PROVE Before(s, u) /\ Before(t, u)
  <2>1. ASSUME NEW i \in 1..Len(s), NEW j \in 1..Len(u), s[i][1] = u[j][1] PROVE s[i][2] < u[j][2]
    <3>1. i \in 1..Len(s \o t) /\ (s \o t)[i] = s[i] BY ConcatAt
    <3> QED BY <1>1, <2>1, <3>1 DEF Before
  <2>2. ASSUME NEW i \in 1..Len(t), NEW j \in 1..Len(u), t[i][1] = u[j][1] PROVE t[i][2] < u[j][2]
    <3>1. Len(s) + i \in 1..Len(s \o t) /\ (s \o t)[Len(s) + i] = t[i] BY ConcatAt
    <3> QED BY <1>1, <2>2, <3>1 DEF Before
  <2> QED BY <2>1, <2>2 DEF Before
<1>2. ASSUME Before(s, u), Before(t, u), NEW k \in 1..Len(s \o t), NEW j \in 1..Len(u), (s \o t)[k][1] = u[j][1]
      PROVE  (s \o t)[k][2] < u[j][2]
  <2>1. CASE k \in 1..Len(s)
    <3>1. (s \o t)[k] = s[k] BY <2>1, ConcatAt
    <3> QED BY <1>2, <2>1, <3>1 DEF Before
  <2>2. CASE \E i \in 1..Len(t) : k = Len(s) + i
    <3>1. PICK i \in 1..Len(t) : k = Len(s) + i BY <2>2
    <3>2. (s \o t)[k] = t[i] BY <3>1, ConcatAt
    <3> QED BY <1>2, <3>2 DEF Before
  <2> QED BY <2>1, <2>2, ConcatAt
<1> QED BY <1>1, <1>2 DEF Before

\* So is what comes after s.
LEMMA BeforeRight ==
  ASSUME NEW s, NEW t \in Seq(Particles), NEW u \in Seq(Particles)
  PROVE  Before(s, t \o u) <=> Before(s, t) /\ Before(s, u)
<1>1. ASSUME Before(s, t \o u) PROVE Before(s, t) /\ Before(s, u)
  <2>1. ASSUME NEW i \in 1..Len(s), NEW j \in 1..Len(t), s[i][1] = t[j][1] PROVE s[i][2] < t[j][2]
    <3>1. j \in 1..Len(t \o u) /\ (t \o u)[j] = t[j] BY ConcatAt
    <3> QED BY <1>1, <2>1, <3>1 DEF Before
  <2>2. ASSUME NEW i \in 1..Len(s), NEW j \in 1..Len(u), s[i][1] = u[j][1] PROVE s[i][2] < u[j][2]
    <3>1. Len(t) + j \in 1..Len(t \o u) /\ (t \o u)[Len(t) + j] = u[j] BY ConcatAt
    <3> QED BY <1>1, <2>2, <3>1 DEF Before
  <2> QED BY <2>1, <2>2 DEF Before
<1>2. ASSUME Before(s, t), Before(s, u), NEW i \in 1..Len(s), NEW k \in 1..Len(t \o u), s[i][1] = (t \o u)[k][1]
      PROVE  s[i][2] < (t \o u)[k][2]
  <2>1. CASE k \in 1..Len(t)
    <3>1. (t \o u)[k] = t[k] BY <2>1, ConcatAt
    <3> QED BY <1>2, <2>1, <3>1 DEF Before
  <2>2. CASE \E j \in 1..Len(u) : k = Len(t) + j
    <3>1. PICK j \in 1..Len(u) : k = Len(t) + j BY <2>2
    <3>2. (t \o u)[k] = u[j] BY <3>1, ConcatAt
    <3> QED BY <1>2, <3>2 DEF Before
  <2> QED BY <2>1, <2>2, ConcatAt
<1> QED BY <1>1, <1>2 DEF Before

\* Two ordered sequences are ordered together if one is before the other.
LEMMA OrderedConcat ==
  ASSUME NEW s \in Seq(Particles), NEW t \in Seq(Particles)
  PROVE  Ordered(s \o t) <=> Ordered(s) /\ Ordered(t) /\ Before(s, t)
<1>0. PICK u, m, n : u = s \o t /\ m = Len(s) /\ n = Len(t)
  OBVIOUS
<1>1. /\ m \in Nat /\ n \in Nat /\ Len(u) = m + n
      /\ \A i \in 1..m : i \in 1..Len(u) /\ u[i] = s[i]
      /\ \A j \in 1..n : m + j \in 1..Len(u) /\ u[m + j] = t[j]
      /\ \A k \in 1..Len(u) : k \in 1..m \/ \E j \in 1..n : k = m + j
  <2>1. /\ Len(s) \in Nat /\ Len(t) \in Nat /\ Len(s \o t) = Len(s) + Len(t)
        /\ \A i \in 1..Len(s) : i \in 1..Len(s \o t) /\ (s \o t)[i] = s[i]
        /\ \A j \in 1..Len(t) : Len(s) + j \in 1..Len(s \o t) /\ (s \o t)[Len(s) + j] = t[j]
        /\ \A k \in 1..Len(s \o t) : k \in 1..Len(s) \/ \E j \in 1..Len(t) : k = Len(s) + j
    BY ConcatAt
  <2> QED BY Zenon, <1>0, <2>1
<1>2. ASSUME Ordered(u) PROVE Ordered(s) /\ Ordered(t) /\ Before(s, t)
  <2>1. Ordered(s) BY <1>0, <1>1, <1>2 DEF Ordered
  <2>2. ASSUME NEW i \in 1..n, NEW j \in 1..n, i < j, t[i][1] = t[j][1] PROVE t[i][2] < t[j][2]
    <3>1. PICK k, l : k = m + i /\ l = m + j OBVIOUS
    <3>2. k < l BY <1>1, <2>2, <3>1
    <3>3. k \in 1..Len(u) /\ l \in 1..Len(u) /\ u[k] = t[i] /\ u[l] = t[j] BY <1>1, <3>1
    <3> QED BY <1>2, <2>2, <3>2, <3>3 DEF Ordered
  <2>3. ASSUME NEW i \in 1..m, NEW j \in 1..n, s[i][1] = t[j][1] PROVE s[i][2] < t[j][2]
    <3>1. PICK l : l = m + j OBVIOUS
    <3>2. i < l BY <1>1, <3>1
    <3>3. i \in 1..Len(u) /\ l \in 1..Len(u) /\ u[i] = s[i] /\ u[l] = t[j] BY <1>1, <3>1
    <3> QED BY <1>2, <2>3, <3>2, <3>3 DEF Ordered
  <2> QED BY <1>0, <2>1, <2>2, <2>3 DEF Ordered, Before
<1>3. ASSUME Ordered(s), Ordered(t), Before(s, t), NEW k \in 1..Len(u), NEW l \in 1..Len(u), k < l, u[k][1] = u[l][1]
      PROVE  u[k][2] < u[l][2]
  <2>1. CASE l \in 1..m
    <3>1. k \in 1..m BY <1>1, <1>3, <2>1
    <3> QED BY <1>0, <1>1, <1>3, <2>1, <3>1 DEF Ordered
  <2>2. ASSUME NEW j \in 1..n, l = m + j PROVE u[k][2] < u[l][2]
    <3>1. u[l] = t[j] BY <1>1, <2>2
    <3>2. CASE k \in 1..m
      <4>1. u[k] = s[k] BY <1>1, <3>2
      <4> QED BY <1>0, <1>1, <1>3, <2>2, <3>1, <3>2, <4>1 DEF Before
    <3>3. ASSUME NEW i \in 1..n, k = m + i PROVE u[k][2] < u[l][2]
      <4>1. u[k] = t[i] /\ i < j BY <1>1, <1>3, <2>2, <3>3
      <4> QED BY <1>0, <1>1, <1>3, <2>2, <3>1, <3>3, <4>1 DEF Ordered
    <3> QED BY <1>1, <3>2, <3>3
  <2> QED BY <1>1, <2>1, <2>2
<1> QED BY <1>0, <1>2, <1>3 DEF Ordered

\* Nothing is always in order.
LEMMA NothingOrdered == Ordered(<<>>) /\ \A s : Before(s, <<>>) /\ Before(<<>>, s)
  BY DEF Ordered, Before

-----------------------------------------------------------------------------
\* What a worker holds, and what run() has given and is going to give.
LEMMA LineType ==
  ASSUME Ranges
  PROVE  /\ delivered \in Seq(Particles) /\ InHand \in Seq(Particles) /\ FlattenSeq(fullItems) \in Seq(Particles)
         /\ delivered \o InHand \in Seq(Particles) /\ Line \in Seq(Particles)
         /\ \A w \in Workers : HeldBy(w) \in Seq(Particles)
<1>1. delivered \in Seq(Particles) /\ InHand \in Seq(Particles) /\ \A w \in Workers : HeldBy(w) \in Seq(Particles)
  BY NoBufferIsNone DEF Ranges, InHand, HeldBy
<1>2. FlattenSeq(fullItems) \in Seq(Particles)
  BY FlattenType DEF Ranges
<1>3. delivered \o InHand \in Seq(Particles)
  BY <1>1, ConcatProperties
<1>4. (delivered \o InHand) \o FlattenSeq(fullItems) \in Seq(Particles)
  BY <1>2, <1>3, ConcatProperties
<1> QED BY <1>1, <1>2, <1>3, <1>4 DEF Line

\* All of it was read.
LEMMA LineIsRead ==
  ASSUME Ranges, Counted, NEW k \in 1..Len(Line) PROVE Line[k] \in Particles /\ IsRead(Line[k])
<1>1. PICK x \in Particles : x = Line[k]
  BY LineType, ElementOfSeq
<1>2. PICK d, h, q, u : d = delivered /\ h = InHand /\ q = FlattenSeq(fullItems) /\ u = d \o h
  OBVIOUS
<1>3. d \in Seq(Particles) /\ h \in Seq(Particles) /\ q \in Seq(Particles) /\ u \in Seq(Particles)
  BY <1>2, LineType
<1>4. Line = u \o q
  BY <1>2 DEF Line
<1>5. Times(u, x) = Times(d, x) + Times(h, x)
  BY <1>2, <1>3, TimesConcat
<1>6. Times(u \o q, x) = Times(u, x) + Times(q, x)
  BY <1>3, TimesConcat
<1>7. Times(Line, x) > 0
  BY <1>1, LineType, TimesType
<1>8. /\ Times(Everywhere, x) = InBuffers(x) + InQueue(x) + Times(InHand, x) + Times(delivered, x)
      /\ InBuffers(x) \in Nat /\ InQueue(x) \in Nat /\ Times(InHand, x) \in Nat /\ Times(delivered, x) \in Nat
  BY NumberNow
<1>9. InQueue(x) = Times(q, x)
  BY <1>2 DEF InQueue
<1>10. Times(Everywhere, x) > 0
  BY <1>2, <1>4, <1>5, <1>6, <1>7, <1>8, <1>9
<1> QED BY <1>1, <1>10 DEF Counted

\* So is what a worker holds.
LEMMA HeldIsRead ==
  ASSUME Ranges, Counted, NEW w \in Workers, NEW k \in 1..Len(HeldBy(w))
  PROVE  HeldBy(w)[k] \in Particles /\ IsRead(HeldBy(w)[k])
<1>1. PICK x \in Particles : x = HeldBy(w)[k]
  BY LineType, ElementOfSeq
<1>2. PICK bs \in Seq(Seq(Particles)) : bs = Buffers /\ Len(bs) = NumWorkers /\ bs[w] = HeldBy(w)
  <2>1. Buffers \in Seq(Seq(Particles)) /\ Len(Buffers) = NumWorkers
    BY PlacesType, BuffersAre DEF Ranges
  <2> QED BY <2>1 DEF Buffers
<1>3. Times(HeldBy(w), x) > 0
  BY <1>1, LineType, TimesType
<1>4. Times(HeldBy(w), x) <= InBuffers(x)
  <2>1. w \in 1..Len(bs) BY <1>2 DEF Workers
  <2>2. Times(bs[w], x) <= Times(FlattenSeq(bs), x) BY <2>1, TimesMember
  <2> QED BY <1>2, <2>2 DEF InBuffers
<1>5. /\ Times(Everywhere, x) = InBuffers(x) + InQueue(x) + Times(InHand, x) + Times(delivered, x)
      /\ InBuffers(x) \in Nat /\ InQueue(x) \in Nat /\ Times(InHand, x) \in Nat /\ Times(delivered, x) \in Nat
  BY NumberNow
<1>6. Times(HeldBy(w), x) \in Nat
  BY LineType, TimesType
<1>7. Times(Everywhere, x) > 0
  BY <1>3, <1>4, <1>5, <1>6
<1> QED BY <1>1, <1>7 DEF Counted

\* What is read has a stream, and a place in it from 1.
LEMMA ParticleParts == ASSUME NEW x \in Particles PROVE x[1] \in Streams /\ x[1] # 0 /\ x[2] \in Nat /\ x[2] >= 1
<1>1. PICK d \in Streams : \E k \in 1..Counts[d] : x = <<d, k>>
  BY DEF Particles
<1>2. PICK k \in 1..Counts[d] : x = <<d, k>>
  BY <1>1
<1>3. d # 0 /\ Counts[d] \in Nat
  BY StreamsAreNumbers
<1> QED BY <1>2, <1>3

\* A buffer goes to the end of the line, and moves up in it.
LEMMA LineLonger ==
  ASSUME Ranges, NEW b \in Seq(Particles), fullItems' = Append(fullItems, b), UNCHANGED <<out, delivered>>
  PROVE  Line' = Line \o b
<1>1. PICK u, f, q : u = delivered \o InHand /\ f = fullItems /\ q = FlattenSeq(f)
  OBVIOUS
<1>2. u \in Seq(Particles) /\ f \in Seq(Seq(Particles)) /\ q \in Seq(Particles)
  BY <1>1, LineType DEF Ranges
<1>3. FlattenSeq(Append(f, b)) = q \o b
  BY <1>1, <1>2, FlattenAppend
<1>4. (u \o q) \o b = u \o (q \o b)
  BY <1>2, Associative
<1>5. Line = u \o q /\ Line' = u \o FlattenSeq(Append(f, b))
  BY <1>1 DEF Line, InHand
<1> QED BY <1>3, <1>4, <1>5

\* The consumer takes the first buffer of the queue: the line stays as it is.
LEMMA LineMovesUp ==
  ASSUME Ranges, out = NoBuffer, fullItems # <<>>, out' = Head(fullItems), fullItems' = Tail(fullItems), delivered' = delivered
  PROVE  Line' = Line
<1>1. PICK d, f, h, t : d = delivered /\ f = fullItems /\ h = Head(f) /\ t = FlattenSeq(Tail(f))
  OBVIOUS
<1>2. d \in Seq(Particles) /\ f \in Seq(Seq(Particles)) /\ f # <<>>
  BY <1>1 DEF Ranges
<1>3. h \in Seq(Particles) /\ Tail(f) \in Seq(Seq(Particles))
  BY <1>1, <1>2, HeadTailProperties
<1>4. t \in Seq(Particles)
  BY <1>1, <1>3, FlattenType
<1>5. FlattenSeq(f) = h \o t
  BY <1>1, <1>2, FlattenTail
<1>6. d \o <<>> = d
  BY <1>2, ConcatEmptySeq
<1>7. (d \o h) \o t = d \o (h \o t)
  <2>1. d \in Seq(Particles) /\ h \in Seq(Particles) /\ t \in Seq(Particles)
    BY <1>2, <1>3, <1>4
  <2> QED BY ONLY <2>1, Associative
<1>8. InHand = <<>> /\ InHand' = h
  BY <1>1, <1>3, NoBufferIsNone DEF InHand
<1>9. Line = (d \o <<>>) \o FlattenSeq(f) /\ Line' = (d \o h) \o t
  BY <1>1, <1>8 DEF Line
<1> QED BY <1>5, <1>6, <1>7, <1>9

\* The consumer is given the buffer in its hand: the line stays as it is.
LEMMA LineGiven ==
  ASSUME Ranges, out # NoBuffer, delivered' = delivered \o out, out' = NoBuffer, fullItems' = fullItems
  PROVE  delivered' = delivered \o InHand /\ Line' = Line
<1>1. InHand = out /\ InHand' = <<>>
  BY DEF InHand
<1>2. delivered' \in Seq(Particles)
  BY <1>1, LineType
<1>3. delivered' \o <<>> = delivered'
  BY <1>2, ConcatEmptySeq
<1> QED BY <1>1, <1>3 DEF Line

\* What a step of a worker does to the line, to its buffer and to its stream.
LEMMA WorkerKinds ==
  ASSUME PCInv, EndInv, EndInv', NEW w \in Workers, WorkerStep(w)
  PROVE  /\ \A v \in Workers \ {w} : HeldBy(v)' = HeldBy(v)
         /\ \/ /\ UNCHANGED <<read, pin, current>>
               /\ HeldBy(w)' \in {HeldBy(w), <<>>} /\ Line' = Line
            \/ /\ UNCHANGED <<read, pin, current>>
               /\ HeldBy(w)' = <<>> /\ Line' = Line \o HeldBy(w)
            \/ /\ pin' = [pin EXCEPT ![w] = current] /\ current' = current + 1 /\ current \in Streams
               /\ read' = read /\ HeldBy(w)' = HeldBy(w) /\ Line' = Line
            \/ Fill(w) /\ Line' = Line /\ current' = current
<1> USE DEF PCInv, EndInv
<1>0. UNCHANGED <<out, delivered>>
  BY DEF WorkerStep, Start, TestStop, ProduceNoMore, TakeStream, HandOver, PopEmpty, SpinTestStop, Fill, Throws, Catch, Store, RequestStop, Exit, consumerVars
<1>1. ASSUME fullItems' = fullItems PROVE Line' = Line
  BY <1>0, <1>1 DEF Line, InHand
<1>2. ASSUME NEW b, held' = [held EXCEPT ![w] = b]
      PROVE  (\A v \in Workers \ {w} : HeldBy(v)' = HeldBy(v)) /\ HeldBy(w)' = IF b = NoBuffer THEN <<>> ELSE b
  <2>1. held'[w] = b /\ \A v \in Workers \ {w} : held'[v] = held[v]
    BY <1>2 DEF Ranges
  <2> QED BY <2>1 DEF HeldBy
<1>3. ASSUME held' = held PROVE \A v \in Workers : HeldBy(v)' = HeldBy(v)
  BY <1>3 DEF HeldBy
<1>4. CASE Start(w) \/ PopEmpty(w) \/ Catch(w)
  <2>1. UNCHANGED <<read, pin, current, fullItems>>
    BY <1>4 DEF Start, PopEmpty, Catch
  <2>2. held' = held \/ \E b \in {<<>>, NoBuffer} : held' = [held EXCEPT ![w] = b]
    BY <1>4 DEF Start, PopEmpty, Catch
  <2> QED BY <1>1, <1>2, <1>3, <2>1, <2>2
<1>5. CASE ProduceNoMore(w) \/ HandOver(w)
  <2>1. UNCHANGED <<read, pin, current>> /\ held[w] # NoBuffer
    BY <1>5 DEF ProduceNoMore, HandOver, Hands
  <2>2. \/ held' = held /\ fullItems' = fullItems
        \/ held' = [held EXCEPT ![w] = NoBuffer] /\ held[w] = <<>> /\ fullItems' = fullItems
        \/ held' = [held EXCEPT ![w] = NoBuffer] /\ fullItems' = Append(fullItems, held[w])
    BY <1>5 DEF ProduceNoMore, HandOver
  <2>3. HeldBy(w) = held[w] /\ held[w] \in Seq(Particles)
    BY <2>1 DEF HeldBy, Ranges
  <2>4. ASSUME fullItems' = Append(fullItems, held[w]) PROVE Line' = Line \o HeldBy(w)
    BY <1>0, <2>3, <2>4, LineLonger
  <2> QED BY <1>1, <1>2, <1>3, <2>1, <2>2, <2>4
<1>6. CASE TakeStream(w)
  <2>1. /\ pin' = [pin EXCEPT ![w] = current] /\ current' = current + 1 /\ UNCHANGED <<read, held, fullItems>>
        /\ current <= Len(Counts)
    BY <1>6 DEF TakeStream, sharedVars
  <2>2. current \in Streams
    BY <2>1, StreamsAreNumbers DEF Pins
  <2> QED BY <1>1, <1>3, <2>1, <2>2
<1>7. CASE Fill(w)
  <2>1. current' = current /\ fullItems' = fullItems /\ \E b : held' = [held EXCEPT ![w] = b]
    BY <1>7 DEF Fill, sharedVars
  <2> QED BY <1>1, <1>2, <1>7, <2>1
<1>8. CASE TestStop(w) \/ SpinTestStop(w) \/ Throws(w) \/ Store(w) \/ RequestStop(w) \/ Exit(w)
  <2>1. UNCHANGED <<read, pin, current, fullItems, held>>
    BY <1>8 DEF TestStop, SpinTestStop, Throws, Store, RequestStop, Exit, sharedVars
  <2> QED BY <1>1, <1>3, <2>1
<1> QED BY <1>4, <1>5, <1>6, <1>7, <1>8 DEF WorkerStep

\* The streams of a concatenation.
LEMMA StreamsInConcat ==
  ASSUME NEW s \in Seq(Particles), NEW t \in Seq(Particles) PROVE StreamsIn(s \o t) = StreamsIn(s) \cup StreamsIn(t)
<1>1. ASSUME NEW i \in 1..Len(s) PROVE s[i][1] \in StreamsIn(s \o t)
  <2>1. i \in 1..Len(s \o t) /\ (s \o t)[i] = s[i] BY ConcatAt
  <2> QED BY <2>1 DEF StreamsIn
<1>2. ASSUME NEW j \in 1..Len(t) PROVE t[j][1] \in StreamsIn(s \o t)
  <2>1. Len(s) + j \in 1..Len(s \o t) /\ (s \o t)[Len(s) + j] = t[j] BY ConcatAt
  <2> QED BY <2>1 DEF StreamsIn
<1>3. ASSUME NEW k \in 1..Len(s \o t) PROVE (s \o t)[k][1] \in StreamsIn(s) \cup StreamsIn(t)
  <2>1. CASE k \in 1..Len(s)
    <3>1. (s \o t)[k] = s[k] BY <2>1, ConcatAt
    <3> QED BY <2>1, <3>1 DEF StreamsIn
  <2>2. CASE \E j \in 1..Len(t) : k = Len(s) + j
    <3>1. PICK j \in 1..Len(t) : k = Len(s) + j BY <2>2
    <3>2. (s \o t)[k] = t[j] BY <3>1, ConcatAt
    <3> QED BY <3>2 DEF StreamsIn
  <2> QED BY <2>1, <2>2, ConcatAt
<1> QED BY <1>1, <1>2, <1>3 DEF StreamsIn

\* Buffers of different streams may come in any order.
LEMMA ApartIsBefore ==
  ASSUME NEW s, NEW t, StreamsIn(s) \cap StreamsIn(t) = {} PROVE Before(s, t)
  BY DEF StreamsIn, Before

\* Nothing is of no stream.
LEMMA NoStreams == StreamsIn(<<>>) = {}
  BY DEF StreamsIn

\* What a stream gives is in order, and behind all that was read.
LEMMA GivenInOrder ==
  ASSUME Ranges, Drained, NEW d \in Streams, NEW n \in Nat, n <= Counts[d] - read[d]
  PROVE  /\ Ordered(Given(d, n)) /\ StreamsIn(Given(d, n)) \subseteq {d}
         /\ \A s : (\A k \in 1..Len(s) : IsRead(s[k]) /\ s[k] \in Particles) => Before(s, Given(d, n))
<1>1. PICK g : g = Given(d, n) /\ Len(g) = n /\ \A i \in 1..n : g[i] = <<d, read[d] + i>>
  BY GivenType
<1>2. read[d] \in Nat
  BY DEF Ranges
<1>3. \A i \in 1..n : g[i][1] = d /\ g[i][2] = read[d] + i
  BY <1>1
<1>4. Ordered(g) /\ StreamsIn(g) \subseteq {d}
  BY <1>1, <1>2, <1>3 DEF Ordered, StreamsIn
<1>5. ASSUME NEW s, \A k \in 1..Len(s) : IsRead(s[k]) /\ s[k] \in Particles,
             NEW k \in 1..Len(s), NEW i \in 1..n, s[k][1] = g[i][1]
      PROVE  s[k][2] < g[i][2]
  <2>1. PICK x \in Particles : x = s[k] /\ IsRead(x) BY <1>5
  <2>2. PICK a, b : a = x[2] /\ b = g[i][2] OBVIOUS
  <2>3. a \in Nat BY <2>2, ParticleParts
  <2>4. x[1] = d BY <1>3, <1>5, <2>1
  <2>5. a <= read[d] BY <2>1, <2>2, <2>4 DEF IsRead
  <2>6. b = read[d] + i /\ i \in Nat /\ i >= 1 BY <1>3, <2>2
  <2>7. a < b BY ONLY <1>2, <2>3, <2>5, <2>6
  <2> QED BY <2>1, <2>2, <2>7
<1> QED BY <1>1, <1>4, <1>5 DEF Before

\* A stream that is taken is nobody else's, and what it gives stays with its worker.
LEMMA ApartStep ==
  ASSUME PCInv, EndInv, EndInv', Counted, Apart, Fresh, NEW w \in Workers, WorkerStep(w) PROVE Apart' /\ Fresh'
<1> USE DEF PCInv, EndInv
<1>1. \A v \in Workers \ {w} : HeldBy(v)' = HeldBy(v)
  BY WorkerKinds
<1>2. pin \in [Workers -> Nat] /\ current \in Nat /\ Streams = 1..Len(Counts) /\ Len(Counts) \in Nat
  BY StreamsAreNumbers DEF Pins
<1>3. CASE UNCHANGED <<read, pin, current>> /\ (HeldBy(w)' = HeldBy(w) \/ HeldBy(w)' = <<>>)
  <2>1. \A v \in Workers : StreamsIn(HeldBy(v))' \subseteq StreamsIn(HeldBy(v))
    BY <1>1, <1>3, NoStreams DEF StreamsIn
  <2> QED BY <1>3, <2>1 DEF Apart, Fresh
<1>4. CASE /\ pin' = [pin EXCEPT ![w] = current] /\ current' = current + 1 /\ current \in Streams
           /\ read' = read /\ HeldBy(w)' = HeldBy(w)
  <2>1. \A v \in Workers : current \notin StreamsIn(HeldBy(v))
    <3>1. SUFFICES ASSUME NEW v \in Workers, NEW i \in 1..Len(HeldBy(v)), HeldBy(v)[i][1] = current PROVE FALSE
      BY DEF StreamsIn
    <3>2. PICK x \in Particles : x = HeldBy(v)[i] /\ IsRead(x) BY HeldIsRead
    <3>3. x[1] = current /\ x[2] \in Nat /\ x[2] >= 1 BY <3>1, <3>2, ParticleParts
    <3>4. read[current] = 0 BY <1>2, <1>4 DEF Fresh
    <3> QED BY <3>2, <3>3, <3>4 DEF IsRead
  <2>2. \A v \in Workers : StreamsIn(HeldBy(v))' = StreamsIn(HeldBy(v))
    BY <1>1, <1>4 DEF StreamsIn
  <2>3. \A v \in Workers : pin'[v] = pin[v] \/ pin'[v] = current
    BY <1>2, <1>4
  <2>4. Apart' BY <2>1, <2>2, <2>3 DEF Apart
  <2>5. Fresh' BY <1>2, <1>4 DEF Fresh
  <2> QED BY <2>4, <2>5
<1>5. CASE Fill(w) /\ current' = current
  <2>1. PICK n \in Nat :
           /\ pin[w] \in Streams /\ n <= Counts[pin[w]] - read[pin[w]]
           /\ read' = [read EXCEPT ![pin[w]] = read[pin[w]] + n]
           /\ HeldBy(w)' = HeldBy(w) \o Given(pin[w], n)
    BY <1>5, FillAdds
  <2>2. PICK d, g, h, k : d = pin[w] /\ g = Given(d, n) /\ h = HeldBy(w) /\ k = HeldBy(w)'
    OBVIOUS
  <2>3. d \in Streams /\ d # 0 /\ g \in Seq(Particles) /\ h \in Seq(Particles) /\ k = h \o g
    BY <2>1, <2>2, <1>2, GivenType, LineType
  <2>4. StreamsIn(g) \subseteq {d}
    BY <2>1, <2>2, GivenInOrder
  <2>5. StreamsIn(k) \subseteq StreamsIn(h) \cup {d}
    BY <2>3, <2>4, StreamsInConcat
  <2>6. pin' = pin \/ pin' = [pin EXCEPT ![w] = 0]
    BY <1>5, FillGives
  <2>7. \A v \in Workers \ {w} : pin'[v] = pin[v] /\ pin[v] # d
    BY <1>2, <2>2, <2>3, <2>6 DEF Pins, OneReaderPerStream
  <2>8. pin'[w] = d \/ pin'[w] = 0
    BY <1>2, <2>2, <2>6
  <2>9. \A v \in Workers : 0 \notin StreamsIn(HeldBy(v))
    <3>1. SUFFICES ASSUME NEW v \in Workers, NEW i \in 1..Len(HeldBy(v)), HeldBy(v)[i][1] = 0 PROVE FALSE
      BY DEF StreamsIn
    <3>2. PICK x \in Particles : x = HeldBy(v)[i] BY HeldIsRead
    <3> QED BY <3>1, <3>2, ParticleParts
  <2>10. \A v \in Workers \ {w} : StreamsIn(HeldBy(v))' = StreamsIn(HeldBy(v))
    BY <1>1 DEF StreamsIn
  <2>11. StreamsIn(HeldBy(w))' = StreamsIn(k)
    BY <2>2 DEF StreamsIn
  <2>12. Apart'
    <3>1. SUFFICES ASSUME NEW u \in Workers, NEW v \in Workers, u # v
                   PROVE  StreamsIn(HeldBy(u))' \cap (StreamsIn(HeldBy(v))' \cup {pin'[v]}) = {}
      BY DEF Apart
    <3>2. StreamsIn(HeldBy(u)) \cap (StreamsIn(HeldBy(v)) \cup {pin[v]}) = {}
      BY <3>1 DEF Apart
    <3>3. StreamsIn(HeldBy(v)) \cap (StreamsIn(HeldBy(u)) \cup {pin[u]}) = {}
      BY <3>1 DEF Apart
    <3>4. CASE u = w BY <2>2, <2>5, <2>7, <2>10, <2>11, <3>1, <3>2, <3>3, <3>4
    <3>5. CASE v = w BY <2>2, <2>5, <2>8, <2>9, <2>10, <2>11, <3>1, <3>2, <3>5
    <3>6. CASE u # w /\ v # w BY <2>7, <2>10, <3>1, <3>2, <3>6
    <3> QED BY <3>4, <3>5, <3>6
  <2>13. Fresh'
    <3>1. d < current BY <2>2 DEF Pins
    <3>2. \A e \in Streams : e >= current => read'[e] = read[e] BY <1>2, <2>1, <2>2, <3>1 DEF Ranges
    <3> QED BY <1>5, <3>2 DEF Fresh
  <2> QED BY <2>12, <2>13
<1> QED BY <1>3, <1>4, <1>5, WorkerKinds

\* A buffer joins the line behind all that was given of its streams.
LEMMA QueuedWorker ==
  ASSUME PCInv, EndInv, EndInv', Counted, Apart, Queued, NEW w \in Workers, WorkerStep(w) PROVE Queued'
<1> USE DEF PCInv, EndInv
<1>1. \A v \in Workers \ {w} : HeldBy(v)' = HeldBy(v)
  BY WorkerKinds
<1>2. PICK h, k, l, m : h = HeldBy(w) /\ k = HeldBy(w)' /\ l = Line /\ m = Line'
  OBVIOUS
<1>3. h \in Seq(Particles) /\ l \in Seq(Particles) /\ \A v \in Workers : HeldBy(v) \in Seq(Particles)
  BY <1>2, LineType
<1>4. Ordered(l) /\ Ordered(h) /\ Before(l, h) /\ \A v \in Workers : Ordered(HeldBy(v)) /\ Before(l, HeldBy(v))
  BY <1>2 DEF Queued
<1>5. ASSUME Ordered(m), Ordered(k), Before(m, k), \A v \in Workers \ {w} : Before(m, HeldBy(v)) PROVE Queued'
  <2>1. \A v \in Workers : Ordered(HeldBy(v))' /\ Before(m, HeldBy(v)')
    BY <1>1, <1>2, <1>4, <1>5 DEF Ordered
  <2> QED BY <1>2, <1>5, <2>1 DEF Queued, Ordered, Before
<1>6. CASE k \in {h, <<>>} /\ m = l
  BY <1>4, <1>5, <1>6, NothingOrdered
<1>7. CASE k = <<>> /\ m = l \o h
  <2>1. Ordered(m) BY <1>3, <1>4, <1>7, OrderedConcat
  <2>2. Ordered(k) /\ Before(m, k) BY <1>7, NothingOrdered
  <2>3. ASSUME NEW v \in Workers \ {w} PROVE Before(m, HeldBy(v))
    <3>1. StreamsIn(h) \cap StreamsIn(HeldBy(v)) = {} BY <1>2 DEF Apart
    <3>2. Before(h, HeldBy(v)) BY <3>1, ApartIsBefore
    <3>3. Before(l \o h, HeldBy(v)) <=> Before(l, HeldBy(v)) /\ Before(h, HeldBy(v)) BY <1>3, BeforeLeft
    <3> QED BY <1>4, <1>7, <3>2, <3>3
  <2> QED BY <1>5, <2>1, <2>2, <2>3
<1>8. CASE Fill(w) /\ m = l
  <2>1. PICK n \in Nat :
           /\ pin[w] \in Streams /\ n <= Counts[pin[w]] - read[pin[w]]
           /\ HeldBy(w)' = HeldBy(w) \o Given(pin[w], n)
    BY <1>8, FillAdds
  <2>2. PICK g : g = Given(pin[w], n)
    OBVIOUS
  <2>3. g \in Seq(Particles) /\ k = h \o g
    BY <1>2, <2>1, <2>2, GivenType
  <2>4. \A j \in 1..Len(h) : IsRead(h[j]) /\ h[j] \in Particles
    BY <1>2, HeldIsRead
  <2>5. \A j \in 1..Len(l) : IsRead(l[j]) /\ l[j] \in Particles
    BY <1>2, LineIsRead
  <2>6. Ordered(g) /\ Before(h, g) /\ Before(l, g)
    BY <2>1, <2>2, <2>4, <2>5, GivenInOrder
  <2>7. Ordered(k)
    BY <1>3, <1>4, <2>3, <2>6, OrderedConcat
  <2>8. Before(l, k)
    BY <1>3, <1>4, <2>3, <2>6, BeforeRight
  <2> QED BY <1>4, <1>5, <1>8, <2>7, <2>8
<1> QED BY <1>2, <1>6, <1>7, <1>8, WorkerKinds

\* A step that moves no worker.
LEMMA UnmovedWorkers ==
  ASSUME InOrder, UNCHANGED <<held, pin, read, current, mode>>
  PROVE  Apart' /\ Fresh' /\ (\A w \in Workers : HeldBy(w)' = HeldBy(w)) /\ mode' \in Modes
<1>1. \A w \in Workers : HeldBy(w)' = HeldBy(w)
  BY DEF HeldBy
<1>2. \A w \in Workers : StreamsIn(HeldBy(w))' = StreamsIn(HeldBy(w)) /\ pin'[w] = pin[w]
  BY <1>1 DEF StreamsIn
<1>3. Apart /\ Fresh
  BY DEF InOrder
<1>4. Apart' BY <1>2, <1>3 DEF Apart
<1>5. Fresh' BY <1>3 DEF Fresh
<1> QED BY <1>1, <1>4, <1>5 DEF InOrder

\* run() gives what is first in the line.
LEMMA InOrderConsumer ==
  ASSUME PCInv, EndInv, InOrder, ConsumerStep PROVE InOrder'
<1> USE DEF PCInv, EndInv
<1>1. UNCHANGED <<workerVars, mode>>
  BY DEF ConsumerStep, Read, ReadNext, Pop, TestError, TestRemaining, PopLast, Consume, ConsumeThrows, StopWorkers, Join, Destroy, DestroyJoin, NoWorkerStep
<1>2. Apart' /\ Fresh' /\ (\A w \in Workers : HeldBy(w)' = HeldBy(w)) /\ mode' \in Modes
  BY <1>1, UnmovedWorkers DEF workerVars
<1>3. SUFFICES ASSUME mode = "run" PROVE cpc' # "idle" /\ Ordered(delivered)' /\ (cpc' \in Looping => Queued')
  BY <1>1, <1>2 DEF InOrder
<1>4. cpc # "idle" /\ Ordered(delivered) /\ (cpc \in Looping => Queued)
  BY <1>3 DEF InOrder
<1>5. ASSUME Line' = Line, Queued PROVE Queued'
  BY <1>2, <1>5 DEF Queued, Ordered, Before
<1>6. ASSUME delivered' = delivered PROVE Ordered(delivered)'
  BY <1>4, <1>6 DEF Ordered
<1>7. CASE Pop \/ PopLast
  <2>1. delivered' = delivered /\ cpc \in Looping /\ cpc' # "idle"
    BY <1>3, <1>7 DEF Pop, PopLast, Looping
  <2>2. CASE fullItems # <<>>
    <3>1. out = NoBuffer /\ out' = Head(fullItems) /\ fullItems' = Tail(fullItems)
      BY <1>7, <2>2 DEF Pop, PopLast, Left
    <3> QED BY <1>4, <1>5, <1>6, <2>1, <2>2, <3>1, LineMovesUp
  <2>3. CASE fullItems = <<>>
    <3>1. UNCHANGED <<out, fullItems>>
      BY <1>7, <2>3 DEF Pop, PopLast
    <3>2. Line' = Line
      BY <2>1, <3>1 DEF Line, InHand
    <3> QED BY <1>4, <1>5, <1>6, <2>1, <3>2
  <2> QED BY <2>2, <2>3
<1>8. CASE Consume
  <2>1. out # NoBuffer /\ out' = NoBuffer /\ delivered' = delivered \o out /\ fullItems' = fullItems /\ cpc \in Looping /\ cpc' = "pop"
    BY <1>8 DEF Consume, Left, Looping
  <2>2. delivered' = delivered \o InHand /\ Line' = Line
    BY <2>1, LineGiven
  <2>3. Queued' BY <1>4, <1>5, <2>1, <2>2
  <2>4. PICK u, q : u = delivered \o InHand /\ q = FlattenSeq(fullItems)
    OBVIOUS
  <2>5. u \in Seq(Particles) /\ q \in Seq(Particles) /\ Ordered(u \o q)
    BY <1>4, <2>1, <2>4, LineType DEF Queued, Line
  <2>6. Ordered(u) BY <2>5, OrderedConcat
  <2>7. Ordered(delivered)' BY <2>2, <2>4, <2>6 DEF Ordered
  <2> QED BY <2>1, <2>3, <2>7
<1>9. CASE TestError \/ TestRemaining
  <2>1. UNCHANGED <<out, fullItems, delivered>> /\ cpc \in Looping /\ cpc' # "idle"
    BY <1>3, <1>9 DEF TestError, TestRemaining, sharedVars, Looping
  <2>2. Line' = Line BY <2>1 DEF Line, InHand
  <2> QED BY <1>4, <1>5, <1>6, <2>1, <2>2
<1>10. CASE ConsumeThrows \/ StopWorkers \/ Join \/ Destroy \/ DestroyJoin
  <2>1. delivered' = delivered /\ cpc' \notin Looping /\ cpc' # "idle"
    BY <1>10 DEF ConsumeThrows, StopWorkers, Join, Destroy, DestroyJoin, Looping
  <2> QED BY <1>6, <2>1
<1>11. CASE Read \/ ReadNext
  BY <1>4, <1>11 DEF Read, ReadNext
<1> QED BY <1>7, <1>8, <1>9, <1>10, <1>11 DEF ConsumerStep

\* A worker does not disturb the order.
LEMMA InOrderWorker ==
  ASSUME PCInv, EndInv, EndInv', Counted, InOrder, NEW w \in Workers, WorkerStep(w) PROVE InOrder'
<1>1. UNCHANGED <<mode, cpc, delivered>>
  BY DEF WorkerStep, Start, TestStop, ProduceNoMore, TakeStream, HandOver, PopEmpty, SpinTestStop, Fill, Throws, Catch, Store, RequestStop, Exit, consumerVars
<1>2. Apart' /\ Fresh'
  BY ApartStep DEF InOrder
<1>3. Queued => Queued'
  BY QueuedWorker DEF InOrder
<1> QED BY <1>1, <1>2, <1>3 DEF InOrder, Ordered

-----------------------------------------------------------------------------
\* At first all is empty, and no particle was read.
LEMMA FlowInit == Init => Flow
<1> SUFFICES ASSUME Init PROVE Flow
  OBVIOUS
<1>1. Ranges
  BY EndInit DEF EndInv
<1>2. /\ \A w \in Workers : HeldBy(w) = <<>>
      /\ InHand = <<>> /\ delivered = <<>> /\ fullItems = <<>>
  BY DEF Init, HeldBy, InHand
<1>3. Counted
  <2>1. SUFFICES ASSUME NEW x \in Particles PROVE Times(Everywhere, x) = 0 /\ ~IsRead(x)
    BY DEF Counted
  <2>2. ASSUME NEW i \in 1..Len(FlattenSeq(Buffers)) PROVE FALSE
    <3>1. PICK bs \in Seq(Seq(Particles)) : bs = Buffers /\ Len(bs) = NumWorkers
      BY <1>1, PlacesType, BuffersAre DEF Ranges
    <3>2. ASSUME NEW y PROVE Times(FlattenSeq(bs), y) = 0
      <4>1. PICK S, g : S = 1..Len(bs) /\ g = TimesIn(bs, y) OBVIOUS
      <4>2. IsFiniteSet(S) BY <4>1, LenProperties, FS_Interval
      <4>3. \A w \in S : g[w] = 0
        <5>1. \A w \in S : bs[w] = <<>> BY <1>2, <3>1, <4>1 DEF Buffers, Workers
        <5> QED BY <4>1, <5>1, TimesEmpty DEF TimesIn
      <4>4. SumOn(g, S) = SumOn(g, {})
        <5>1. {} \subseteq S /\ (\A w \in S : g[w] \in Int) /\ \A w \in S \ {} : g[w] = 0 BY <4>3
        <5> QED BY ONLY <4>2, <5>1, SumOnZeros
      <4> QED BY <4>1, <4>4, SumOnEmpty, TimesFlatten
    <3>3. PICK s \in Seq(Particles) : s = FlattenSeq(bs) BY FlattenType
    <3>4. Times(s, s[i]) > 0 BY <2>2, <3>1, <3>3, TimesType
    <3> QED BY <3>2, <3>3, <3>4
  <2>3. InBuffers(x) = 0
    <3>1. PICK s \in Seq(Particles) : s = FlattenSeq(Buffers)
      BY <1>1, PlacesType, BuffersAre, FlattenType DEF Ranges
    <3>2. Times(s, x) \in Nat /\ ~(Times(s, x) > 0) BY <2>2, <3>1, TimesType
    <3> QED BY <3>1, <3>2 DEF InBuffers
  <2>4. InQueue(x) = 0 /\ Times(InHand, x) = 0 /\ Times(delivered, x) = 0
    BY <1>2, FlattenEmpty, TimesEmpty DEF InQueue
  <2>5. read[x[1]] = 0 BY ParticleParts DEF Init
  <2>6. ~IsRead(x) BY <2>5, ParticleParts DEF IsRead
  <2> QED BY <1>1, <2>3, <2>4, <2>6, NumberNow
<1>4. InOrder
  <2>1. Apart /\ Fresh BY <1>2, NoStreams, StreamsAreNumbers DEF Apart, Fresh, Init
  <2>2. Line = <<>> BY <1>2, FlattenEmpty DEF Line
  <2>3. Queued BY <1>2, <2>2, NothingOrdered DEF Queued
  <2>4. Ordered(delivered) BY <1>2, NothingOrdered
  <2> QED BY <2>1, <2>3, <2>4 DEF InOrder, Init
<1>5. TwoEach
  <2>1. Holders = {} /\ Starters = Workers BY DEF Holders, Starters, Init
  <2>2. Cardinality(Workers) = NumWorkers BY ProducerAssumption, FS_Interval DEF Workers
  <2>3. Cardinality({}) = 0 BY FS_EmptySet
  <2>4. InUse = 0 BY <1>2, <2>1, <2>3 DEF InUse, Init
  <2> QED BY <2>1, <2>2, <2>4, ProducerAssumption DEF TwoEach, Init
<1> QED BY <1>3, <1>4, <1>5 DEF Flow

\* A step of a worker, of the consumer, or none.
LEMMA FlowStep == PCInv /\ PCInv' /\ EndInv /\ EndInv' /\ Flow /\ [Next]_vars => Flow'
<1> SUFFICES ASSUME PCInv, PCInv', EndInv, EndInv', Flow, [Next]_vars PROVE Flow'
  OBVIOUS
<1> USE DEF Flow
<1>1. CASE \E w \in Workers : WorkerStep(w)
  <2>1. Next BY <1>1 DEF Next
  <2> QED BY <1>1, <2>1, CountedStep, InOrderWorker, TwoEachWorker
<1>2. CASE ConsumerStep
  <2>1. Next BY <1>2 DEF Next
  <2> QED BY <1>2, <2>1, CountedStep, InOrderConsumer, TwoEachConsumer
<1>3. CASE UNCHANGED vars
  <2> USE <1>3 DEF vars, sharedVars, workerVars, consumerVars
  <2>1. Counted' BY DEF Counted, IsRead, Undisturbed, Everywhere, Buffers, HeldBy, InHand
  <2>2. InOrder'
    <3>1. Apart' /\ Fresh' /\ (\A w \in Workers : HeldBy(w)' = HeldBy(w)) /\ mode' \in Modes
      BY UnmovedWorkers
    <3>2. Line' = Line BY DEF Line, InHand
    <3>3. Queued => Queued' BY <3>1, <3>2 DEF Queued, Ordered, Before
    <3> QED BY <3>1, <3>3 DEF InOrder, Ordered
  <2>3. TwoEach' BY DEF TwoEach, InUse, Holders, Starters, AllDone
  <2> QED BY <2>1, <2>2, <2>3
<1> QED BY <1>1, <1>2, <1>3 DEF Next, Rest

\* The type invariant of the model follows; the number of empty buffers needs TwoEach.
LEMMA TypesHold == ASSUME PCInv, EndInv, Flow PROVE TypeOK
<1> USE DEF PCInv, EndInv, Flow
<1>1. remaining \in 0..NumWorkers
  <2>1. Running \subseteq Workers BY DEF Running
  <2>2. Cardinality(Workers) = NumWorkers BY ProducerAssumption, FS_Interval DEF Workers
  <2>3. PICK n : n = Cardinality(Running) OBVIOUS
  <2>4. n \in Nat /\ n <= NumWorkers
    BY <2>1, <2>2, <2>3, WorkersFinite, FS_Subset, FS_CardinalityType
  <2>5. remaining = n BY <2>3 DEF Consumer
  <2> QED BY <2>4, <2>5, ProducerAssumption
<1>2. emptyItems \in 0..(2 * NumWorkers)
  <2>1. PICK e, f, h, o, s :
          /\ e = emptyItems /\ f = Len(fullItems) /\ h = Cardinality(Holders) /\ s = Cardinality(Starters)
          /\ o = IF out = NoBuffer THEN 0 ELSE 1
    OBVIOUS
  <2>2. e \in Nat /\ f \in Nat /\ h \in Nat /\ s \in Nat /\ o \in Nat
    BY <2>1, HoldersFinite DEF TwoEach, Ranges
  <2>3. e + f + h + o + 2 * s <= 2 * NumWorkers
    BY <2>1 DEF TwoEach, InUse
  <2> QED BY <2>1, <2>2, <2>3, ProducerAssumption
<1>3. pin \in [Workers -> Streams \cup {0}]
  <2>1. \A w \in Workers : pin[w] = 0 \/ pin[w] \in Streams
    BY PinnedStream
  <2> QED BY <2>1 DEF Pins
<1>4. read \in [Streams -> Nat] /\ \A d \in Streams : read[d] <= Counts[d]
  BY DEF Ranges, Drained
<1> QED BY <1>1, <1>2, <1>3, <1>4 DEF TypeOK, Ranges, Faults, Consumer, InOrder

\* The order of what was delivered is that of the model's property.
LEMMA GivenInStreamOrder == ASSUME Ranges, InOrder PROVE InStreamOrder
<1>1. DOMAIN delivered = 1..Len(delivered)
  BY DEF Ranges
<1> QED BY <1>1 DEF InOrder, Ordered, InStreamOrder

\* No particle and no buffer is lost, doubled or overtaken between a stream and
\* consume_buffer(), for any number of workers and streams and any length of the buffers.
THEOREM ParticlesConserved == Spec => []Conserved
<1>1. PCInv /\ EndInv /\ Flow => Conserved
  BY TypesHold, OnePlace, GivenInStreamOrder, NoneLeft DEF Conserved, EndInv, Flow
<1> QED BY <1>1, FlowInit, FlowStep, PCAlways, EndAlways, PTL DEF Spec

=============================================================================
