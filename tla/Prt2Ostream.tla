----------------------------- MODULE Prt2Ostream -----------------------------
(***************************************************************************)
(* prt2_particle_ostream (src/src/particles/streams/                         *)
(* prt2_particle_ostream.cpp) with the pipeline of prt2_writer that it runs  *)
(* in a thread.  put_particle() gathers particles into chunks and queues     *)
(* them; the pipeline's generator takes them from the queue, a parallel      *)
(* filter compresses them, and a serial filter writes them in their order.   *)
(* close() ends the pipeline, and TempFile puts the file in place.           *)
(*                                                                          *)
(* Particles are numbered as they are put.  The chunks that the generator    *)
(* gave and the writer has not written are the sequence flight: compression  *)
(* changes neither their order nor what is in them, but may fail.            *)
(***************************************************************************)
EXTENDS TempFile, SequencesExt

CONSTANTS
  MaxParticles, \* bound: the particles the client puts
  ChunkSize,    \* the particles after which put_particle() queues a chunk
  Tokens        \* the most chunks in flight

ASSUME Prt2Assumption ==
  MaxParticles \in Nat /\ ChunkSize \in Nat \ {0} /\ Tokens \in Nat \ {0}

VARIABLES
  put,            \* the number of particles put so far
  buffer,         \* m_particleChunkBuffer
  queue,          \* m_particleChunkQueue
  closeRequested, \* m_closeRequested
  exception,      \* m_writerException # null
  gpc,            \* where the generator is; "done" when the thread has ended
  sent,           \* m_sentTerminationChunk
  flight,         \* what is between the generator and the writer
  file,           \* what was written: see NewFile
  hasPosition,    \* m_posAccessor.is_valid()
  cpc,            \* where the client is
  inDestructor,   \* close() was called by the destructor
  outcome         \* how close() ended

streamVars == <<put, buffer, queue, closeRequested, hasPosition>>
writerVars == <<exception, gpc, sent, flight, file>>
clientVars == <<cpc, inDestructor, outcome>>
vars       == <<diskVars, streamVars, writerVars, clientVars>>

End == <<>> \* TERMINATION_CHUNK: no other chunk is empty

\* The 'Part' filechunk: its header, the particles in it, the count that the header was
\* given at its end, the particles of chunks that came after that end, and the bounding box.
NewFile == [begun |-> FALSE, body |-> <<>>, count |-> -1, tail |-> <<>>, extents |-> FALSE]

Particles == 1..MaxParticles
Chunks    == Seq(Particles)

TypeOK ==
  /\ DiskTypeOK
  /\ put \in 0..MaxParticles
  /\ buffer \in Chunks /\ Len(buffer) < ChunkSize
  /\ queue \in Seq(Chunks)
  /\ closeRequested \in BOOLEAN /\ hasPosition \in BOOLEAN
  /\ exception \in BOOLEAN
  /\ gpc \in {"new", "pop", "test", "stop", "catch", "done"}
  /\ sent \in BOOLEAN
  /\ flight \in Seq(Chunks) /\ Len(flight) <= Tokens
  /\ file \in [begun : BOOLEAN, body : Chunks, count : Int, tail : Chunks, extents : BOOLEAN]
  /\ cpc \in {"new", "open", "flag", "join", "extents", "commit", "closed", "finish", "destroyed", "terminated"}
  /\ inDestructor \in BOOLEAN
  /\ outcome \in {"none", "ok", "error"}

Init ==
  /\ DiskInit
  /\ put = 0 /\ buffer = <<>> /\ queue = <<>> /\ closeRequested = FALSE
  /\ hasPosition \in BOOLEAN
  /\ exception = FALSE /\ gpc = "new" /\ sent = FALSE /\ flight = <<>>
  /\ file = NewFile
  /\ cpc = "new" /\ inDestructor = FALSE /\ outcome = "none"

-----------------------------------------------------------------------------
(* The thread of the pipeline.                                              *)

\* The generator is called while less than Tokens chunks are in flight, and pops one.
GenPop ==
  /\ gpc = "pop" /\ Len(flight) < Tokens
  /\ IF queue # <<>>
     THEN flight' = Append(flight, Head(queue)) /\ queue' = Tail(queue) /\ UNCHANGED gpc
     ELSE gpc' = "test" /\ UNCHANGED <<flight, queue>>
  /\ UNCHANGED <<diskVars, put, buffer, closeRequested, hasPosition, exception, sent, file, clientVars>>

\* Mutant: the TERMINATION_CHUNK is given again and again.
GenTestAgain ==
  /\ gpc = "test" /\ gpc' = "pop"
  /\ flight' = IF closeRequested THEN Append(flight, End) ELSE flight
  /\ UNCHANGED <<diskVars, streamVars, exception, sent, file, clientVars>>

\* The queue was empty.  While the stream is open the generator gives an IGNORE_CHUNK, which
\* no filter touches; then the TERMINATION_CHUNK, once; then it stops the pipeline.
GenTest ==
  /\ gpc = "test"
  /\ gpc' = IF closeRequested /\ sent THEN "stop" ELSE "pop"
  /\ sent' = closeRequested
  /\ flight' = IF closeRequested /\ ~sent THEN Append(flight, End) ELSE flight
  /\ UNCHANGED <<diskVars, streamVars, exception, file, clientVars>>

\* A chunk goes to where the file is; begin_particle_chunks() comes before the first.
Write(chunk, works) ==
  file' = IF file.count # -1 THEN [file EXCEPT !.tail = @ \o chunk]
          ELSE IF works THEN [file EXCEPT !.begun = TRUE, !.body = @ \o chunk]
          ELSE file

\* chunk_writer::operator(): nothing is looked at after a chunk was written, so that on a
\* stream that has failed, or fails here, it just does not reach the file.
WriteChunk ==
  /\ flight # <<>> /\ Head(flight) # End
  /\ flight' = Tail(flight)
  /\ \/ bad = "no" /\ UNCHANGED bad /\ Write(Head(flight), TRUE)
     \/ bad' = "write" /\ Write(Head(flight), FALSE)
  /\ UNCHANGED <<useTemp, sameTemp, disk, isOpen, unwinding, commit, streamVars, exception, gpc, sent, clientVars>>

\* end_particle_chunks(): the counts, and the chunk index, after which the stream is tested.
WriteEnd ==
  /\ flight # <<>> /\ Head(flight) = End
  /\ \/ /\ bad = "no" /\ UNCHANGED <<bad, gpc>>
        /\ file' = [file EXCEPT !.begun = TRUE, !.count = Len(file.body)]
        /\ flight' = Tail(flight)
     \/ /\ bad' = "write" /\ gpc' = "catch"
        /\ flight' = <<>> /\ UNCHANGED file
  /\ UNCHANGED <<useTemp, sameTemp, disk, isOpen, unwinding, commit, streamVars, exception, sent, clientVars>>

\* A compressor throws, or the writing of a header: what is in flight is dropped.
FilterThrows ==
  /\ flight # <<>> /\ gpc \in {"pop", "test", "stop"}
  /\ flight' = <<>> /\ gpc' = "catch"
  /\ UNCHANGED <<diskVars, streamVars, exception, sent, file, clientVars>>

\* The pipeline ends when nothing is in flight.
PipelineEnds ==
  /\ gpc = "stop" /\ flight = <<>>
  /\ gpc' = "done"
  /\ UNCHANGED <<diskVars, streamVars, exception, sent, flight, file, clientVars>>

\* catch( ... ) of the thread.
WriterCatch ==
  /\ gpc = "catch" /\ gpc' = "done"
  /\ exception' = TRUE
  /\ UNCHANGED <<diskVars, streamVars, sent, flight, file, clientVars>>

GeneratorStep == GenPop \/ GenTest \/ PipelineEnds \/ WriterCatch
WriterStep    == WriteChunk \/ WriteEnd
PipelineStep  == GeneratorStep \/ WriterStep \/ FilterThrows

-----------------------------------------------------------------------------
(* The client.                                                              *)

Go(place) == cpc' = place

\* The constructor opens the file and starts the thread.
Open ==
  /\ cpc = "new" /\ Go("open")
  /\ Create /\ gpc' = "pop"
  /\ UNCHANGED <<useTemp, sameTemp, bad, unwinding, commit, streamVars, exception, sent, flight, file, inDestructor, outcome>>

\* It throws before it starts the thread: only ~prt2_writer() runs.
OpenThrows ==
  /\ cpc = "new" /\ Go("finish")
  /\ Create /\ gpc' = "done" /\ unwinding' = TRUE
  /\ UNCHANGED <<useTemp, sameTemp, bad, commit, streamVars, exception, sent, flight, file, inDestructor, outcome>>

Put ==
  /\ cpc = "open" /\ put < MaxParticles
  /\ put' = put + 1
  /\ LET full == Append(buffer, put + 1) IN
     IF Len(full) >= ChunkSize
     THEN queue' = Append(queue, full) /\ buffer' = <<>>
     ELSE buffer' = full /\ UNCHANGED queue
  /\ UNCHANGED <<diskVars, closeRequested, hasPosition, writerVars, clientVars>>

\* Mutant: the particles of an unfinished chunk are not queued.
QueueNothing == buffer' = <<>> /\ UNCHANGED queue

\* close(), called by the client or by the destructor, first queues the last chunk.
QueueRest ==
  /\ buffer' = <<>>
  /\ queue' = IF buffer = <<>> THEN queue ELSE Append(queue, buffer)

Close ==
  /\ cpc = "open" /\ Go("flag")
  /\ QueueRest
  /\ UNCHANGED <<diskVars, put, closeRequested, hasPosition, writerVars, inDestructor, outcome>>

Destroy ==
  /\ cpc = "open" /\ Go("flag")
  /\ inDestructor' = TRUE /\ unwinding' \in BOOLEAN
  /\ QueueRest
  /\ UNCHANGED <<useTemp, sameTemp, disk, isOpen, bad, commit, put, closeRequested, hasPosition, writerVars, outcome>>

RequestClose ==
  /\ cpc = "flag" /\ Go("join")
  /\ closeRequested' = TRUE
  /\ UNCHANGED <<diskVars, put, buffer, queue, hasPosition, writerVars, inDestructor, outcome>>

\* An exception that leaves close() ends the program if the destructor called it.
Throw == Go(IF inDestructor THEN "terminated" ELSE "closed") /\ outcome' = "error"

\* Mutant: the exception of the thread is not rethrown.
JoinOnly ==
  /\ cpc = "join" /\ gpc = "done"
  /\ Go(IF hasPosition THEN "extents" ELSE "commit")
  /\ UNCHANGED <<diskVars, streamVars, writerVars, inDestructor, outcome>>

Join ==
  /\ cpc = "join" /\ gpc = "done"
  /\ IF exception THEN Throw ELSE Go(IF hasPosition THEN "extents" ELSE "commit") /\ UNCHANGED outcome
  /\ UNCHANGED <<diskVars, streamVars, writerVars, inDestructor>>

\* The bounding box of the positions; the stream is tested after it was written.
WriteExtents ==
  /\ cpc = "extents"
  /\ \/ bad = "no" /\ file' = [file EXCEPT !.extents = TRUE] /\ Go("commit") /\ UNCHANGED <<bad, outcome>>
     \/ bad' = "write" /\ Throw /\ UNCHANGED file
  /\ UNCHANGED <<useTemp, sameTemp, disk, isOpen, unwinding, commit, streamVars, exception, gpc, sent, flight, inDestructor>>

\* m_prt2.close(), at the end of close() and in ~prt2_writer().
BeginCommit ==
  /\ cpc \in {"commit", "finish"} /\ StartCommit
  /\ UNCHANGED <<streamVars, writerVars, clientVars>>

Committing ==
  /\ CommitStep
  /\ UNCHANGED <<streamVars, writerVars, clientVars>>

\* close() returns or throws; ~prt2_writer() follows if the destructor called it.
CloseEnds ==
  /\ cpc = "commit" /\ commit \in {"done", "threw"} /\ commit' = "no"
  /\ IF commit = "threw" THEN Throw
     ELSE Go(IF inDestructor THEN "finish" ELSE "closed") /\ outcome' = "ok"
  /\ UNCHANGED <<useTemp, sameTemp, disk, isOpen, bad, unwinding, streamVars, writerVars, inDestructor>>

\* The destructor after close(): the exception of close() may be in flight or caught.
DestroyClosed ==
  /\ cpc = "closed" /\ Go("finish")
  /\ unwinding' \in BOOLEAN
  /\ UNCHANGED <<useTemp, sameTemp, disk, isOpen, bad, commit, streamVars, writerVars, inDestructor, outcome>>

Destroyed ==
  /\ cpc = "finish" /\ commit \in {"done", "threw"} /\ commit' = "no"
  /\ Go(IF commit = "threw" THEN "terminated" ELSE "destroyed")
  /\ UNCHANGED <<useTemp, sameTemp, disk, isOpen, bad, unwinding, streamVars, writerVars, inDestructor, outcome>>

ClientStep ==
  \/ Open \/ OpenThrows \/ Put \/ Close \/ Destroy \/ RequestClose \/ Join \/ WriteExtents
  \/ BeginCommit \/ Committing \/ CloseEnds \/ DestroyClosed \/ Destroyed

Rest == cpc \in {"destroyed", "terminated"} /\ UNCHANGED vars

Next == PipelineStep \/ ClientStep \/ Rest

Spec == Init /\ [][Next]_vars
FairSpec == Spec /\ WF_vars(GeneratorStep) /\ WF_vars(WriterStep) /\ WF_vars(ClientStep)

-----------------------------------------------------------------------------
(* Correctness.                                                             *)

Failed     == exception \/ gpc = "catch"
AllPut     == [i \in 1..put |-> i]

\* Until something fails each particle is in one place, and they are in the order in which
\* they were put: in the file, in flight, in the queue and in the chunk being gathered.
InOrder ==
  (~Failed /\ bad = "no") =>
    file.body \o file.tail \o FlattenSeq(flight) \o FlattenSeq(queue) \o buffer = AllPut

\* With the ranges of the variables: see InOrder.
Conserved == TypeOK /\ InOrder

\* A close() that returns has written every particle, the counts and the bounding box, and
\* has put the file in place: no failure on the way is passed over, but for the last flush.
\* Chunks after the end of the filechunk are what NothingAfterTheEnd is about.
SuccessMeansWritten ==
  (outcome = "ok" /\ ~unwinding /\ file.tail = <<>>) =>
    /\ file.body = AllPut /\ file.count = put /\ bad # "write"
    /\ file.extents = hasPosition
    /\ disk["target"] = "new" /\ ~isOpen

\* The file that was written holds all that was put, and nothing failed while it was written.
Whole == file.body = AllPut /\ file.count = put /\ file.extents = hasPosition /\ bad = "no"

\* Wherever close() fails or the program dies, the old file is at the target, or the new one
\* is closed and there or beside it; and that one is whole.  Three kinds of incomplete files
\* take the place of the old one all the same: one whose close() had thrown (see
\* FinishedWithoutException), one whose last flush failed, which is only logged, and one
\* with chunks after its end (see NothingAfterTheEnd).
OldOrNewExists ==
  useTemp =>
    \/ disk["target"] = "old"
    \/ /\ ~isOpen /\ \E p \in {"remote", "target"} : disk[p] = "new"
       /\ Whole \/ outcome = "error" \/ bad = "flush" \/ file.tail # <<>>

\* A stream that is destroyed by an exception leaves the target as it is.
KeptUnderException ==
  [][useTemp /\ unwinding => disk'["target"] = disk["target"]]_vars

\* close() comes to an end, whatever is in the queue and whatever throws.
CloseReturns == cpc = "flag" ~> cpc \in {"closed", "destroyed", "terminated"}

\* What the comment in prt2_writer::close() says: a file is finished only if there is no
\* thrown exception.  It does not hold: the exception of close() may be caught before the
\* stream is destroyed.
FinishedWithoutException == useTemp /\ disk["target"] = "new" => outcome # "error"

\* What the comment in chunk_writer::operator() says: the TERMINATION_CHUNK is the last.
NothingAfterTheEnd == file.tail = <<>>

=============================================================================
