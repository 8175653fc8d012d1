-------------------------- MODULE Prt2OstreamProofs --------------------------
(***************************************************************************)
(* Proofs about the file that Prt2Ostream leaves: the target is never half a *)
(* file, an exception in flight keeps close() from touching it, and where it *)
(* is not the old file there is a new one, whole but for three named cases;  *)
(* and about the writer thread: every particle is in one place, in order,    *)
(* and success means that it is written.                                     *)
(***************************************************************************)
EXTENDS Prt2Ostream, FoldLemmas

\* Where prt2_writer::close() is, and what is on the disk there.  The local file, the one
\* beside the target and the target are never all gone: each step leaves the new file at one
\* place more before it takes it from another.
OnDisk ==
  /\ disk \in [Places -> Contents]
  /\ isOpen \in BOOLEAN /\ unwinding \in BOOLEAN
  /\ commit \in CommitAt
  /\ useTemp =>
       /\ disk["target"] \in {"old", "new", "none"}
       /\ disk["target"] = "new" => ~isOpen
       /\ disk["target"] = "none" => ~isOpen /\ disk["remote"] = "new"
       /\ isOpen => disk[Written] = "new"
       /\ commit \in {"flush", "discard"} => isOpen
       /\ commit \in {"remote", "copy"} => ~isOpen /\ disk["local"] = "new"
       /\ commit \in {"remote", "copy"} => disk["target"] = "old"
       /\ commit \in {"local", "target", "rename"} => ~isOpen /\ disk["remote"] = "new"
       /\ commit \in {"dropLocal", "dropRemote"} => ~isOpen /\ disk["target"] = "old"
       /\ unwinding => commit \in {"no", "discard", "dropLocal", "dropRemote", "done", "threw"}
  /\ ~useTemp => commit \in {"no", "done"}

\* The client is in close() or in the destructor while the file is put in place.
AtClient ==
  /\ commit # "no" => cpc \in {"commit", "finish"}
  /\ cpc = "new" => ~isOpen /\ disk["target"] = "old"

FileInv == OnDisk /\ AtClient

\* The invariant holds of a stream that is not open yet.
LEMMA FileInit == Init => FileInv
  BY DEF Init, DiskInit, FileInv, OnDisk, AtClient, Places, Contents, CommitAt, Written

USE DEF Places, Contents, CommitAt
\* The steps of prt2_writer::close() keep the disk in order.
LEMMA CommitKeeps == ASSUME FileInv, CommitStep, UNCHANGED <<streamVars, writerVars, clientVars>> PROVE FileInv'
<1> USE DEF FileInv, OnDisk, AtClient, GoOn, clientVars, Written
<1>1. CASE Flush BY <1>1 DEF Flush
<1>2. CASE MoveBeside BY <1>2 DEF MoveBeside
<1>3. CASE CopyBeside BY <1>3 DEF CopyBeside
<1>4. CASE RemoveLocal BY <1>4 DEF RemoveLocal
<1>5. CASE RemoveTarget BY <1>5 DEF RemoveTarget
<1>6. CASE RenameToTarget BY <1>6 DEF RenameToTarget
<1>7. CASE Discard BY <1>7 DEF Discard
<1>8. CASE DropLocal BY <1>8 DEF DropLocal
<1>9. CASE DropRemote BY <1>9 DEF DropRemote
<1> QED BY <1>1, <1>2, <1>3, <1>4, <1>5, <1>6, <1>7, <1>8, <1>9 DEF CommitStep

\* Neither the pipeline nor put_particle() touches the disk.
LEMMA PipelineKeeps ==
  ASSUME FileInv, PipelineStep PROVE FileInv'
<1> USE DEF FileInv, OnDisk, AtClient, Written, diskVars, clientVars
<1>1. CASE GenPop BY <1>1 DEF GenPop
<1>2. CASE GenTest BY <1>2 DEF GenTest
<1>3. CASE PipelineEnds BY <1>3 DEF PipelineEnds
<1>4. CASE WriterCatch BY <1>4 DEF WriterCatch
<1>5. CASE WriteChunk BY <1>5 DEF WriteChunk
<1>6. CASE WriteEnd BY <1>6 DEF WriteEnd
<1>7. CASE FilterThrows BY <1>7 DEF FilterThrows
<1> QED BY <1>1, <1>2, <1>3, <1>4, <1>5, <1>6, <1>7 DEF PipelineStep, GeneratorStep, WriterStep

\* The client's other steps keep the invariant.
LEMMA ClientKeeps ==
  ASSUME FileInv, ClientStep, ~Committing PROVE FileInv'
<1> USE DEF FileInv, OnDisk, AtClient, Written, diskVars, clientVars, Go, GoOn, Throw
<1>1. CASE Open BY <1>1 DEF Open, Create
<1>2. CASE OpenThrows BY <1>2 DEF OpenThrows, Create
<1>3. CASE Put BY <1>3 DEF Put
<1>4. CASE Close BY <1>4 DEF Close
<1>5. CASE Destroy BY <1>5 DEF Destroy
<1>6. CASE RequestClose BY <1>6 DEF RequestClose
<1>7. CASE Join BY <1>7 DEF Join
<1>8. CASE WriteExtents BY <1>8 DEF WriteExtents
<1>9. CASE BeginCommit BY <1>9 DEF BeginCommit, StartCommit
<1>10. CASE CloseEnds BY <1>10 DEF CloseEnds
<1>11. CASE DestroyClosed BY <1>11 DEF DestroyClosed
<1>12. CASE Destroyed BY <1>12 DEF Destroyed
<1> QED BY <1>1, <1>2, <1>3, <1>4, <1>5, <1>6, <1>7, <1>8, <1>9, <1>10, <1>11, <1>12 DEF ClientStep

LEMMA FileStep == FileInv /\ [Next]_vars => FileInv'
<1> SUFFICES ASSUME FileInv, [Next]_vars PROVE FileInv'
  OBVIOUS
<1>1. CASE PipelineStep BY <1>1, PipelineKeeps
<1>2. CASE ClientStep /\ ~Committing BY <1>2, ClientKeeps
<1>3. CASE Committing BY <1>3, CommitKeeps DEF Committing
<1>4. CASE UNCHANGED vars BY <1>4 DEF FileInv, OnDisk, AtClient, Written, vars, diskVars, clientVars
<1> QED BY <1>1, <1>2, <1>3, <1>4 DEF Next, Rest

\* The disk is in order at every moment.
THEOREM FileAlways == Spec => []FileInv
  BY FileInit, FileStep, PTL DEF Spec

\* The target is never half a file: the new one is there only when it was closed.
THEOREM NeverHalf == Spec => []NeverHalfThere
<1>1. FileInv => NeverHalfThere BY DEF FileInv, OnDisk, NeverHalfThere
<1> QED BY <1>1, FileAlways, PTL

\* While an exception is in flight no step of close() changes the target.
THEOREM UnderException == Spec => KeptUnderException
<1> DEFINE Kept == useTemp /\ unwinding => disk'["target"] = disk["target"]
<1>1. FileInv /\ [Next]_vars => [Kept]_vars
  <2> SUFFICES ASSUME FileInv, Next, useTemp, unwinding PROVE disk'["target"] = disk["target"]
    BY DEF vars
  <2> USE DEF FileInv, OnDisk, AtClient, diskVars
  <2>1. CASE PipelineStep
    BY <2>1 DEF PipelineStep, GeneratorStep, WriterStep, GenPop, GenTest, PipelineEnds, WriterCatch, WriteChunk, WriteEnd, FilterThrows
  <2>2. CASE Open \/ OpenThrows BY <2>2 DEF Open, OpenThrows, Create, Written
  <2>3. CASE Put \/ Close \/ Destroy \/ RequestClose BY <2>3 DEF Put, Close, Destroy, RequestClose
  <2>4. CASE Join \/ WriteExtents \/ CloseEnds BY <2>4 DEF Join, WriteExtents, CloseEnds
  <2>5. CASE BeginCommit \/ DestroyClosed \/ Destroyed
    BY <2>5 DEF BeginCommit, StartCommit, DestroyClosed, Destroyed
  <2>6. CASE Committing
    BY <2>6 DEF Committing, CommitStep, Flush, MoveBeside, CopyBeside, RemoveLocal, RemoveTarget, RenameToTarget,
       Discard, DropLocal, DropRemote, Written
  <2>7. CASE Rest BY <2>7 DEF Rest, vars
  <2> QED BY <2>1, <2>2, <2>3, <2>4, <2>5, <2>6, <2>7 DEF Next, ClientStep
<1> QED BY <1>1, FileAlways, PTL DEF Spec, KeptUnderException

-----------------------------------------------------------------------------
(* What becomes of the particles.                                           *)

\* The generator goes from "pop" to "test" while there is room, and no other step takes it.
RoomForEnd == gpc = "test" => Len(flight) < Tokens

\* What was put, as long as each chunk that left the queue was written as a whole.
AllInOrder ==
  (~Failed /\ bad # "write") =>
    file.body \o file.tail \o FlattenSeq(flight) \o FlattenSeq(queue) \o buffer = AllPut

\* How far the thread is.  The flag is raised after the last chunk was queued, and the End
\* is given after the flag was seen; so the queue that is found empty after that stays empty.
Threads ==
  /\ gpc = "new" <=> cpc = "new"
  /\ gpc \in {"new", "catch", "done"} => flight = <<>>
  /\ closeRequested => cpc \notin {"new", "open", "flag"}
  /\ cpc # "open" => buffer = <<>>
  /\ cpc \in {"join", "extents", "commit"} \/ outcome = "ok" => closeRequested
  /\ sent => closeRequested
  /\ gpc = "test" /\ sent => queue = <<>>
  /\ gpc = "stop" => sent /\ queue = <<>>
  /\ gpc = "done" /\ closeRequested /\ ~exception => sent /\ queue = <<>>
  /\ gpc = "done" /\ cpc \in {"open", "flag"} => exception
  /\ sent /\ ~Failed => file.count # -1 \/ \E i \in 1..Len(flight) : flight[i] = End
  /\ exception => gpc = "done"

\* What is in the filechunk: its end is written once, on a stream that works.
Filechunk ==
  /\ file.count = -1 => file.tail = <<>>
  /\ file.count # -1 => file.count = Len(file.body)
  /\ (file.count # -1 /\ file.tail = <<>> /\ ~Failed /\ outcome # "error") => bad # "write"

\* How far the client is; the bounding box comes last.
Clients ==
  /\ cpc \in {"extents", "commit"} \/ outcome = "ok" => gpc = "done" /\ ~exception
  /\ cpc = "extents" => hasPosition
  /\ cpc \in {"new", "open", "flag", "join", "extents"} => ~file.extents
  /\ cpc \in {"new", "open", "flag", "join", "extents", "commit"} => outcome = "none"
  /\ cpc = "commit" \/ outcome = "ok" => file.extents = hasPosition

\* Whether the file is in place, where there is no exception that keeps it from being put there.
InPlace ==
  /\ ~inDestructor /\ cpc \notin {"finish", "destroyed", "terminated"} => ~unwinding
  /\ cpc = "closed" => ~inDestructor
  /\ ~useTemp /\ cpc # "new" => disk["target"] = "new"
  /\ cpc \in {"open", "flag", "join", "extents"} => isOpen
  /\ cpc = "commit" /\ commit = "no" => isOpen
  /\ commit = "done" => ~isOpen
  /\ commit \in {"discard", "dropLocal", "dropRemote"} => unwinding
  /\ commit \in {"dropLocal", "dropRemote"} => ~isOpen
  /\ commit = "done" /\ cpc = "commit" /\ ~unwinding => disk["target"] = "new"
  /\ outcome = "ok" => ~isOpen /\ commit \in {"no", "done"}
  /\ outcome = "ok" /\ ~(inDestructor /\ unwinding) => disk["target"] = "new"

WriterInv == TypeOK /\ RoomForEnd /\ AllInOrder /\ Threads /\ Filechunk /\ Clients /\ InPlace

\* Chunks, and queues of chunks.
LEMMA EmptyChunk == <<>> \in Chunks /\ <<>> \in Seq(Chunks) /\ End \in Chunks /\ Len(<<>>) = 0
  BY DEF Chunks, End

LEMMA ChunkAppend ==
  ASSUME NEW c \in Chunks, NEW x \in Particles
  PROVE  Append(c, x) \in Chunks /\ Len(Append(c, x)) = Len(c) + 1 /\ Len(c) \in Nat
  BY DEF Chunks

LEMMA ChunkConcat ==
  ASSUME NEW c \in Chunks, NEW d \in Chunks
  PROVE  c \o d \in Chunks /\ Len(c) \in Nat /\ (d # <<>> => c \o d # <<>>)
  BY DEF Chunks

\* Named, so that a proof can ask for one instance of them.
Assoc(c, d, e) == (c \o d) \o e = c \o (d \o e)
Moves(w, f, h, r) == (w \o f) \o (h \o r) = (w \o (f \o h)) \o r

LEMMA ChunkAssoc ==
  ASSUME NEW c \in Chunks, NEW d \in Chunks, NEW e \in Chunks PROVE Assoc(c, d, e)
  BY ConcatAssociative DEF Chunks, Assoc

LEMMA QueuePush ==
  ASSUME NEW q \in Seq(Chunks), NEW c \in Chunks
  PROVE  /\ Append(q, c) \in Seq(Chunks)
         /\ Len(q) \in Nat /\ Len(Append(q, c)) = Len(q) + 1
         /\ Append(q, c)[Len(q) + 1] = c
         /\ \A i \in 1..Len(q) : Append(q, c)[i] = q[i]
         /\ FlattenSeq(Append(q, c)) = FlattenSeq(q) \o c
<1>1. FlattenSeq(Append(q, c)) = FlattenSeq(q) \o c
  BY FlattenAppend DEF Chunks
<1>2. Append(q, c) \in Seq(Chunks) /\ Len(q) \in Nat BY AppendProperties, LenProperties
<1> QED BY <1>1, <1>2, AppendProperties

LEMMA QueuePop ==
  ASSUME NEW q \in Seq(Chunks), q # <<>>
  PROVE  /\ Head(q) \in Chunks /\ Tail(q) \in Seq(Chunks)
         /\ Len(q) \in Nat \ {0} /\ Len(Tail(q)) = Len(q) - 1
         /\ Head(q) = q[1]
         /\ \A i \in 1..(Len(q) - 1) : Tail(q)[i] = q[i + 1]
         /\ FlattenSeq(q) = Head(q) \o FlattenSeq(Tail(q))
<1>1. FlattenSeq(q) = Head(q) \o FlattenSeq(Tail(q))
  BY FlattenTail DEF Chunks
<1>2. Head(q) \in Chunks /\ Tail(q) \in Seq(Chunks) /\ Len(q) \in Nat \ {0} /\ Len(Tail(q)) = Len(q) - 1
  BY HeadTailProperties, LenProperties, EmptySeq
<1> QED BY <1>1, <1>2, HeadTailProperties

LEMMA QueueFlat == ASSUME NEW q \in Seq(Chunks) PROVE FlattenSeq(q) \in Chunks
  BY FlattenType DEF Chunks

\* A chunk that goes from one place to the next does not change what they hold together.
LEMMA MoveOn ==
  ASSUME NEW w \in Chunks, NEW f \in Chunks, NEW h \in Chunks, NEW r \in Chunks
  PROVE  Moves(w, f, h, r)
<1>1. PICK a \in Chunks : a = w \o f BY ChunkConcat
<1>2. Assoc(a, h, r) /\ Assoc(w, f, h) BY ChunkAssoc
<1> QED BY <1>1, <1>2 DEF Assoc, Moves

LEMMA EmptyConcat == ASSUME NEW c \in Chunks PROVE c \o <<>> = c /\ <<>> \o c = c
  BY ConcatEmptySeq DEF Chunks

LEMMA OneMore ==
  ASSUME NEW n \in Nat PROVE [i \in 1..(n + 1) |-> i] = Append([i \in 1..n |-> i], n + 1)
  OBVIOUS

\* The invariant holds of a stream that is not open yet.
LEMMA WriterInit == Init => WriterInv
<1> SUFFICES ASSUME Init PROVE WriterInv
  OBVIOUS
<1> USE DEF Init, DiskInit
<1>1. TypeOK
  <2>1. DiskTypeOK BY DEF DiskTypeOK
  <2>2. NewFile \in [begun : BOOLEAN, body : Chunks, count : Int, tail : Chunks, extents : BOOLEAN]
    BY EmptyChunk DEF NewFile
  <2>3. Len(<<>>) < ChunkSize /\ Len(<<>>) <= Tokens /\ 0 \in 0..MaxParticles BY EmptyChunk, Prt2Assumption
  <2> QED BY <2>1, <2>2, <2>3, EmptyChunk DEF TypeOK
<1>2. AllInOrder
  <2>1. AllPut = <<>> BY DEF AllPut
  <2> QED BY <2>1, FlattenEmpty DEF AllInOrder, NewFile
<1>3. RoomForEnd /\ Threads /\ Filechunk /\ Clients /\ InPlace
  BY DEF RoomForEnd, Threads, Filechunk, Clients, InPlace, NewFile
<1> QED BY <1>1, <1>2, <1>3 DEF WriterInv

\* The writing of a chunk, on a stream that works or not.
LEMMA WriteParts ==
  ASSUME TypeOK, NEW chunk \in Chunks, NEW works \in BOOLEAN, Write(chunk, works)
  PROVE  /\ file' \in [begun : BOOLEAN, body : Chunks, count : Int, tail : Chunks, extents : BOOLEAN]
         /\ file'.count = file.count /\ file'.extents = file.extents
         /\ file.count # -1 => file'.body = file.body /\ file'.tail = file.tail \o chunk
         /\ file.count = -1 => file'.body = (IF works THEN file.body \o chunk ELSE file.body) /\ file'.tail = file.tail
<1>1. file \in [begun : BOOLEAN, body : Chunks, count : Int, tail : Chunks, extents : BOOLEAN]
  BY DEF TypeOK
<1>2. file.tail \o chunk \in Chunks /\ file.body \o chunk \in Chunks
  BY <1>1, ChunkConcat
<1>3. CASE file.count # -1
  <2>1. file' = [file EXCEPT !.tail = @ \o chunk] BY <1>3 DEF Write
  <2> QED BY <1>1, <1>2, <1>3, <2>1
<1>4. CASE file.count = -1 /\ works
  <2>1. file' = [file EXCEPT !.begun = TRUE, !.body = @ \o chunk] BY <1>4 DEF Write
  <2> QED BY <1>1, <1>2, <1>4, <2>1
<1>5. CASE file.count = -1 /\ ~works
  <2>1. file' = file BY <1>5 DEF Write
  <2> QED BY <1>1, <1>5, <2>1
<1> QED BY <1>1, <1>3, <1>4, <1>5

\* The ranges of the variables, over the steps of the pipeline.
LEMMA PipelineTypes ==
  ASSUME TypeOK, RoomForEnd, PipelineStep PROVE TypeOK'
<1> USE DEF TypeOK, DiskTypeOK, diskVars, streamVars, clientVars
<1>1. CASE GenPop
  <2>1. CASE queue # <<>>
    <3>1. Head(queue) \in Chunks /\ Tail(queue) \in Seq(Chunks) BY <2>1, QueuePop
    <3>2. Append(flight, Head(queue)) \in Seq(Chunks) /\ Len(Append(flight, Head(queue))) = Len(flight) + 1
          /\ Len(flight) \in Nat
      BY <3>1, QueuePush
    <3>3. flight' = Append(flight, Head(queue)) /\ queue' = Tail(queue) /\ UNCHANGED gpc /\ Len(flight) < Tokens
      BY <1>1, <2>1 DEF GenPop
    <3> QED BY <1>1, <3>1, <3>2, <3>3, Prt2Assumption DEF GenPop
  <2>2. CASE queue = <<>> BY <1>1, <2>2 DEF GenPop
  <2> QED BY <2>1, <2>2
<1>2. CASE GenTest
  <2>1. Append(flight, End) \in Seq(Chunks) /\ Len(Append(flight, End)) = Len(flight) + 1 /\ Len(flight) \in Nat
    BY EmptyChunk, QueuePush
  <2>2. Len(flight) < Tokens BY <1>2 DEF RoomForEnd, GenTest
  <2>3. flight' \in Seq(Chunks) /\ Len(flight') <= Tokens
    BY <1>2, <2>1, <2>2, Prt2Assumption DEF GenTest
  <2> QED BY <1>2, <2>3 DEF GenTest
<1>3. CASE WriteChunk
  <2>1. flight # <<>> /\ flight' = Tail(flight) /\ \E works \in BOOLEAN : Write(Head(flight), works)
    BY <1>3 DEF WriteChunk
  <2>2. Head(flight) \in Chunks /\ Tail(flight) \in Seq(Chunks) /\ Len(Tail(flight)) = Len(flight) - 1
        /\ Len(flight) \in Nat
    BY <2>1, QueuePop
  <2>3. file' \in [begun : BOOLEAN, body : Chunks, count : Int, tail : Chunks, extents : BOOLEAN]
    BY <2>1, <2>2, WriteParts
  <2>4. flight' \in Seq(Chunks) /\ Len(flight') <= Tokens BY <2>1, <2>2, Prt2Assumption
  <2>5. /\ UNCHANGED <<put, buffer, queue, closeRequested, hasPosition, exception, gpc, sent, cpc, inDestructor, outcome>>
        /\ UNCHANGED <<useTemp, sameTemp, disk, isOpen, unwinding, commit>> /\ bad' \in {"no", "write", "flush"}
    BY <1>3 DEF WriteChunk
  <2> QED BY <2>3, <2>4, <2>5
<1>4. CASE WriteEnd
  <2>1. flight # <<>> BY <1>4 DEF WriteEnd
  <2>2. Tail(flight) \in Seq(Chunks) /\ Len(Tail(flight)) = Len(flight) - 1 /\ Len(flight) \in Nat
    BY <2>1, QueuePop
  <2>3. Len(file.body) \in Int BY DEF Chunks
  <2>4. file' \in [begun : BOOLEAN, body : Chunks, count : Int, tail : Chunks, extents : BOOLEAN]
    BY <1>4, <2>3 DEF WriteEnd
  <2>5. flight' \in Seq(Chunks) /\ Len(flight') <= Tokens
    <3>1. flight' = Tail(flight) \/ flight' = <<>> BY <1>4 DEF WriteEnd
    <3>2. Len(<<>>) <= Tokens /\ Len(Tail(flight)) <= Tokens BY <2>2, EmptyChunk, Prt2Assumption
    <3> QED BY <2>2, <3>1, <3>2, EmptyChunk
  <2> QED BY <1>4, <2>4, <2>5 DEF WriteEnd
<1>5. CASE FilterThrows BY <1>5, EmptyChunk, Prt2Assumption DEF FilterThrows
<1>6. CASE PipelineEnds BY <1>6 DEF PipelineEnds
<1>7. CASE WriterCatch BY <1>7 DEF WriterCatch
<1> QED BY <1>1, <1>2, <1>3, <1>4, <1>5, <1>6, <1>7 DEF PipelineStep, GeneratorStep, WriterStep

\* The ranges of the variables, over the steps of the client.
LEMMA ClientTypes ==
  ASSUME TypeOK, FileInv, FileInv', ClientStep PROVE TypeOK'
<1> USE DEF TypeOK, DiskTypeOK, diskVars, streamVars, writerVars, clientVars, Go, Throw
<1>1. CASE Open BY <1>1 DEF Open, Create, FileInv, OnDisk
<1>2. CASE OpenThrows BY <1>2 DEF OpenThrows, Create, FileInv, OnDisk
<1>3. CASE Put
  <2>1. put + 1 \in Particles BY <1>3, Prt2Assumption DEF Put, Particles
  <2>6. put' \in 0..MaxParticles BY <1>3, Prt2Assumption DEF Put
  <2>2. Append(buffer, put + 1) \in Chunks /\ Len(Append(buffer, put + 1)) \in Nat BY <2>1, ChunkAppend
  <2>3. Append(queue, Append(buffer, put + 1)) \in Seq(Chunks) BY <2>2, QueuePush
  <2>4. /\ buffer' \in Chunks /\ Len(buffer') < ChunkSize
        /\ queue' \in Seq(Chunks)
    <3>1. CASE Len(Append(buffer, put + 1)) >= ChunkSize
      <4>1. buffer' = <<>> /\ queue' = Append(queue, Append(buffer, put + 1)) BY <1>3, <3>1 DEF Put
      <4>2. Len(<<>>) < ChunkSize BY EmptyChunk, Prt2Assumption
      <4> QED BY <2>3, <4>1, <4>2, EmptyChunk
    <3>2. CASE ~(Len(Append(buffer, put + 1)) >= ChunkSize)
      <4>1. buffer' = Append(buffer, put + 1) /\ queue' = queue BY <1>3, <3>2 DEF Put
      <4>2. Len(Append(buffer, put + 1)) < ChunkSize BY <2>2, <3>2, Prt2Assumption
      <4> QED BY <2>2, <4>1, <4>2
    <3> QED BY <3>1, <3>2
  <2>5. /\ UNCHANGED <<useTemp, sameTemp, disk, isOpen, bad, unwinding, commit, closeRequested, hasPosition>>
        /\ UNCHANGED <<exception, gpc, sent, flight, file, cpc, inDestructor, outcome>>
    BY <1>3 DEF Put
  <2> QED BY <2>4, <2>5, <2>6
<1>4. CASE Close \/ Destroy
  <2>1. Append(queue, buffer) \in Seq(Chunks) BY QueuePush
  <2>2. buffer' \in Chunks /\ Len(buffer') < ChunkSize /\ queue' \in Seq(Chunks)
    <3>1. buffer' = <<>> /\ (queue' = queue \/ queue' = Append(queue, buffer)) BY <1>4 DEF Close, Destroy, QueueRest
    <3>2. Len(<<>>) < ChunkSize BY EmptyChunk, Prt2Assumption
    <3> QED BY <2>1, <3>1, <3>2, EmptyChunk
  <2>3. /\ UNCHANGED <<useTemp, sameTemp, disk, isOpen, bad, commit, put, closeRequested, hasPosition>>
        /\ UNCHANGED <<exception, gpc, sent, flight, file, outcome>>
        /\ cpc' = "flag" /\ unwinding' \in BOOLEAN /\ inDestructor' \in BOOLEAN
    BY <1>4 DEF Close, Destroy
  <2> QED BY <2>2, <2>3
<1>5. CASE RequestClose BY <1>5 DEF RequestClose
<1>6. CASE Join BY <1>6 DEF Join
<1>7. CASE WriteExtents
  <2>1. file' \in [begun : BOOLEAN, body : Chunks, count : Int, tail : Chunks, extents : BOOLEAN]
    BY <1>7 DEF WriteExtents
  <2> QED BY <1>7, <2>1 DEF WriteExtents
<1>8. CASE BeginCommit BY <1>8 DEF BeginCommit, StartCommit, GoOn, FileInv, OnDisk
<1>9. CASE Committing
  <2>1. bad' \in {"no", "write", "flush"} /\ UNCHANGED <<useTemp, sameTemp>>
    BY <1>9 DEF Committing, CommitStep, Flush, MoveBeside, CopyBeside, RemoveLocal, RemoveTarget, RenameToTarget,
       Discard, DropLocal, DropRemote
  <2> QED BY <1>9, <2>1 DEF Committing, FileInv, OnDisk
<1>10. CASE CloseEnds BY <1>10 DEF CloseEnds
<1>11. CASE DestroyClosed BY <1>11 DEF DestroyClosed
<1>12. CASE Destroyed BY <1>12 DEF Destroyed
<1> QED BY <1>1, <1>2, <1>3, <1>4, <1>5, <1>6, <1>7, <1>8, <1>9, <1>10, <1>11, <1>12 DEF ClientStep

\* Between the two steps of the generator only the writer touches what is in flight.
LEMMA RoomStep ==
  ASSUME TypeOK, RoomForEnd, Next PROVE RoomForEnd'
<1> USE DEF RoomForEnd, diskVars, streamVars, writerVars, clientVars
<1>1. CASE GenPop BY <1>1 DEF GenPop
<1>2. CASE WriterStep
  <2>1. flight # <<>> BY <1>2 DEF WriterStep, WriteChunk, WriteEnd
  <2>2. Len(Tail(flight)) = Len(flight) - 1 /\ Len(flight) \in Nat BY <2>1, QueuePop DEF TypeOK
  <2>3. CASE UNCHANGED gpc /\ flight' = Tail(flight) BY <2>2, <2>3, Prt2Assumption
  <2>4. CASE gpc' = "catch" BY <2>4
  <2> QED BY <1>2, <2>3, <2>4 DEF WriterStep, WriteChunk, WriteEnd
<1>3. CASE GenTest \/ PipelineEnds \/ WriterCatch \/ FilterThrows
  BY <1>3 DEF GenTest, PipelineEnds, WriterCatch, FilterThrows
<1>4. CASE Open \/ OpenThrows BY <1>4 DEF Open, OpenThrows
<1>5. CASE UNCHANGED <<gpc, flight>> BY <1>5
<1> QED
  BY <1>1, <1>2, <1>3, <1>4, <1>5
  DEF Next, PipelineStep, GeneratorStep, ClientStep, Put, Close, Destroy, RequestClose, Join, WriteExtents, BeginCommit, Committing, CloseEnds, DestroyClosed, Destroyed, Rest, vars

\* A step of the pipeline moves a chunk on, or leaves one where it is.
LEMMA PipelineOrder ==
  ASSUME TypeOK, Filechunk, AllInOrder, PipelineStep PROVE AllInOrder'
<1> SUFFICES ASSUME ~Failed', bad' # "write"
             PROVE  (file.body \o file.tail \o FlattenSeq(flight) \o FlattenSeq(queue) \o buffer = AllPut)'
  BY DEF AllInOrder
<1>1. PICK body \in Chunks, tail \in Chunks : body = file.body /\ tail = file.tail
  BY DEF TypeOK
<1>2. PICK given \in Chunks, queued \in Chunks : given = FlattenSeq(flight) /\ queued = FlattenSeq(queue)
  BY QueueFlat DEF TypeOK
<1>3. PICK w \in Chunks : w = body \o tail
  BY ChunkConcat
<1>4. UNCHANGED <<put, buffer>>
  BY DEF PipelineStep, GeneratorStep, WriterStep, GenPop, GenTest, PipelineEnds, WriterCatch, WriteChunk, WriteEnd, FilterThrows, streamVars
<1>5. UNCHANGED AllPut BY <1>4 DEF AllPut
<1> USE DEF diskVars, streamVars, clientVars, Failed
<1>6. CASE GenPop
  <2>1. (w \o given) \o queued \o buffer = AllPut BY <1>1, <1>2, <1>3, <1>6 DEF AllInOrder, GenPop
  <2>2. CASE queue # <<>>
    <3>1. PICK h \in Chunks, r \in Chunks : h = Head(queue) /\ r = FlattenSeq(Tail(queue)) /\ queued = h \o r
      BY <1>2, <2>2, QueuePop, QueueFlat DEF TypeOK
    <3>2. FlattenSeq(Append(flight, h)) = given \o h BY <1>2, <3>1, QueuePush DEF TypeOK
    <3>3. Moves(w, given, h, r) BY MoveOn
    <3>4. FlattenSeq(flight') = given \o h /\ FlattenSeq(queue') = r
      BY <1>6, <2>2, <3>1, <3>2 DEF GenPop
    <3>5. file' = file /\ buffer' = buffer BY <1>6 DEF GenPop
    <3> QED BY <1>1, <1>3, <1>5, <2>1, <3>1, <3>3, <3>4, <3>5 DEF Moves
  <2>3. CASE queue = <<>>
    <3>1. UNCHANGED <<file, flight, queue, buffer>> BY <1>6, <2>3 DEF GenPop
    <3> QED BY <1>1, <1>2, <1>3, <1>5, <2>1, <3>1
  <2> QED BY <2>2, <2>3
<1>7. CASE GenTest
  <2>1. (w \o given) \o queued \o buffer = AllPut BY <1>1, <1>2, <1>3, <1>7 DEF AllInOrder, GenTest
  <2>2. FlattenSeq(Append(flight, End)) = given \o <<>> BY <1>2, EmptyChunk, QueuePush DEF TypeOK, End
  <2>3. given \o <<>> = given BY EmptyConcat
  <2>4. FlattenSeq(flight') = given BY <1>2, <1>7, <2>2, <2>3 DEF GenTest
  <2>5. UNCHANGED <<file, queue, buffer>> BY <1>7 DEF GenTest
  <2> QED BY <1>1, <1>2, <1>3, <1>5, <2>1, <2>4, <2>5
<1>8. CASE WriteChunk
  <2>1. flight # <<>> /\ flight' = Tail(flight) /\ Write(Head(flight), TRUE) /\ bad = "no"
        /\ UNCHANGED <<queue, buffer, exception, gpc>>
    BY <1>8 DEF WriteChunk
  <2>2. PICK h \in Chunks, r \in Chunks : h = Head(flight) /\ r = FlattenSeq(Tail(flight)) /\ given = h \o r
    BY <1>2, <2>1, QueuePop, QueueFlat DEF TypeOK
  <2>3. (w \o given) \o queued \o buffer = AllPut BY <1>1, <1>2, <1>3, <2>1 DEF AllInOrder
  <2>4. (file'.body \o file'.tail) \o r = w \o given
    <3>1. CASE file.count = -1
      <4>1. tail = <<>> BY <1>1, <3>1 DEF Filechunk
      <4>2. file'.body = body \o h /\ file'.tail = <<>> BY <1>1, <2>1, <2>2, <3>1, <4>1, WriteParts
      <4>3. (body \o h) \o <<>> = body \o h /\ body \o <<>> = body BY ChunkConcat, EmptyConcat
      <4>4. Assoc(body, h, r) BY ChunkAssoc
      <4> QED BY <1>3, <2>2, <4>1, <4>2, <4>3, <4>4 DEF Assoc
    <3>2. CASE file.count # -1
      <4>1. file'.body = body /\ file'.tail = tail \o h BY <1>1, <2>1, <2>2, <3>2, WriteParts
      <4>2. Moves(body, tail, h, r) BY MoveOn
      <4> QED BY <1>3, <2>2, <4>1, <4>2 DEF Moves
    <3> QED BY <3>1, <3>2
  <2>5. FlattenSeq(flight') = r /\ FlattenSeq(queue') = queued /\ buffer' = buffer
    BY <1>2, <2>1, <2>2
  <2> QED BY <1>5, <2>3, <2>4, <2>5
<1>9. CASE WriteEnd
  <2>1. flight # <<>> /\ Head(flight) = <<>> /\ flight' = Tail(flight) /\ bad = "no"
        /\ UNCHANGED <<queue, buffer, exception, gpc>> /\ file' = [file EXCEPT !.begun = TRUE, !.count = Len(file.body)]
    BY <1>9 DEF WriteEnd, End
  <2>2. PICK r \in Chunks : r = FlattenSeq(Tail(flight)) /\ given = <<>> \o r
    BY <1>2, <2>1, QueuePop, QueueFlat DEF TypeOK
  <2>3. (w \o given) \o queued \o buffer = AllPut BY <1>1, <1>2, <1>3, <2>1 DEF AllInOrder
  <2>4. given = r BY <2>2, EmptyConcat
  <2>5. file'.body = body /\ file'.tail = tail BY <1>1, <2>1 DEF TypeOK
  <2>6. FlattenSeq(flight') = r /\ FlattenSeq(queue') = queued /\ buffer' = buffer
    BY <1>2, <2>1, <2>2
  <2> QED BY <1>3, <1>5, <2>3, <2>4, <2>5, <2>6
<1>10. CASE PipelineEnds
  <2>1. UNCHANGED <<file, flight, queue, buffer>> /\ ~Failed /\ bad # "write" BY <1>10 DEF PipelineEnds
  <2>2. (w \o given) \o queued \o buffer = AllPut BY <1>1, <1>2, <1>3, <2>1 DEF AllInOrder
  <2> QED BY <1>1, <1>2, <1>3, <1>5, <2>1, <2>2
<1>11. CASE FilterThrows \/ WriterCatch BY <1>11 DEF FilterThrows, WriterCatch
<1> QED BY <1>6, <1>7, <1>8, <1>9, <1>10, <1>11 DEF PipelineStep, GeneratorStep, WriterStep

\* Particles are put behind the last one, and the chunk that is gathered is queued as a whole.
LEMMA ClientOrder ==
  ASSUME TypeOK, Threads, AllInOrder, ClientStep PROVE AllInOrder'
<1> SUFFICES ASSUME ~Failed', bad' # "write"
             PROVE  (file.body \o file.tail \o FlattenSeq(flight) \o FlattenSeq(queue) \o buffer = AllPut)'
  BY DEF AllInOrder
<1>1. PICK w \in Chunks : w = file.body \o file.tail \o FlattenSeq(flight)
  BY ChunkConcat, QueueFlat DEF TypeOK
<1>2. PICK queued \in Chunks : queued = FlattenSeq(queue)
  BY QueueFlat DEF TypeOK
<1> USE DEF diskVars, streamVars, writerVars, clientVars, Failed
<1>3. CASE Put
  <2>1. UNCHANGED <<file, flight, exception, gpc, bad>> /\ put' = put + 1 /\ put < MaxParticles BY <1>3 DEF Put
  <2>2. (w \o queued) \o buffer = AllPut BY <1>1, <1>2, <2>1 DEF AllInOrder
  <2>3. put + 1 \in Particles /\ put \in Nat BY <2>1, Prt2Assumption DEF TypeOK, Particles
  <2>4. AllPut' = Append(AllPut, put + 1) BY <2>1, <2>3, OneMore DEF AllPut
  <2>5. buffer \in Chunks /\ <<put + 1>> \in Chunks BY <2>3 DEF TypeOK, Chunks
  <2>6. PICK c \in Chunks, one \in Chunks : c = w \o queued /\ one = <<put + 1>> BY <2>5, ChunkConcat
  <2>7. Append(buffer, put + 1) = buffer \o one BY <2>5, <2>6 DEF Chunks
  <2>8. AllPut' = (c \o buffer) \o one
    <3>1. PICK d \in Chunks : d = c \o buffer BY <2>5, ChunkConcat
    <3>2. Append(d, put + 1) = d \o one BY <2>6, <3>1 DEF Chunks
    <3> QED BY <2>2, <2>4, <2>6, <3>1, <3>2
  <2>9. Assoc(c, buffer, one) /\ Assoc(w, queued, buffer \o one)
    BY <2>5, ChunkAssoc, ChunkConcat
  <2>10. CASE Len(Append(buffer, put + 1)) >= ChunkSize
    <3>1. queue' = Append(queue, buffer \o one) /\ buffer' = <<>> BY <1>3, <2>7, <2>10 DEF Put
    <3>2. buffer \o one \in Chunks BY <2>5, ChunkConcat
    <3>3. FlattenSeq(queue') = queued \o (buffer \o one) BY <1>2, <3>1, <3>2, QueuePush DEF TypeOK
    <3>4. PICK d \in Chunks : d = w \o (queued \o (buffer \o one)) BY <3>2, ChunkConcat
    <3>5. d \o <<>> = d BY EmptyConcat
    <3>6. d = AllPut' BY SMTT(20), <2>6, <2>8, <2>9, <3>4 DEF Assoc
    <3> QED BY <1>1, <2>1, <3>1, <3>3, <3>4, <3>5, <3>6
  <2>11. CASE ~(Len(Append(buffer, put + 1)) >= ChunkSize)
    <3>1. queue' = queue /\ buffer' = buffer \o one BY <1>3, <2>7, <2>11 DEF Put
    <3> QED BY <1>1, <1>2, <2>1, <2>6, <2>8, <2>9, <3>1 DEF Assoc
  <2> QED BY <2>10, <2>11
<1>4. CASE Close \/ Destroy
  <2>1. UNCHANGED <<file, flight, exception, gpc, bad, put>> /\ QueueRest BY <1>4 DEF Close, Destroy
  <2>2. (w \o queued) \o buffer = AllPut /\ AllPut' = AllPut BY <1>1, <1>2, <2>1 DEF AllInOrder, AllPut
  <2>3. CASE buffer = <<>>
    <3>1. UNCHANGED <<queue, buffer>> BY <2>1, <2>3 DEF QueueRest
    <3> QED BY <1>1, <1>2, <2>1, <2>2, <3>1
  <2>4. CASE buffer # <<>>
    <3>1. queue' = Append(queue, buffer) /\ buffer' = <<>> BY <2>1, <2>4 DEF QueueRest
    <3>2. buffer \in Chunks BY DEF TypeOK
    <3>3. FlattenSeq(queue') = queued \o buffer BY <1>2, <3>1, <3>2, QueuePush DEF TypeOK
    <3>4. PICK d \in Chunks : d = w \o (queued \o buffer) BY <3>2, ChunkConcat
    <3>5. d \o <<>> = d BY EmptyConcat
    <3>6. Assoc(w, queued, buffer) BY <3>2, ChunkAssoc
    <3> QED BY <1>1, <2>1, <2>2, <3>1, <3>3, <3>4, <3>5, <3>6 DEF Assoc
  <2> QED BY <2>3, <2>4
<1>5. CASE WriteExtents
  <2>1. UNCHANGED <<flight, queue, buffer, exception, gpc, put>> /\ bad # "write" /\ file' = [file EXCEPT !.extents = TRUE]
    BY <1>5 DEF WriteExtents
  <2>2. file'.body = file.body /\ file'.tail = file.tail BY <2>1 DEF TypeOK
  <2>3. (w \o queued) \o buffer = AllPut /\ AllPut' = AllPut BY <1>1, <1>2, <2>1 DEF AllInOrder, AllPut
  <2> QED BY <1>1, <1>2, <2>1, <2>2, <2>3
<1>6. CASE UNCHANGED <<file, flight, queue, buffer, exception, put>> /\ (gpc = "catch" => gpc' = "catch") /\ (bad = "write" => bad' = "write")
  <2>1. (w \o queued) \o buffer = AllPut /\ AllPut' = AllPut BY <1>1, <1>2, <1>6 DEF AllInOrder, AllPut
  <2> QED BY <1>1, <1>2, <1>6, <2>1
<1>7. CASE Committing
  <2>1. bad = "write" => bad' = "write"
    BY <1>7 DEF Committing, CommitStep, Flush, MoveBeside, CopyBeside, RemoveLocal, RemoveTarget, RenameToTarget,
       Discard, DropLocal, DropRemote
  <2> QED BY <1>6, <1>7, <2>1 DEF Committing
<1>8. CASE Open \/ OpenThrows
  <2>1. gpc = "new" BY <1>8 DEF Open, OpenThrows, Threads
  <2> QED BY <1>6, <1>8, <2>1 DEF Open, OpenThrows
<1>9. CASE RequestClose \/ Join \/ CloseEnds \/ DestroyClosed \/ Destroyed
  BY <1>6, <1>9 DEF RequestClose, Join, CloseEnds, DestroyClosed, Destroyed
<1>10. CASE BeginCommit
  BY <1>6, <1>10 DEF BeginCommit, StartCommit
<1> QED BY <1>3, <1>4, <1>5, <1>7, <1>8, <1>9, <1>10 DEF ClientStep

\* The End stays in flight until it is written, whatever chunks go before it.
LEMMA EndStays ==
  ASSUME NEW q \in Seq(Chunks), q # <<>>, Head(q) # End, NEW i \in 1..Len(q), q[i] = End
  PROVE  \E j \in 1..Len(Tail(q)) : Tail(q)[j] = End
<1>1. /\ Len(q) \in Nat \ {0} /\ Len(Tail(q)) = Len(q) - 1 /\ Head(q) = q[1]
      /\ \A k \in 1..(Len(q) - 1) : Tail(q)[k] = q[k + 1]
  BY QueuePop
<1>2. i # 1 BY <1>1
<1>3. i - 1 \in 1..Len(Tail(q)) /\ (i - 1) + 1 = i BY <1>1, <1>2
<1> QED BY <1>1, <1>3

LEMMA ThreadsStep ==
  ASSUME TypeOK, Threads, Next PROVE Threads'
<1> USE DEF Threads, Failed, diskVars, streamVars, writerVars, clientVars, Go, Throw
<1>1. CASE GenPop
  <2>1. CASE queue # <<>>
    <3>1. Head(queue) \in Chunks BY <2>1, QueuePop DEF TypeOK
    <3>2. flight' = Append(flight, Head(queue)) /\ UNCHANGED <<gpc, exception, sent, file, closeRequested, buffer, cpc, outcome>>
      BY <1>1, <2>1 DEF GenPop
    <3>3. /\ Len(flight') = Len(flight) + 1 /\ Len(flight) \in Nat
          /\ \A i \in 1..Len(flight) : flight'[i] = flight[i]
      BY <3>1, <3>2, QueuePush DEF TypeOK
    <3>4. (\E i \in 1..Len(flight) : flight[i] = End) => \E i \in 1..Len(flight') : flight'[i] = End
      BY <3>3
    <3>5. gpc = "pop" BY <1>1 DEF GenPop
    <3> QED BY <3>2, <3>4, <3>5
  <2>2. CASE queue = <<>> BY <1>1, <2>2 DEF GenPop
  <2> QED BY <2>1, <2>2
<1>2. CASE GenTest
  <2>1. gpc = "test" /\ UNCHANGED <<queue, exception, file, closeRequested, buffer, cpc, outcome>> /\ sent' = closeRequested
    BY <1>2 DEF GenTest
  <2>2. CASE closeRequested /\ ~sent
    <3>1. flight' = Append(flight, End) /\ gpc' = "pop" BY <1>2, <2>2 DEF GenTest
    <3>2. Len(flight) \in Nat /\ Len(flight') = Len(flight) + 1 /\ flight'[Len(flight) + 1] = End
      BY <3>1, EmptyChunk, QueuePush DEF TypeOK
    <3>3. \E i \in 1..Len(flight') : flight'[i] = End BY <3>2
    <3> QED BY <2>1, <3>1, <3>3
  <2>3. CASE ~(closeRequested /\ ~sent) BY <1>2, <2>1, <2>3 DEF GenTest
  <2> QED BY <2>2, <2>3
<1>3. CASE WriteChunk
  <2>1. /\ flight # <<>> /\ Head(flight) # End /\ flight' = Tail(flight)
        /\ UNCHANGED <<queue, exception, gpc, sent, closeRequested, buffer, cpc, outcome>>
        /\ \E works \in BOOLEAN : Write(Head(flight), works)
    BY <1>3 DEF WriteChunk
  <2>2. file'.count = file.count BY <2>1, QueuePop, WriteParts DEF TypeOK
  <2>3. (\E i \in 1..Len(flight) : flight[i] = End) => \E i \in 1..Len(flight') : flight'[i] = End
    BY <2>1, EndStays DEF TypeOK
  <2> QED BY <2>1, <2>2, <2>3
<1>4. CASE WriteEnd
  <2>1. flight # <<>> /\ UNCHANGED <<queue, exception, sent, closeRequested, buffer, cpc, outcome>>
    BY <1>4 DEF WriteEnd
  <2>2. CASE gpc' = "catch" /\ flight' = <<>> BY <2>1, <2>2
  <2>3. CASE UNCHANGED gpc /\ file' = [file EXCEPT !.begun = TRUE, !.count = Len(file.body)]
    <3>1. file'.count = Len(file.body) /\ Len(file.body) \in Nat BY <2>3 DEF TypeOK, Chunks
    <3> QED BY <2>1, <2>3, <3>1
  <2> QED BY <1>4, <2>2, <2>3 DEF WriteEnd
<1>5. CASE FilterThrows \/ PipelineEnds \/ WriterCatch BY <1>5 DEF FilterThrows, PipelineEnds, WriterCatch, TypeOK
<1>6. CASE Open \/ OpenThrows BY <1>6 DEF Open, OpenThrows
<1>7. CASE Put BY <1>7 DEF Put
<1>8. CASE Close \/ Destroy BY <1>8 DEF Close, Destroy, QueueRest
<1>9. CASE RequestClose BY <1>9 DEF RequestClose, TypeOK
<1>10. CASE Join BY <1>10 DEF Join
<1>11. CASE WriteExtents
  <2>1. file'.count = file.count BY <1>11 DEF WriteExtents, TypeOK
  <2> QED BY <1>11, <2>1 DEF WriteExtents
<1>12. CASE BeginCommit \/ Committing BY <1>12 DEF BeginCommit, Committing
<1>13. CASE CloseEnds BY <1>13 DEF CloseEnds
<1>14. CASE DestroyClosed \/ Destroyed BY <1>14 DEF DestroyClosed, Destroyed
<1>15. CASE Rest BY <1>15 DEF Rest, vars
<1> QED
  BY <1>1, <1>2, <1>3, <1>4, <1>5, <1>6, <1>7, <1>8, <1>9, <1>10, <1>11, <1>12, <1>13, <1>14, <1>15
  DEF Next, PipelineStep, GeneratorStep, WriterStep, ClientStep

LEMMA FilechunkStep ==
  ASSUME TypeOK, Filechunk, Threads, Clients, Next PROVE Filechunk'
<1> USE DEF Filechunk, Failed, diskVars, streamVars, writerVars, clientVars, Go, Throw
<1>1. CASE WriteChunk
  <2>1. PICK works \in BOOLEAN : Write(Head(flight), works) /\ ((works /\ bad = "no" /\ UNCHANGED bad) \/ (~works /\ bad' = "write"))
    BY <1>1 DEF WriteChunk
  <2>2. flight # <<>> /\ Head(flight) # <<>> /\ Head(flight) \in Chunks /\ UNCHANGED <<exception, gpc, outcome>>
    BY <1>1, QueuePop DEF WriteChunk, End, TypeOK
  <2>3. file.tail \in Chunks /\ file.tail \o Head(flight) # <<>> BY <2>2, ChunkConcat DEF TypeOK
  <2>4. /\ file'.count = file.count
        /\ file.count # -1 => file'.body = file.body /\ file'.tail = file.tail \o Head(flight)
        /\ file.count = -1 => file'.tail = file.tail
    BY <2>1, <2>2, WriteParts
  <2> QED BY <2>1, <2>2, <2>3, <2>4
<1>2. CASE WriteEnd
  <2>1. flight # <<>> /\ UNCHANGED <<exception, outcome>> BY <1>2 DEF WriteEnd
  <2>2. CASE gpc' = "catch" /\ UNCHANGED file BY <2>1, <2>2
  <2>3. CASE UNCHANGED <<gpc, bad>> /\ bad = "no" /\ file' = [file EXCEPT !.begun = TRUE, !.count = Len(file.body)]
    <3>1. /\ file'.count = Len(file.body) /\ Len(file.body) \in Nat
          /\ file'.body = file.body /\ file'.tail = file.tail
      BY <2>3 DEF TypeOK, Chunks
    <3> QED BY <2>1, <2>3, <3>1
  <2> QED BY <1>2, <2>2, <2>3 DEF WriteEnd
<1>3. CASE GenPop \/ GenTest \/ FilterThrows \/ PipelineEnds \/ WriterCatch
  BY <1>3 DEF GenPop, GenTest, FilterThrows, PipelineEnds, WriterCatch
<1>4. CASE Open \/ OpenThrows BY <1>4 DEF Open, OpenThrows, Threads
<1>5. CASE Put \/ Close \/ Destroy \/ RequestClose \/ Join
  BY <1>5 DEF Put, Close, Destroy, RequestClose, Join
<1>6. CASE WriteExtents
  <2>1. file' = [file EXCEPT !.extents = TRUE] \/ file' = file BY <1>6 DEF WriteExtents
  <2>2. file'.count = file.count /\ file'.body = file.body /\ file'.tail = file.tail BY <2>1 DEF TypeOK
  <2> QED BY <1>6, <2>2 DEF WriteExtents
<1>7. CASE Committing
  <2>1. bad' = "write" => bad = "write"
    BY <1>7 DEF Committing, CommitStep, Flush, MoveBeside, CopyBeside, RemoveLocal, RemoveTarget, RenameToTarget,
       Discard, DropLocal, DropRemote
  <2> QED BY <1>7, <2>1 DEF Committing
<1>8. CASE BeginCommit BY <1>8 DEF BeginCommit, StartCommit
<1>9. CASE CloseEnds BY <1>9 DEF CloseEnds, Clients
<1>10. CASE DestroyClosed \/ Destroyed BY <1>10 DEF DestroyClosed, Destroyed
<1>11. CASE Rest BY <1>11 DEF Rest, vars
<1> QED
  BY <1>1, <1>2, <1>3, <1>4, <1>5, <1>6, <1>7, <1>8, <1>9, <1>10, <1>11
  DEF Next, PipelineStep, GeneratorStep, WriterStep, ClientStep

LEMMA ClientsStep ==
  ASSUME TypeOK, Clients, Threads, Next PROVE Clients'
<1> USE DEF Clients, Threads, diskVars, streamVars, writerVars, clientVars, Go, Throw
<1>1. CASE WriteChunk
  <2>1. flight # <<>> /\ UNCHANGED <<exception, gpc, cpc, outcome, hasPosition>> /\ \E works \in BOOLEAN : Write(Head(flight), works)
    BY <1>1 DEF WriteChunk
  <2>2. file'.extents = file.extents BY <2>1, QueuePop, WriteParts DEF TypeOK
  <2> QED BY <2>1, <2>2
<1>2. CASE WriteEnd
  <2>1. flight # <<>> /\ UNCHANGED <<exception, cpc, outcome, hasPosition>> BY <1>2 DEF WriteEnd
  <2>2. file' = file \/ file' = [file EXCEPT !.begun = TRUE, !.count = Len(file.body)] BY <1>2 DEF WriteEnd
  <2>3. file'.extents = file.extents BY <2>2 DEF TypeOK
  <2> QED BY <2>1, <2>3
<1>3. CASE GenPop \/ GenTest \/ FilterThrows \/ PipelineEnds \/ WriterCatch
  BY <1>3 DEF GenPop, GenTest, FilterThrows, PipelineEnds, WriterCatch
<1>4. CASE Open \/ OpenThrows BY <1>4 DEF Open, OpenThrows
<1>5. CASE Put \/ Close \/ Destroy \/ RequestClose BY <1>5 DEF Put, Close, Destroy, RequestClose
<1>6. CASE Join BY <1>6 DEF Join, TypeOK
<1>7. CASE WriteExtents
  <2>1. CASE file' = [file EXCEPT !.extents = TRUE] /\ cpc' = "commit" /\ UNCHANGED outcome
    <3>1. file'.extents = TRUE BY <2>1 DEF TypeOK
    <3> QED BY <1>7, <2>1, <3>1 DEF WriteExtents
  <2>2. CASE Throw /\ UNCHANGED file BY <1>7, <2>2 DEF WriteExtents
  <2> QED BY <1>7, <2>1, <2>2 DEF WriteExtents
<1>8. CASE BeginCommit \/ Committing BY <1>8 DEF BeginCommit, Committing
<1>9. CASE CloseEnds BY <1>9 DEF CloseEnds
<1>10. CASE DestroyClosed \/ Destroyed BY <1>10 DEF DestroyClosed, Destroyed
<1>11. CASE Rest BY <1>11 DEF Rest, vars
<1> QED
  BY <1>1, <1>2, <1>3, <1>4, <1>5, <1>6, <1>7, <1>8, <1>9, <1>10, <1>11
  DEF Next, PipelineStep, GeneratorStep, WriterStep, ClientStep

\* The steps of prt2_writer::close() put the file in place unless an exception is in flight.
LEMMA CommitInPlace ==
  ASSUME TypeOK, FileInv, Clients, InPlace, Committing PROVE InPlace'
<1> USE DEF InPlace, FileInv, OnDisk, AtClient, GoOn, streamVars, writerVars, clientVars, Committing
<1>1. CASE Flush BY <1>1 DEF Flush
<1>2. CASE MoveBeside BY <1>2 DEF MoveBeside
<1>3. CASE CopyBeside BY <1>3 DEF CopyBeside
<1>4. CASE RemoveLocal BY <1>4 DEF RemoveLocal
<1>5. CASE RemoveTarget BY <1>5 DEF RemoveTarget
<1>6. CASE RenameToTarget BY <1>6 DEF RenameToTarget
<1>7. CASE Discard BY <1>7 DEF Discard
<1>8. CASE DropLocal BY <1>8 DEF DropLocal
<1>9. CASE DropRemote BY <1>9 DEF DropRemote
<1> QED BY <1>1, <1>2, <1>3, <1>4, <1>5, <1>6, <1>7, <1>8, <1>9 DEF CommitStep

LEMMA InPlaceStep ==
  ASSUME TypeOK, FileInv, Clients, Threads, InPlace, Next PROVE InPlace'
<1> USE DEF InPlace, FileInv, OnDisk, AtClient, Written, Clients, diskVars, streamVars, writerVars, clientVars, Go, GoOn, Throw
<1>1. CASE PipelineStep
  <2>1. UNCHANGED <<useTemp, sameTemp, disk, isOpen, unwinding, commit, cpc, inDestructor, outcome>>
    BY <1>1 DEF PipelineStep, GeneratorStep, WriterStep, GenPop, GenTest, PipelineEnds, WriterCatch, WriteChunk, WriteEnd, FilterThrows
  <2> QED BY <2>1
<1>2. CASE Open BY <1>2 DEF Open, Create
<1>3. CASE OpenThrows BY <1>3 DEF OpenThrows, Create
<1>4. CASE Put \/ Close BY <1>4 DEF Put, Close
<1>5. CASE Destroy BY <1>5 DEF Destroy
<1>6. CASE RequestClose BY <1>6 DEF RequestClose
<1>7. CASE Join BY <1>7 DEF Join
<1>8. CASE WriteExtents BY <1>8 DEF WriteExtents
<1>9. CASE BeginCommit BY <1>9 DEF BeginCommit, StartCommit
<1>10. CASE Committing BY <1>10, CommitInPlace
<1>11. CASE CloseEnds BY <1>11 DEF CloseEnds
<1>12. CASE DestroyClosed BY <1>12 DEF DestroyClosed
<1>13. CASE Destroyed BY <1>13 DEF Destroyed
<1>14. CASE Rest BY <1>14 DEF Rest, vars
<1> QED
  BY <1>1, <1>2, <1>3, <1>4, <1>5, <1>6, <1>7, <1>8, <1>9, <1>10, <1>11, <1>12, <1>13, <1>14 DEF Next, ClientStep

LEMMA WriterStepKeeps == FileInv /\ FileInv' /\ WriterInv /\ [Next]_vars => WriterInv'
<1> SUFFICES ASSUME FileInv, FileInv', WriterInv, [Next]_vars PROVE WriterInv'
  OBVIOUS
<1> USE DEF WriterInv
<1>1. CASE UNCHANGED vars
  <2> USE <1>1 DEF vars, diskVars, streamVars, writerVars, clientVars
  <2>1. TypeOK' BY DEF TypeOK, DiskTypeOK
  <2>2. RoomForEnd' BY DEF RoomForEnd
  <2>3. AllInOrder' BY DEF AllInOrder, Failed, AllPut
  <2>4. Threads' BY DEF Threads, Failed
  <2>5. Filechunk' /\ Clients' BY DEF Filechunk, Clients, Failed
  <2>6. InPlace' BY DEF InPlace
  <2> QED BY <2>1, <2>2, <2>3, <2>4, <2>5, <2>6
<1>2. CASE Next
  <2>1. CASE PipelineStep
    BY <1>2, <2>1, PipelineTypes, PipelineOrder, RoomStep, ThreadsStep, FilechunkStep, ClientsStep, InPlaceStep
  <2>2. CASE ClientStep
    BY <1>2, <2>2, ClientTypes, ClientOrder, RoomStep, ThreadsStep, FilechunkStep, ClientsStep, InPlaceStep
  <2> QED BY <1>1, <1>2, <2>1, <2>2 DEF Next, Rest
<1> QED BY <1>1, <1>2

\* The invariant of the stream and of its thread.
THEOREM WriterAlways == Spec => []WriterInv
  BY FileAlways, WriterInit, WriterStepKeeps, PTL DEF Spec

\* Until something fails no particle is lost, doubled or overtaken between put_particle()
\* and the file, whatever the thread, its filters and the client do.
THEOREM NothingLost == Spec => []Conserved
<1>1. WriterInv => Conserved BY DEF WriterInv, AllInOrder, Conserved, InOrder
<1> QED BY <1>1, WriterAlways, PTL

\* The client has no exception: all that was put is written.
LEMMA AllWritten ==
  ASSUME WriterInv, cpc = "commit" \/ outcome = "ok", file.tail = <<>>
  PROVE  file.body = AllPut /\ file.count = put /\ bad # "write" /\ file.extents = hasPosition
<1> USE DEF WriterInv
<1>1. gpc = "done" /\ ~exception /\ ~Failed /\ closeRequested /\ file.extents = hasPosition /\ outcome # "error"
  BY DEF Clients, Threads, Failed
<1>2. sent /\ queue = <<>> /\ flight = <<>> /\ buffer = <<>>
  <2>1. cpc # "open" BY DEF Clients
  <2> QED BY <1>1, <2>1 DEF Threads
<1>3. file.count # -1
  <2>1. Len(flight) = 0 BY <1>2, EmptyChunk
  <2> QED BY <1>1, <1>2, <2>1 DEF Threads
<1>4. bad # "write" /\ file.count = Len(file.body) BY <1>1, <1>3 DEF Filechunk
<1>5. file.body = AllPut
  <2>1. file.body \o <<>> \o <<>> \o <<>> \o <<>> = AllPut BY <1>1, <1>2, <1>4, FlattenEmpty DEF AllInOrder
  <2>2. \A c \in Chunks : c \o <<>> = c BY EmptyConcat
  <2> QED BY <2>1, <2>2 DEF TypeOK
<1>6. Len(AllPut) = put BY DEF AllPut, TypeOK
<1> QED BY <1>1, <1>4, <1>5, <1>6

\* A close() that returns has written all that was put and has put the file in place.
THEOREM ReturnMeansWritten == Spec => []SuccessMeansWritten
<1>1. WriterInv => SuccessMeansWritten
  <2> SUFFICES ASSUME WriterInv, outcome = "ok", ~unwinding, file.tail = <<>>
               PROVE  /\ file.body = AllPut /\ file.count = put /\ bad # "write"
                      /\ file.extents = hasPosition
                      /\ disk["target"] = "new" /\ ~isOpen
    BY DEF SuccessMeansWritten
  <2>1. disk["target"] = "new" /\ ~isOpen BY DEF WriterInv, InPlace
  <2> QED BY <2>1, AllWritten
<1> QED BY <1>1, WriterAlways, PTL

\* The target is replaced by close() only, or by ~prt2_writer() after close() has ended.
Replaced ==
  /\ useTemp /\ disk["target"] # "old" => cpc = "commit" \/ outcome # "none"
  /\ cpc = "closed" => outcome # "none"
  /\ cpc = "finish" /\ outcome = "none" => unwinding

LEMMA ReplacedStep == FileInv /\ WriterInv /\ Replaced /\ [Next]_vars => Replaced'
<1> SUFFICES ASSUME FileInv, WriterInv, Replaced, [Next]_vars PROVE Replaced'
  OBVIOUS
<1> USE DEF Replaced, diskVars, streamVars, writerVars, clientVars, Go, Throw
<1>1. CASE PipelineStep
  <2>1. UNCHANGED <<useTemp, disk, unwinding, cpc, outcome>>
    BY <1>1 DEF PipelineStep, GeneratorStep, WriterStep, GenPop, GenTest, PipelineEnds, WriterCatch, WriteChunk, WriteEnd, FilterThrows
  <2> QED BY <2>1
<1>2. CASE Open \/ OpenThrows
  <2>1. cpc = "new" /\ disk["target"] = "old" /\ useTemp' = useTemp /\ disk' = [disk EXCEPT ![Written] = "new"]
    BY <1>2 DEF Open, OpenThrows, Create, FileInv, AtClient
  <2>2. useTemp => disk'["target"] = "old"
    BY <2>1 DEF Written, FileInv, OnDisk
  <2>3. cpc' = "open" \/ (cpc' = "finish" /\ unwinding')
    BY <1>2 DEF Open, OpenThrows
  <2> QED BY <2>1, <2>2, <2>3
<1>3. CASE Put \/ Close \/ Destroy \/ RequestClose BY <1>3 DEF Put, Close, Destroy, RequestClose
<1>4. CASE Join \/ WriteExtents BY <1>4 DEF Join, WriteExtents
<1>5. CASE BeginCommit BY <1>5 DEF BeginCommit, StartCommit
<1>6. CASE Committing
  <2>1. cpc \in {"commit", "finish"} /\ UNCHANGED <<useTemp, unwinding, cpc, outcome>>
    BY <1>6 DEF Committing, FileInv, AtClient, CommitStep, Flush, MoveBeside, CopyBeside, RemoveLocal, RemoveTarget,
       RenameToTarget, Discard, DropLocal, DropRemote
  <2>2. CASE useTemp /\ unwinding
    <3>1. disk'["target"] = disk["target"]
      BY <2>2, <1>6 DEF FileInv, OnDisk, Committing, CommitStep, Flush, MoveBeside, CopyBeside, RemoveLocal,
         RemoveTarget, RenameToTarget, Discard, DropLocal, DropRemote, Written
    <3> QED BY <2>1, <3>1
  <2>3. CASE ~(useTemp /\ unwinding) BY <2>1, <2>3
  <2> QED BY <2>2, <2>3
<1>7. CASE CloseEnds BY <1>7 DEF CloseEnds
<1>8. CASE DestroyClosed \/ Destroyed BY <1>8 DEF DestroyClosed, Destroyed
<1>9. CASE UNCHANGED vars BY <1>9 DEF vars
<1> QED BY <1>1, <1>2, <1>3, <1>4, <1>5, <1>6, <1>7, <1>8, <1>9 DEF Next, ClientStep, Rest

\* Whatever fails, and wherever the program stops, the old file is at the target, or the new
\* one is closed and there or beside it, with all that was put and no failure in it; unless
\* close() had thrown before, only the last flush failed, or there are chunks after the end.
THEOREM OldOrNew == Spec => []OldOrNewExists
<1>1. Init => Replaced BY DEF Init, DiskInit, Replaced
<1>2. FileInv /\ WriterInv /\ Replaced => OldOrNewExists
  <2> SUFFICES ASSUME FileInv, WriterInv, Replaced, useTemp, disk["target"] # "old"
               PROVE  /\ ~isOpen /\ \E p \in {"remote", "target"} : disk[p] = "new"
                      /\ Whole \/ outcome = "error" \/ bad = "flush" \/ file.tail # <<>>
    BY DEF OldOrNewExists
  <2>1. ~isOpen /\ \E p \in {"remote", "target"} : disk[p] = "new"
    BY DEF FileInv, OnDisk
  <2>2. outcome # "error" => cpc = "commit" \/ outcome = "ok"
    BY DEF Replaced, WriterInv, TypeOK
  <2>3. outcome # "error" /\ bad # "flush" /\ file.tail = <<>> => Whole
    BY <2>2, AllWritten DEF Whole, WriterInv, TypeOK, DiskTypeOK
  <2> QED BY <2>1, <2>3
<1>3. FileInv /\ WriterInv /\ Replaced /\ [Next]_vars => Replaced'
  BY ReplacedStep
<1> QED BY <1>1, <1>2, <1>3, FileAlways, WriterAlways, PTL DEF Spec
=============================================================================
