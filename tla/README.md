# Models of ThinkboxLibrary

TLA+ models of the parts of ThinkboxLibrary whose correctness depends on the order of events:
queues that threads share, caches in front of files, files that must survive failures, and two
data structures that are edited in place by long sequences of calls. TLC checks small instances of every module. TLAPS proves the properties that matter most for
all values of the constants.

Paths below are relative to the repository. The public headers are in `frantic/`, the
implementations in `src/` and the tests in `UnitTests/`.

## 1. Inventory

Most of the library is numerical code: geometry, level sets, images and colours. It consists of
functions without a state of their own, or of loops that are parallel over disjoint outputs. The
state machines, and the data structures whose invariants every later call relies on, are these.

### Modelled

| component | state | operations | why it is hard |
|---|---|---|---|
| **Background serializer** `frantic/files/background_serializer.hpp` | a deque of keyed items, their total size, a capacity, one current item for each thread, an exception, a flag for the end; one mutex, two condition variables | `enqueue`, `try_enqueue`, `find_pending`, `set_capacity`, `set_num_threads`, `clear`, `wait_for_idle`, `invoke_on_idle`, the destructor; the worker `thread_impl` | several calls wait in the middle and go on with what they knew before; the destructor does not take the mutex; workers die of exceptions and of interruptions |
| **LRU cache** `frantic/caches/lru_cache.hpp` | a map from keys to values and positions, a list of keys in the order of use, a size, a capacity | `insert`, `find`, `set_capacity`, `clear` | the map, the list and the size change one after the other, and the deallocator called in between may throw |
| **Sequence cache** `frantic/files/sequence_cache.hpp` | an LRU cache, the set of frames that are valid on disk, the set of all frames, a serializer | `insert`, `find`, `flush`, `flush_async`, `cancel_flush`, capacities, threads, `clear`, the path | a value is at up to four places, and a frame counts as being on disk from when it is queued |
| **Producer and consumer threads** `frantic/threads/buffered_producer_consumer.hpp`, `frantic/particles/streams/concatenated_parallel_particle_istream.hpp` | two concurrent queues of buffers, an atomic count of threads, two atomic flags, an exception | `run`, `steal_finished_item`, the destructor; `producer_fn` with `can_produce_more`, `fill_buffer` and `is_buffer_full` of the stream | no lock covers the flags; threads fail, are stopped and run out in any order |
| **PRT2 output stream** `src/particles/streams/prt2_particle_ostream.cpp`, `src/prtfile/prt2_writer.cpp` | the chunk being filled, a concurrent queue of chunks, a flag, an exception; a pipeline of three filters; temporary files | `put_particle`, `close`, the destructor; the filters; `open` and `close` of the writer | a polling generator races with `close`; each filter and each call of the file system may fail; the destructor may run during an exception |
| **Half-edge meshes** `src/geometry/dcel.cpp`, `frantic/geometry/dcel*.hpp`, `dcel_construction.cpp` | an array of half-edges linked in cycles, one half-edge for each vertex and face, the face being added | `begin_face`, `add_face_vertex`, `end_face`, `collapse_edge`, `try_collapse_edge`, `flip_edge`, `cache_boundary_info`, `initialize`, `clear` | faces that share only a vertex arrive in any order and their fans must be linked to one cycle; a collapse removes loops and edges that references still point to |
| **Run length encoded level sets** `src/volumetrics/levelset/rle_index_spec*.cpp`, `rle_level_set.cpp`, `rle_level_set_operations.cpp` | runs of voxels with data, or of a region, for every scanline of a box; a cached adjacency; distances and channels by data index | dilation, trimming, filling, permutation of the axes, alignment, set operations and complement, trimming to the populated voxels, lookups of one voxel and of boxes | every call builds new runs from old ones with cases at the first and the last run, at gaps that close, at the edge of the box and for an inside exterior; one wrong count shifts the data of every later voxel |

How they interact:

- A sequence cache owns an LRU cache and a serializer. The LRU cache calls it back
  (`on_entry_erased`) from inside `insert` and `set_capacity`; the callback queues the evicted
  value and may block there. The serializer calls `serialize()` in its threads without its mutex.
- The parallel stream hands its list of streams to the producers. They share the position in the
  list under a mutex of their own, and meet the reader only in the two queues.
- The PRT2 stream runs the pipeline of the writer in a thread. They share a queue, a flag and an
  exception pointer; after the join the client alone finishes the file.
- `trimesh3_to_dcel` and `remove_coincident_geometry` build a half-edge mesh, collapse its edges and read its
  faces back. A level set owns its index spec, which caches an adjacency; every call on a level set
  builds another index spec, moves the data to it and swaps the two.

What makes each of them correct:

- *Serializer*: a reader sees the newest accepted value; a target is written by one thread at a
  time and only with ever newer values; the usage is the sum of what is held; producers are held
  back; every call returns; the destructor does not return before the writes under way have ended.
- *LRU cache*: the list and the map agree whenever user code runs; the least recently used
  entry goes first, and never the one being inserted; what does not fit stays alone.
- *Sequence cache*: `find` returns what was last stored, wherever it is by then; a frame that
  is called valid on disk has, or will have, its newest value there; `flush` covers all frames.
- *Producers and consumer*: no particle is lost or doubled; "no more" is said only at the end;
  the error that is rethrown is the first; stopping half way never hangs or leaks.
- *PRT2 stream*: a `close` that succeeds has written everything, in order; at every moment the
  old file is in place, or the new one is closed and there or beside it; and where nothing failed, that one is whole.
- *Half-edge mesh*: it is an oriented manifold whose references are valid; only a face that does not fit is
  refused; seen through its faces a collapse moves one vertex and a flip exchanges one diagonal.
- *Level set*: the index spec is consistent, data belong to it, every lookup finds what a walk over the
  scanline finds, and each call does to the field of voxels what it is documented to do.

### Not modelled

| component | reason |
|---|---|
| XMesh writer, XMesh sequence saver, mesh savers (`src/geometry/xmesh_*.cpp`, `mesh_interface_file_io.cpp`, `synchronizedqueue.hpp`) | not reached; the first to add, see section 8 |
| PRT1 stream (`prt_particle_ostream.hpp`) | not reached; its commit is that of `TempFile`, with more tests before it |
| PRT readers, particle stream adaptors, stream iterator | not reached; one protocol of counts, ends and maps |
| File sequences, compression and clean-up of files, progress loggers | not reached; little state |
| Pipelined file streams, invoke queue, child processes | for one platform only, or calls of the operating system |
| Channel maps, particle arrays, sort, range segmentation | functions without state |
| Triangle and polygon meshes | containers, and geometry on real numbers |
| E57 streams | one mutex around a library that is not in the repository |
| Reinitialization, interpolation and extrapolation of level sets, implicit surfaces, fluids, mathematics, graphics, rendering | real arithmetic: out of TLC's reach |
| Diagnostics, strings, locale, operating system | wrappers |

The repository has about 190,000 lines, most of them in the last rows but one. The models stand for some three
percent of them: what is left is for the most part code whose correctness is a matter of
numbers, of formats, or of one straight line of statements, where a model would only repeat the program.

## 2. Modules

| module | what it is | rests on |
|---|---|---|
| `WriteBehind` | abstract: what a write-behind queue promises about each target | |
| `BackgroundSerializer` | the serializer in detail; implements `WriteBehind` | |
| `LruCache` | the LRU cache | |
| `SequenceCache` | the sequence cache | an instance of `LruCache` |
| `BufferedProducerConsumer` | the producer threads and their consumer | |
| `TempFile` | the commit of a file through temporary files | |
| `Prt2Ostream` | the PRT2 stream and its pipeline | extends `TempFile` |
| `Halfedges` | the operations on half-edges as functions of the mesh | |
| `Dcel` | the half-edge mesh as its clients use it; implements `Surface` | extends `Halfedges` |
| `Surface` | abstract: a set of faces under collapses and flips | |
| `RleIndexSpec` | index specs, their builders, the lookup of a voxel and the consistency check, as functions | |
| `RleCsg`, `RleLookup` | set operations of two level sets; the queries for many voxels | extend `RleIndexSpec` |
| `RleLevelSet` | a client's calls on level sets | extends `RleCsg` |
| `RleClients` | what clients of a level set rely on: the queries, and that it implements `SparseField` | extends `RleLevelSet`, `RleLookup` |
| `SparseField` | abstract: a box of voxels with values and regions, and what each call may do to it | |
| `MC...` | values of the constants for TLC | the module named |
| `FoldLemmas` | lemmas: what `SumFunction` and `FlattenSeq` of the community modules return, and how often a value occurs in a sequence | TLAPS and its modules of theorems |
| `BackgroundSerializerProofs` | theorems about the serializer: types, the destructor, the usage; then keys, order and the refinement | `BackgroundSerializer`, `FoldLemmas` |
| `BufferedProducerConsumerProofs` | theorems about the threads: flags, exceptions, the end; then particles and buffers | the module named, `FoldLemmas` |
| `DcelProofs` | theorems about meshes: while faces are added, and the types after every edit | `Dcel`, `FoldLemmas` |
| `LruCacheProofs`, `Prt2OstreamProofs` | theorems | the module named, `FoldLemmas` |
| `RleProofs` | theorems about level sets: scanlines, index specs and their builders, then the calls | `RleLevelSet`, TLAPS and its modules of theorems |
| `SequenceCacheProofs` | theorems; the memory cache's invariant is that of `LruCacheProofs`, taken as an instance | `SequenceCache`, `LruCacheProofs`, TLAPS |

Definitions carry the names of the functions they stand for. Where a module holds a definition
commented *Mutant*, that is a plausible wrong version of the definition after it: exchanging the
two makes a property of the module fail, which shows that the property depends on that code.

### How states and actions correspond to the code

**BackgroundSerializer.** An action is the code between taking the mutex and giving it back, by
unlocking or by waiting. Only where `m_wantsExit`, which the destructor writes without the mutex,
is read does a worker take finer steps: in the places "test" and "loop" it keeps the mutex. `m_pendingValues` is
`pending`, the oldest item first. The value of an item is the rank of its acceptance, so "newer" is "greater". A call
that waits leaves its locals in `req` and its place in `cpc`. `blocked` is the wait set of `m_avail`;
that of `m_next` is the workers in "asleep". `notify_one` wakes one sleeper of any choice.
Interruption wakes every sleeper, as `boost::thread` does. `KeepsPromise` maps `pending`,
the current items and the targets to `WriteBehind`, whose `latest` is what `find_pending` would return, or else what is on disk.

**LruCache.** `insert` and `set_capacity` take one action per turn of their eviction loop, since each
turn calls the deallocator, which may throw (`EvictThrows`). `find` and `clear` are one action each. `usageTracker` is the list, `older` an
independent history of the order of use, against which eviction is judged. A failing `assert` is
the state `broken`.

**SequenceCache.** `Mem` is the LRU cache. Of the serializer only what one client can see is kept: the queue,
what each worker is writing and the rules by which a call blocks or is refused. A loop that calls
the serializer is one action per turn (`task`), and the workers may move between the turns; `find` asks the
serializer in one step and reads the file in another.
A call that blocks is an action whose guard is the end of the wait. Where several workers write one file a blocked
`enqueue` waits for the first of them only, and `waitsFor` is that worker. Workers are added and stopped at any time:
`AddThreads` is one step, and stopping interrupts and joins one worker after the other while the rest go on. `latest`, `lost` and `doubled` are
history: what the user stored, what `cancel_flush` dropped with no copy left, and the files that were queued twice, or queued
while they were being written, when workers were added. A file leaves `doubled` when what was stored last is queued where nothing can be
written after it, or when the queue is emptied and at most one worker writes it.

**BufferedProducerConsumer.** An action is the code between two accesses to shared data. `mode`
chooses the consumer: `run()`, or a reader that polls as `get_particles` does. A particle is a pair of
its stream and its rank. A stream may deliver fewer particles than it is asked for.

**Prt2Ostream and TempFile.** The generator's test of the queue and its test of the flag are two steps.
`flight` is what is between the generator and the writer; its length is bounded by the number
of tokens. Every call of the file system in `prt2_writer::close` is a step that may
fail, also where the temporary files are discarded. The program may stop at any step, since the invariants about the disk hold in every
state. `unwinding` says that the stream is destroyed by an exception.

**Halfedges and Dcel.** `mesh` holds the three arrays of the class; an index is a half-edge, `INVALID` the
invalid handle, and a half-edge removed keeps its place in the array. A step that dereferences an invalid handle, or throws half way,
leaves `fault` set. Adding a face is several steps, as in the code; a collapse, a flip and the numbering of the holes are one
each. `faces` is what a client reads through the cycles of the faces, and `pinched` the history of faces that closed a fan next to another (section 6). `KeepsPromise` maps the
mesh to `Surface`: a face appears at `end_face` or not at all.

**RleIndexSpec, RleCsg, RleLookup, RleLevelSet and RleClients.** A scanline is a sequence of runs `<<x, code>>` with
an end, a code of at least 0 being the first data index of the run. The builders follow the code run by run; a call on a level set is one step. Distances are whole numbers that tell the voxels apart, and
the channel is the one named "Populated", whose values are 0 and 1. `call` is the call that led to a state;
`field` is what a client sees of each level set, and what `SparseField` is about. It says for each voxel what value or region
the call must give it, without runs and data indices.

## 3. Runs

For a run that ends with a violation the number of states is that at which TLC finds it.

| run | instance | distinct states | what it shows |
|---|---|---|---|
| `bs_single` | 1 worker, 2 clients, 2 keys, sizes 1 and 2, capacity 2, 4 calls, spurious wake-ups | 205,109 | the usage, the limit, the order and the promise to readers survive every interleaving of the calls |
| `bs_multi` | 1 client, up to 2 workers, 2 keys, 4 calls, exceptions, spurious wake-ups, the destructor | 723,211 | one writer for a key; the usage is right also when workers die or are stopped; readers see the newest value; the destructor cuts no write off |
| `bs_live` | 2 clients, up to 2 workers, exceptions, fair threads | 106,409 | every call returns, every item leaves, idle means idle |
| `bs_dtor_returns` | 1 client, 1 worker | 87 | violation, see section 6 |
| `lc_cache` | 4 keys, sizes 1 and 2, capacities 0, 1 and 3 | 133,518 | the list, the map and the sizes agree; the least recently used goes first |
| `sc_cache` | 2 frames, 1 path, 2 values, 1 or 2 workers added and stopped at any time, capacities 1 and 2, a queue of 1 or 2 | 1,895,518 | `find` returns the value last stored; the set of valid frames is truthful; `flush` covers all. The first two except the files in `doubled` and `lost` |
| `pc_run` | 2 workers, streams of 5, 2 and 1 particles, buffers of 2, both consumers, exceptions | 595,182 | nothing is lost, doubled or reordered in a stream; the first error is rethrown; the end is always reached, and means all |
| `p2_write` | 6 particles, chunks of 2, 3 tokens, every failure | 71,643 | success means written; the old file is there, or the new one there or beside it, and whole but for three named cases; `close` returns |
| `p2_end` | 3 particles, chunks of 2, 2 tokens | 2,639 | violation: a chunk behind the end of the filechunk |
| `dc_mesh` | 4 vertices, up to 4 triangles in any order and orientation, edits after every face | 214,646 | references and cycles stay right, triangles stay triangles; the mesh implements a surface |
| `dc_fans` | 7 vertices, fans that meet in one vertex and faces that join them, a cone, two fans of which one closes, a pentagon that a collapse folds | 68,475 | fans become one cycle in every order; only misfits are refused; no collapse fails half way; the mesh implements a surface |
| `rl_calls` | 1 level set under up to 3 calls, another to align and combine it with, 5 index specs to begin with | 25,702 | index specs stay consistent; every lookup and query is right; each call does to the field what it should |

Bounds, and why they are enough:

- *Serializer*: a hazard needs an item in the queue, one with a worker and one about to be
  added, and two callers that wait: two clients, two workers and four calls give all of it.
  Two sizes with capacity 2 make an item that fits, one that does not and one that is tolerated because the queue is empty. `MaxItems` bounds
  calls, not the length of the queue. `Rest` allows stuttering only where nobody waits, so deadlock is checked in
  the three passing runs.
- *LRU cache*: four keys and capacity 3 make an eviction of one, of several and of none; capacity 0 makes the entry that
  is larger than the whole cache. The state space is finite without a bound on the number of calls.
- *Sequence cache*: two frames show every interference between a frame and another one in
  its way. Two workers that are added and stopped at any time make a file that is held twice, two writers of it, and a call that waits for one of them;
  a third worker was checked with one frame and two paths. `SmallTogether` makes the three sizes grow one after the other: the queue, the workers, the memory cache. `MaxQueue` bounds only what `flush_async`, which lifts the limit, may add. Values are
  symmetric: no property mentions one of them and no `CHOOSE` picks one.
- *Producers*: a stream of 5 does not fit in two buffers; three streams for two workers force
  a worker to change streams with a half-filled buffer. The two buffers of a worker are its minimum.
- *PRT2*: three full chunks fill three tokens; the last chunk may be whole, partial or empty.
- *Half-edge meshes*: on four vertices the triangles can close a tetrahedron, a pillow of two and every fan
  and strip of up to four, in every order, with edits in between (`BuildFirst = FALSE`). Fans that meet in a vertex need seven
  vertices, so there the faces are given and only their order is free. `MaxHalfedges` bounds the half-edges ever created.
  The vertices of `dc_mesh` are symmetric.
- *Level sets*: the index specs to begin with have runs of one voxel and of several, gaps of one and of more, empty scanlines between others, regions of three
  kinds, and an inside exterior. Three calls let the result of a call be the input of another and that of a query.
  `MaxVolume` cuts off dilations of boxes that are large already, `MaxPopulated` the number of markings that are tried. The queries are checked in states
  from which further calls may start. The view leaves out `call`: the step property speaks of `call'` only, so that no step is lost by it.

Deadlock is not checked where the model may stop for good: `lc_cache`, where an entry that lost its list position after a throw ends
the history in a failed assertion; `dc_mesh`, `dc_fans` and `rl_calls`, where the calls are used up; and `bs_dtor_returns`, whose violation
is a thread that waits for ever.

### Fairness

Only what the scheduler and the callee guarantee is assumed. Each worker thread, each call under way, and
the destructor under way is weakly fair: if it can go on for ever, it does. Nobody is made to
call anything. `serialize()`, `get_particles()` and the compressors return or throw, which is what the code
needs to make progress at all. `Serialize` and the like allow both outcomes, and fairness never
chooses between them. Spurious wake-ups are off in liveness runs: they could only hide a lost
notification.

## 4. Proofs

Every theorem holds for all constants that satisfy the named assumption of its module
(`ConstantsAssumption`, `LruAssumption`, `SequenceAssumption`, `ProducerAssumption`, `Prt2Assumption`, `DcelAssumption`, `RleLevelSetAssumption`), and rests on no unproved statement.

| theorem | argument |
|---|---|
| `TypeCorrect` (`BackgroundSerializerProofs`) | `TypeInv` adds to `TypeOK` that the request of a waiting client is one, so that going on with it stays in type |
| `DestructorFinishes` (same) | no assumption on the use. `AtRest` follows a worker from place to place: one that waits has no item, and one that ended with an item has set the error before |
| `UsageIsHeld` (same) | `UsagePlaced`: the usage is the sum of the sizes that are queued or held. Every step has one of a few effects on that sum (`UsageEffect`): it puts an item in, takes one from the queue into a hand, gives one back, drops the last, or leaves all as it is. Assumes `ResizesIdle`: the queue is resized when it is idle, or there is one worker |
| `ProducersKeptBack` (same) | from the last: a push looks at the limit in the same critical section. Assumes `ResizesIdle`, `FixedCapacity` and `NothingEnlarged` |
| `KeysHeldOnce`, `NoTwoWriters` (same) | one client that resizes an idle queue. `KeyHeldOnce` is not inductive: a call that comes out of a wait pushes its key without looking again. `KeyAwaited` and `RoomAwaited` say what stays true meanwhile: nobody else could have added the key. `NoThreadNoItem` keeps workers that do not run from holding anything. The assumption of one client is needed, see section 6 |
| `WritesInOrder` (same) | one worker, any clients. `Ordered`: queue, workers and targets hold ever older items. Two items are `Related` if their order matters: all of them with one worker, those of one target otherwise |
| `PromiseKept` (same) | the refinement of `WriteBehind`, for one worker, or for one client that resizes an idle queue. Every step has one of seven effects on the items (`StepEffect`). What a reader finds is the newest item on its way to the target (`LatestIsNewest`, by `Ordered` and by the fact that a target has one worker); comparing what is on its way before and after an effect gives the step of `WriteBehind`. The newest of a finite set is found by well-founded induction in the form for sets, `WFMin` |
| `CacheConsistent` (`LruCacheProofs`) | `CacheInv`, also after a deallocator has thrown: the list has no key twice and holds the keys whose entry has a position (`Linked`), the size is the sum over the entries (`SizeAccounts`), and the cache fits or its entry is alone. With `LruInv`, which holds until a throw, it follows that the loop never finds the list empty while the size is too large: no assertion of the class fails |
| `UsageListAgrees`, `LeastRecentEvicted` (same) | `LruInv`: until a throw the list holds exactly the entries, in the order `older`, which is irreflexive: hence no key is in the list twice, and taking the position of a key out takes out the key. Eviction in order follows, since the key being inserted is linked only after the loop |
| `LatestFound`, `MarksAreCurrent`, `FlushIsComplete`, `FilesWrittenAlone`, `SequenceConsistent` (`SequenceCacheProofs`) | The memory cache is an instance, so its theorems say that no assertion fails in it (a failed one would leave anything). `CacheInv`: with several workers a file that is not in `doubled` is queued or written once, with one they are written in the order of the queue (`OncePerFile`); what is cached is what was stored last (`CachedLatest`); a frame that is not cached is marked (`Covered`); a marked frame's last value is on its way (`ValidLatest`), except for the key of an `insert()` that has not returned, which the eviction loop never takes (`LruInv`, instantiated). `Holding` says what `find_pending` and the file give, by the last position in the queue; a worker that takes or finishes an item does not change it. `TurnInv` is about calls with several turns: nothing is pending of a file that `find` is about to read (`ReadInv`), a worker that was stopped holds nothing (`ShrinkInv`), and only a call for a file in `doubled` waits for one writer of several (`WaitInv`). `FlushInv` adds that what `flush()` left behind is marked. The statements except the files in `doubled`, and the contents of frames in `lost`; both exceptions are needed (section 6) |
| `LimitComesBack` (same) | `LimitInv`: the limit that `flush_async()` saved is a real one, and no other call sees the queue without a limit |
| `OneReader`, `FirstCause` (`BufferedProducerConsumerProofs`) | `PCInv`. *Pins*: every stream in use lies before the shared position. *Faults*: between setting `errorOccurred` and storing the exception exactly one worker is in the way, and what it caught is an interruption only if the consumer caused it (`Excused`). *Consumer*: `run()` asks for a stop only because of an error, its own exception, or when the counter is 0, which means that all workers have left (`RunningCount`, `ZeroMeansDone`) |
| `EverythingDelivered` (same) | `EndInv`, on top of `PCInv`. *Located*: a particle that was read is received, in a queue, in a hand, or the buffers are being dropped after an error or a stop. *Drained*: a stream that is behind the shared position, and in nobody's hands, has given all. *Left*: a worker leaves without a cause only with empty hands. So when the count of workers and the full queue are at zero, every particle was received |
| `ParticlesConserved` (same) | `Flow`, on top of both. *Counted*: how often a particle occurs is the sum over the four kinds of places, each step moves whole buffers between two of them, and reading adds the next particle of one stream. *InOrder*: a worker reads a stream from its beginning to its end and nobody else has anything of it (`Apart`, `Fresh`), so what was given, what is in the consumer's hand, and the full queue form one `Line` that is ordered within each stream and comes before what a worker still holds. *TwoEach*: the buffers in use, with two for each worker that has yet to start, are at most two per worker |
| `OldOrNew`, `NeverHalf`, `UnderException` (`Prt2OstreamProofs`) | `FileInv` gives for each step of `close()` where the new file must be. Each step puts it at one more place before it takes it from another; when an exception is in flight only the steps that discard the temporary files are reachable. For what the new file holds `OldOrNew` rests on the invariant of `ReturnMeansWritten`: at the time the old file goes, everything was written without a failure (`AllWritten`), and no later step writes to a file that has replaced the target (`Replaced`), unless one of the exceptions that `OldOrNewExists` names holds |
| `NothingLost`, `ReturnMeansWritten` (same) | *AllInOrder*: file, pipeline, queue and buffer, one behind the other, are what was put. *Threads*: after the end was asked for and seen, a queue that is found empty stays empty. *Filechunk*: the count and the end are written once, and only then is a failed chunk hidden. *Clients*, *InPlace*: how far `close()` is and where the file then is. A `close()` that returns has passed all of them without an exception, so the two ends meet |
| `FacesMakeManifold`, `FacesKeepReferences` (`DcelProofs`) | for every mesh that is built face by face (`~edited`). `Built`: between two faces the mesh is `Settled`; while a face is added it is a `Chain`, whose half-edges of the new face lie one behind the other and whose open end is the one `end_face` closes. What makes the cycles tractable is that next and previous are inverse to each other, so that each step cuts two places of the order at a vertex and sews them crosswise. A face that cuts a fan off without being able to link it to the others sets `pinched`, which is the exception that `Manifold` makes; linking fans behind one another (`perform_insertion_fixup`) joins two cycles to one |
| `TypeCorrect` (same) | every step, collapses, flips and faults included. `TypeInv`: half-edges come in pairs, a mesh that has one has a face 0, nothing is under construction after `clear()`. The first two are needed because `remove_loop` sets a face that converts to 0 and because walks turn to the twin. Each edit leaves arrays of the same types (`Like`, or `Wider` if it adds a pair), whatever it finds on its way |
| `InvariantHolds`, `ConsistentHolds`, `LookupHolds` (`RleProofs`) | for any files, arguments and number of calls, with `Reuse = FALSE`. `IInv`: no check has thrown, every index spec is `Sound`, and distances, channel and adjacency have the size of the index spec. `Consistent` alone is not inductive: `check_consistency` returns early for an empty box, and the adjacency must fit also before it is used. `Sound` asks for the scanlines in any case: each one `Fits` its box (its runs grow and no run with data follows another), and they are numbered on from one another. That is the same as what `check_consistency` computes (`SoundIsIndex`). One lemma for each call |
| `LookupIsWalk` (same) | runs that grow hold a voxel at most once, so bisecting keeps the run between its two ends, by induction over their distance |
| `TrimSound`, `PermutationSound`, `PopulatedSound`, `DilationSound`, `CsgSound` (same), and lemmas for the other builders | Numbering lines that fit makes them a sound index spec (`SoundFromLines`), so each builder owes only its lines. Where neighbours of equal code are joined, the codes alternate (`CoalescedIs`). A dilation goes gap by gap: what is made so far ends at a number F, grows, and is counted (`IsPart`), and each gap puts undefined runs and one run with data behind it (`PassGapsIs`). The result of a set operation is cut at the breaks of both operands, and outside the box of the result one code holds, that of the exterior (`Inside1`), for each way in which the box is cut to an operand |

Four of these need a hypothesis about the use, and each is needed. A thread that `set_num_threads` ends while the queue is at work takes its
item along, and the size of the item stays in the usage: `ResizesIdle`. The note at `background_serializer.hpp:81` warns of
lowering the number, and the tests set it before the first item. A limit that is lowered under a full queue is exceeded at
once: `FixedCapacity`. With several workers `enqueue` replaces a queued item by a larger one "regardless
of capacity" (line 389): `NothingEnlarged`. One client: section 6. `bs_single` and `bs_multi` stay within these uses.

The folds of the community modules are recursive functions. That such a function exists and obeys its
equation is proved once in `FoldLemmas`, by induction over the size of the domain with the set of good
sizes as a witness; from this follow the lemmas about sums, concatenation and the number of occurrences.

The builders of level sets are recursive functions over runs, scanlines and voxels, and the same is done for them in `RleProofs`
(`StepsExist`, `BuiltUp`): a function with one value for each number of a range, each from the one before. The files of
`RleLevelSetAssumption` hold consistent index specs with exterior -1 or -2, the two that the code makes. An index spec of an empty box
has as many scanlines there as its sizes along Y and Z say; `check_consistency` would also accept one that has none although those
sizes are not 0, which no function builds. Exterior codes below -2: section 6.

Where an invariant was strengthened for a proof, TLC checked the stronger one on an instance first. The invariant of `RleProofs` is the
exception: `Sound` quantifies over all ways to number the runs, which TLC cannot enumerate. What TLC checks of it is `Consistent`
(run `RL_calls`), which `SoundIsIndex` shows to say the same of an index spec whose box is not empty.

Only model-checked:

- liveness, everything under fairness and `ENABLED`: not within the prover's means;
- the properties of `Dcel` other than its types after a collapse or a flip, `FailsOnlyForMisfits`, and the refinement of `Surface`. A collapse joins the
  cycles of two vertices and removes edges whose faces have shrunk to two half-edges; which of these steps keep the cycles
  apart depends on `check_manifold_collapse`, and is the next thing to prove (section 8);
- `QueriesAgree`, the queries of level sets for many voxels, and the refinement of `SparseField`. The theorems say that what a call makes is
  consistent, not which voxels it holds. For some calls the lemmas give that too (`CsgSound` tells the code of the result at every
  voxel), but for a dilation, a permutation and the flood fill it is a second induction beside the one over the runs, which has not been done;
- `AdjacencyIsCurrent` and `ChannelsFit` with `Reuse = TRUE`, where they fail (section 6).

## 5. Hazards

`PROJECT.json` lists, with their lines, the places where this code can go wrong in a way that a test
would hardly reach, and the properties that would show it. Notes say what the properties of a hazard do not cover.

Four more places have no property, and are left out of that list. The thread that `invoke_on_idle`
detaches (`background_serializer.hpp:542`) may outlive the object, and no code says who must wait. `set_channel_map()` and `close()`
during reading (`concatenated_parallel_particle_istream.hpp:165`) are not synchronized at all. `hardware_concurrency() - 1u` with a result of 0 (`buffered_producer_consumer.hpp:174`) is an
expression. The deallocator of `lru_cache` is called with a default constructed key for a replaced
value, which fails an assertion of `sequence_cache` in debug builds (`sequence_cache.hpp:617`); the model leaves that
argument out.

## 6. Deviations found

Two are shown by a run that TLC ends with a counterexample.

- `bs_dtor_returns` (`background_serializer.hpp:256`): the destructor sets its flag and notifies without the mutex. Both can fall
  between a worker's test and its wait; the join never returns.
- `p2_end` (`prt2_particle_ostream.cpp:66`): the generator finds the queue empty, the client queues the last chunk and asks for the
  end, and the generator ends the filechunk before that chunk.

The others are built into the models, which do what the code does. Where a property is named, TLC finds it violated on a suitable
instance, so no passing run checks it there.

*Serializer*

- `background_serializer.hpp:400`: two clients that waited for the worker of a key both push it. The comment at 381
  says that this must not happen, because two workers then write one file in parallel (`KeyHeldOnce` with two clients).
- `background_serializer.hpp:323`: `clear()` makes room and does not notify those who wait for it (`CallsReturn` with "clear" among the calls).
- The items that are queued when the destructor is called are dropped, although
  `background_serializer.hpp:51` says that they are written.

*Sequence cache*

- `background_serializer.hpp:337`: one worker may have a key in its queue more than once, or in the queue and in its hands. `set_num_threads()` adds
  workers whatever is queued (as does `sequence_cache.hpp:330`), and two of them then write one file, which the comments at 382 and
  434 call bad; the older value can be written last, and `find()` then reads it. It takes one more `insert()` of a frame while its value is being written
  (`NeverParallel`). An `enqueue()` of such a file waits for one of its writers only (line 400). `FindsLatest`, `ValidFramesAreCurrent` and `NoParallelFiles`
  except these files, until they are in order again.
- `sequence_cache.hpp:463`: `cancel_flush()` also drops frames that were queued because they
  were evicted. Their only copy is gone, and `find()` reads a file that was never written, or fails the assertion at 542
  (`MissingFramesAreOnDisk`).

*Producers and consumer*

- `get_particles()` reports the end of the stream when a producer failed: the exception is stored and never rethrown
  to a reader (`EndMeansAll` speaks of a reader only while no error occurred).

*PRT2 stream*

- When `close()` of the PRT2 stream throws because of the writer thread, the file stays open. The destructor of the
  writer, once the exception was caught, sees none in flight and puts the incomplete file in place of the target, although the comment at
  `prt2_writer.cpp:308` says "Only finish the file if there is no thrown exception" (`FinishedWithoutException`).
- The target is removed before the temporary file is renamed, so for a moment there is no target, although
  the comment at `prt2_writer.cpp:322` calls the step atomic. `OldOrNewExists` asks only that the new file is then closed and beside it.
- A failing flush is logged, and the file, complete or not, then replaces the target (`prt2_writer.cpp:311`). `OldOrNewExists` excepts it, and names this case,
  the first one of this list and that of `p2_end`: in all others a file that took the place of the old one is whole.

*Half-edge meshes* (`src/geometry/dcel.cpp`)

- `cache_boundary_info` throws after a boundary edge was collapsed (`HolesCanBeNumbered`).
- The constructor with two counts, and `initialize`, do not set `m_isAddingFace` and `m_isTriangleMesh`; after `end_face` refused a face of less than
  three vertices the next `begin_face` throws.
- The numbering of holes is kept after edits, and a face next to a hole that is numbered is refused as not manifold.
- `remove_loop` takes the invalid handle for a face, which converts to face 0.
- Flipping an edge of two triangles with the same three vertices makes a loop of one edge.
- `is_boundary_face` compares with `>` where the numbers of holes begin at the bound.
- A face that closes a fan next to another fan at a vertex is accepted, and cuts the closed fan off (line 485): `find_vertex_halfedge` then sees one of the two, a collapse moves
  only one, and the vertex loses its half-edge though the other points to it. The test `ThrowOnSharedApexNonManifold`
  (`UnitTests/test_geometry/test_dcel.cpp:396`) expects such a mesh to be refused; its mesh also has a face twice. The history `pinched` is set by such a face, and the properties
  speak of meshes without one: with `Ready` for `Regular`, TLC finds `OneFanPerVertex` violated in `dc_fans`.

*Level sets* (`src/volumetrics/levelset/`)

- `rle_index_spec.hpp:125` says that the cached adjacency "gets reset to NULL by any function which modifies the rle_index_spec". Six
  functions do not: `build_from_voxel_array`, `build_from_random`, `set_exterior_region_code`, `combine_for_blend`, `csg_operation` and
  `csg_complement`; `rle_level_set::set` rebuilds a live index that way (`rle_level_set.cpp:1228`). With `Reuse = FALSE` the
  model makes such calls only on level sets without a cached adjacency; with `TRUE`, `AdjacencyIsCurrent` fails.
- `csg_operation` into a level set that has voxels sizes a new channel by the old number of voxels and then appends
  (`rle_level_set_operations.cpp:181`), although "this function overwrites the current rle level set" (`rle_level_set.hpp:1132`).
  With `Reuse = TRUE`, three level sets and `ReuseCalls`, TLC finds `ChannelsFit` violated after two calls.
- `csg_subtract` from an empty operand whose exterior is inside returns the complement of the other operand with its channels, against
  `rle_level_set.hpp:1160`. `csg_complement` makes one region of all inside regions.
- `linear_interpolate` blends channels with the data size of the result instead of that of the copies (about line 806).
- `fill_2x2x2_data_index_box` finds the dummy run of an empty scanline at x = 0, and so gives the voxel at -1 the region of that run instead of the exterior
  (`rle_index_spec.cpp:1102`). The tests ask it only of an empty index spec. `QueriesAgree` excepts that voxel.
- In `get_unique_region_code` the test at `rle_index_spec.cpp:1429` can never hold, so a box that reaches behind the
  last run can be said to be of one region; a box wholly behind a last run with data gives 0. `QueriesAgree` checks only that a box said to be of one
  region holds no data.
- Any code below -1 is inside (`rle_index_spec.hpp:517`), and `set_exterior_region_code` (line 403) takes any negative one. A union of an operand with exterior -3
  gets the exterior -2 (`rle_level_set_operations.cpp:137`) but keeps -3 for the runs in which that operand dominates, so runs are written outside of the box
  that was cut for the exterior, and the index spec is inconsistent. Found when `CsgSound` could not be proved for such operands; the code itself
  makes only -1 and -2, and the models keep to these.
- `build_from_x_dilation` checks its input where it means its result (line 808); the dilation of a flat box makes a box that is all exterior.
- `trim_to_populated` makes the channel again that its comment says is not kept (`rle_level_set.cpp:666`).

## 7. What the models leave out

- *Serializer*: what an item holds, and statistics. `boost::thread` and the condition variables are external.
- *Sequence cache*: exceptions of `serialize()`, which the class forbids, and with them an interruption inside of it; a second client, which the class does not allow.
  When two workers write one file at the same time the model leaves in it what the last one wrote, where a real file could hold a mixture; every
  property excepts such a file.
- *Producers*: `reset()` for a second use, `run( false )` and the polling `steal_finished_item( false )`, which nothing in
  the repository calls; progress counts. The loads and stores of `stopRequested` and `errorOccurred` are
  relaxed in the code (`buffered_producer_consumer.hpp:98` and others); the models assume sequential consistency all the same, so what a flag seen
  before the data it stands for could do is not covered.
- *PRT2*: metadata written before the particles, several particle streams in one file, position offsets,
  the bytes of the file. A failure of the medium after a successful flush is not modelled.
- *Half-edge meshes*: swaps and copies, and the public setters of single references, which nothing
  outside `dcel.cpp` calls on a mesh in use; collapses without the check for a manifold.
- *Level sets*: real distances (only which of two is less, and the sign, matter to what is modelled), other channels than the
  one named, level sets made from an empty map, `build_from_random`, the legacy and file formats, reinitialization, velocity fields.
  The walk of two pointers in `fill_data_index_map` is modelled by the intervals that meet, and that of `copy_data_channels` by lookups; so are the sweeps along X, Y and Z in
  `rle_index_spec_adjacency.cpp`, which compute the adjacency: `Neighbours` looks up the six voxels next to each voxel.

## 8. What would come next

1. `XmeshWriter`: channels written by several threads, registered only after their file is
   written; the destructor removes what is registered. Properties: the main file names only files that were written whole;
   a mesh that was not closed leaves no file. Then the savers above it.
2. `PrtOstream` on `TempFile`: the count in the header, the limit of expected particles, the tests before the commit.
3. A protocol of particle input streams: the concatenating, the fractional and the duplicating stream and the iterator against one
   abstract stream.
4. Proofs: the references and the cycles of `Halfedges` under a collapse and a flip (`Consistent` and `Manifold` of
   `Dcel` when `edited`); for level sets the voxels of a dilation and of a permutation, and from them the refinement of `SparseField`.
