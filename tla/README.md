# A verification of BML's distributed inference

BML is a Rust workspace that compiles language models to a symbolic operation
basis and runs them locally or over worker processes. This directory holds TLA+
models of the parts whose correctness rests on the *order* of things (sockets
that break, calls that time out, threads that meet at one atomic variable,
processes that die between two writes) and of the algorithms these parts run
(interpreters, containers, tokenizer, transformer engines). Paths below are
relative to `src/crates/`. Every module is translated from the Rust source; `PROJECT.json` maps each definition to the lines it stands for.

Contents: 1 the system, 2 the modules, 3 the runs, 4 the proofs, 5 limits and
what is not modelled, 6 plan.

## 1. The system

### Components

| component | state | operations | interacts with |
|---|---|---|---|
| **Two-phase layer transport** (`runtime/src/symbolic_transport.rs`, `runtime/src/symbolic_session.rs`, `compiler/src/kv_cache.rs`) | server: position, pending row, KV rows of a session; client: position, pending flag, health; one socket | OPEN, PREPARE, COMMIT, ABORT, RESET, CLOSE | one frame at a time over TCP with read and write timeouts |
| **Symbolic pipeline** (`SymbolicPipeline` in the same file) | clients of all layer ranges, position, validity | `forward` (prepare all, project, commit all), `reset`, `close` | calls the transport range by range |
| **Bounded queue** (`queue/src/array_queue.rs`) | head, tail, a stamp and a value per slot, all atomics | `push`, `force_push`, `pop`, `push_mut`, `pop_mut` | shared by threads of the worker |
| **Worker daemon and `NodeHandle`** (`worker/src/main.rs`, `runtime/src/net.rs`, `queue.rs`) | loaded fragment, shared queue of pending work, one thread per connection | enqueue, steal, health, execute fragment, graph, vector, batch | coordinators over TCP, by default without timeouts |
| **Append-only results** (`runtime/src/append_only.rs`, `graph_rpc.rs`) | reserved count, bits and ready flag per slot | `append`, `append_record`, `get`, `GraphResult::publish` | threads of one execution |
| **Remote layer pipeline** (`inference/src/remote.rs`, `bml-layer-worker`) | one client and one session per stage, position; session limit of a worker | connect, decode, prefill, close | one-phase protocol: the worker commits when it answers |
| **HTTP API and batching** (`api/src/main.rs`, `runtime/src/scheduler/requests.rs`) | bounded channel, pending counter, one scheduler thread, an event channel per stream | completions (plain, streamed), batch, cancel | drives the remote pipeline or a local model |
| **Weight files** (`model-weights/src/writer.rs`, `reader.rs`, `convert.rs`) | in-memory catalogue, spool and final temporary file, destination | create, begin_tensor, write_block, end_tensor, abort, finish; open, verify_all | file system, other writers and programs |
| **Graph execution** (`runtime/src/graph.rs`, `runtime.rs`, `scheduler.rs`, `operation_schedule.rs`, `hot_loop.rs`, `buffer.rs`, `compiler/src/rpn.rs`) | program, stacks, the shared result buffer and its partitions | preflight, sequential, checked and reference evaluation, `execute_with_cores`, `WaveScheduler::execute` | append-only results, containers |
| **Containers** (`compiler/src/fragment.rs`, `graph_directory.rs`, `distributed.rs`, `gguf_compiler.rs`, `runtime/src/shm.rs`, `worker/src/main.rs`) | files of a graph, shared-memory files of a session, payloads | save, load, cut into fragments and columns, clean up | whatever executes the graph |
| **Deployment and artifacts** (`cli/src/deployment.rs`, `compiler/src/symbolic_artifact.rs`, `causal_artifact.rs`, `symbolic_weight_shard.rs`, `inference/src/resources.rs`) | source, artifact directory, shards, plan, worker directories, resource files | compile, load, export, prepare, deploy, open a worker and a pipeline, publish a resource | the two-phase transport starts where it ends |
| **Local engines** (`inference/src/model.rs`, `driver.rs`, `tokenizer.rs`, `gguf/src/`, `compiler/src/gguf_compiler.rs`, `kv_cache.rs`, `runtime/src/symbolic_causal.rs`, `cli/src/main.rs`) | model, KV cache, position, generated tokens | open, encode, prefill, decode, reset, generate | artifacts, API, layer workers |
| Work stealing (`runtime/src/queue.rs`) | several unbounded queues | steal_for | nothing but its own tests calls it |
| Symbolic numbers, hash-consing, generators of operations, tensors, tooling | sequential | | |

### What is hard in this code

* **Ambiguity after a lost answer.** A COMMIT or a Forward may have been executed
  although its answer never came. The client can only stop trusting the
  connection; the question is how far the two sides can drift apart, and whether
  anything is ever built on a drifted session.
* **Partial failure over several ranges.** A token is confirmed range by range. A
  failure in the middle leaves ranges with different prefixes.
* **Late answers.** A read timeout leaves an answer under way. Whoever reads the
  socket next reads that answer.
* **Single atomic accesses.** The queue and the result storage are lock-free; their
  correctness is a matter of which load and which store come first, and of
  position counters that wrap around.
* **One scheduler thread.** The HTTP server runs every request on one thread; a
  worker that does not answer or a reader that does not read holds everybody.
* **Counters released on many paths.** The number of pending requests is lowered
  by refusal, completion, cancellation and unwinding, on different threads.
* **Publication of files.** A weight file must appear complete or not at all, and
  what `finish` reports must be true, with crashes, other writers, stale
  temporary names and failing removals.
* **Checked, then used.** Artifacts, shards and plans are verified by hash and used
  later, by other processes, while somebody may replace them.
* **Static promises.** The preflight promises steps and stack depth, the access
  analysis promises that fragments do not touch the same slot, admission promises
  that a model can be run: each must hold of what the interpreters really do.
* **In-place containers.** Graphs are written over earlier ones, file by file,
  without a rename.

`PROJECT.json` lists these, and the others, under `hazards`, each at the line
where it bites and with the properties that cover it.

## 2. The modules

### SymbolicLayer: one layer range, its client and its session

State: `client[i]` (position, prepared, the call it is in, health), `req`/`resp` (the
frames under way on the socket) and `session[i]` (open, position, prepared, KV rows). Hidden vectors are abstracted to the token they were computed from.
The OPEN handshake is the initial state: an opened, authenticated session at
position 0. Actions: `Call*` send a request after the client's own checks; `Serve`
is one turn of `serve_connection`, with every outcome of the session's handler (done,
rejected, failed half-way); `Answered` applies an answer to the client;
`ExchangeFails` is a timeout or a broken connection, which ends the client's use
of the socket (`exchange` marks it invalid); `ServerEnds` is the death of the
connection loop or of its process.

### SymbolicPipeline and TokenLog: the coordinator

Extends SymbolicLayer with the coordinator's program counter. `forward` is split
where its code calls out: admission and embedding, one PREPARE per range, the
output head, one COMMIT per range. Every `?` is a disjunct that invalidates the
pipeline. `TokenLog` is what the caller is promised: an operation either appends
its token (or empties the log) and succeeds, or fails, after which the log is no
longer usable. `ImplementsTokenLog` is the refinement.

### ArrayQueue and BoundedQueue

One action per atomic access of `push`, `force_push` and `pop` (load, inspect the
stamp, compare-exchange, write the value, publish the stamp), with positions modulo
`Word = Laps * OneLap`, so that wrap-around happens in every run. `BoundedQueue` is a
plain bounded FIFO whose operations take effect in one step between call and return;
`Linearizable` is the refinement, with `Contents` read off the slots and the
linearization point of a pop that finds nothing, or a push that finds the queue full,
taken from the values the thread has read (`Observed`).

### WorkerNode

The daemon's threads, the shared pending queue and the callers' handles. A piece
of work is the ticket of the call that submitted it, so losing or duplicating it is visible.
Queue operations are atomic here: `ArrayQueue` is what justifies that. `Timed` are
the handles whose caller set a read timeout through `stream_mut`, `Cut` those whose receive may
refuse a frame (its size, its allocation) or time out in the middle of it. Such a handle is
`astray`: its next call reads on inside a body, and may fail, find something that looks like an
answer, or wait.

### AppendOnlyResults

One action per shared access of `append_record` (reserve with fetch-and-update,
then store bits and store ready per slot) and of `get` (load ready, load bits).

### RemotePipeline and ApiServer

`RemotePipeline` is the one-phase protocol with its session limit: connections not
yet accepted, session threads that have not yet noticed a hang-up (`stale`), and a
client that discards the whole pipeline on any failure. `ApiServer` extends it with
the HTTP handlers, the batcher, the scheduler thread, the generation loop (a sampled
token completes a piece of text or leaves bytes of an incomplete UTF-8 sequence held
back), the event channel, clients that leave at any moment and a scheduler thread that
unwinds.

### WeightWriter

Writers of one process with a common destination, each driven by an arbitrary caller:
any order of begin, block, end, finish and abort, refused calls and torn writes
included. Temporary files have the names of the process's counter; removal is by name,
may fail, and happens again on drop. `finish` is split at every file-system call. The
process may crash and come back with the same process id, so with a counter that
starts again among stale files, and another program may create the destination first.
`Readable` is the reader's validation, written from `reader.rs` independently of the
writer's bookkeeping.

### RpnMachine, AccessAnalysis, GraphExecution

`RpnMachine` is the stack machine: the effect of each opcode on a stack and a buffer and
the faults that the hot loop, the checked interpreter, the indexed and the reference
evaluators raise. Values are exact integers up to a cap; beyond it, and for the
results of non-arithmetic operations, they are opaque tokens, so that two executions
agree exactly when they apply the same operations to the same values. U32 offsets wrap.
`AccessAnalysis` is the interval analysis of `operation_schedule.rs`. `GraphExecution`
runs one program through one path: preflight (`WalkStep`), one of the interpreters, or a
parallel scheduler, whose workers take one instruction at a time on shared storage in
any interleaving. The sequential execution (`base`) is the specification.

### Containers and GraphStorage

`Containers` has the encoders and the bounded decoders of seven byte formats, at the
level of bytes: little-endian integers, length fields, tags, versions. A float is an
injective code of an abstract value of the same width. `GraphStorage` adds the processes: a writer that
writes over what an earlier one left, in the same or in the other directory format, may
be killed at any byte, and a reader that starts at any moment and reads one file at a
time. It extends GraphExecution: a behaviour either stores a graph or executes one.

### Deployment

Each process is the list of file operations it has still to do (`todo`), taken one at a
time; between two of them anybody may act. A file is torn until its last byte is
written. A copy (`fs::copy`, `copy_bounded`, each file of `scp -r`) is two operations: the
destination is there and torn, then it has what was read of the source, which may have changed
in between; scp goes on after a file it could not send to its end and says so in its exit status.
A SHA-256 is the content it is of. The operator may replace the source GGUF
(by rename, and no version comes back) or clear the artifact directory while no
compilation writes to it; another program may overwrite one file; any operation may fail, which
stands for an I/O error and for a kill; a serving worker may die. Worker admission,
`SymbolicPipeline::open` and its two identity checks are in it, so it ends where
SymbolicPipeline begins.

### Tokenizer, GgufReader, LlamaModel, CausalEngines, LocalInference

`GgufReader` and `LlamaModel` decide which files each engine admits and what it
believes their configuration to be. `CausalEngines` is one token through one layer as
the session, the compiler (native and RPN projections) and the symbolic model compute
it, with their different KV layouts, shapes and checks, next to a reference that
computes the whole prefix without a cache. Numbers are elements of a prime field and
the transcendental functions are fixed functions, so a wrong index, head, row, position or order of
operations shows in the result, and rounding does not. `Tokenizer` has `merge` with its heap of
candidates and stale entries, against repeated joining of the best neighbours.
`LocalInference` is the process: nine engines, four kinds of client (library, driver,
command line, text only), numeric failures after any number of written heads, retries
and resets.

## 3. The runs

| run | instance | distinct states | shows |
|---|---|---|---|
| `pipeline` | 3 ranges, context 3, 2 tokens | 146 568 | sessions and clients agree, the ranges stay in step, refinement of TokenLog, operations return |
| `array_queue` | 3 threads, 2 slots, 4 laps starting before the wrap, 5 operations | 242 711 | slots are never shared, linearizability, nobody stuck |
| `worker_node` | 2 handles, queue of 1, 2 pieces of work, one caller with every request kind, one with a timeout and receives that refuse a frame or stop inside it | 2 868 509 | work is never in two places, losses are bounded, admission is truthful, every request is answered |
| `worker_node_stale` | two callers that submit and steal, one with a timeout | violation | a late answer is taken for the next one's |
| `append_only` | 3 threads, 4 slots, records up to 3 | 299 909 | disjoint ranges, complete records |
| `api_server` | 2 requests, 2 replicas of 2 stages, one session each, batch 2, queue 1, stream channel 1, local and remote backend | 3 769 581 | stages in step, exact counter, faithful streams |
| `api_server_live` | 1 replica, 1 stage | 270 058 | every admitted request is answered |
| `weight_writer` | 2 writers, 2 names, tensors up to 2 elements, 2 blocks, 5 temporary names, 1 crash | 3 031 140 | publication |
| `graph_execution` | 2 379 programs of up to 3 fragments over every opcode, sequential and on 2 and 3 cores; 4 graphs stored in 7 formats | 705 090 | parallel execution equals sequential, preflight is exact, containers return what was stored |
| `deployment` | 10 scenes of up to 4 processes, 3 layers, 2 kernels, 2 workers, 1 crash, 1 overwritten file, 1 file that an scp leaves half sent | 520 048 | artifacts are whole, one artifact per pipeline, verified bytes reach the workers |
| `local_inference` | 32 model files, 9 engines, compiled plans of 4 profiles, contexts 0 to 4 and budgets at their edge, requested contexts 0 to 8, up to 4 calls and 2 failures, texts up to 4 characters | 92 948 | text round trips, admitted models run, logits are those of the accepted prefix |
| `local_inference_grouping` | the same | violation | a declared grouping that the compiler does not read |

### Properties

* `Agreement`, `RequestFits`: when a healthy client is idle it agrees with its session,
  and every request it sends is one the session admits. `BoundedAmbiguity`: after any
  failure the two differ by at most the one request whose answer was lost.
  `CommittedRowsStable`: no step but a reset changes a confirmed row.
* `SessionsInStep`, `OnlyProjectedConfirmed`, `StageOrder`: a usable pipeline's ranges hold
  the same tokens; no range confirms a token whose logits were not computed; ranges
  confirm in order, so a failure leaves a prefix of ranges one token ahead.
  `ImplementsTokenLog` and `OperationsReturn` (liveness).
* `SlotOwnership`, `SlotInitialised`, `Linearizable`; `NobodyStuck`: between operations
  every slot is stamped for whoever comes next, so an operation that runs alone never retries.
* `AtMostOnce`; `LossBounded`: work that no steal took is queued, and a connection whose
  caller never gave up on a frame (a timeout, a reply over its 64 MiB, no memory for it) loses
  nothing while it stands and one piece of work at most when it breaks. A caller that did give
  up may lose what was stolen for it with socket and handle open.
  `AdmissionTruthful`: `true` from `enqueue_fragment` on such a connection means that the work
  was queued, `false` that it was not. `AnswerOwed`: while the
  connection stands, a call that waits has its request under way, in the thread's hands,
  or a reply on the wire, unless it reads inside the body of a frame given up.
* `DisjointRanges`, `ReturnedComplete`, `ReadsPublished`, `NoOverwrite`.
* `StagesInStep`, `PendingExact` (the counter is the number of requests that hold a
  place, always), `SessionsBounded`, `StreamFaithful` (a reader gets the generated
  pieces in order, none lost or repeated, until it leaves); `RequestsReturn` (liveness).
* `FinishedFilesVerify`, `OutcomeTruthful`, `PublicationFinal`, `NothingLeftBehind`.
* `ParallelMatchesSequential`: `execute_with_cores` ends with the buffer of the sequential
  execution, however the workers interleave, and so does `WaveScheduler`, where `depends_on`
  names the conflicts. `SchedulerRespectsDependencies`: under `WaveScheduler` every
  sub-fragment runs once, and never before what it depends on. `AdmittedGraphsRunExactly`: what the preflight
  admits takes exactly the steps and the stack it promised, in every interpreter.
* `ContainersFaithful`: what a container returns is what was stored in it; an undisturbed
  save loads back; cutting and splitting lose nothing.
* `PublishedIsWhole`, `PipelineRunsOneArtifact`. `DeployedBytesVerified`: what arrives whole
  on a worker's machine is part of one verified plan; an interrupted copy may leave a torn file
  there, but not under a deploy that succeeded, and no worker serves from one.
* `TextRoundTrips`, `AnswersAreOfThePrefix`. `AdmittedModelRuns`: what an engine admits it runs
  to the end. Its two exceptions are part of the formula: a symbolic engine on the mapping with a
  `head_count_kv` that it misreads (the second disagreement below), and a file without layers
  and embedding, which the expanded loader keeps for projections only.

Each property has a mutant in `PROJECT.json`: a plausible slip in the code (a dropped
guard, an unchecked return, a swapped order) that makes it false.

### Why the bounds are enough for the cases of interest

A context of three is filled with confirmed rows before the last one. Three ranges have a
first, a middle and a last one, so a failure can fall between two ranges that succeeded
and one that was not reached. Two slots and three threads let a force_push meet a push
and a pop on one slot; the counters start one lap below the wrap and pass it. A queue
of one with two pieces of work is empty and full, and refuses. Four slots with
records of up to three make reservations that fit, fit exactly and do not fit. One
session per layer worker makes the limit bite as soon as a client dials again; two
requests and a queue of one make refusal happen. Two elements, two blocks and two
tensors give tensors that are covered by one and by two blocks, over-filled and
under-filled ones; five names and two attempts make the search for a name run out after
a crash. The programs of `graph_execution` cover every opcode, loops that are empty,
nested and of count zero, conflicts in each direction, chains and diamonds of
dependencies, more fragments than cores, faults of each kind and offsets that wrap; the
stored graphs cover the format versions, graphs a format refuses, an empty distribution
and a graph above the loader's limits. Three layers over two workers split unevenly; two
kernels leave a state between the first and the last. A model of two layers and two
heads, with one or two key/value heads, tells layers, heads and groups apart; a context
of three is filled, exceeded and retried; plans compiled for a shorter context end before the
model does, budgets of 11, 12, 18 and 19 programs are one short of a plan or just enough; two
dozen malformed files reach each refusal. One file left half sent is enough to make scp fail
after it sent the others. One handle that times out and gives up frames next to one that
does not shows that the second is not disturbed by the first.

Every bound is a constant of its module. Bounds that are limits of the code (Context,
Capacity, MaxSessions, MaxBatch, Attempts, ...) are modelled with the code's behaviour at the
limit; those that only keep the model finite (MaxOps, MaxWork, MaxUnread, MaxNames,
MaxCrashes, MaxTampered, MaxPartial) are guards.

`CHECK_DEADLOCK FALSE` stands where the system may rest: callers that have made all their calls, writers and programs that are done.

### Fairness

* `pipeline`: weak fairness of the coordinator's thread only. Workers owe nothing.
  The code justifies it with the read and write timeouts set on every socket
  (`setup`): an exchange whose worker is silent fails.
* `api_server_live`: weak fairness of the scheduler thread, and of the reader of a
  stream, which reads or leaves. The layer workers are not assumed to answer; the
  socket timeout in `remote.rs` is what makes the thread go on.

### The disagreements met

`worker_node_stale` is expected to be violated. `NodeHandle::enqueue_fragment` is
documented as "Submit pending work; false indicates queue saturation." and the frame
reader as "On failure the connection must be closed: an unread body may remain."
(`runtime/src/net.rs`). After a read timeout the handle stays usable, and the next
call returns the previous call's late answer. `execute_graph` shuts its stream down in
that case; the other calls do not. The same holds of a reply whose payload is over the
client's 64 MiB, which a worker started with a larger `--max-message-bytes` can send: the
call fails, the body stays in the stream and the handle stays usable, although `recv_msg`
says that the connection must be closed. `worker_node` contains both (`ReceiveFails`,
`AstrayRead`); the violation is shown with the timeout alone.

`local_inference_grouping` is expected to be violated. The requirements
(`openspec/changes/fix-placeholders/specs/real-inference/spec.md`, "GQA y límites de caché") say that the
declared grouping of key/value heads is used and that incompatible dimensions are refused.
`InferenceCompiler` reads `head_count_kv` only as a 32-bit integer and takes the number of query
heads for any other width, while `Model::from_gguf`, which validates the file for it, reads any
integer. The file is admitted, and the symbolic engines slice beyond the key vector.

### Other behaviours worth knowing

Met while modelling; the models contain them and the properties are stated around them.

* The native projections tolerate a misread `head_count_kv`: their rows are longer than what is
  cut out of them.
* A graph directory and a distributed directory share file names. A graph-directory header cut
  exactly before its constant pool is a complete distributed header. `load_distributed_fragment`
  does not compare the fragment with the header's count, so a shard left by an earlier,
  larger save is accepted. Files of two saves may be mixed when one is interrupted.
* `ShmChannel::read_fragment` indexes out of range on a truncated operand (a panic, not an
  error). `ShmChannel::cleanup`, documented as removing "todos los archivos de esta sesión", leaves the
  result files, whose name has another prefix.
* `serialize_distributed` of no fragments panics after it wrote twelve bytes of the header. The
  worker's wire fragment carries no opcodes. Nothing reads the files of
  `serialize_sub_fragments`.
* The reference evaluators do not always push a loop counter and ignore the result buffer;
  `Comparable` says where they can be compared with the hot loop.

## 4. The proofs

`tlapm` checks eight proof modules. They hold for every value of the constants.

**SymbolicPipeline_proofs**, first the layer protocol (assumptions: `Context` and `NStages` are positive naturals, and
`NoRow` is no token). The properties are not inductive: agreement of an idle client
says nothing while a request is under way. The invariant `LayerInv` adds, per range,
`LinkInv`, which distinguishes *quiet* (no frame, the sides agree), *requested* (one
frame to the session, which still is where the client left it and admits it), and
*responded* (one frame back, with the session already where the answer will take the
client), plus the weaker statement for an invalidated client. One lemma per kind of
step shows how it moves one link (`ServeLink`, `SendLink`, `AnswerLink`, `FailLink`,
`EndLink`); `OneLinkMoves` shows that the others stand still. The client of `LayerSpec` is free to
make any legal call at any time, abort included; the run has the calls of the coordinator. Theorems: type
correctness, `OneOutstanding`, `Agreement`, `RequestFits`, `BoundedAmbiguity` and the
action property `CommittedRowsStable`.

Then the coordinator. `CoordinatorInv` types it and `OneCall` says
that only the current range's client can be in a call. With them every step of the
coordinator is a step of the layer protocol, one of its steps or a stutter:
`PipelineUsesLayers` is `Spec => LayerSpec`, so everything proved of the layers holds
in the pipeline (`PipelineRequestFits` is one instance), and `PipelineTypeCorrect`
follows.

Then the log of tokens. The invariant `LogInv` adds `RowsInv`, what the rows
of every session are in terms of the delivered and the accepted tokens, and `PhaseInv`,
which says per phase of `forward` and `reset` which ranges are already prepared,
confirmed or emptied: those before the current stage, and the current one once its
answer is under way. `SessionsInStep`, `OnlyProjectedConfirmed` and `StageOrder` follow
from it, and so does `PipelineImplementsTokenLog`, the refinement: the initial states
map to initial states of `TokenLog`, and each action, a frame served by a worker
included, maps to a step of the abstract log or leaves it alone.

**AppendOnlyResults_proofs** (assumptions: `Capacity` is a natural, `MaxRecord` a
positive one, `None` is no value). The inductive invariant `Inv` ties a thread's program
counter to the part of its range that is already published (`ThreadInv`) and keeps the
ranges of all threads and of all returned records apart (`RangesApart`). Theorems: type
correctness and all four properties of the run, the action property `NoOverwrite`
included.

**WeightWriter_proofs** (assumptions: those on the constants of `WeightWriter`). The
writers share one directory and one destination, so the invariant `WriterInv` has a part
per writer and a part that keeps them apart. Per writer, `CatalogInv` ties the tensors
declared so far to the blocks in the spool, `AssemblyInv` ties each step of `finish` to
the sections the final file already has, `CommitInv` ties what was reported to the
destination, and `NameInv` ties the names it holds to the files under them. `Apart` says
that two writers of one process never hold the same name, and a crash's stale names are
`stuck`. `OutcomeTruthful` needs all of them: that an error never follows a successful
link rests on the order of the steps after the commit point. Theorems: `FinishedFilesVerify`,
`OutcomeTruthful`, `NothingLeftBehind` and the action property `PublicationFinal`.

**WorkerNode_proofs** (assumptions: `Capacity` and `MaxUnread` are positive, requests are
of the kinds of the protocol). Effect lemmas reduce every action to one of a few moves of
one connection (`StepEffect`); the other connections stand still (`Others`). The invariant
`WorkerInv` has three layers. Per handle, `InStepInv` says what is under way when no call
timed out or gave up a frame (nothing, the request, the answer in the thread's hands, or the answer on the
wire, and that answer is true of the request), while `FreshInv`, `CallInv` and `ThreadInv`
hold of late handles too. Over tickets, `TicketInv` and `AdmissionTruthful`: a ticket's
outcome is decided once, from an answer in step. Over places, `PlaceInv`, `PendingInv` and
`Disjoint`: every piece of work in the queue, in a thread's hands, on a wire or received was
admitted and is nowhere else; here the sockets of closed handles count too, without
which `AtMostOnce` is not inductive. `LossBounded` is strengthened per handle to `LossInv`: while
the connection stands nothing is lost, and afterwards what is lost and what is still carried is
one piece at most, since a connection in step never carries two (`CarriesOne`). A frame given up
makes its handle late, so the statement ends for it and for nobody else. Theorems: all four invariants of the run.

**ApiServer_proofs** (assumptions: those on the constants of `RemotePipeline` and
`ApiServer`: at least one node, range and session, positive limits). The invariant `ApiInv`
has a half for the pipeline and one for the requests. `RemoteInv` says, for each operation
the pipeline is in (`connect`, `forward`, `head`, `close` and the waits between), which
connections are dialled (`Dialled`), which messages the current one may hold (`Asked`: the
request, the worker gone, or an answer and whether it took effect), and how many rows each
session has (`LinkOk`): one more than the position for the ranges the token has passed.
`FrontInv` gives every request one role: outside, waiting, first of the batch in response,
in generation, about to be sent a piece, or ending (`RoleIn`); `ReqOk` and `StreamOk` say
what its HTTP state and its stream may be in that role, and `PlacedOnce` that it is in one
place of queue and batch. `PendingExact` takes a cardinality argument: the requests counted
but not yet queued stay finitely many (`CountedFinite`), and each step moves one of them or
none. Theorems: all four invariants of the run.

**ArrayQueue_proofs** (assumptions: those on the constants of `ArrayQueue`, among them
`MaxOps < (Laps - 1) * Cap`: no position word recurs within a behaviour, which a 64-bit
word guarantees in practice and without which a delayed compare-and-exchange could succeed
on a later lap; the capacity is any positive number, as `ArrayQueue::new` asserts).
Arithmetic first: `LapIs` shows by induction that a power of two lies above every capacity
and at most at its double, so that `OneLap` exists; `At(n)` is the word of the n-th position, `Ord` its inverse, and `AtMoves` says what
`Advance`, `AddLap` and `SubLap` do to it, across the wrap of the lap counter too. The
invariant `QueueInv` then speaks of natural numbers only. `Window`: the tail is at most `Cap` ahead of
the head. `OwnersApart` and `SlotsOk`: of the `Cap` positions from the head each is owned by
one thread, or filled and before the tail, or free and not. `OwnerOk`: what stamp and value
an owner's slot has at each step of push, force_push and pop. `LearntOk`: what a thread read
before its compare-and-exchange is still true if the exchange can succeed; this is what
makes the exchange a valid commit point. `Budget` counts the operations that may still move
the tail, so that it stays below `MaxOps`. Moves of tail, head, a value and a stamp each
have one lemma for the mover and one for all others (`TailFrame`, `HeadFrame`, `ValueFrame`,
`StampFrame`). Theorems: `SlotOwnership`, `SlotInitialised`, `NobodyStuck` and
`QueueLinearizable`, the refinement of `BoundedQueue`: `SeeNow` and `SeeThen` turn `Contents`
into the elements of the positions from the head to the rear (`List`), an element being with
its bringer until it is written; then each step appends, removes or replaces one element and
answers what the abstract queue answers, or leaves the list and every answer alone.

**Deployment_proofs** (assumptions: `DeploymentAssumption` and `ScenarioAssumption`: at least
one version of the source, kernels and layers are positive numbers, a scenario has finitely many
processes, each one of the commands of the programs, and finds on disk what earlier runs of them
left: a manifest is one that a compilation produced, and in the artifact directory its kernels lie
beside it). A process is a list of file operations, so the first
part shows that every script, and every list that a process goes on with, is a chain of a
relation `Follows` between neighbouring operations, whatever the number of kernels, ranges and
workers. The invariant `PInv` then says, of the operation each process has come to, what it knows there
(`Knows`: which files of its reading still belong together), what the only publisher of a
directory has written so far (`Writing`), and what is in the temporary file of a process
that makes a resource (`Bundling`). A process's own operations preserve its part by
`Follows`; the others' leave it alone (`Leaves`, `Keeps`), for what they may write is limited
by their role (`PublisherMay`, `BundlerMay`, `OtherMay`). Theorem: `PublishedIsWhole`.

**GraphExecution_proofs** (assumption: `GraphAssumption`, the numbers of cores are positive and a
program is a finite list). Three facts about operators come first: a set of fragments can be sorted
and `Sorted` lists each once (`SortedIs`); the stripes of a wave over its threads hold each of its
fragments once, by arithmetic on quotients (`StripesOf`); and what `compute_waves` completed before a
round is the union of the earlier waves (`RoundsHold`), so the waves are disjoint and depend on
earlier ones only (`PlanPlaced`). The invariant `SInv` adds to the property where the
fragments are that have not run: in one queue of one thread with all dependencies finished
(`Placed`), or, until a panic, in one wave to come whose dependencies are finished, queued
or in an earlier wave (`Waiting`). Theorem: `SchedulerRespectsDependencies`.

Both modules use induction over the naturals in the form of a set that holds 0 and is closed under the
successor; `NatSetInduction` proves it from the pigeonhole theorem on finite sets, since the library's
own induction theorem takes a predicate as a parameter.

Only model-checked, and why:

* liveness: fairness and ENABLED are beyond the prover;
* `PipelineRunsOneArtifact` and `DeployedBytesVerified` of Deployment: they are about what one
  process has learnt over long stretches of its script while others publish, and with several
  compilers of several versions a directory may return to an earlier artifact between two of the
  checks of `checked_identity`; they are stated of the scenarios of the run;
* `ParallelMatchesSequential` and `AdmittedGraphsRunExactly` of GraphExecution: they compare two runs of
  the interpreter step by step, an induction over the instructions executed;
* `ContainersFaithful` and the properties of LocalInference: byte formats, tokenizers and
  engines are written with RECURSIVE operators, and what they compute is an induction over data.

## 5. Abstractions and what is not modelled

* Payloads (hidden vectors, tensors, fragments, text, weights) are tokens, tickets, pieces
  or ranges. Codecs of frames are "valid or not".
* The queue and the result storage run under sequential consistency. Weak-memory
  orders are the subject of the repository's loom tests.
* `compare_exchange_weak` does not fail spuriously in the model; the loop it would take
  is the one a lost race takes.
* `RemotePipeline::reset`, `--once`, the local session's own rollback, `/health`, `len`,
  `capacity` and the like are left out: unused by the programs or pure reads.
* Weight files: bytes, memory and replay limits may refuse a call at any time. Names
  of temporary files collide only with those of a crashed process of the same id, not
  with a live process of another machine that has the same id on a shared directory.
  Loss of power is out: the code's documentation promises no durability.
* Graph execution: floating-point values are integers, tokens and one NaN; `-0.0`, rounding and
  NaN payloads are not told apart. The clock limit of an execution is left out.
* Containers: 64-bit lengths saturate (`Huge`), which every decoder refuses.
* WorkerNode: no handle sends a frame of a kind that the worker only logs. Bytes in a body
  that is read as a frame are not taken for a piece of work.
* Graph execution: the ids of sub-fragments are their positions in the list, hence distinct;
  `compute_waves` keys its maps by `sub_id`, and two sub-fragments with one id would collapse (no
  caller mixes parents). An execution starts with an empty stack, so the fallback of
  `execute_with_cores` to the sequential path when one is not empty is left out.
* Deployment: the destination's spelling and the SSH commands are left out, a copy to a
  machine is a file operation; a layer range is two numbers.
* Local inference: characters are seven representatives; texts contain no raw U+2581 and no
  spelling of a control token; sampling draws from three tokens. `LayerSession` is the
  subject of RemotePipeline.
* Not modelled: `WorkQueueSet` (no caller, an external queue), hash-consing and the
  generators of operations (`bml_ops`, `operation_*`), symbolic numbers and interval
  arithmetic (`bml-domain`), tensors and numeric kernels: their correctness is numerical.
  The conversion from GGUF to weight files (`convert.rs`) and its metadata codec are one particular
  caller of WeightWriter. Benchmarks, the sandbox and the dashboard are tooling.

## 6. Plan

Still to be modelled: `from_gguf` as a caller of WeightWriter (cache, pending block, the
split of a tensor into blocks); the bit code of terms and its decoder; bounded search.

Nothing else is planned to be proved: section 4 says why the rest stays with TLC.
