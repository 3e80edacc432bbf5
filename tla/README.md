# A model of encrypted matrix-vector products as a service

This directory holds TLA+ modules for the workspace in `src/`: a server that keeps
encrypted matrices on a device and multiplies encrypted vectors with them, a client
that uploads matrices and verifies the products, and the libraries both stand on.
`PROJECT.json` lists components, runs, mutants, findings, hazards, theorems and the
source lines of every definition. Run a configuration with
`tlc -workers 2 -config X.cfg M` and check the proofs with `tlapm M.tla`.

## 1. The system

| component | state | operations | interacts with |
|---|---|---|---|
| server program (`server/src/main.rs`) | the shared `AnswerEngine` | accept, one thread per connection | sessions |
| server session (`server/src/session.rs`) | phase `Empty`/`Loaded`, stored handles, workspaces | handshake, upload, evaluate, teardown | engine (calls), client (frames) |
| handshake, frames (`emvp-network/src/handshake.rs`, `frame.rs`, `messages.rs`) | bytes left in a frame | hello, status, header, confined reads | the stream |
| codec (`plan.rs`, `decode.rs`, `encode.rs`, `views.rs`) | none; plans and views | plan, reserve, decode; stream out | frames, workspaces |
| decode workspaces (`workspace.rs`) | an arena and tables, reused per connection | `reserve`, `clear` | sessions of both sides |
| client session (`client/src/session.rs`) | acknowledged identifiers, scratch | handshake, upload, evaluate, verify | server (frames), protocol |
| device residency budget (`emvp/src/engine.rs`) | `reserved_bytes`, handles | `prepare_batch`, clone, drop | sessions, device |
| answer engine (`emvp/src/engine.rs`, `answer.rs`) | arena, row scratch pool | plan, reserve, execute | packed dispatch, CPU kernels |
| device answerer (`emvp/src/gpu/`) | scratch pools, pipeline cache | upload, pack, submit, wait, reconstruct | device |
| backend dispatch (`dispatch.rs`) | none | choose a tier | engine |
| protocol state (`protocol.rs`, `prf.rs`) | next query index, encrypt-once latch | derive, restore, encrypt, query, decode | client |
| parameters, code, views (`params.rs`, `code.rs`, `view.rs`) | none | search, encode | protocol |
| trapdoor matrices (`trapdoor-matrices/`) | scratch | sample, apply, materialise | protocol |
| field layer (`prime-field-layer/`) | none | arithmetic, transforms, encoding | all of the above |

The sessions share exactly one mutable thing, the engine: its byte counter, its
scratch pools and its pipeline cache. A client and its session share one TCP stream.
Everything else is owned by one thread.

### What is hard, and what makes each component correct

* **Residency budget.** Session threads race on an atomic counter with a
  compare-and-swap loop, uploads fail in the middle of a set, destructors of shared
  handles run on any thread. Correct: the counter equals the bytes held; the device
  never holds more than `max_bytes`; a set is charged whole or not at all, and a
  rejection was true when the counter was read; what is given up comes back.
* **Server session.** Frames arrive pipelined, malformed, in the wrong phase, or cut
  off; the peer disappears at any byte; closing with unread data may reset the stream
  and lose the answer. Correct: headers are only read where a frame begins, each frame
  has one answer, a session is loaded once and evaluates only on what it loaded, and
  the end of a session, which no timeout forces, gives everything back.
* **Client and server together.** Both write a frame whole before they read, over
  finite buffers. Correct: neither waits for ever for the other, the client never meets
  an answer it does not understand, and a refused client may retry at once.
* **Decode workspaces.** Vectors are reused with a length that differs from the
  capacity, and a reservation may be refused between two vectors. Correct: a ready
  workspace holds its plan; steady state neither grows nor shrinks.
* **Engine.** A list of jobs is laid out in one arena by running sums, entries run on
  three backends, rows are filled by any thread with leased staging rows, and a
  workspace outlives plans of other sizes and flights that broke off. Correct: the
  ranges tile the arena, a plan is exactly its list, and answers that are lent out are
  the answers of their plan, word by word.
* **Packed dispatch.** Jobs are cut at buffer, binding, alignment and index limits by a
  loop that halves and opens chunks. Correct: every query is in one segment, in order,
  within the limits; the loop ends and gives up only over a query too large.
* **Device pools and kernels.** Threads share two pools of buffer sets and a cache of
  kernels; a poll of one thread runs the callbacks of another; a call may fail anywhere
  between leasing a set and giving it back. Correct: a call's answers are its own, what
  it leaves in a pool can be leased as it is, it fails only for a fault of its own, and
  it returns.
* **Staging of uploads.** Slots are reused between plans of other sizes, a reservation
  may be refused in the middle, and copying and committing take plans of their own.
  Correct: what is committed is the set that was copied, and a refused plan can be
  neither filled nor committed.
* **Protocol state.** All randomness is a function of a key, an instance and an index,
  and the caller persists the index. Correct: no index hides two plaintexts, over
  restarts, failed batches and reservations in flight, up to the last index.
* **Codec.** Counts on the wire are sizes of memory and offsets in an arena before they
  are anything else. Correct: what a reader accepts is, to the byte, the encoding of what
  it read; nothing is reserved that the frame does not account for.
* **Field, transforms, extension, masks, code.** Every layer has several algorithms,
  picked by the modulus, the length or the degree, over reused buffers; if two of them
  differ nothing fails and an answer decodes to noise. Correct: each agrees with plain
  arithmetic on carries at the width of a word, on lengths that wrap and on stale
  buffers, and a whole exchange decodes to the product.
* **Parameters.** A security bound is an exact comparison of powers that stops early.
  Correct: it stops on the right side, and the search returns the best that passes.

`PROJECT.json` lists each hazard at its line, with the properties that cover it.

## 2. The modules

| module | what it is |
|---|---|
| `Wire` | the connections: two inboxes, two ends, resets (external, modelled from its use) |
| `Footprint` | the bytes of a set of matrices, as a number of owned bytes |
| `ResidencyBudget` | abstract: what `prepare_batch` promises, decided in one step |
| `Residency` | `prepare_batch_core`, `reserve_budget`, `GpuReservation`, handles |
| `ResidencyProofs` | the proofs about them |
| `Server` | `serve_connection` with the handshake and the frame reader, per connection |
| `Client` | `run()` of the client program |
| `ClientServer` | `Server` + `Client`: any number of runs against one engine |
| `Peers` | `Server` + peers that frame correctly and otherwise send what they like |
| `PeersProofs` | the proofs about it, and with it about the sessions of `Server` |
| `ClientServerProofs` | the proofs about `ClientServer`: its refinement of `Peers`, and the two programs in step |
| `Workspace` | `grow`, `grow_capacity`, `reserve`, `clear` |
| `WorkspaceProofs` | the proofs about it |
| `QueryIds` | the identifiers, the encrypt-once latch and the seed slots of the protocol state, over crashes |
| `QueryIdsProofs` | the proofs about it |
| `EnginePlan` | `AnswerEngine::plan`: the checks, the dispatch policy, the layout of the arena |
| `EngineRun` | `EnginePlan` + one workspace: `reserve`, `execute`, the rayon threads, the row pool, the readback |
| `EngineProofs` | the proofs about both |
| `PackedPlan` | `plan_chunks`, `queries_per_tile`, `dispatch_grid` |
| `PackedPlanProofs` | the proofs about it |
| `GpuBatches` | the single batches and packed flights of several threads on one answerer: pools, kernels, submissions, mappings, callbacks |
| `GpuBatchesProofs` | the proofs about it |
| `Field` | residues in a machine word, the slice kernels, primality, the samplers, the encoding |
| `Transform` | transform plans, three kinds of butterflies, the convolutions |
| `Extension` | irreducibility, the extension field, both reductions |
| `Parameters` | the exact power, `validate`, `search`, the assessment of a Ring-LPN instance |
| `Masks` | permutations, the RAA, Toeplitz and Ring-LPN masks, the row stack and its dense form |
| `Protocol` | the cyclic code, encryption, queries, answer plans and rows, decoding |
| `Codec` | the writers, plans, decoders and views of every payload |
| `PrepareWorkspace` | `plan_prepare`, `reserve`, `copy`, `prepare_committed` |
| `Library` | the calls a user makes of these layers, as a state machine |
| `MC*` | instances for TLC |

### How they correspond to the code

**Residency.** One action per access to shared memory. `Begin` is phase 1 of
`prepare_batch_core` (a call that fails there changes nothing shared and is left out);
`Load`, `Retry`, `Exhausted`, `Reserve` are the atomic load, the failed exchange, the
two refusals and the successful exchange of `reserve_budget`; `Upload` and
`UploadFails` are one turn of phase 3; `Clone`, `DropHandle`, `DropBuffer`,
`DropReservation` are the life of an `Arc<PreparedMatrixInner>`, whose fields drop in
declaration order. `status[m]` says what is held on behalf of a matrix. The order of a
batch is arbitrary, so a batch is a set and the next matrix is any of those left. All
orderings of the atomics are acquire-release on a single location, so interleaving
is enough to describe them.

**Server.** `pc[c]` is where the session thread is; a handler that writes sets `reply`
and goes to `writing`, one token a step, and continues where `reply.then` says. The
engine appears as the two steps `ReserveSet` and `CommitSucceeds`/`CommitFails`, with
other sessions in between, on the set `charged`; `Residency` shows that the retry loop
implements deciding in one step. An upload is a set of matrices, and `Place` is the order
they have in it: the identifier of a matrix is its place, so every session gives the
same small numbers. An evaluation is a set of entries, an identifier with the matrix its
queries were encrypted for (which is what the instance identifier and the width on the wire
tell the server). `Known` is the map of the session's phase, `Matrix` the lookup in it,
`Valid` the checks of `prepare_evaluate`, and `Products` the jobs, whose answers carry the
identifier asked and the matrix looked up. A session without a device (CPU fallback) has no
budget: it is the instance with `MaxBytes` as large as all sets. The refusals before
the reservation (malformed shape, a staging slot refused by the allocator, the budget)
share `UploadRefused`. Branches which the code marks as unreachable after validation
(`ErrorCode::Internal` in `handle_evaluate` and `send_products`) are not modelled.

**Client.** `stage` is where `run()` is, `unsent` what is left of the request, `ids` the
identifiers acknowledged for its matrices, which the evaluation names and the products are
checked against. Anything
before the first write or after the last read has no effect on the network and is not
modelled. `Crash` ends a run between any two tokens, and `Hangup` is the socket of a run
that ended, in whatever way, being closed. The operators `Greeted`, `Owed`, `Asked` and
`Heard` of `ClientServer` map a run to a peer of `Peers`: the hello is said when it is no
longer `unsent`, a frame is begun when less than all of it is.

**Wire.** A frame is a header token and `Parts` payload tokens. A token is written and
read whole: a stream cut inside a header is cut before it, which changes only whether
the session reports a clean end or a truncation. `Sends` blocks on a full buffer;
writing to a closed end, or closing with unread data, may or may not reset.

**Workspace.** Every vector is a length and a capacity; an `UploadAcceptedWorkspace`
has no arena and is the case of an arena plan of zero. `peak` is a history variable.

**QueryIds.** One action per operation of `DerivedState` (`Derive`, `Restore`, `Encrypt`,
`Reserve`, `Query`, `QueryBatch`, `QueryWithScratch`) and three of the caller: `Persist`
records the counter, `Release` lets out a query made before the last `Persist`, as the
documentation of `query` asks, `Crash` forgets the process. A query is its instance,
identifier and plaintext vector, since everything else in it is a function of those. The
instance identifier stands for the whole reconstruction context. Not modelled: a caller
that restores an instance while its old state or reservations are alive.

**EnginePlan.** One turn of the loop of `plan_jobs` per step (`AcceptJob`, `RejectJob`):
`entries` and `total` are the loop's vector and running sum. `Checks` is the order in
which one turn refuses. `threads` is the snapshot of the pool `plan` takes. The dispatch
policy of `dispatch.rs` is three operators with saturating products. `FinishPlan` builds
the device flight, which the device may refuse.

**EngineRun.** The caller plans, reserves, executes, drops a plan and releases the
workspace in any order; `answered` holds while an `EngineAnswers` borrows both. A word of
the arena is what it is the answer of, so `AnswersExact` compares the view the code
builds with the matrix, query, row and block it stands for. A parallel row is three steps:
`Lease` takes it with a staging row, `Compute` fills and copies it, `Return` gives the
staging row back; between them other threads run. `ReadSegment` lets the cut of a job fall
anywhere, which includes every cut `PackedPlan` makes; `FlightFails` stands for each
failure of `execute_packed_into_at`, with any number of words of the current job already
written. The staged row is computed whole before it is copied, so only its width is kept.

**PackedPlan.** The two loops of `plan_chunks` as a machine of one action per branch:
`StartJob`, `Place`, `Shrink`, `OpenChunk`, `Finish`. Chunks are one sequence of segments
that carry the number of their chunk. The checked sums are exact: lengths are bounded by
limits that are quarters of 64-bit byte counts. The block size of a shape only goes into
the uniform the shader reads, and is left out.

**GpuBatches.** One action per stretch of a call in which no other thread can interfere:
the look-up and the insert of a kernel (`LookUp`, `Compile`, with the cache unlocked in
between, once for each segment of a flight), `Lease`, `Upload`, `Submit`, `RequestMap` (one
`map_async`, once for each chunk), `Poll`, `RunCallback` (one chunk's), `MappingFails` (the
`recv` of one chunk, in the order of the chunks), `Return`; `DeviceFinishes` is the queue.
A buffer is its size, whether it is mapped, and the call and the dispatches that its
answers come from, so "another call's words" is a value the model can see. A set is named
after the call that makes it, so a name is never given twice and a set that was given up
keeps its own. `Fault` may end a call wherever the code returns an error, and says what
happens to its set: dropped, never pooled. What wgpu refuses (a submission of mapped or of
too small buffers) is the outcome `panic`.

**The pure layers.** `Field`, `Transform`, `Extension`, `Parameters`, `Masks`, `Protocol`,
`Codec` and `PrepareWorkspace` have no variables: they are the functions of the code as
operators that return `Ok` or `Err`, with scratch buffers and streams of random words
passed in and, where a caller sees them again, passed back. The arithmetic is that of the
code, wrapping at the width of a word, not that of the integers: a residue is below
2^`WordBits`, a product and a sum of products below its square, `% Wide` is where the code
wraps. `WordBits` is 8 where the code has 32, so that TLC can go through moduli on both sides
of every threshold (half of the word for the carry, a quarter for lazy butterflies, the
two-adicity for a transform); the thresholds are expressions in the word, the block and
degree limits are constants (`Chunk`, `ProductCutoff`, `SchoolbookDegree`, `ChunkFields`, the
floors of `Parameters`). The pseudorandom function is the constant `Stream`. A
floating-point attack estimate is whether it reaches its target. A byte has a quarter of
`WordBits`, so that a u32 is a word; a u128 is its sixteen bytes.

**Library.** `given` is the layer and the inputs of the calls, chosen at the start;
`returned` is what the calls have returned so far. A layer with one call has one action;
the protocol has one for each step of the client and of the server, and `Deliver`, which
writes what one side sends as a payload and reads it on the other; the upload path has
`ReservePlan`, `CopySet` and `CommitPlan` in any order. The expected values are computed in
the properties, by the definition and with plain integers (`PlainDot`, `PlainProduct`,
`PlainModulo`, `PlainMask`), never with the operators of the layers.

## 3. What is checked

| run | instance | shows |
|---|---|---|
| `residency` | 2 threads, 3 matrices of 4, 2, 2 bytes, budget 4, a u64 of 8 values | `Accounting`, `DeviceWithinBudget`, `ImplementsBudget`; `LockFree` under fairness |
| `residency_leak` | the same, batches up to 3 | `EntireReservationReleased` is violated |
| `client_server` | 1 client, a set of 3 bytes, budget 3, frames of 3 tokens, buffers of 1 | `Understood`, `RefusedMayRetry`, `ImplementsPeers`; `RunsReturn` under fairness |
| `peers` | 1 peer, 3 frames of 3 tokens, buffers of 2 | `FrameAligned`, `AnsweredOnce`, `LoadOnce`; `LeaversReleased` under fairness |
| `peers_two` | 2 peers, 2 frames of 2 tokens each, buffers of 1, sets of 1 or 3 bytes and of 1 byte, budget 3 | `SessionsCharged`, `ClosedReleased`, `AnswersOwnSet` |
| `query_ids` | 2 instances, 2 identifiers each, 2 plaintexts, batches up to 2, a u64 of 6 values | `PadsUsedOnce`, `MaskUsedOnce`, `SeedsApart` |
| `workspace` | an arena and two tables, plans up to 3 | `ReadyForPlan`, `SteadyState` |
| `workspace_spill` | the same | `CapacityHoldsPlan` is violated |
| `engine_run` | 3 lists that pass and 6 that fail over 6 matrices of all tiers, pools of 1 and 2 threads, rows of 1 and 2 blocks, a usize of 24 values | `Tiling`, `PlanFaithful`, `AnswersExact`, `NoPanic`; `ExecuteReturns` under fairness |
| `gpu_batches` | 2 threads, 3 calls out of 2 single batches, a packed flight of 2 chunks and 3 segments and a refused batch, kernels of 2 moduli and 2 tiles | `CallsIsolated`, `FailsOnlyOnFault`; `CallsReturn` under fairness |
| `packed_plan` | lists of 1 and 2 of 16 shapes, 12 devices, a u32 of 16 values, tiles of 4 | `ExactlyOnce`, `WithinLimits`, `FailsOnlyOnOneQuery`; `Returns` under fairness |
| `library` | words of 8 bits, about 4600 calls of the pure layers | `FieldExact`, `TransformExact`, `ExtensionExact`, `MaskExact`, `ProtocolExact`, `ParametersSound`, `CodecExact`, `StagingExact` |

**Bounds, and why they are enough.** In `MCResidency` one matrix fits exactly, two small
ones fit exactly together, a large and a small one exceed the budget, and all three
overflow the integer, so every branch of `reserve_budget` is taken, with a second
thread between any two accesses; `MaxBatch` and `MaxClones` let a batch fail with a
matrix before and behind the failing one and a handle be cloned. Two connections are
enough for sharing: a session reads and writes only its own state and `charged`, and
all others act on `charged` like one other that holds more. One token of buffer with
frames longer than that is the worst case for mutual blocking; two tokens let a header
of the next frame wait behind the payload of the last. Three frames reach: upload,
evaluation, and a second upload or an evaluation after a rejected one. For the tables a
longer, a shorter and a longer frame need lengths 1, 2, 3. Sessions meet only
in the engine, and `ImplementsPeers` makes every client one of the peers, so two
sessions are run against peers (`peers_two`) and the agreement of the two programs is
run with one client, whose frames are longer than the buffers. The sets of `peers_two`
fit the budget together or not, as the first peer chooses, so that a session is refused
for what another holds, and both are loaded at once. `Parts = 1` there leaves out
`ReserveFails`, which `client_server` and `peers` reach with `Parts = 2`. The peer of `peers` may name an identifier with
queries for the matrix of another, name one twice, and name one it did not upload. In
`peers_two` the matrices of both peers have the identifier 1, and either may send queries
for either matrix under it: an upload and an evaluation are all it takes for an identifier
looked up in the wrong session to give an answer about the other one's matrix, so two
well-formed frames each are enough, and what else a peer may send is left to `peers`.

In `MCQueryIds` the window holds exactly two slots, so that the last
identifier is reached, and counts go up to the largest u64, so that the addition
overflows; the proofs lift the bounds. Instances and plaintexts are symmetric, and the
run has no liveness property.

The lists of `MCEngineRun` put entries of the device before and behind
those of the CPU, leave rows of another width in the pool, and make a later plan longer
and shorter than an earlier one; two threads are enough for a row to be taken while
another is at any of its three steps. The refused lists
fail once at each check; a matrix is repeated apart from its twin, and two entries that
each fit a usize do not fit in sum. What the run's few lists leave out of the planning
loop the proofs of `EngineProofs` cover. The shapes of
`MCPackedPlan` have a query larger than a binding and one larger than a buffer, jobs that
fill a chunk exactly, share one, or need several, and more words than workgroups in one
dimension, with the largest index at the width of a u32.

In `MCGpuBatches` two threads interleave every step of two calls, the third call leases
what one of them left, and the jobs differ in size, in kind and in one component of the
key of a kernel each. The flight's first chunk has segments of two tiles, so a chunk needs
two kernels, and its two mappings let another thread poll between the requests, and let one
mapping fail and the other not.

The inputs of `MCLibrary` are chosen at the edges of the code. The five fields of
`MCFieldCalls` are two small ones, two around half of the word, and the largest of the form
the code has a shortcut for; slices of 5 and 12 are shorter and longer than a `Chunk`, and
all words are tested for primality. The moduli of the transforms lie below an eighth, a
quarter and half of the word and above it, with a two-adicity from 2 to 6. Every monic
polynomial of degree 3 over the field of three elements is tested for irreducibility;
degree 7 is above `SchoolbookDegree` and makes the last step of Newton's iteration wrap if
a tail is kept. Stacks of masks have one to three blocks, whole and cut. In the exchanges
the code is transformed at its own length or folded from a longer one, and blocks are two
words, three, or all of them. The payloads have empty lists, empty entries beside full ones and
entries of different widths; they are cut, lengthened by a byte and by a word, and every
field is overwritten by numbers at the limit of a length and by ones whose product with
the size of a descriptor wraps to few bytes. Uploads are staged four calls deep in
memories that hold one, some or all of the plans. What these calls do not show is that a
definition holds at 32 bits for all inputs: the algorithms are the same, the thresholds are
scaled.

**Deadlock** is not checked where the system really stops: when every run is over and
its session closed, in `residency` when all matrices have leaked, and in
`packed_plan` when packing is done; in `gpu_batches` when the calls are used up, in
`library` when a behaviour has made its calls.

**Fairness.** Weak fairness of each thread's next step: an operating-system thread
that can run does run. Nothing obliges a caller to offer or drop a matrix, a peer to
speak or to leave, a process to crash, or an upload to succeed. The retry loop gets no
fairness beyond that, hence `LockFree` instead of termination: a call is held in the
loop only while others keep changing the counter. The liveness of a session is
conditional on the peer leaving: the code sets no timeout. `execute` runs on its
caller's thread and on the rayon pool, so some step of it is always taken; the device is
taken to answer or to fail, as `poll` waits for it without a timeout. `plan_chunks` is one
sequential call. In `gpu_batches` a thread inside a call keeps running and the device
finishes what it was given. Nothing obliges a caller to plan, reserve, execute or call.

### What the runs found

1. **Bytes leak when an upload fails before the end of a batch.** The reservations are
   made by a lazy iterator (`emvp/src/engine.rs:1273`), so the matrices behind the
   failing one have none to drop, against "the entire reservation is released"
   (1208-1209) and "the reservations not yet attached" (1288-1290). Run
   `residency_leak`; `Server!CommitFails` carries it on, and the properties that speak
   of released bytes except sessions that end in a device failure.
2. **`grow_capacity` asks for too little** (`emvp-network/src/workspace.rs:44`): the
   missing capacity is counted from the capacity, `try_reserve_exact` counts from the
   length. The refill then allocates without the possibility of refusal. Run
   `workspace_spill`. `SteadyState` holds all the same.

Disagreements of the text with the code that were met while modelling, and for which
there is no run:

* Transport failures inside a payload are answered (`server/src/session.rs:310`), against
  `emvp-network/src/error.rs:128` and `:203`; `Server` does what the code does.
* A foreign magic gets no status byte (`emvp-network/src/handshake.rs:53`), against lines
  4-6 and 106 of that file.
* `ScaledPowGePow2` with lambda 0 is true for a factor of 0 as well
  (`emvp/src/params.rs`); `ParametersSound` states the comparison as the code has it.
* `emvp-network/src/encode.rs:3-5` says that writers reject inconsistent shapes;
  `write_upload_matrices` takes the number of values as it is, and the reader refuses.

## 4. What is proved

`ResidencyProofs`, for every finite set of matrices, every charge that is a positive
u64, every set of threads, every budget:

* `Invariance`: `Spec => []IInv`, and from it `TypeCorrect`, `HoldingsCorrect`,
  `AccountingCorrect`, `BudgetCorrect`;
* `WholeSetsCorrect`: the action property `WholeSets`;
* `Refinement`: `Spec => ImplementsBudget`, the retry loop implements the atomic
  decision of `ResidencyBudget`.

Assumptions: `FootprintAssumption` (finitely many matrices, charges between 1 and the
largest u64) and `ResidencyAssumption` (the budget is a u64, the two bounds are
positive). A matrix of no bytes does not exist: the shape validation refuses it.

The inductive invariant is `IInv == TypeOK /\ Holdings /\ Accounting /\
reserved_bytes <= MaxBytes`. `Accounting` alone is not inductive: that an exchange adds
exactly the footprint of a batch needs the batch's matrices to be uncharged, which is
`Holdings` (they are `offered`), and that two threads' batches are disjoint; that
`fetch_sub` does not wrap needs `Accounting` itself. `TypeOK` needs `Accounting` and the
budget, since the counter's range is an arithmetic fact. The step lemmas have one step
per action: `TypeStep`, `HoldingsStep`, `AccountingStep`, the last on `ChargedStep`,
which says how each action changes the set of charged matrices.

`Footprint` is the cardinality of a set of owned bytes instead of a sum, so that no
recursion is involved; the first lemmas of the module are the facts used: the footprint of the
empty set, of one matrix, of a disjoint union, monotonicity, and removal. That it is
the sum `total_bytes` follows from these by adding one matrix at a time.

The simulation: a call is `pending` until its exchange, `rejected` from the read that
does not fit, `granted` while it uploads or aborts. So the abstract rejection happens
at the `Load` or `Retry` that read a full counter, not at `Exhausted`, which is only
the return; `FitsExactly` turns the code's test on the counter into the abstract one
on footprints.

`QueryIdsProofs`, for any instances and plaintexts, any window that holds a slot, any
number of crashes: `PadsInvariance`, and from it `PadsCorrect` (`PadsUsedOnce`),
`MaskCorrect` (`MaskUsedOnce`) and `SeedsCorrect` (`SeedsApart`). Assumption:
`QueryIdsAssumption` (a u64 counts beyond the window, the two bounds are positive).
`PadsUsedOnce` is not inductive: it says nothing of reservations, of the counter, or of
what a crash brings back. `IInv` adds `Ahead` (the counter in memory is beyond everything
in the process, the persisted one beyond everything that left or may leave, and never
beyond the one in memory), `Apart` (an identifier is in one place: a reservation, a query
in the process, a query that left) and `Latched` (an instance with a ciphertext has its
latch set whenever it is alive). `Ahead` survives `Crash` and `Restore` because it is
stated about both counters; `Apart` follows for a new identifier from `Ahead`. The lemmas
`ReservationsTaken` and `QueriesMade` say what a reservation and a batch do, so that the
step lemmas need not look into them. `SeedsApart` follows from the types alone.

`EngineProofs`, for any matrices, shapes, queries, lists, pools, any number of threads and
any width of a usize (`EnginePlanAssumption`). The plan: `PlanInvariance`, and from it
`PlanTypeCorrect`, `TilingCorrect` (`Tiling`) and `PlanFaithfulCorrect` (`PlanFaithful`).
The three are inductive together: that the new range starts behind all others needs every
range to end within the total, which is part of `Tiling`; that there is no gap needs the
new range to start exactly at it. The execution: `RunInvariance`, and from it
`AnswersExactCorrect` (`AnswersExact`), `NoPanicCorrect` (`NoPanic`), `RunTypeCorrect` and
`RunPlanCorrect`. `AnswersExact` speaks of answers that are lent out, long after they were
written; `RunInv` adds, for every stage, which words hold what already: `OnCpu` (all
entries before the current one are filled), `InRows` (every row of the current one is to
do, with a worker that computed nothing yet, or done), `InFlight` (all of the CPU, the
device entries before the current one, and its queries read so far), `Lent`. `Fits` carries
the length of the arena through the stages and `AtRest` says what stands still outside
them. The step that matters is that a write lands in the range of its own entry, which
`Tiling` keeps apart from the others, so what is filled stays filled (`FilledPersists`); the
arithmetic is that of two-digit numbers (`Digits`), a word being a row and a block.

`WorkspaceProofs`, for any number of tables and any lengths: `ReadyForPlanCorrect`,
`SteadyStateCorrect` and `WorkspaceTypeCorrect`, from `WorkspaceInv`. `ReadyForPlan` is only
about the end of `reserve`; `Progress` says that what it is done with is a prefix of its
vectors, and `Roomy` that a capacity holds the length and the peak, which is what makes a
plan up to the peak free of allocations. Assumption: `WorkspaceAssumption` (tables have
names other than the arena's; one name may stand twice, a table reserved twice).

`PackedPlanProofs`, for any shapes, lists, device limits, tile and workgroup sizes:
`ExactlyOnceCorrect`, `WithinLimitsCorrect`, `FailsOnlyOnOneQueryCorrect` and
`PackedTypeCorrect`, from `PlanInv`. What is not in the properties is `Cursor`: the recorded
segments end before the query the loop is at, and those of the open chunk before its two
counts of words. `ExactlyOnce` is proved in two parts, `Ordered` and `EveryQuery`. The
assumption that is more than a type is on the grid: what one dimension counts is within a
u32, and what two dimensions count reaches it, as 65535 workgroups of 64 do; without it
`dispatch_grid` could need a third dimension, which the code does not have.

`PeersProofs`, for any number of connections, any matrices and budget, any frame length and
window, any peers that frame correctly (`PeersAssumption`: sets are of matrices and numbered
from one, no two connections offer the same matrix; evaluations are any entries). Three invariants, each on the one before:

* `ControlInv`: `SessionInv` (what a session holds at each program point), `WireInv` (how
  the two ends and a reset relate to it) and `ChargedInv` (of the matrices its peer may
  upload, a session has charged exactly those it stores or is about to commit), with the
  footprint of all that is charged within the budget. From it `SessionsChargedCorrect`,
  `ClosedReleasedCorrect`, and `LoadOnceCorrect`, which is an action property.
* `FramesInv`: `FramedInv`, the unread tokens of a session and what its peer still owes are
  whole frames behind the tokens the session needs before its next header. This is counting
  modulo the length of a frame. From it `FrameAlignedCorrect`.
* `ExchangeInv`: `AnswersInv` (the answers, written or not yet, name what the session
  stores, under its identifiers) and `CountedInv` (the frames begun are those unread, handled, answered and heard).
  From it `AnswersOwnSetCorrect` and `AnsweredOnceCorrect`.

None of these properties is inductive alone: each speaks of one moment, a header that is read or an
answer that arrives, and the invariants follow the frame from the peer's first token to the
last of the answer. What every action does to its own session is said once, in the lemmas
called `...Effect`. The peers may do more than the client program: pipeline, misname, offer
kinds no client sends, leave at any token.

`ClientServerProofs`, for any number of clients, any disjoint sets that are not empty
(`ClientAssumption`, `SetsAssumption`: `check_rows` refuses a run without matrices, and
every run encrypts its own), any budget, frame length and window. It has two parts.

* `ImplementsPeersCorrect`: `Spec => ImplementsPeers`, every step of a client is a step of
  one of the peers of `Peers` or none. `Base` is the invariant it needs: the control of a
  session and, for a client, `ClientInv` (its end is open while it runs; what it has not
  sent is the hello, a request, or the end of a request; a header it holds is the answer to
  a request that is sent). So the theorems of `PeersProofs` hold beside real clients:
  `ClientSessionsChargedCorrect`, `ClientClosedReleasedCorrect`,
  `ClientFrameAlignedCorrect`, `ClientAnsweredOnceCorrect` (which counts the answers a run
  has `Heard`), and `TypeCorrect`.
* `LockInvariance`: as long as a run has not returned, it and its session thread are in
  step, from which follow `UnderstoodCorrect` (`Understood`) and `RefusedMayRetryCorrect`
  (`RefusedMayRetry`). Both properties speak of a run that has returned or has read an
  error, which says nothing of how it came to that. `LockStep` says it: `Going` and
  `Coming`, what is in flight followed by what is to be written, are at any time the rest of
  one message, and the program counter of the thread and the stage of the run fit it
  (`Greeting`, `Asking`, `Answering`); or the session is `Failing`, with one of three
  errors on its way, read in part or whole. The hard case is the reset. A thread that closes
  with unread bytes may lose its own answer, and a run that loses it returns `codec`: the
  invariant keeps that the only thread that leaves bytes of a request unread is one that
  ran out of memory inside it (`fate = "transport"`), and that such a thread goes on to
  write its error or to drop, so that its fate stays what it was. What a refused client
  reads is tied to the budget by `Returned`: whoever holds an `UploadFailed` has a session
  that ended without loading, of which `ChargedInv` says that it has charged nothing.

`GpuBatchesProofs`, for any threads, batches, kernels and numbers of chunks
(`GpuBatchesAssumption`: a valid batch has a chunk, every chunk a segment, and a single
batch one of each):
`CallsIsolatedCorrect` (`CallsIsolated`) and `FailsOnlyOnFaultCorrect`
(`FailsOnlyOnFault`), from `BatchesInvariance`. `CallsIsolated` looks at a call when it
returns and at a set when it is pooled; `IInv` follows both in between, in three layers.
`ControlInv` says what a thread has at each place of its call and that the cache holds the
kernel of every key. `PlacesInv` says where a set is: held by one thread, once in one pool,
or given up, and never pooled while it is in flight; a call that gave up may leave its set
in flight, and that it is never leased again is `UsedOld` and `UnusedNew`, a set being made
only by a call that is younger than every set in use. `SetsInv`, `FlightInv` and
`ContentsInv` say what the set of a call holds at each place: buffers as large as they say
and as the batch needs, unmapped until it is submitted, the queries of the call, and after
its submission their answers by its kernels. That a submission is never refused
(`SubmittableHeld`) and that a call reads its own answers follow from the last.

**Only model-checked**: liveness (`LockFree`, `RunsReturn`, `LeaversReleased`,
`ExecuteReturns`, `CallsReturn`, `Returns`), because the prover has neither fairness nor
`ENABLED`; and the pure layers. What the pure layers compute stays with TLC: it is
arithmetic by recursion over data, whose induction is out of the prover's reach, as are the
`RECURSIVE` operators of `Extension` and `Parameters` (a division, a greatest common
divisor, a power), which no module with a theorem uses.

## 5. The plan

The modules of the plan are written, and every safety property of a run is a theorem but
for those of the pure layers. One thing the plan had is not stated: that the sessions of
`Server` refine `ResidencyBudget`. They do not, step by step: `ResidencyBudget` gives bytes
back one matrix at a time, as the destructors do, and `Server!CommitFails` drops those of a
failed upload at once. `Residency` has that refinement at the grain of the code, and
`SessionsCharged` what the sessions need of it.

## 6. What is not modelled, and why

* The attack estimates of `trapdoor-matrices/src/parameters.rs`: floating point. The
  decision that is taken on them is in `Parameters`.
* The shader (`gpu/answer.wgsl`) and the device driver. `PackedPlan` shows that the grid
  covers the words; `GpuBatches` that the right kernel gets the right buffers.
* The vectorised butterflies, which the default build does not compile.
* The block cipher behind the pseudorandom function (a library): a stream is its words.
* Argument parsing, reports, timings and logging, the demo's output, the named parameter
  presets, `handout/`, benchmarks and tests.
* The branches that return `InternalState` or `ErrorCode::Internal` for a broken invariant
  (`Tiling`, `NoPanic`, `StagingExact` and `AnswersOwnSet` are what makes them unreachable).
* Poisoned locks: no action of the model panics while a lock is held.
* The standalone batch path of `answer.rs` beyond one thread: `Protocol` has its plan, its
  rows and its checks, `EngineRun` the parallel rows of the same kernel.

The spurious failures of `compare_exchange_weak` are stuttering steps.
