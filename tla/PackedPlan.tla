----------------------------- MODULE PackedPlan ------------------------------
(***************************************************************************)
(* The packing of a device flight (emvp/src/gpu/packed.rs, plan_chunks):   *)
(* the queries of the jobs are cut into segments, each one dispatch of the *)
(* kernel, and segments share the buffers of a chunk as long as they fit.  *)
(*                                                                         *)
(* The chunks are kept as one sequence of segments that name their chunk;  *)
(* queryWords and answerWords are the fill of the last chunk.  The checked *)
(* sums are exact: segments are bounded by max_binding_words and offsets   *)
(* by max_buffer_words, which are quarters of 64-bit byte counts, and      *)
(* rows * s * queries was checked when the entry was planned.              *)
(***************************************************************************)
EXTENDS Integers, Sequences

CONSTANTS
  Shapes,         \* job shapes: words per query n, rows, blocks s, query count
  Lists,          \* the lists of shapes that are packed
  Devices,        \* limits in words: buffer, binding, and offset alignment
  U32,            \* the number of values of a u32 (2^32)
  WorkgroupSize,  \* WORKGROUP_SIZE
  MaxWorkgroups,  \* MAX_WORKGROUPS_PER_DIMENSION
  TileMin,        \* QUERIES_PER_TILE_MIN, and the width of the tile
  Narrow          \* narrow_modulus(MODULUS)

Positive == Nat \ {0}

ASSUME PackedAssumption ==
  /\ Shapes \subseteq [n : Positive, rows : Positive, s : Positive, queries : Positive]
  /\ Lists \subseteq Seq(Shapes)
  /\ Devices \subseteq [buffer : Nat, binding : Nat, alignment : Positive]
  /\ WorkgroupSize \in Positive /\ MaxWorkgroups \in Positive /\ TileMin \in Positive
  /\ U32 \in Positive /\ MaxWorkgroups * WorkgroupSize <= U32
  /\ U32 <= MaxWorkgroups * MaxWorkgroups * WorkgroupSize
  /\ Narrow \in BOOLEAN

VARIABLES
  device,       \* plan_packed: the limits of the device
  list,         \* the shapes of the jobs
  pc,           \* "job", "place", "done", "failed"
  job,          \* the job being cut
  queryStart,   \* its first query that has no segment yet
  count,        \* how many queries the next segment is to have
  segments,     \* the segments so far
  chunk,        \* the number of the last chunk
  queryWords, answerWords  \* the fill of the last chunk

vars == <<device, list, pc, job, queryStart, count, segments, chunk, queryWords, answerWords>>

MaxAnswerWords == U32 - (MaxWorkgroups * WorkgroupSize)

Least(a, b) == IF a < b THEN a ELSE b

\* Mutant of AlignUp: rounds down.
AlignDown(x) == (x \div device.alignment) * device.alignment
AlignUp(x) == ((x + device.alignment - 1) \div device.alignment) * device.alignment

Shape == list[job]
AnswerPerQuery(shape) == shape.rows * shape.s

\* Mutant of MaxQueries: the binding limit of the answers is forgotten.
MaxQueriesByQuery(shape) ==
  Least(Least(device.binding \div shape.n, (U32 - 1) \div shape.n),
        MaxAnswerWords \div AnswerPerQuery(shape))

\* The largest segment the bindings and the kernel's indices allow.
MaxQueries(shape) ==
  Least(Least(device.binding \div shape.n, device.binding \div AnswerPerQuery(shape)),
        Least((U32 - 1) \div shape.n, MaxAnswerWords \div AnswerPerQuery(shape)))

Init ==
  /\ device \in Devices
  /\ list \in Lists
  /\ pc = "job"
  /\ job = 1
  /\ queryStart = 0
  /\ count = 0
  /\ segments = <<>>
  /\ chunk = 1
  /\ queryWords = 0 /\ answerWords = 0

Keep == UNCHANGED <<device, list>>

Fail ==
  /\ pc' = "failed"
  /\ UNCHANGED <<job, queryStart, count, segments, chunk, queryWords, answerWords>>

\* The next job of the list, unless a single query exceeds the bindings.
StartJob ==
  /\ pc = "job" /\ job <= Len(list)
  /\ \/ MaxQueries(Shape) = 0 /\ Fail
     \/ /\ MaxQueries(Shape) > 0
        /\ pc' = "place"
        /\ queryStart' = 0
        /\ count' = Least(Shape.queries, MaxQueries(Shape))
        /\ UNCHANGED <<job, segments, chunk, queryWords, answerWords>>
  /\ Keep

Finish ==
  /\ pc = "job" /\ job > Len(list)
  /\ pc' = "done"
  /\ UNCHANGED <<job, queryStart, count, segments, chunk, queryWords, answerWords>>
  /\ Keep

\* queries_per_tile
QueriesPerTile(batch) == IF Narrow /\ batch >= TileMin THEN TileMin ELSE 1

CeilDiv(a, b) == (a + b - 1) \div b

\* dispatch_grid: workgroups_x and workgroups_y for so many threads.
Workgroups(threads) == CeilDiv(threads, WorkgroupSize)
WorkgroupsX(threads) == Least(Workgroups(threads), MaxWorkgroups)
\* Mutant of WorkgroupsY: rounds down.
WorkgroupsYDown(threads) == Workgroups(threads) \div WorkgroupsX(threads)
WorkgroupsY(threads) == CeilDiv(Workgroups(threads), WorkgroupsX(threads))

\* The segment that would be placed next, in the last chunk.
Candidate ==
  LET threads == CeilDiv(count, QueriesPerTile(count)) * AnswerPerQuery(Shape)
  IN  [chunk |-> chunk, job |-> job, start |-> queryStart, count |-> count,
       queryOffset  |-> AlignUp(queryWords),
       answerOffset |-> AlignUp(answerWords),
       queryWords   |-> count * Shape.n,
       answerWords  |-> count * AnswerPerQuery(Shape),
       tile |-> QueriesPerTile(count),
       x |-> WorkgroupsX(threads), y |-> WorkgroupsY(threads)]

QueryEnd(segment) == segment.queryOffset + segment.queryWords
AnswerEnd(segment) == segment.answerOffset + segment.answerWords

Fits ==
  /\ QueryEnd(Candidate) <= device.buffer
  /\ AnswerEnd(Candidate) <= device.buffer

Rest(start) == Least(Shape.queries - start, MaxQueries(Shape))

\* Mutant of Place: a job has one segment.
PlaceOnce ==
  /\ pc = "place" /\ Fits
  /\ segments' = Append(segments, Candidate)
  /\ queryWords' = QueryEnd(Candidate)
  /\ answerWords' = AnswerEnd(Candidate)
  /\ pc' = "job" /\ job' = job + 1
  /\ UNCHANGED <<queryStart, count, chunk>>
  /\ Keep

\* The segment fits the last chunk.
Place ==
  /\ pc = "place" /\ Fits
  /\ segments' = Append(segments, Candidate)
  /\ queryWords' = QueryEnd(Candidate)
  /\ answerWords' = AnswerEnd(Candidate)
  /\ \/ /\ queryStart + count = Shape.queries
        /\ pc' = "job" /\ job' = job + 1
        /\ UNCHANGED <<queryStart, count>>
     \/ /\ queryStart + count < Shape.queries
        /\ queryStart' = queryStart + count
        /\ count' = Rest(queryStart')
        /\ UNCHANGED <<pc, job>>
  /\ UNCHANGED chunk
  /\ Keep

ChunkEmpty == \A i \in DOMAIN segments : segments[i].chunk # chunk

\* Mutants of Shrink: it gives up when a query alone is left to try; the half is
\* rounded up.
ShrinkToTwo ==
  /\ pc = "place" /\ ~Fits /\ ChunkEmpty
  /\ \/ count \div 2 <= 1 /\ Fail
     \/ /\ count \div 2 > 1
        /\ count' = count \div 2
        /\ UNCHANGED <<pc, job, queryStart, segments, chunk, queryWords, answerWords>>
  /\ Keep
ShrinkUp ==
  /\ pc = "place" /\ ~Fits /\ ChunkEmpty
  /\ count' = (count + 1) \div 2
  /\ UNCHANGED <<pc, job, queryStart, segments, chunk, queryWords, answerWords>>
  /\ Keep

\* It does not fit an empty chunk: half of it is tried.
Shrink ==
  /\ pc = "place" /\ ~Fits /\ ChunkEmpty
  /\ \/ count \div 2 = 0 /\ Fail
     \/ /\ count \div 2 > 0
        /\ count' = count \div 2
        /\ UNCHANGED <<pc, job, queryStart, segments, chunk, queryWords, answerWords>>
  /\ Keep

\* It does not fit what is left of a chunk: a new one is opened.
OpenChunk ==
  /\ pc = "place" /\ ~Fits /\ ~ChunkEmpty
  /\ chunk' = chunk + 1
  /\ queryWords' = 0 /\ answerWords' = 0
  /\ count' = Rest(queryStart)
  /\ UNCHANGED <<pc, job, queryStart, segments>>
  /\ Keep

Next == StartJob \/ Finish \/ Place \/ Shrink \/ OpenChunk

\* plan_chunks is one call: it runs on.
Spec == Init /\ [][Next]_vars /\ WF_vars(Next)

-----------------------------------------------------------------------------
Segment ==
  [chunk : Positive, job : Positive, start : Nat, count : Positive,
   queryOffset : Nat, answerOffset : Nat, queryWords : Nat, answerWords : Nat,
   tile : Positive, x : Nat, y : Nat]

TypeOK ==
  /\ device \in Devices
  /\ list \in Lists
  /\ pc \in {"job", "place", "done", "failed"}
  /\ job \in 1 .. Len(list) + 1
  /\ queryStart \in Nat /\ count \in Nat
  /\ pc = "place" => /\ job <= Len(list)
                     /\ count \in 1 .. MaxQueries(Shape)
                     /\ queryStart + count <= Shape.queries
  /\ segments \in Seq(Segment)
  /\ chunk \in Positive
  /\ queryWords \in Nat /\ answerWords \in Nat

\* Segments come in the order of the jobs and their queries, and the ranges of
\* one chunk's buffers do not overlap: no answer is read back twice, or over
\* another's.
Ordered ==
  \A i, k \in DOMAIN segments : i < k =>
    LET a == segments[i]
        b == segments[k]
    IN  /\ a.job < b.job \/ (a.job = b.job /\ a.start + a.count <= b.start)
        /\ a.chunk <= b.chunk
        /\ a.chunk = b.chunk => /\ QueryEnd(a) <= b.queryOffset
                                /\ AnswerEnd(a) <= b.answerOffset

\* Query q of job j is in a segment.
Covered(j, q) ==
  \E i \in DOMAIN segments :
    /\ segments[i].job = j
    /\ segments[i].start <= q /\ q < segments[i].start + segments[i].count

\* Every query of the jobs before the current one is in a segment, and of the
\* current one every query before queryStart; at the end, every query of all.
EveryQuery ==
  /\ pc = "done" => job > Len(list)
  /\ \A j \in DOMAIN list : \A q \in 0 .. (list[j].queries - 1) :
       j < job \/ (j = job /\ pc = "place" /\ q < queryStart) => Covered(j, q)

\* The segments cut the list exactly: in order, without overlap in a buffer, and
\* without losing a query. An offset aligned down, or a piece recorded once where
\* the loop of `plan_chunks` records all of them, breaks it.
ExactlyOnce == Ordered /\ EveryQuery

\* Every segment is bound within the device's limits, at aligned offsets, and its
\* grid has a thread for every word of its tiles; the index of the grid's last
\* thread, padding included, is a u32.
WithinLimits ==
  \A i \in DOMAIN segments :
    LET a == segments[i]
    IN  /\ a.queryWords <= device.binding /\ a.answerWords <= device.binding
        /\ QueryEnd(a) <= device.buffer /\ AnswerEnd(a) <= device.buffer
        /\ a.queryOffset % device.alignment = 0
        /\ a.answerOffset % device.alignment = 0
        /\ a.queryWords = a.count * list[a.job].n
        /\ a.answerWords = a.count * AnswerPerQuery(list[a.job])
        /\ CeilDiv(a.count, a.tile) * AnswerPerQuery(list[a.job]) <= a.x * a.y * WorkgroupSize
        /\ a.x * a.y * WorkgroupSize <= U32
        /\ a.x <= MaxWorkgroups /\ a.y <= MaxWorkgroups

\* "Returns an error when ... one query cannot fit the device's buffer and
\* binding limits", and only then.
FailsOnlyOnOneQuery ==
  pc = "failed" =>
    LET shape == list[job]
    IN  \/ MaxQueries(shape) = 0
        \/ shape.n > device.buffer
        \/ AnswerPerQuery(shape) > device.buffer

\* plan_chunks returns.
Returns == <>(pc \in {"done", "failed"})

=============================================================================
