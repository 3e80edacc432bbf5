------------------------------ MODULE EngineRun ------------------------------
(***************************************************************************)
(* One EngineWorkspace and the plans executed in it (emvp/src/engine.rs):  *)
(* EngineWorkspace::reserve grows the arena for a plan, and                *)
(* AnswerEngine::execute fills it, entry by entry on the CPU and then with *)
(* one flight of the device.                                               *)
(*                                                                         *)
(* A parallel entry is a grid of answer rows that the threads of the rayon *)
(* pool take in any order; each stages its row in a buffer leased from the *)
(* workspace's RowScratchPool, a stack behind a mutex.  A staged row is    *)
(* computed whole before it is copied, so of a buffer only the width       *)
(* matters.  The device's answers are read back segment by segment; how    *)
(* the queries of a job are cut into segments is PackedPlan's business, so *)
(* here any cut is allowed, and the flight may fail at any point.          *)
(*                                                                         *)
(* A word of the arena is what it is the answer of: the block of a row of  *)
(* a matrix, for a query.                                                  *)
(***************************************************************************)
EXTENDS EnginePlan, FiniteSets

CONSTANTS
  Threads,      \* the threads of the rayon pool
  Zero          \* the word a grown arena is filled with

VARIABLES
  arena,     \* the arena of the workspace
  pool,      \* RowScratchPool: the widths of the returned rows
  run,       \* "idle", "cpu", "rows", "flight"
  at,        \* the entry being filled, or the one whose answers are read back
  read,      \* the queries of that entry read back so far
  todo,      \* the answer rows of the parallel entry no thread has taken
  worker,    \* worker[t]: the answer row thread t is at, and its buffer's width
  answered   \* EngineAnswers of the plan are lent out

vars == <<planVars, arena, pool, run, at, read, todo, worker, answered>>

NoWorker == [step |-> "idle", row |-> 0, width |-> 0]

Init ==
  /\ PlanInit
  /\ arena = <<>>
  /\ pool = <<>>
  /\ run = "idle"
  /\ at = 0
  /\ read = 0
  /\ todo = {}
  /\ worker = [t \in Threads |-> NoWorker]
  /\ answered = FALSE

-----------------------------------------------------------------------------
(* The caller plans, reserves and executes as often as it likes; answers    *)
(* live until the workspace or the plan is touched again.                   *)

Planning ==
  /\ run = "idle"
  /\ PlanNext
  /\ answered' = FALSE
  /\ UNCHANGED <<arena, pool, run, at, read, todo, worker>>

\* EngineWorkspace::reserve; the allocator may refuse to grow the arena.
Reserve ==
  /\ pc = "planned" /\ run = "idle"
  /\ \/ /\ total > Len(arena)
        /\ arena' = [i \in 1 .. total |-> IF i <= Len(arena) THEN arena[i] ELSE Zero]
     \/ UNCHANGED arena
  /\ answered' = FALSE
  /\ UNCHANGED <<planVars, pool, run, at, read, todo, worker>>

\* EngineWorkspace::release or drop, and a new workspace.
Release ==
  /\ run = "idle"
  /\ arena' = <<>>
  /\ pool' = <<>>
  /\ answered' = FALSE
  /\ UNCHANGED <<planVars, run, at, read, todo, worker>>

\* execute: a workspace that is too small is rejected before any write.
Execute ==
  /\ pc = "planned" /\ run = "idle"
  /\ \/ Len(arena) < total /\ UNCHANGED <<run, at>>
     \/ Len(arena) >= total /\ run' = "cpu" /\ at' = 1
  /\ answered' = FALSE
  /\ UNCHANGED <<planVars, arena, pool, read, todo, worker>>

-----------------------------------------------------------------------------
(* The kernels: word w of an entry's range, by the flat (query, row) grid.  *)

GridRows(e) == Rows[e.matrix] * Len(e.queries)

Computed(e, w) ==
  LET flat == w \div Blocks[e.matrix]
  IN  [matrix |-> e.matrix,
       query  |-> e.queries[(flat \div Rows[e.matrix]) + 1],
       row    |-> flat % Rows[e.matrix],
       block  |-> w % Blocks[e.matrix]]

\* The words of e from `from` up to `to` are written.
Writes(e, from, to) ==
  arena' = [i \in DOMAIN arena |->
              LET w == (i - 1) - e.offset
              IN  IF from <= w /\ w < to THEN Computed(e, w) ELSE arena[i]]

\* fill_answer_batch_serial
FillSerial ==
  /\ run = "cpu" /\ at <= Len(entries)
  /\ entries[at].backend = "SingleCore"
  /\ Writes(entries[at], 0, entries[at].words)
  /\ at' = at + 1
  /\ UNCHANGED <<planVars, pool, run, read, todo, worker, answered>>

\* fill_cpu_entries passes a device entry over.
PassOver ==
  /\ run = "cpu" /\ at <= Len(entries)
  /\ entries[at].backend = "Gpu"
  /\ at' = at + 1
  /\ UNCHANGED <<planVars, arena, pool, run, read, todo, worker, answered>>

\* fill_entry_parallel: par_chunks_mut hands out the rows of the grid.
StartRows ==
  /\ run = "cpu" /\ at <= Len(entries)
  /\ entries[at].backend = "Rayon"
  /\ run' = "rows"
  /\ todo' = 0 .. (GridRows(entries[at]) - 1)
  /\ UNCHANGED <<planVars, arena, pool, at, read, worker, answered>>

\* Mutant of Leased: a pooled row keeps the width it has.
LeasedAsIs(width) == IF pool = <<>> THEN width ELSE pool[Len(pool)]

\* RowScratchPool::pop resizes the row it pops, or makes one, to the width.
Leased(width) == width
Rest == IF pool = <<>> THEN pool ELSE SubSeq(pool, 1, Len(pool) - 1)

Lease(t) ==
  /\ run = "rows"
  /\ worker[t].step = "idle"
  /\ \E row \in todo :
       /\ todo' = todo \ {row}
       /\ worker' = [worker EXCEPT ![t] =
            [step |-> "leased", row |-> row, width |-> Leased(Blocks[entries[at].matrix])]]
  /\ pool' = Rest
  /\ UNCHANGED <<planVars, arena, run, at, read, answered>>

\* fill_answer_row into the leased row, copy_from_slice into the arena.
Compute(t) ==
  /\ run = "rows"
  /\ worker[t].step = "leased"
  /\ LET width == Blocks[entries[at].matrix]
         row == worker[t].row
     IN  Writes(entries[at], row * width, (row + 1) * width)
  /\ worker' = [worker EXCEPT ![t].step = "copied"]
  /\ UNCHANGED <<planVars, pool, run, at, read, todo, answered>>

\* RowScratchPool::push
Return(t) ==
  /\ run = "rows"
  /\ worker[t].step = "copied"
  /\ pool' = Append(pool, worker[t].width)
  /\ worker' = [worker EXCEPT ![t] = NoWorker]
  /\ UNCHANGED <<planVars, arena, run, at, read, todo, answered>>

\* Mutant of EndRows: the entry counts as filled once its rows are taken.
EndRowsEarly ==
  /\ run = "rows"
  /\ todo = {}
  /\ run' = "cpu"
  /\ at' = at + 1
  /\ worker' = [t \in Threads |-> NoWorker]
  /\ UNCHANGED <<planVars, arena, pool, read, todo, answered>>

\* for_each returns when every row is done.
EndRows ==
  /\ run = "rows"
  /\ todo = {}
  /\ \A t \in Threads : worker[t].step = "idle"
  /\ run' = "cpu"
  /\ at' = at + 1
  /\ UNCHANGED <<planVars, arena, pool, read, todo, worker, answered>>

-----------------------------------------------------------------------------
(* The flight: execute_packed_into_at over the device entries, in order.    *)

\* Mutant of After: the job read back is read again.
AfterAndAt(i) == {j \in OnDevice : j >= i}
After(i) == {j \in OnDevice : j > i}
NextJob(i) == CHOOSE j \in After(i) : \A k \in After(i) : j <= k

\* execute returns: with the answers, or with the device's error and an arena
\* of which nothing is promised.
Returns(ok) ==
  /\ run' = "idle"
  /\ at' = 0
  /\ read' = 0
  /\ answered' = ok

\* The CPU entries are filled: the plan is done, or its flight is submitted.
EndCpu ==
  /\ run = "cpu" /\ at > Len(entries)
  /\ \/ OnDevice = {} /\ Returns(TRUE)
     \/ /\ OnDevice # {}
        /\ run' = "flight"
        /\ at' = NextJob(0)
        /\ UNCHANGED <<read, answered>>
  /\ UNCHANGED <<planVars, arena, pool, todo, worker>>

PerQuery(e) == Rows[e.matrix] * Blocks[e.matrix]
Left == Len(entries[at].queries) - read

\* stream_segment_into: the next `count` queries of the job land behind those
\* read before.
ReadSegment ==
  /\ run = "flight"
  /\ \E count \in 1 .. Left :
       /\ Writes(entries[at], read * PerQuery(entries[at]),
                              (read + count) * PerQuery(entries[at]))
       /\ \/ /\ count < Left
             /\ read' = read + count
             /\ UNCHANGED <<run, at, answered>>
          \/ /\ count = Left /\ After(at) # {}
             /\ read' = 0
             /\ at' = NextJob(at)
             /\ UNCHANGED <<run, answered>>
          \/ /\ count = Left /\ After(at) = {}
             /\ Returns(TRUE)
  /\ UNCHANGED <<planVars, pool, todo, worker>>

\* Buffers, upload, submission, wait, mapping, or a word that is not canonical:
\* the words before it are written.
FlightFails ==
  /\ run = "flight"
  /\ \E words \in 0 .. (Left * PerQuery(entries[at]) - 1) :
       LET from == read * PerQuery(entries[at])
       IN  Writes(entries[at], from, from + words)
  /\ Returns(FALSE)
  /\ UNCHANGED <<planVars, pool, todo, worker>>

Executing ==
  \/ FillSerial \/ PassOver \/ StartRows \/ EndRows \/ EndCpu
  \/ ReadSegment \/ FlightFails
  \/ \E t \in Threads : Lease(t) \/ Compute(t) \/ Return(t)

Next == Planning \/ Reserve \/ Release \/ Execute \/ Executing

Spec == Init /\ [][Next]_vars

\* execute runs on its caller's thread and in the rayon pool, and waits for no
\* caller; the device is taken to answer or to fail.
FairSpec == Spec /\ WF_vars(Executing)

-----------------------------------------------------------------------------
Words == [matrix : Matrices, query : Queries, row : Nat, block : Nat] \cup {Zero}

TypeOK ==
  /\ PlanTypeOK
  /\ arena \in Seq(Words)
  /\ pool \in Seq(Nat \ {0})
  /\ run \in {"idle", "cpu", "rows", "flight"}
  /\ at \in 0 .. Len(entries) + 1
  /\ read \in Nat
  /\ run # "rows" => todo = {}
  /\ run = "rows" => todo \subseteq 0 .. (GridRows(entries[at]) - 1)
  /\ worker \in [Threads -> [step : {"idle", "leased", "copied"}, row : Nat, width : Nat]]
  /\ answered \in BOOLEAN

\* EngineAnswers::entry_answers and the Answers view: query by query, row by
\* row, block by block, from the entry's offset.
View(e, q, row, block) ==
  arena[e.offset + (q - 1) * PerQuery(e) + row * Blocks[e.matrix] + block + 1]

\* Answers that are lent out are the answers of their plan, word by word:
\* whatever the arena held before, however the threads interleaved, wherever
\* the answers of the device were cut, after any flight that broke off.
AnswersExact ==
  answered =>
    \A i \in DOMAIN entries :
      LET e == entries[i]
      IN  \A q \in DOMAIN e.queries, row \in 0 .. (Rows[e.matrix] - 1),
             block \in 0 .. (Blocks[e.matrix] - 1) :
            View(e, q, row, block) =
              [matrix |-> e.matrix, query |-> e.queries[q], row |-> row, block |-> block]

\* No slice panics: while a plan is executed the arena holds its total, and a
\* leased row is as wide as the chunk of the arena it is copied into.
NoPanic ==
  /\ run # "idle" => total <= Len(arena)
  /\ \A t \in Threads :
       worker[t].step # "idle" => worker[t].width = Blocks[entries[at].matrix]

\* execute returns.
ExecuteReturns == run # "idle" ~> run = "idle"

=============================================================================
