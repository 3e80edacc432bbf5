----------------------------- MODULE EnginePlan ------------------------------
(***************************************************************************)
(* AnswerEngine::plan (emvp/src/engine.rs): the all-or-nothing validation  *)
(* of a list of jobs, the backend of every entry, and the layout of their  *)
(* answers in one arena, entry after entry.                                *)
(*                                                                         *)
(* The loop of plan_jobs takes one job per step, so that the layout is     *)
(* what the loop makes of its running total. A job is a matrix with the    *)
(* queries asked of it; a query belongs to the matrix instance it was      *)
(* encrypted for. A query of another width is refused like one of another  *)
(* instance, and is left out. The packed plan of the device flight is      *)
(* PackedPlan's business: here it succeeds or is refused.                  *)
(***************************************************************************)
EXTENDS Naturals, Sequences

CONSTANTS
  Matrices,     \* prepared matrices
  Own,          \* those this engine prepared
  Resident,     \* those with a copy on the device
  Rows, Blocks, Width,  \* the shape of a matrix: answer rows, blocks, n
  Queries,      \* encrypted queries
  Instance,     \* Instance[q]: the matrix query q was encrypted for
  JobLists,     \* the lists callers plan
  Pools,        \* sizes the rayon pool may have when a list is planned
  USize,        \* the number of values of a usize (2^64)
  MinParallel,  \* MIN_PARALLEL_MULTIPLICATIONS
  MinGpu        \* MIN_GPU_MULTIPLICATIONS

Jobs == [matrix : Matrices, queries : Seq(Queries)]

ASSUME EnginePlanAssumption ==
  /\ Own \subseteq Matrices
  /\ Resident \subseteq Matrices
  /\ Rows \in [Matrices -> Nat \ {0}]
  /\ Blocks \in [Matrices -> Nat \ {0}]
  /\ Width \in [Matrices -> Nat \ {0}]
  /\ Instance \in [Queries -> Matrices]
  /\ JobLists \subseteq Seq(Jobs)
  /\ Pools \subseteq Nat \ {0}
  /\ USize \in Nat \ {0}
  /\ MinParallel \in Nat
  /\ MinGpu \in Nat

VARIABLES
  pc,       \* "idle", "planning", "planned"
  jobs,     \* the list being planned
  threads,  \* rayon::current_num_threads, read once
  entries,  \* the entries planned so far
  total,    \* offset_words: the words planned so far
  error     \* why the last list was rejected

planVars == <<pc, jobs, threads, entries, total, error>>

Backends == {"SingleCore", "Rayon", "Gpu"}

-----------------------------------------------------------------------------
(* The dispatch policy (dispatch.rs).  Products saturate.                   *)

Saturating(n) == IF n < USize THEN n ELSE USize - 1
Grid(queries, rows) == Saturating(queries * rows)
Work(queries, rows, n) == Saturating(Grid(queries, rows) * n)

IsParallelWork(work, grid, t) ==
  /\ t > 1
  /\ grid >= Saturating(2 * t)
  /\ work >= MinParallel

SelectCpuBackend(queries, rows, n, t) ==
  IF IsParallelWork(Work(queries, rows, n), Grid(queries, rows), t)
    THEN "Rayon" ELSE "SingleCore"

SelectAnswerBackend(queries, rows, n, t) ==
  IF Work(queries, rows, n) >= MinGpu
    THEN "Gpu" ELSE SelectCpuBackend(queries, rows, n, t)

BackendOf(job) ==
  LET m == job.matrix
      q == Len(job.queries)
  IN  IF m \in Resident THEN SelectAnswerBackend(q, Rows[m], Width[m], threads)
                        ELSE SelectCpuBackend(q, Rows[m], Width[m], threads)

-----------------------------------------------------------------------------
(* plan_jobs                                                                *)

NoError == [kind |-> "none", entry |-> 0]

PlanInit ==
  /\ pc = "idle"
  /\ jobs = <<>>
  /\ threads = 0
  /\ entries = <<>>
  /\ total = 0
  /\ error = NoError

\* The call is over: nothing of it remains.
Forget ==
  /\ pc' = "idle"
  /\ jobs' = <<>>
  /\ threads' = 0
  /\ entries' = <<>>
  /\ total' = 0

Reject(kind, entry) == Forget /\ error' = [kind |-> kind, entry |-> entry]

\* plan: an empty list is rejected at once.
BeginPlan(list, t) ==
  /\ pc = "idle"
  /\ \/ /\ list = <<>>
        /\ Reject("EmptyJobs", 0)
     \/ /\ list # <<>>
        /\ pc' = "planning"
        /\ jobs' = list
        /\ threads' = t
        /\ error' = NoError
        /\ UNCHANGED <<entries, total>>

WordsOf(job) == Rows[job.matrix] * Blocks[job.matrix] * Len(job.queries)

Seen == {entries[i].matrix : i \in DOMAIN entries}

Mismatched(job) == \E i \in DOMAIN job.queries : Instance[job.queries[i]] # job.matrix

\* The checks of one iteration, in the code's order.
Checks == <<"ForeignMatrix", "RepeatedMatrix", "EmptyQueries",
            "InstanceMismatch", "DimensionOverflow">>

\* Mutant of Fails: a repeated matrix is noticed only next to its twin.
FailsNextToTwin(check, job) ==
  CASE check = "ForeignMatrix"     -> job.matrix \notin Own
    [] check = "RepeatedMatrix"    ->
         entries # <<>> /\ entries[Len(entries)].matrix = job.matrix
    [] check = "EmptyQueries"      -> job.queries = <<>>
    [] check = "InstanceMismatch"  -> Mismatched(job)
    [] check = "DimensionOverflow" -> total + WordsOf(job) >= USize

\* Mutant of Fails: each product is checked alone, the running sum is not.
FailsInProduct(check, job) ==
  CASE check = "ForeignMatrix"     -> job.matrix \notin Own
    [] check = "RepeatedMatrix"    -> job.matrix \in Seen
    [] check = "EmptyQueries"      -> job.queries = <<>>
    [] check = "InstanceMismatch"  -> Mismatched(job)
    [] check = "DimensionOverflow" -> WordsOf(job) >= USize

Fails(check, job) ==
  CASE check = "ForeignMatrix"     -> job.matrix \notin Own
    [] check = "RepeatedMatrix"    -> job.matrix \in Seen
    [] check = "EmptyQueries"      -> job.queries = <<>>
    [] check = "InstanceMismatch"  -> Mismatched(job)
    [] check = "DimensionOverflow" -> total + WordsOf(job) >= USize

Passes(job) == \A c \in DOMAIN Checks : ~Fails(Checks[c], job)

Entry(job) ==
  [matrix |-> job.matrix, queries |-> job.queries, words |-> WordsOf(job),
   offset |-> total, backend |-> BackendOf(job)]

Current == jobs[Len(entries) + 1]

RejectJob ==
  /\ pc = "planning"
  /\ Len(entries) < Len(jobs)
  /\ \E c \in DOMAIN Checks :
       /\ Fails(Checks[c], Current)
       /\ \A d \in 1 .. (c - 1) : ~Fails(Checks[d], Current)
       /\ Reject(Checks[c], Len(entries) + 1)

\* Mutant of AcceptJob: the device entries take no room in the arena.
AcceptJobPacked ==
  /\ pc = "planning"
  /\ Len(entries) < Len(jobs)
  /\ Passes(Current)
  /\ entries' = Append(entries, Entry(Current))
  /\ total' = IF BackendOf(Current) = "Gpu" THEN total
              ELSE (total + WordsOf(Current)) % USize
  /\ UNCHANGED <<pc, jobs, threads, error>>

\* A machine's addition: only the checks keep it from wrapping.
AcceptJob ==
  /\ pc = "planning"
  /\ Len(entries) < Len(jobs)
  /\ Passes(Current)
  /\ entries' = Append(entries, Entry(Current))
  /\ total' = (total + WordsOf(Current)) % USize
  /\ UNCHANGED <<pc, jobs, threads, error>>

OnDevice == {i \in DOMAIN entries : entries[i].backend = "Gpu"}

\* The device entries are packed into one flight, or the device refuses them.
FinishPlan ==
  /\ pc = "planning"
  /\ Len(entries) = Len(jobs)
  /\ \/ pc' = "planned" /\ UNCHANGED <<jobs, threads, entries, total, error>>
     \/ OnDevice # {} /\ Reject("Gpu", 0)

\* The plan goes out of scope.
DropPlan ==
  /\ pc = "planned"
  /\ Forget
  /\ UNCHANGED error

PlanStep == RejectJob \/ AcceptJob \/ FinishPlan

PlanNext ==
  \/ \E list \in JobLists, t \in Pools : BeginPlan(list, t)
  \/ PlanStep
  \/ DropPlan

PlanSpec == PlanInit /\ [][PlanNext]_planVars

-----------------------------------------------------------------------------
Errors == {"none", "EmptyJobs", "Gpu"} \cup {Checks[c] : c \in DOMAIN Checks}

Entries == [matrix : Matrices, queries : Seq(Queries), words : Nat, offset : Nat,
            backend : Backends]

PlanTypeOK ==
  /\ pc \in {"idle", "planning", "planned"}
  /\ jobs \in Seq(Jobs)
  /\ threads \in Nat
  /\ entries \in Seq(Entries)
  /\ total \in 0 .. (USize - 1)
  /\ error \in [kind : Errors, entry : Nat]

End(i) == entries[i].offset + entries[i].words

\* The entries' ranges tile the arena: each starts after all those before it
\* and ends within the total, and every word of the total is some entry's.
\* execute writes them without looking at one another.
Tiling ==
  /\ \A i \in DOMAIN entries : End(i) <= total
  /\ \A i, j \in DOMAIN entries : i < j => End(i) <= entries[j].offset
  /\ \A w \in 0 .. (total - 1) :
       \E i \in DOMAIN entries : entries[i].offset <= w /\ w < End(i)

\* What is planned is a prefix of the list, and the whole list once the plan
\* gets out: job by job its own matrices, none twice, every query answered by
\* the matrix it was encrypted for, and device entries only for matrices that
\* are on the device.
PlanFaithful ==
  /\ pc = "idle" => entries = <<>> /\ total = 0
  /\ pc # "idle" => jobs # <<>> /\ Len(entries) <= Len(jobs)
  /\ pc = "planned" => Len(entries) = Len(jobs)
  /\ \A i \in DOMAIN entries :
       /\ entries[i].matrix = jobs[i].matrix
       /\ entries[i].queries = jobs[i].queries
       /\ entries[i].words = WordsOf(jobs[i])
       /\ entries[i].matrix \in Own
       /\ \A q \in DOMAIN entries[i].queries :
            Instance[entries[i].queries[q]] = entries[i].matrix
       /\ entries[i].backend = "Gpu" => entries[i].matrix \in Resident
  /\ \A i, j \in DOMAIN entries : i < j => entries[i].matrix # entries[j].matrix

=============================================================================
