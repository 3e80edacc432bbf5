----------------------------- MODULE EngineProofs ----------------------------
(***************************************************************************)
(* The answer engine, for any list of jobs over any matrices of any shape  *)
(* and any number of threads.                                              *)
(*                                                                         *)
(* AnswerEngine::plan: type, tiling and faithfulness are inductive         *)
(* together, for a new entry starts at the running total, which ends all   *)
(* those before it.                                                        *)
(*                                                                         *)
(* AnswerEngine::execute: the invariant says of every entry how far it is  *)
(* filled, by the stage of the execution.  A step writes only answers, and *)
(* only in the range of its entry, which the tiling keeps apart from the   *)
(* others; so what is filled stays filled (WritesAnswers, FilledPersists), *)
(* and each stage adds its own part.                                       *)
(***************************************************************************)
EXTENDS EngineRun, WellFoundedInduction, TLAPS

-----------------------------------------------------------------------------
(* The plan.                                                                *)

PlanInv == PlanTypeOK /\ Tiling /\ PlanFaithful

\* A job's answers are a number of words.
LEMMA WordsType ==
  ASSUME NEW job \in Jobs
  PROVE  WordsOf(job) \in Nat
<1>1. Rows[job.matrix] \in Nat /\ Blocks[job.matrix] \in Nat
  BY EnginePlanAssumption DEF Jobs
<1>2. Len(job.queries) \in Nat
  BY DEF Jobs
<1>3. Rows[job.matrix] * Blocks[job.matrix] \in Nat
  BY <1>1
<1> QED
  BY <1>2, <1>3 DEF WordsOf

\* What fits a machine's word does not wrap.
LEMMA WithinWord ==
  ASSUME NEW x \in Nat, NEW word \in Nat \ {0}, x < word
  PROVE  x % word = x
OBVIOUS

\* Every job has a backend, the device only if its matrix is there.
LEMMA BackendType ==
  ASSUME NEW job \in Jobs
  PROVE  /\ BackendOf(job) \in Backends
         /\ BackendOf(job) = "Gpu" => job.matrix \in Resident
BY DEF BackendOf, SelectAnswerBackend, SelectCpuBackend, Backends

\* The job an unfinished loop looks at.
LEMMA CurrentType ==
  ASSUME PlanTypeOK, Len(entries) < Len(jobs)
  PROVE  Current \in Jobs
<1>1. Len(entries) + 1 \in 1 .. Len(jobs)
  BY DEF PlanTypeOK
<1> QED
  BY <1>1 DEF PlanTypeOK, Current

\* An empty plan has every property.
LEMMA NothingPlanned ==
  ASSUME pc = "idle", jobs = <<>>, threads = 0, entries = <<>>, total = 0,
         error \in [kind : Errors, entry : Nat]
  PROVE  PlanInv
BY EnginePlanAssumption DEF PlanInv, PlanTypeOK, Tiling, PlanFaithful

\* The step of the loop: the new entry is laid behind the others.
LEMMA AcceptPreserves ==
  ASSUME PlanInv, AcceptJob
  PROVE  PlanInv'
<1> DEFINE n == Len(entries) + 1
           w == WordsOf(Current)
<1>1. PlanTypeOK /\ Tiling /\ PlanFaithful
  BY DEF PlanInv
<1>2. Current \in Jobs /\ Current = jobs[n]
  BY <1>1, CurrentType DEF AcceptJob, Current
<1>3. w \in Nat
  BY <1>2, WordsType
<1>4. /\ Current.matrix \in Own
      /\ Current.matrix \notin Seen
      /\ ~Mismatched(Current)
      /\ total + w < USize
  <2>1. /\ ~Fails("ForeignMatrix", Current)
        /\ ~Fails("RepeatedMatrix", Current)
        /\ ~Fails("InstanceMismatch", Current)
        /\ ~Fails("DimensionOverflow", Current)
    <3>1. \A c \in 1 .. 5 : ~Fails(Checks[c], Current)
      BY DEF AcceptJob, Passes, Checks
    <3>2. 1 \in 1 .. 5 /\ 2 \in 1 .. 5 /\ 4 \in 1 .. 5 /\ 5 \in 1 .. 5
      OBVIOUS
    <3> QED
      BY <3>1, <3>2 DEF Checks
  <2> QED
    BY <1>1, <1>3, <2>1, EnginePlanAssumption DEF Fails, PlanTypeOK
<1>5. Entry(Current) \in Entries
  <2>1. Current.matrix \in Matrices /\ Current.queries \in Seq(Queries)
    BY <1>2 DEF Jobs
  <2>2. BackendOf(Current) \in Backends
    BY <1>2, BackendType
  <2>3. total \in Nat
    BY <1>1 DEF PlanTypeOK
  <2> QED
    BY <1>3, <2>1, <2>2, <2>3 DEF Entry, Entries
<1>6. /\ entries' = Append(entries, Entry(Current))
      /\ entries \in Seq(Entries)
      /\ total' = total + w
      /\ Len(entries) \in Nat /\ total \in Nat
      /\ UNCHANGED <<pc, jobs, threads, error>>
      /\ pc = "planning"
  <2>1. (total + w) % USize = total + w
    <3>1. total \in Nat /\ USize \in Nat \ {0}
      BY <1>1, EnginePlanAssumption DEF PlanTypeOK
    <3> HIDE DEF w
    <3> QED
      BY <1>3, <1>4, <3>1, WithinWord
  <2> QED
    BY <1>1, <2>1 DEF AcceptJob, PlanTypeOK
<1>7. /\ entries' \in Seq(Entries)
      /\ Len(entries') = n
      /\ DOMAIN entries' = (DOMAIN entries) \cup {n}
      /\ n \notin DOMAIN entries
      /\ \A i \in DOMAIN entries : entries'[i] = entries[i] /\ i < n /\ i \in Nat
      /\ entries'[n] = Entry(Current)
  BY <1>5, <1>6
<1>8. /\ entries'[n].offset = total
      /\ entries'[n].words = w
  BY <1>7 DEF Entry
<1>9. PlanTypeOK'
  BY <1>1, <1>3, <1>4, <1>6, <1>7, EnginePlanAssumption DEF PlanTypeOK
<1>10. Tiling'
  <2> DEFINE EndAfter(i) == entries'[i].offset + entries'[i].words
  <2>1. \A i \in DOMAIN entries : entries[i].offset \in Nat /\ entries[i].words \in Nat
    <3>1. \A i \in DOMAIN entries : entries[i] \in Entries
      BY <1>6
    <3> QED
      BY <3>1 DEF Entries
  <2>2. /\ \A i \in DOMAIN entries : EndAfter(i) = End(i) /\ End(i) \in Nat /\ End(i) <= total
        /\ EndAfter(n) = total + w
    BY <1>1, <1>7, <1>8, <2>1 DEF Tiling, End
  <2>3. \A i \in DOMAIN entries' : EndAfter(i) <= total'
    BY <1>3, <1>6, <1>7, <2>2
  <2>4. ASSUME NEW i \in DOMAIN entries', NEW j \in DOMAIN entries', i < j
        PROVE  EndAfter(i) <= entries'[j].offset
    <3>1. i \in DOMAIN entries
      BY <1>6, <1>7, <2>4
    <3>2. CASE j = n
      BY <1>8, <2>2, <3>1, <3>2
    <3>3. CASE j \in DOMAIN entries
      BY <1>1, <1>7, <2>2, <2>4, <3>1, <3>3 DEF Tiling
    <3> QED
      BY <1>7, <3>2, <3>3
  <2>5. ASSUME NEW x \in 0 .. (total' - 1)
        PROVE  \E i \in DOMAIN entries' : entries'[i].offset <= x /\ x < EndAfter(i)
    <3>1. CASE x < total
      <4>1. PICK i \in DOMAIN entries : entries[i].offset <= x /\ x < End(i)
        <5>1. \A y \in 0 .. (total - 1) :
                \E i \in DOMAIN entries : entries[i].offset <= y /\ y < End(i)
          BY <1>1 DEF Tiling
        <5>2. x \in Nat /\ total \in Nat
          BY <1>3, <1>6
        <5>3. x \in 0 .. (total - 1)
          BY <3>1, <5>2
        <5> QED
          BY <5>1, <5>3
      <4> QED
        BY <1>7, <2>2, <4>1
    <3>2. CASE total <= x
      <4>1. entries'[n].offset <= x /\ x < EndAfter(n)
        BY <1>3, <1>6, <1>8, <2>2, <3>2
      <4> QED
        BY <1>7, <4>1
    <3> QED
      BY <1>3, <1>6, <3>1, <3>2
  <2> QED
    BY <2>3, <2>4, <2>5 DEF Tiling, End
<1>11. PlanFaithful'
  <2>1. n <= Len(jobs) /\ jobs # <<>>
    BY <1>1, <1>6 DEF AcceptJob, PlanFaithful, PlanTypeOK
  <2>2. ASSUME NEW i \in DOMAIN entries'
        PROVE  /\ entries'[i].matrix = jobs[i].matrix
               /\ entries'[i].queries = jobs[i].queries
               /\ entries'[i].words = WordsOf(jobs[i])
               /\ entries'[i].matrix \in Own
               /\ \A q \in DOMAIN entries'[i].queries :
                    Instance[entries'[i].queries[q]] = entries'[i].matrix
               /\ entries'[i].backend = "Gpu" => entries'[i].matrix \in Resident
    <3>1. CASE i = n
      BY <1>2, <1>4, <1>7, <3>1, BackendType DEF Entry, Mismatched
    <3>2. CASE i \in DOMAIN entries
      BY <1>1, <1>7, <3>2 DEF PlanFaithful
    <3> QED
      BY <1>7, <3>1, <3>2
  <2>3. ASSUME NEW i \in DOMAIN entries', NEW j \in DOMAIN entries', i < j
        PROVE  entries'[i].matrix # entries'[j].matrix
    <3>1. i \in DOMAIN entries
      BY <1>6, <1>7, <2>3
    <3>2. CASE j = n
      BY <1>4, <1>7, <3>1, <3>2 DEF Seen, Entry
    <3>3. CASE j \in DOMAIN entries
      BY <1>1, <1>7, <2>3, <3>1, <3>3 DEF PlanFaithful
    <3> QED
      BY <1>7, <3>2, <3>3
  <2> QED
    BY <1>6, <1>7, <2>1, <2>2, <2>3 DEF PlanFaithful, WordsOf
<1> QED
  BY <1>9, <1>10, <1>11 DEF PlanInv

\* Every step preserves the three.
LEMMA PlanInductive ==
  ASSUME PlanInv, [PlanNext]_planVars
  PROVE  PlanInv'
<1>1. PlanTypeOK /\ Tiling /\ PlanFaithful
  BY DEF PlanInv
<1>2. ASSUME NEW kind \in Errors, NEW entry \in Nat, Reject(kind, entry)
      PROVE  PlanInv'
  BY <1>2, EnginePlanAssumption DEF Reject, Forget, PlanInv, PlanTypeOK, Tiling, PlanFaithful
<1>3. ASSUME NEW list \in JobLists, NEW t \in Pools, BeginPlan(list, t)
      PROVE  PlanInv'
  <2>1. CASE Reject("EmptyJobs", 0)
    BY <1>2, <2>1 DEF Errors
  <2>2. CASE ~Reject("EmptyJobs", 0)
    <3>1. entries = <<>> /\ total = 0
      BY <1>1, <1>3 DEF PlanFaithful, BeginPlan
    <3>2. entries' = <<>> /\ total' = 0 /\ jobs' = list /\ list # <<>> /\ pc' = "planning"
          /\ threads' = t /\ error' = NoError
      BY <1>3, <2>2, <3>1 DEF BeginPlan
    <3>3. Len(entries') = 0 /\ Len(jobs') \in Nat /\ jobs' \in Seq(Jobs)
      BY <3>2, EnginePlanAssumption
    <3> QED
      BY <1>1, <3>2, <3>3, EnginePlanAssumption
      DEF PlanInv, PlanTypeOK, Tiling, PlanFaithful, NoError, Errors
  <2> QED
    BY <2>1, <2>2
<1>4. CASE RejectJob
  <2>1. PICK c \in DOMAIN Checks : Reject(Checks[c], Len(entries) + 1)
    BY <1>4 DEF RejectJob
  <2>2. Checks[c] \in Errors /\ Len(entries) + 1 \in Nat
    BY <1>1 DEF Errors, PlanTypeOK
  <2> QED
    BY <1>2, <2>1, <2>2
<1>5. CASE AcceptJob
  BY <1>5, AcceptPreserves
<1>6. CASE FinishPlan
  <2>1. CASE Reject("Gpu", 0)
    BY <1>2, <2>1 DEF Errors
  <2>2. CASE ~Reject("Gpu", 0)
    <3>1. pc' = "planned" /\ UNCHANGED <<jobs, threads, entries, total, error>>
      BY <1>6, <2>2 DEF FinishPlan
    <3>2. PlanTypeOK'
      BY <1>1, <3>1 DEF PlanTypeOK
    <3>3. Tiling'
      BY <1>1, <3>1 DEF Tiling, End
    <3>4. PlanFaithful'
      BY <1>1, <1>6, <3>1 DEF PlanFaithful, FinishPlan, WordsOf
    <3> QED
      BY <3>2, <3>3, <3>4 DEF PlanInv
  <2> QED
    BY <2>1, <2>2
<1>7. CASE DropPlan
  BY <1>1, <1>7, EnginePlanAssumption DEF DropPlan, Forget, PlanInv, PlanTypeOK, Tiling, PlanFaithful
<1>8. CASE UNCHANGED planVars
  BY <1>1, <1>8 DEF planVars, PlanInv, PlanTypeOK, Tiling, PlanFaithful, End, WordsOf
<1> QED
  BY <1>3, <1>4, <1>5, <1>6, <1>7, <1>8 DEF PlanNext, PlanStep

\* Throughout, the three hold.
THEOREM PlanInvariance == PlanSpec => []PlanInv
<1>1. PlanInit => PlanInv
  BY NothingPlanned DEF PlanInit, NoError, Errors
<1>2. PlanInv /\ [PlanNext]_planVars => PlanInv'
  BY PlanInductive
<1> QED
  BY <1>1, <1>2, PTL DEF PlanSpec

\* The variables of the planning loop keep their types; in particular no sum
\* of planned words reaches the width of a usize.
THEOREM PlanTypeCorrect == PlanSpec => []PlanTypeOK
BY PlanInvariance, PTL DEF PlanInv

\* Whatever is planned, the answer ranges tile the arena.
THEOREM TilingCorrect == PlanSpec => []Tiling
BY PlanInvariance, PTL DEF PlanInv

\* Whatever plan gets out is the plan of its whole list.
THEOREM PlanFaithfulCorrect == PlanSpec => []PlanFaithful
BY PlanInvariance, PTL DEF PlanInv

-----------------------------------------------------------------------------
(* The execution: its invariant.                                            *)

\* Word w of entry i holds its answer.
Holds(i, w) == arena[entries[i].offset + w + 1] = Computed(entries[i], w)

Filled(i) == \A w \in 0 .. (entries[i].words - 1) : Holds(i, w)

\* The entries before the n-th that are answered here, and those that are
\* answered on the device.
FilledHere(n) == \A i \in DOMAIN entries : i < n /\ i \notin OnDevice => Filled(i)
FilledThere(n) == \A i \in OnDevice : i < n => Filled(i)

\* An answer row of entry i holds its answers.
RowHolds(i, row) ==
  \A block \in 0 .. (Blocks[entries[i].matrix] - 1) :
    Holds(i, row * Blocks[entries[i].matrix] + block)

\* Between executions nothing is under way, and no thread is at work outside
\* a parallel entry.
AtRest ==
  /\ run = "idle" => at = 0
  /\ run # "flight" => read = 0
  /\ run # "rows" => \A t \in Threads : worker[t].step = "idle"

\* A plan that is executed fits the arena.
Fits == run # "idle" => pc = "planned" /\ total <= Len(arena)

OnCpu == run = "cpu" => at >= 1 /\ FilledHere(at)

\* Every row of a parallel entry is waiting, at a thread, or in the arena.
InRows ==
  run = "rows" =>
    /\ at \in DOMAIN entries
    /\ entries[at].backend = "Rayon"
    /\ FilledHere(at)
    /\ \A row \in 0 .. (GridRows(entries[at]) - 1) :
         \/ row \in todo
         \/ \E t \in Threads : worker[t].step = "leased" /\ worker[t].row = row
         \/ RowHolds(at, row)
    /\ \A t \in Threads : worker[t].step # "idle" =>
         /\ worker[t].row < GridRows(entries[at])
         /\ worker[t].width = Blocks[entries[at].matrix]

\* The flight is read back in order.
InFlight ==
  run = "flight" =>
    /\ at \in OnDevice
    /\ FilledHere(Len(entries) + 1)
    /\ FilledThere(at)
    /\ read <= Len(entries[at].queries)
    /\ \A w \in 0 .. (read * PerQuery(entries[at]) - 1) : Holds(at, w)

Lent ==
  answered =>
    /\ pc = "planned" /\ run = "idle"
    /\ total <= Len(arena)
    /\ \A i \in DOMAIN entries : Filled(i)

\* The types of the execution.
Workers == [Threads -> [step : {"idle", "leased", "copied"}, row : Nat, width : Nat]]

RunTypes ==
  /\ arena \in Seq(Words)
  /\ pool \in Seq(Nat \ {0})
  /\ run \in {"idle", "cpu", "rows", "flight"}
  /\ at \in 0 .. Len(entries) + 1
  /\ read \in Nat
  /\ run # "rows" => todo = {}
  /\ run = "rows" => todo \subseteq 0 .. (GridRows(entries[at]) - 1)
  /\ worker \in Workers
  /\ answered \in BOOLEAN

\* The inductive invariant.
RunInv ==
  /\ PlanInv /\ RunTypes
  /\ AtRest /\ Fits /\ OnCpu /\ InRows /\ InFlight /\ Lent

-----------------------------------------------------------------------------
(* Numbers.                                                                 *)

\* A number of two digits: its quotient and its remainder.
LEMMA Digits ==
  ASSUME NEW a \in Nat, NEW b \in Nat, NEW c \in Nat, c < b
  PROVE  /\ (a * b + c) \div b = a
         /\ (a * b + c) % b = c
         /\ a * b + c \in Nat
OBVIOUS

\* A digit less keeps the number below the next multiple.
LEMMA Below ==
  ASSUME NEW a \in Nat, NEW b \in Nat, NEW c \in Nat, c < b, NEW d \in Nat, a < d
  PROVE  a * b + c < d * b
<1>1. (a + 1) * b <= d * b
  OBVIOUS
<1>2. (a + 1) * b = a * b + b /\ a * b \in Nat /\ d * b \in Nat
  OBVIOUS
<1> QED
  BY <1>1, <1>2

\* A number below d times b has a first digit below d.
LEMMA Quotient ==
  ASSUME NEW a \in Nat, NEW b \in Nat, b >= 1, NEW d \in Nat, a < d * b
  PROVE  /\ a \div b \in 0 .. (d - 1)
         /\ a % b \in 0 .. (b - 1)
         /\ a = (a \div b) * b + (a % b)
<1>1. a \div b \in Nat /\ a % b \in 0 .. (b - 1) /\ a = (a \div b) * b + (a % b)
  OBVIOUS
<1> DEFINE q == a \div b
<1>2. q < d
  <2> SUFFICES ASSUME d <= q PROVE FALSE
    BY <1>1
  <2>1. q \in Nat /\ q * b <= a
    BY <1>1
  <2> HIDE DEF q
  <2>2. d * b <= q * b
    BY <2>1
  <2>3. d * b \in Nat /\ q * b \in Nat
    BY <2>1
  <2> QED
    BY <2>1, <2>2, <2>3
<1> QED
  BY <1>1, <1>2

\* What NextJob chooses is there to be chosen.
LEMMA LeastElement ==
  ASSUME NEW S \in SUBSET Nat, S # {}
  PROVE  \E j \in S : \A k \in S : j <= k
<1> DEFINE R == OpToRel(<, Nat)
<1>1. IsWellFoundedOn(R, Nat)
  BY NatLessThanWellFounded
<1>2. R = {p \in Nat \X Nat : p[1] < p[2]}
  BY DEF OpToRel
<1> HIDE DEF R
<1>3. PICK x \in S : \A y \in S : ~(<<y, x>> \in R)
  BY <1>1, WFMin
<1>4. \A y \in S : ~(y < x)
  BY <1>2, <1>3
<1> QED
  BY <1>4

\* An entry's words, counted by the query and by the answer row.
LEMMA EntryShape ==
  ASSUME PlanTypeOK, PlanFaithful, NEW i \in DOMAIN entries
  PROVE  /\ entries[i].offset \in Nat /\ entries[i].words \in Nat
         /\ entries[i].matrix \in Matrices
         /\ Rows[entries[i].matrix] \in Nat /\ Rows[entries[i].matrix] >= 1
         /\ Blocks[entries[i].matrix] \in Nat /\ Blocks[entries[i].matrix] >= 1
         /\ Len(entries[i].queries) \in Nat
         /\ \A q \in 1 .. Len(entries[i].queries) : entries[i].queries[q] \in Queries
         /\ DOMAIN entries[i].queries = 1 .. Len(entries[i].queries)
         /\ PerQuery(entries[i]) \in Nat /\ PerQuery(entries[i]) >= 1
         /\ GridRows(entries[i]) \in Nat
         /\ entries[i].words = Len(entries[i].queries) * PerQuery(entries[i])
         /\ entries[i].words = GridRows(entries[i]) * Blocks[entries[i].matrix]
<1>1. entries[i] \in Entries
  BY DEF PlanTypeOK
<1>2. /\ entries[i].offset \in Nat /\ entries[i].words \in Nat
      /\ entries[i].matrix \in Matrices /\ entries[i].queries \in Seq(Queries)
  BY <1>1 DEF Entries
<1>3. /\ Rows[entries[i].matrix] \in Nat /\ Rows[entries[i].matrix] >= 1
      /\ Blocks[entries[i].matrix] \in Nat /\ Blocks[entries[i].matrix] >= 1
  <2>1. Rows[entries[i].matrix] \in Nat \ {0} /\ Blocks[entries[i].matrix] \in Nat \ {0}
    BY <1>2, EnginePlanAssumption
  <2> QED
    BY <2>1
<1>4. /\ Len(entries[i].queries) \in Nat
      /\ \A q \in 1 .. Len(entries[i].queries) : entries[i].queries[q] \in Queries
      /\ DOMAIN entries[i].queries = 1 .. Len(entries[i].queries)
  BY <1>2
<1>5. entries[i].words
        = Rows[entries[i].matrix] * Blocks[entries[i].matrix] * Len(entries[i].queries)
  BY DEF PlanFaithful, WordsOf
<1> DEFINE r == Rows[entries[i].matrix]
           b == Blocks[entries[i].matrix]
           l == Len(entries[i].queries)
           words == entries[i].words
<1>6. PerQuery(entries[i]) = r * b /\ GridRows(entries[i]) = r * l
  BY DEF PerQuery, GridRows
<1>7. r \in Nat /\ b \in Nat /\ l \in Nat /\ r >= 1 /\ b >= 1 /\ words = (r * b) * l
  BY <1>3, <1>4, <1>5
<1>8. /\ r * b \in Nat /\ r * b >= 1 /\ r * l \in Nat
      /\ words = l * (r * b) /\ words = (r * l) * b
  <2> HIDE DEF r, b, l, words
  <2> QED
    BY <1>7
<1> QED
  BY <1>2, <1>3, <1>4, <1>6, <1>8

\* The ranges of the entries lie in an arena that holds the total.
LEMMA Place ==
  ASSUME PlanTypeOK, Tiling, PlanFaithful, total <= Len(arena), Len(arena) \in Nat,
         NEW i \in DOMAIN entries, NEW w \in 0 .. (entries[i].words - 1)
  PROVE  entries[i].offset + w + 1 \in 1 .. Len(arena)
<1>1. entries[i].offset \in Nat /\ entries[i].words \in Nat
  BY EntryShape
<1>2. entries[i].offset + entries[i].words <= total /\ total \in Nat
  BY EnginePlanAssumption DEF Tiling, End, PlanTypeOK
<1> QED
  BY <1>1, <1>2

\* What is computed is a word of the arena.
LEMMA ComputedType ==
  ASSUME PlanTypeOK, PlanFaithful,
         NEW i \in DOMAIN entries, NEW w \in 0 .. (entries[i].words - 1)
  PROVE  Computed(entries[i], w) \in Words
<1> DEFINE r == Rows[entries[i].matrix]
           b == Blocks[entries[i].matrix]
           l == Len(entries[i].queries)
<1>1. /\ entries[i].matrix \in Matrices /\ r \in Nat /\ r >= 1 /\ b \in Nat /\ b >= 1
      /\ l \in Nat /\ GridRows(entries[i]) = l * r /\ GridRows(entries[i]) \in Nat
      /\ entries[i].words = GridRows(entries[i]) * b
      /\ \A q \in 1 .. l : entries[i].queries[q] \in Queries
  BY EntryShape DEF GridRows
<1> DEFINE g == GridRows(entries[i])
           words == entries[i].words
<1> HIDE DEF r, b, l, g, words
<1>2. w \in Nat /\ w < g * b
  <2>1. w \in 0 .. (words - 1)
    BY DEF words
  <2> QED
    BY <1>1, <2>1 DEF g, words
<1> DEFINE flat == w \div b
<1>3. flat \in 0 .. (g - 1) /\ w % b \in Nat
  BY <1>1, <1>2, Quotient DEF g
<1>4. flat \in Nat /\ flat < l * r
  BY <1>1, <1>3 DEF g
<1>5. flat \div r \in 0 .. (l - 1) /\ flat % r \in Nat
  <2> HIDE DEF flat
  <2>1. r \in Nat /\ r >= 1 /\ l \in Nat
    BY <1>1
  <2>2. flat \div r \in 0 .. (l - 1) /\ flat % r \in 0 .. (r - 1)
    BY <1>4, <2>1, Quotient
  <2> QED
    BY <2>1, <2>2
<1> HIDE DEF flat
<1>6. (flat \div r) + 1 \in 1 .. l
  BY <1>1, <1>5
<1> QED
  BY <1>1, <1>3, <1>5, <1>6 DEF Computed, Words, flat, r, b, l

\* A write of words of one entry makes them their answers, and leaves every
\* word that is its answer one.
LEMMA WritesAnswers ==
  ASSUME PlanTypeOK, Tiling, PlanFaithful, arena \in Seq(Words), total <= Len(arena),
         NEW i \in DOMAIN entries, NEW from \in Nat, NEW to \in Nat, to <= entries[i].words,
         Writes(entries[i], from, to), UNCHANGED planVars
  PROVE  /\ arena' \in Seq(Words)
         /\ Len(arena') = Len(arena)
         /\ \A j \in DOMAIN entries : \A w \in 0 .. (entries[j].words - 1) :
              Holds(j, w) => Holds(j, w)'
         /\ \A w \in from .. (to - 1) : Holds(i, w)'
<1> DEFINE n == Len(arena)
           o == entries[i].offset
<1>1. n \in Nat /\ DOMAIN arena = 1 .. n /\ \A k \in 1 .. n : arena[k] \in Words
  OBVIOUS
<1>2. o \in Nat /\ entries[i].words \in Nat
  BY EntryShape
<1>3. /\ DOMAIN arena' = 1 .. n
      /\ \A k \in 1 .. n : arena'[k] = IF from <= (k - 1) - o /\ (k - 1) - o < to
                                         THEN Computed(entries[i], (k - 1) - o) ELSE arena[k]
      /\ arena' = [k \in 1 .. n |-> IF from <= (k - 1) - o /\ (k - 1) - o < to
                                         THEN Computed(entries[i], (k - 1) - o) ELSE arena[k]]
  BY <1>1 DEF Writes
<1>4. \A k \in 1 .. n : arena'[k] \in Words
  <2> SUFFICES ASSUME NEW k \in 1 .. n, from <= (k - 1) - o, (k - 1) - o < to
               PROVE  Computed(entries[i], (k - 1) - o) \in Words
    BY <1>1, <1>3
  <2>1. (k - 1) - o \in 0 .. (entries[i].words - 1)
    BY <1>1, <1>2
  <2> QED
    BY <2>1, ComputedType
<1>5. arena' \in Seq(Words) /\ Len(arena') = n
  <2> HIDE DEF n
  <2>1. arena' \in [1 .. n -> Words]
    BY <1>3, <1>4
  <2> QED
    BY <1>1, <2>1
<1>6. ASSUME NEW j \in DOMAIN entries, NEW w \in 0 .. (entries[j].words - 1), Holds(j, w)
      PROVE  Holds(j, w)'
  <2> DEFINE k == entries[j].offset + w + 1
  <2>1. k \in 1 .. n /\ entries[j].offset \in Nat /\ entries[j].words \in Nat
    BY <1>1, Place, EntryShape
  <2>2. arena[k] = Computed(entries[j], w) /\ entries' = entries
    BY <1>6 DEF Holds, planVars
  <2>3. CASE j = i
    <3>1. (k - 1) - o = w
      BY <1>2, <2>3
    <3>2. arena'[k] = Computed(entries[j], w)
      BY <1>3, <2>1, <2>2, <2>3, <3>1
    <3> QED
      BY <2>2, <3>2 DEF Holds, Computed
  <2>4. CASE j # i
    <3>1. i \in Nat /\ j \in Nat
      BY DEF PlanTypeOK
    <3>2. CASE i < j
      <4>1. o + entries[i].words <= entries[j].offset
        BY <3>2 DEF Tiling, End
      <4>2. ~((k - 1) - o < to)
        <5>1. w \in Nat /\ k - 1 = entries[j].offset + w
          BY <2>1
        <5> HIDE DEF k, o
        <5> QED
          BY <1>2, <2>1, <4>1, <5>1
      <4>3. arena'[k] = arena[k]
        BY <1>3, <2>1, <4>2
      <4> QED
        BY <2>2, <4>3 DEF Holds, Computed
    <3>3. CASE j < i
      <4>1. entries[j].offset + entries[j].words <= o
        BY <3>3 DEF Tiling, End
      <4>2. ~(from <= (k - 1) - o)
        <5>1. w \in Nat /\ w < entries[j].words /\ k - 1 = entries[j].offset + w
          BY <2>1
        <5> HIDE DEF k, o
        <5> QED
          BY <1>2, <2>1, <4>1, <5>1
      <4>3. arena'[k] = arena[k]
        BY <1>3, <2>1, <4>2
      <4> QED
        BY <2>2, <4>3 DEF Holds, Computed
    <3> QED
      BY <2>4, <3>1, <3>2, <3>3
  <2> QED
    BY <2>3, <2>4
<1>7. ASSUME NEW w \in from .. (to - 1)
      PROVE  Holds(i, w)'
  <2> DEFINE k == o + w + 1
  <2>1. w \in 0 .. (entries[i].words - 1)
    BY <1>2
  <2>2. k \in 1 .. n
    BY <1>1, <2>1, Place
  <2>3. (k - 1) - o = w /\ from <= w /\ w < to
    BY <1>2
  <2>4. arena'[k] = Computed(entries[i], w)
    BY <1>3, <2>2, <2>3
  <2>5. entries' = entries
    BY DEF planVars
  <2> QED
    BY <2>4, <2>5 DEF Holds, Computed
<1> QED
  BY <1>5, <1>6, <1>7

\* The words that hold their answers go on doing so.
Persists ==
  \A i \in DOMAIN entries : \A w \in 0 .. (entries[i].words - 1) : Holds(i, w) => Holds(i, w)'

\* Where nothing is written nothing is lost.
LEMMA ArenaKept ==
  ASSUME UNCHANGED <<planVars, arena>>
  PROVE  Persists
BY DEF Persists, Holds, Computed, planVars

\* What an entry has been filled with stays.
LEMMA FilledPersists ==
  ASSUME PlanTypeOK, PlanFaithful, Persists, UNCHANGED planVars
  PROVE  /\ entries' = entries /\ OnDevice' = OnDevice /\ pc' = pc /\ total' = total
         /\ \A i \in DOMAIN entries : Filled(i) => Filled(i)'
         /\ \A i \in DOMAIN entries : \A row \in 0 .. (GridRows(entries[i]) - 1) :
              RowHolds(i, row) => RowHolds(i, row)'
<1>1. entries' = entries /\ OnDevice' = OnDevice /\ pc' = pc /\ total' = total
  BY DEF planVars, OnDevice
<1>2. \A i \in DOMAIN entries : Filled(i) => Filled(i)'
  BY <1>1 DEF Persists, Filled
<1>3. ASSUME NEW i \in DOMAIN entries, NEW row \in 0 .. (GridRows(entries[i]) - 1),
             RowHolds(i, row)
      PROVE  RowHolds(i, row)'
  <2> DEFINE b == Blocks[entries[i].matrix]
             g == GridRows(entries[i])
  <2>1. b \in Nat /\ g \in Nat /\ entries[i].words = g * b
    BY EntryShape
  <2>2. ASSUME NEW block \in 0 .. (b - 1)
        PROVE  \E w \in 0 .. (entries[i].words - 1) : w = row * b + block /\ Holds(i, w)'
    <3> DEFINE w == row * b + block
    <3>1. w \in Nat /\ w < g * b
      <4>1. row \in Nat /\ row < g
        BY <2>1
      <4> HIDE DEF b, g
      <4> QED
        BY <2>1, <4>1, Below
    <3>2. g * b \in Nat
      BY <2>1
    <3>3. w \in 0 .. (entries[i].words - 1)
      BY <2>1, <3>1, <3>2
    <3>4. Holds(i, w)
      BY <1>3 DEF RowHolds
    <3>5. PICK v \in 0 .. (entries[i].words - 1) : v = w
      BY <3>3
    <3>6. Holds(i, v)
      BY <3>4, <3>5
    <3>7. Holds(i, v)'
      BY <3>6 DEF Persists
    <3> QED
      BY <3>5, <3>7
  <2> QED
    BY <1>1, <2>2 DEF RowHolds, Holds, Computed
<1> QED
  BY <1>1, <1>2, <1>3

\* The rows of a parallel entry are the whole of it.
LEMMA RowsFill ==
  ASSUME PlanTypeOK, PlanFaithful, NEW i \in DOMAIN entries,
         \A row \in 0 .. (GridRows(entries[i]) - 1) : RowHolds(i, row)
  PROVE  Filled(i)
<1> DEFINE b == Blocks[entries[i].matrix]
           g == GridRows(entries[i])
<1>1. b \in Nat /\ b >= 1 /\ g \in Nat /\ entries[i].words = g * b
  BY EntryShape
<1> SUFFICES ASSUME NEW w \in 0 .. (entries[i].words - 1) PROVE Holds(i, w)
  BY DEF Filled
<1>2. \A row \in 0 .. (g - 1) : \A block \in 0 .. (b - 1) : Holds(i, row * b + block)
  BY DEF RowHolds
<1>3. w \in Nat /\ w < g * b
  BY <1>1
<1> DEFINE row == w \div b
           block == w % b
<1>4. row \in 0 .. (g - 1) /\ block \in 0 .. (b - 1) /\ w = row * b + block
  <2> HIDE DEF b, g
  <2> QED
    BY <1>1, <1>3, Quotient
<1> HIDE DEF row, block, b, g
<1> QED
  BY <1>2, <1>4

\* The entry a flight turns to next.
LEMMA NextJobIsNext ==
  ASSUME PlanTypeOK, NEW i \in Nat, After(i) # {}
  PROVE  /\ NextJob(i) \in OnDevice
         /\ NextJob(i) \in DOMAIN entries
         /\ \A k \in OnDevice : k < NextJob(i) => k <= i
<1>1. DOMAIN entries \in SUBSET Nat
  BY DEF PlanTypeOK
<1>2. After(i) \in SUBSET Nat /\ OnDevice \subseteq DOMAIN entries
  BY <1>1 DEF After, OnDevice
<1>3. NextJob(i) \in After(i) /\ \A k \in After(i) : NextJob(i) <= k
  BY <1>2, LeastElement DEF NextJob
<1> QED
  BY <1>1, <1>2, <1>3 DEF After

-----------------------------------------------------------------------------
(* The steps.                                                               *)

\* Steps that leave the plan alone keep the plan's invariant.
LEMMA PlanStays ==
  ASSUME PlanInv, UNCHANGED planVars
  PROVE  PlanInv'
BY PlanInductive

\* The types of a step that leaves the threads alone.
LEMMA TypesKept ==
  ASSUME RunTypes, run # "rows", run' # "rows", UNCHANGED <<todo, worker>>,
         arena' \in Seq(Words), pool' \in Seq(Nat \ {0}), answered' \in BOOLEAN,
         run' \in {"idle", "cpu", "rows", "flight"},
         at' \in 0 .. Len(entries') + 1, read' \in Nat
  PROVE  RunTypes'
<1>1. todo' = {} /\ worker' \in Workers
  BY DEF RunTypes
<1>2. worker' \in Workers'
  BY <1>1 DEF Workers
<1>3. arena' \in Seq(Words)'
  BY DEF Words
<1> QED
  BY <1>1, <1>2, <1>3 DEF RunTypes

\* A step that ends where nothing is executed need only look to its answers.
LEMMA IdleStep ==
  ASSUME PlanInv', RunTypes', AtRest', Lent', run' = "idle"
  PROVE  RunInv'
BY DEF RunInv, Fits, OnCpu, InRows, InFlight

\* Planning, and the calls on an idle workspace.
LEMMA PlanningStep ==
  ASSUME RunInv, Planning
  PROVE  RunInv'
<1>1. PlanInv'
  BY PlanInductive DEF RunInv, Planning
<1>2. run' = "idle" /\ at' = 0 /\ answered' = FALSE
  BY DEF RunInv, Planning, AtRest
<1>3. Len(entries') \in Nat
  BY <1>1 DEF PlanInv, PlanTypeOK
<1>4. RunTypes'
  <2>1. /\ UNCHANGED <<arena, pool, run, read, todo, worker>>
        /\ RunTypes /\ run = "idle"
    BY DEF RunInv, Planning
  <2>2. arena' \in Seq(Words) /\ pool' \in Seq(Nat \ {0}) /\ read' \in Nat
    BY <2>1 DEF RunTypes
  <2>3. at' \in 0 .. Len(entries') + 1
    BY <1>2, <1>3
  <2> QED
    BY <1>2, <2>1, <2>2, <2>3, TypesKept
<1>5. AtRest' /\ Lent'
  BY <1>2 DEF RunInv, AtRest, Lent, Planning
<1> QED
  BY <1>1, <1>2, <1>4, <1>5, IdleStep

LEMMA ReserveStep ==
  ASSUME RunInv, Reserve
  PROVE  RunInv'
<1>1. PlanInv' /\ UNCHANGED planVars
  BY PlanStays DEF RunInv, Reserve
<1>2. run' = "idle" /\ at' = 0 /\ answered' = FALSE
  BY DEF RunInv, Reserve, AtRest
<1>3. arena' \in Seq(Words)
  <2>1. arena \in Seq(Words) /\ total \in Nat /\ Zero \in Words
    BY EnginePlanAssumption DEF RunInv, RunTypes, PlanInv, PlanTypeOK, Words
  <2>2. CASE UNCHANGED arena
    BY <2>1, <2>2
  <2>3. CASE arena' = [i \in 1 .. total |-> IF i <= Len(arena) THEN arena[i] ELSE Zero]
    <3>1. \A i \in 1 .. total : (IF i <= Len(arena) THEN arena[i] ELSE Zero) \in Words
      BY <2>1
    <3>2. arena' \in [1 .. total -> Words]
      BY <2>3, <3>1
    <3> QED
      BY <2>1, <3>2
  <2> QED
    BY <2>2, <2>3 DEF Reserve
<1>4. RunTypes'
  BY <1>1, <1>2, <1>3 DEF RunInv, RunTypes, Reserve, planVars
<1>5. AtRest' /\ Lent'
  BY <1>2 DEF RunInv, AtRest, Lent, Reserve
<1> QED
  BY <1>1, <1>2, <1>4, <1>5, IdleStep

LEMMA ReleaseStep ==
  ASSUME RunInv, Release
  PROVE  RunInv'
<1>1. PlanInv' /\ UNCHANGED planVars
  BY PlanStays DEF RunInv, Release
<1>2. run' = "idle" /\ at' = 0 /\ answered' = FALSE /\ arena' = <<>> /\ pool' = <<>>
  BY DEF RunInv, Release, AtRest
<1>3. RunTypes'
  <2>1. arena' \in Seq(Words) /\ pool' \in Seq(Nat \ {0}) /\ Len(entries') \in Nat
    BY <1>1, <1>2 DEF PlanInv, PlanTypeOK
  <2>2. at' \in 0 .. Len(entries') + 1
    BY <1>2, <2>1
  <2>3. /\ RunTypes /\ run = "idle" /\ UNCHANGED <<run, read, todo, worker>> /\ read \in Nat
    BY DEF RunInv, RunTypes, Release
  <2> QED
    BY <1>2, <2>1, <2>2, <2>3, TypesKept
<1>4. AtRest' /\ Lent'
  BY <1>2 DEF RunInv, AtRest, Lent, Release
<1> QED
  BY <1>1, <1>2, <1>3, <1>4, IdleStep

LEMMA ExecuteStep ==
  ASSUME RunInv, Execute
  PROVE  RunInv'
<1>1. PlanInv' /\ UNCHANGED planVars /\ UNCHANGED <<arena, pool, read, todo, worker>>
  BY PlanStays DEF RunInv, Execute
<1>2. answered' = FALSE /\ pc = "planned" /\ run = "idle"
  BY DEF Execute
<1>3. CASE run' = "idle"
  <2>1. at' = 0
    BY <1>2, <1>3 DEF RunInv, Execute, AtRest
  <2>2. RunTypes'
    <3>1. Len(entries') \in Nat
      BY <1>1 DEF PlanInv, PlanTypeOK
    <3>2. at' \in 0 .. Len(entries') + 1
      BY <2>1, <3>1
    <3>3. arena' \in Seq(Words) /\ pool' \in Seq(Nat \ {0}) /\ read' \in Nat /\ RunTypes
      BY <1>1 DEF RunInv, RunTypes
    <3> QED
      BY <1>1, <1>2, <1>3, <3>2, <3>3, TypesKept
  <2>3. AtRest' /\ Lent'
    BY <1>1, <1>2, <1>3, <2>1 DEF RunInv, AtRest, Lent
  <2> QED
    BY <1>1, <1>3, <2>2, <2>3, IdleStep
<1>4. CASE run' # "idle"
  <2>1. run' = "cpu" /\ at' = 1 /\ total <= Len(arena)
    <3>1. Len(arena) \in Nat /\ total \in Nat
      BY EnginePlanAssumption DEF RunInv, RunTypes, PlanInv, PlanTypeOK
    <3> QED
      BY <1>2, <1>4, <3>1 DEF Execute
  <2>2. Len(entries) \in Nat /\ DOMAIN entries = 1 .. Len(entries)
    BY DEF RunInv, PlanInv, PlanTypeOK
  <2>3. RunTypes'
    <3>1. at' \in 0 .. Len(entries') + 1
      BY <1>1, <2>1, <2>2 DEF planVars
    <3>2. arena' \in Seq(Words) /\ pool' \in Seq(Nat \ {0}) /\ read' \in Nat /\ RunTypes
      BY <1>1 DEF RunInv, RunTypes
    <3> QED
      BY <1>1, <1>2, <2>1, <3>1, <3>2, TypesKept
  <2>4. AtRest' /\ Lent' /\ Fits' /\ InRows' /\ InFlight'
    BY <1>1, <1>2, <2>1 DEF RunInv, AtRest, Lent, Fits, InRows, InFlight, planVars
  <2>5. OnCpu'
    BY <1>1, <2>1, <2>2 DEF OnCpu, FilledHere, planVars
  <2> QED
    BY <1>1, <2>3, <2>4, <2>5 DEF RunInv
<1> QED
  BY <1>3, <1>4

\* Within the CPU pass, the next entry.
LEMMA NextEntry ==
  ASSUME RunInv, run \in {"cpu", "rows"}, NEW n \in DOMAIN entries, at = n, FilledHere(n),
         UNCHANGED planVars, Persists, n \notin OnDevice => Filled(n)',
         arena' \in Seq(Words), Len(arena') = Len(arena), pool' \in Seq(Nat \ {0}),
         run' = "cpu", at' = at + 1, UNCHANGED <<read, answered>>,
         todo' = {}, worker' = worker, \A t \in Threads : worker[t].step = "idle"
  PROVE  RunInv'
<1>1. PlanInv'
  BY PlanStays DEF RunInv
<1>2. /\ Len(entries) \in Nat /\ DOMAIN entries = 1 .. Len(entries)
      /\ n \in Nat /\ OnDevice \subseteq DOMAIN entries
  BY DEF RunInv, PlanInv, PlanTypeOK, OnDevice
<1>3. entries' = entries /\ pc' = pc /\ total' = total
  BY DEF planVars
<1>4. RunTypes'
  BY <1>2, <1>3 DEF RunInv, RunTypes
<1>5. /\ pc = "planned" /\ total <= Len(arena) /\ ~answered /\ read = 0
  BY DEF RunInv, Fits, Lent, AtRest, RunTypes
<1>6. AtRest' /\ Lent' /\ Fits' /\ InRows' /\ InFlight'
  BY <1>3, <1>5 DEF AtRest, Lent, Fits, InRows, InFlight
<1>7. OnCpu'
  <2>1. /\ \A i \in DOMAIN entries : Filled(i) => Filled(i)'
        /\ OnDevice' = OnDevice
    BY FilledPersists DEF RunInv, PlanInv
  <2>2. ASSUME NEW i \in DOMAIN entries, i < n + 1, i \notin OnDevice
        PROVE  Filled(i)'
    <3>1. CASE i = n
      <4>1. i \notin OnDevice => Filled(i)'
        BY <3>1
      <4> QED
        BY <2>2, <4>1
    <3>2. CASE i < n
      BY <2>1, <2>2, <3>2 DEF FilledHere
    <3> QED
      BY <1>2, <2>2, <3>1, <3>2
  <2> QED
    BY <1>2, <1>3, <2>1, <2>2 DEF OnCpu, FilledHere
<1> QED
  BY <1>1, <1>4, <1>6, <1>7 DEF RunInv

\* The entry a pass stands at.
LEMMA AtEntry ==
  ASSUME RunInv
  PROVE  /\ DOMAIN entries = 1 .. Len(entries) /\ Len(entries) \in Nat
         /\ run = "cpu" /\ at <= Len(entries) => at \in DOMAIN entries
         /\ run # "idle" => total <= Len(arena) /\ ~answered
         /\ arena \in Seq(Words) /\ Len(arena) \in Nat
         /\ PlanTypeOK /\ Tiling /\ PlanFaithful /\ at \in Nat
<1>1. DOMAIN entries = 1 .. Len(entries) /\ Len(entries) \in Nat
  BY DEF RunInv, PlanInv, PlanTypeOK
<1>2. at \in Nat
  BY <1>1 DEF RunInv, RunTypes
<1> QED
  BY <1>1, <1>2 DEF RunInv, RunTypes, OnCpu, Fits, Lent, PlanInv

\* The entries of the CPU pass, one by one.
LEMMA FillSerialStep ==
  ASSUME RunInv, FillSerial
  PROVE  RunInv'
<1>1. PICK n \in DOMAIN entries : n = at
  BY AtEntry DEF FillSerial
<1>2. /\ run = "cpu" /\ FilledHere(n) /\ UNCHANGED planVars
      /\ Writes(entries[n], 0, entries[n].words)
  BY <1>1 DEF RunInv, FillSerial, OnCpu
<1>3. entries[n].words \in Nat
  BY AtEntry, EntryShape
<1>4. /\ arena' \in Seq(Words) /\ Len(arena') = Len(arena) /\ Persists
      /\ \A w \in 0 .. (entries[n].words - 1) : Holds(n, w)'
  BY <1>2, <1>3, AtEntry, WritesAnswers DEF Persists
<1>5. Filled(n)'
  BY <1>2, <1>4 DEF Filled, planVars
<1> QED
  BY <1>1, <1>2, <1>4, <1>5, NextEntry DEF FillSerial, RunInv, RunTypes, AtRest

LEMMA PassOverStep ==
  ASSUME RunInv, PassOver
  PROVE  RunInv'
<1>1. PICK n \in DOMAIN entries : n = at
  BY AtEntry DEF PassOver
<1>2. /\ run = "cpu" /\ FilledHere(n) /\ UNCHANGED planVars /\ n \in OnDevice
  BY <1>1 DEF RunInv, PassOver, OnCpu, OnDevice
<1>3. Persists
  BY <1>2, ArenaKept DEF PassOver
<1> QED
  BY <1>1, <1>2, <1>3, NextEntry DEF PassOver, RunInv, RunTypes, AtRest

\* Inside a parallel entry, what a step of the threads must leave true.
LEMMA RowStep ==
  ASSUME RunInv, UNCHANGED planVars, Persists, run' = "rows",
         NEW n \in DOMAIN entries, at = n, at' = n, ~answered, UNCHANGED <<read, answered>>,
         entries[n].backend = "Rayon", FilledHere(n), pc = "planned", total <= Len(arena), read = 0,
         arena' \in Seq(Words), Len(arena') = Len(arena), pool' \in Seq(Nat \ {0}),
         worker' \in Workers, todo' \subseteq 0 .. (GridRows(entries[n]) - 1),
         \A row \in 0 .. (GridRows(entries[n]) - 1) :
           \/ row \in todo'
           \/ \E t \in Threads : worker'[t].step = "leased" /\ worker'[t].row = row
           \/ RowHolds(n, row)',
         \A t \in Threads : worker'[t].step # "idle" =>
           /\ worker'[t].row < GridRows(entries[n])
           /\ worker'[t].width = Blocks[entries[n].matrix]
  PROVE  RunInv'
<1>1. PlanInv'
  BY PlanStays DEF RunInv
<1>2. /\ Len(entries) \in Nat /\ DOMAIN entries = 1 .. Len(entries)
      /\ n \in Nat /\ OnDevice \subseteq DOMAIN entries
  BY DEF RunInv, PlanInv, PlanTypeOK, OnDevice
<1>3. entries' = entries /\ pc' = pc /\ total' = total
  BY DEF planVars
<1>4. RunTypes'
  <2>1. todo' \subseteq 0 .. (GridRows(entries[at])' - 1)
    BY <1>3 DEF GridRows
  <2>2. worker' \in Workers' /\ arena' \in Seq(Words)' /\ answered \in BOOLEAN
    BY DEF Workers, Words, RunInv, RunTypes
  <2>3. at' \in 0 .. Len(entries') + 1 /\ read' \in Nat
    BY <1>2, <1>3
  <2> QED
    BY <1>3, <2>1, <2>2, <2>3 DEF RunTypes, GridRows
<1>5. AtRest' /\ Lent' /\ Fits' /\ OnCpu' /\ InFlight'
  BY <1>3 DEF AtRest, Lent, Fits, OnCpu, InFlight
<1>6. InRows'
  <2>1. /\ \A i \in DOMAIN entries : Filled(i) => Filled(i)'
        /\ OnDevice' = OnDevice
    BY FilledPersists DEF RunInv, PlanInv
  <2>2. \A i \in DOMAIN entries : i < n /\ i \notin OnDevice => Filled(i)'
    BY <1>2, <2>1 DEF FilledHere
  <2> QED
    BY <1>2, <1>3, <2>1, <2>2 DEF InRows, FilledHere, GridRows
<1> QED
  BY <1>1, <1>4, <1>5, <1>6 DEF RunInv

\* A parallel entry: all its rows are waiting.
LEMMA StartRowsStep ==
  ASSUME RunInv, StartRows
  PROVE  RunInv'
<1>1. PICK n \in DOMAIN entries : n = at
  BY AtEntry DEF StartRows
<1>2. /\ run = "cpu" /\ FilledHere(n) /\ UNCHANGED planVars
      /\ entries[n].backend = "Rayon" /\ run' = "rows"
      /\ todo' = 0 .. (GridRows(entries[n]) - 1)
      /\ UNCHANGED <<arena, pool, at, read, worker, answered>>
  BY <1>1 DEF RunInv, StartRows, OnCpu
<1>3. Persists
  BY <1>2, ArenaKept
<1>4. /\ pc = "planned" /\ total <= Len(arena) /\ ~answered /\ read = 0
      /\ pool \in Seq(Nat \ {0}) /\ worker \in Workers /\ arena \in Seq(Words)
      /\ \A t \in Threads : worker[t].step = "idle"
  BY <1>2 DEF RunInv, Fits, Lent, AtRest, RunTypes
<1> QED
  BY <1>1, <1>2, <1>3, <1>4, RowStep

\* The threads are at the rows of entry n.
RowsAt(n) ==
  /\ at = n /\ ~answered /\ entries[n].backend = "Rayon" /\ FilledHere(n)
  /\ pc = "planned" /\ total <= Len(arena) /\ read = 0
  /\ arena \in Seq(Words) /\ pool \in Seq(Nat \ {0}) /\ worker \in Workers
  /\ todo \subseteq 0 .. (GridRows(entries[n]) - 1)
  /\ \A row \in 0 .. (GridRows(entries[n]) - 1) :
       \/ row \in todo
       \/ \E t \in Threads : worker[t].step = "leased" /\ worker[t].row = row
       \/ RowHolds(n, row)
  /\ \A t \in Threads : worker[t].step # "idle" =>
       /\ worker[t].row < GridRows(entries[n])
       /\ worker[t].width = Blocks[entries[n].matrix]

\* While the threads are at work, it is at the rows of an entry.
LEMMA AtRows ==
  ASSUME RunInv, run = "rows"
  PROVE  \E n \in DOMAIN entries : RowsAt(n)
BY DEF RunInv, InRows, Fits, Lent, AtRest, RunTypes, RowsAt

Steps == [step : {"idle", "leased", "copied"}, row : Nat, width : Nat]

\* One thread moves, the others stay where they are.
LEMMA WorkerMoves ==
  ASSUME worker \in Workers, NEW t \in Threads, NEW w \in Steps,
         worker' = [worker EXCEPT ![t] = w]
  PROVE  /\ worker' \in Workers
         /\ worker'[t] = w
         /\ \A u \in Threads : u # t => worker'[u] = worker[u]
BY DEF Workers, Steps

\* What a thread is known by.
LEMMA WorkerFields ==
  ASSUME worker \in Workers, NEW t \in Threads
  PROVE  /\ worker[t] \in Steps
         /\ worker[t].step \in {"idle", "leased", "copied"}
         /\ worker[t].row \in Nat /\ worker[t].width \in Nat
BY DEF Workers, Steps

\* A thread takes a waiting row, writes it, and is free for the next.
LEMMA LeaseStep ==
  ASSUME RunInv, NEW t \in Threads, Lease(t)
  PROVE  RunInv'
<1>1. PICK n \in DOMAIN entries : RowsAt(n)
  BY AtRows DEF Lease
<1>2. PICK row \in todo :
        /\ todo' = todo \ {row}
        /\ worker' = [worker EXCEPT ![t] =
             [step |-> "leased", row |-> row, width |-> Blocks[entries[n].matrix]]]
  BY <1>1 DEF Lease, Leased, RowsAt
<1>3. /\ run = "rows" /\ worker[t].step = "idle" /\ run' = run /\ at' = at
      /\ UNCHANGED planVars /\ UNCHANGED arena /\ UNCHANGED <<read, answered>> /\ pool' = Rest
  BY DEF Lease
<1>4. pool' \in Seq(Nat \ {0})
  BY <1>1, <1>3 DEF Rest, RowsAt
<1>5. /\ Blocks[entries[n].matrix] \in Nat /\ GridRows(entries[n]) \in Nat
  BY AtEntry, EntryShape
<1>6. row \in Nat /\ row < GridRows(entries[n])
  BY <1>1, <1>5 DEF RowsAt
<1>7. /\ worker' \in Workers
      /\ worker'[t] = [step |-> "leased", row |-> row, width |-> Blocks[entries[n].matrix]]
      /\ \A u \in Threads : u # t => worker'[u] = worker[u]
  <2> DEFINE w == [step |-> "leased", row |-> row, width |-> Blocks[entries[n].matrix]]
  <2>1. w \in Steps
    BY <1>5, <1>6 DEF Steps
  <2> QED
    BY <1>1, <1>2, <2>1, WorkerMoves DEF RowsAt
<1>8. Persists /\ entries' = entries
  BY <1>3, ArenaKept DEF planVars
<1>9. ASSUME NEW r \in 0 .. (GridRows(entries[n]) - 1)
      PROVE  \/ r \in todo'
             \/ \E u \in Threads : worker'[u].step = "leased" /\ worker'[u].row = r
             \/ RowHolds(n, r)'
  <2>1. CASE r \in todo
    BY <1>2, <1>7, <2>1
  <2>2. CASE \E u \in Threads : worker[u].step = "leased" /\ worker[u].row = r
    BY <1>3, <1>7, <2>2
  <2>3. CASE RowHolds(n, r)
    BY <1>3, <2>3, AtEntry, FilledPersists, <1>8
  <2> QED
    BY <1>1, <2>1, <2>2, <2>3 DEF RowsAt
<1>10. \A u \in Threads : worker'[u].step # "idle" =>
         /\ worker'[u].row < GridRows(entries[n])
         /\ worker'[u].width = Blocks[entries[n].matrix]
  BY <1>1, <1>6, <1>7 DEF RowsAt
<1>11. todo' \subseteq 0 .. (GridRows(entries[n]) - 1)
  BY <1>1, <1>2 DEF RowsAt
<1> QED
  BY <1>1, <1>3, <1>4, <1>7, <1>8, <1>9, <1>10, <1>11, RowStep DEF RowsAt

LEMMA ComputeStep ==
  ASSUME RunInv, NEW t \in Threads, Compute(t)
  PROVE  RunInv'
<1>1. PICK n \in DOMAIN entries : RowsAt(n)
  BY AtRows DEF Compute
<1> DEFINE b == Blocks[entries[n].matrix]
           g == GridRows(entries[n])
           row == worker[t].row
<1>2. /\ run = "rows" /\ worker[t].step = "leased" /\ run' = run /\ at' = at
      /\ UNCHANGED planVars /\ UNCHANGED pool /\ UNCHANGED <<read, todo, answered>>
      /\ Writes(entries[n], row * b, (row + 1) * b)
      /\ worker' = [worker EXCEPT ![t].step = "copied"]
  BY <1>1 DEF Compute, RowsAt
<1>3. /\ b \in Nat /\ g \in Nat /\ entries[n].words = g * b /\ entries[n].words \in Nat
  BY AtEntry, EntryShape
<1>4. row \in Nat /\ row < g /\ worker[t] \in Steps /\ worker[t].width \in Nat
  BY <1>1, <1>2, WorkerFields DEF RowsAt
<1>5. row * b \in Nat /\ (row + 1) * b \in Nat /\ (row + 1) * b <= entries[n].words
      /\ (row + 1) * b = row * b + b
  <2> DEFINE words == entries[n].words
  <2> HIDE DEF words, b, g, row
  <2> QED
    BY <1>3, <1>4 DEF words
<1>6. /\ arena' \in Seq(Words) /\ Len(arena') = Len(arena) /\ Persists
      /\ \A w \in (row * b) .. ((row + 1) * b - 1) : Holds(n, w)'
  <2>1. PICK from \in Nat, to \in Nat : from = row * b /\ to = (row + 1) * b
    BY <1>5
  <2>2. to <= entries[n].words /\ Writes(entries[n], from, to)
    BY <1>2, <1>5, <2>1
  <2>3. /\ arena' \in Seq(Words) /\ Len(arena') = Len(arena) /\ Persists
        /\ \A w \in from .. (to - 1) : Holds(n, w)'
    BY <1>1, <1>2, <2>2, AtEntry, WritesAnswers DEF RowsAt, Persists
  <2> QED
    BY <2>1, <2>3
<1>7. /\ worker' \in Workers
      /\ worker'[t] = [step |-> "copied", row |-> row, width |-> worker[t].width]
      /\ \A u \in Threads : u # t => worker'[u] = worker[u]
  <2> DEFINE w == [step |-> "copied", row |-> row, width |-> worker[t].width]
  <2>1. w \in Steps
    BY <1>4 DEF Steps
  <2>2. worker' = [worker EXCEPT ![t] = w]
    <3>1. [worker[t] EXCEPT !.step = "copied"] = w
      BY <1>4 DEF Steps
    <3>2. worker' = [worker EXCEPT ![t] = [worker[t] EXCEPT !.step = "copied"]]
      BY <1>2
    <3> QED
      BY <3>1, <3>2
  <2> HIDE DEF w
  <2>3. worker' \in Workers /\ worker'[t] = w /\ \A u \in Threads : u # t => worker'[u] = worker[u]
    BY <1>1, <2>1, <2>2, WorkerMoves DEF RowsAt
  <2> QED
    BY <2>3 DEF w
<1>8. entries' = entries
  BY <1>2 DEF planVars
<1>9. ASSUME NEW r \in 0 .. (GridRows(entries[n]) - 1)
      PROVE  \/ r \in todo'
             \/ \E u \in Threads : worker'[u].step = "leased" /\ worker'[u].row = r
             \/ RowHolds(n, r)'
  <2>1. CASE r \in todo
    BY <1>2, <2>1
  <2>2. CASE \E u \in Threads : u # t /\ worker[u].step = "leased" /\ worker[u].row = r
    BY <1>7, <2>2
  <2>3. CASE RowHolds(n, r)
    BY <1>2, <1>6, <2>3, AtEntry, FilledPersists
  <2>4. CASE r = row
    <3>1. \A block \in 0 .. (b - 1) : row * b + block \in (row * b) .. ((row + 1) * b - 1)
      <4> HIDE DEF b, row
      <4> QED
        BY <1>3, <1>4, <1>5
    <3>2. \A block \in 0 .. (b - 1) :
            \E w \in (row * b) .. ((row + 1) * b - 1) : w = row * b + block /\ Holds(n, w)'
      BY <1>6, <3>1
    <3> HIDE DEF row
    <3> QED
      BY <1>8, <2>4, <3>2 DEF RowHolds, Holds, Computed
  <2> QED
    BY <1>1, <2>1, <2>2, <2>3, <2>4 DEF RowsAt
<1>10. \A u \in Threads : worker'[u].step # "idle" =>
         /\ worker'[u].row < GridRows(entries[n])
         /\ worker'[u].width = Blocks[entries[n].matrix]
  BY <1>1, <1>2, <1>7 DEF RowsAt
<1> QED
  BY <1>1, <1>2, <1>6, <1>7, <1>9, <1>10, RowStep DEF RowsAt

LEMMA ReturnStep ==
  ASSUME RunInv, NEW t \in Threads, Return(t)
  PROVE  RunInv'
<1>1. PICK n \in DOMAIN entries : RowsAt(n)
  BY AtRows DEF Return
<1>2. /\ run = "rows" /\ worker[t].step = "copied" /\ run' = run /\ at' = at
      /\ UNCHANGED planVars /\ UNCHANGED arena /\ UNCHANGED <<read, todo, answered>>
      /\ pool' = Append(pool, worker[t].width)
      /\ worker' = [worker EXCEPT ![t] = NoWorker]
  BY DEF Return
<1>3. /\ worker' \in Workers /\ worker'[t] = NoWorker
      /\ \A u \in Threads : u # t => worker'[u] = worker[u]
  <2>1. NoWorker \in Steps
    BY DEF NoWorker, Steps
  <2> QED
    BY <1>1, <1>2, <2>1, WorkerMoves DEF RowsAt
<1>4. pool' \in Seq(Nat \ {0})
  <2>1. worker[t].width = Blocks[entries[n].matrix]
    BY <1>1, <1>2 DEF RowsAt
  <2>2. worker[t].width \in Nat \ {0}
    BY <2>1, AtEntry, EntryShape
  <2> QED
    BY <1>1, <1>2, <2>2 DEF RowsAt
<1>5. Persists /\ entries' = entries
  BY <1>2, ArenaKept DEF planVars
<1>6. ASSUME NEW r \in 0 .. (GridRows(entries[n]) - 1)
      PROVE  \/ r \in todo'
             \/ \E u \in Threads : worker'[u].step = "leased" /\ worker'[u].row = r
             \/ RowHolds(n, r)'
  <2>1. CASE r \in todo
    BY <1>2, <2>1
  <2>2. CASE \E u \in Threads : worker[u].step = "leased" /\ worker[u].row = r
    BY <1>2, <1>3, <2>2
  <2>3. CASE RowHolds(n, r)
    BY <1>2, <1>5, <2>3, AtEntry, FilledPersists
  <2> QED
    BY <1>1, <2>1, <2>2, <2>3 DEF RowsAt
<1>7. \A u \in Threads : worker'[u].step # "idle" =>
        /\ worker'[u].row < GridRows(entries[n])
        /\ worker'[u].width = Blocks[entries[n].matrix]
  BY <1>1, <1>3 DEF RowsAt, NoWorker
<1> QED
  BY <1>1, <1>2, <1>3, <1>4, <1>5, <1>6, <1>7, RowStep DEF RowsAt

\* With no row waiting and no thread at work, the entry is filled.
LEMMA EndRowsStep ==
  ASSUME RunInv, EndRows
  PROVE  RunInv'
<1>1. PICK n \in DOMAIN entries : RowsAt(n)
  BY AtRows DEF EndRows
<1>2. /\ run = "rows" /\ todo = {} /\ run' = "cpu" /\ at' = at + 1
      /\ \A t \in Threads : worker[t].step = "idle"
      /\ UNCHANGED planVars /\ UNCHANGED <<arena, pool, read, todo, worker, answered>>
  BY DEF EndRows
<1>3. \A row \in 0 .. (GridRows(entries[n]) - 1) : RowHolds(n, row)
  BY <1>1, <1>2 DEF RowsAt
<1>4. Filled(n)
  BY <1>3, AtEntry, RowsFill
<1>5. Persists
  BY <1>2, ArenaKept
<1>6. Filled(n)'
  BY <1>2, <1>4, <1>5, AtEntry, FilledPersists
<1> QED
  BY <1>1, <1>2, <1>5, <1>6, NextEntry DEF RowsAt

\* execute returns, with every entry filled if it returns the answers.
LEMMA ReturnsStep ==
  ASSUME RunInv, NEW ok \in BOOLEAN, Returns(ok), UNCHANGED <<planVars, pool, todo, worker>>,
         run \in {"cpu", "flight"}, arena' \in Seq(Words), Len(arena') = Len(arena),
         ok => \A i \in DOMAIN entries : Filled(i)'
  PROVE  RunInv'
<1>1. PlanInv' /\ entries' = entries /\ pc' = pc /\ total' = total
  BY PlanStays DEF RunInv, planVars
<1>2. run' = "idle" /\ at' = 0 /\ read' = 0 /\ answered' = ok
  BY DEF Returns
<1>3. RunTypes'
  <2>1. Len(entries') \in Nat
    BY <1>1 DEF PlanInv, PlanTypeOK
  <2>2. at' \in 0 .. Len(entries') + 1
    BY <1>2, <2>1
  <2>3. pool' \in Seq(Nat \ {0}) /\ RunTypes
    BY DEF RunInv, RunTypes
  <2> QED
    BY <1>2, <2>2, <2>3, TypesKept
<1>4. pc = "planned" /\ total <= Len(arena)
  BY DEF RunInv, Fits
<1>5. AtRest' /\ Lent'
  BY <1>1, <1>2, <1>4 DEF RunInv, AtRest, Lent
<1> QED
  BY <1>1, <1>2, <1>3, <1>5, IdleStep

\* The flight goes on, at the same job or the next.
LEMMA FlightStep ==
  ASSUME RunInv, UNCHANGED <<planVars, pool, todo, worker, answered>>, run \in {"cpu", "flight"},
         Persists, arena' \in Seq(Words), Len(arena') = Len(arena),
         run' = "flight", NEW n \in OnDevice, at' = n, read' \in Nat,
         read' <= Len(entries[n].queries),
         FilledHere(Len(entries) + 1),
         \A i \in OnDevice : i < n => Filled(i)',
         NEW k \in Nat, k = read' * PerQuery(entries[n]),
         \A w \in 0 .. (k - 1) : Holds(n, w)'
  PROVE  RunInv'
<1>1. PlanInv' /\ entries' = entries /\ pc' = pc /\ total' = total /\ OnDevice' = OnDevice
  BY PlanStays DEF RunInv, planVars, OnDevice
<1>2. RunTypes'
  <2>1. Len(entries) \in Nat /\ n \in 1 .. Len(entries)
    BY DEF RunInv, PlanInv, PlanTypeOK, OnDevice
  <2>2. at' \in 0 .. Len(entries') + 1
    BY <1>1, <2>1
  <2>3. pool' \in Seq(Nat \ {0}) /\ RunTypes /\ answered' \in BOOLEAN
    BY DEF RunInv, RunTypes
  <2> QED
    BY <2>2, <2>3, TypesKept
<1>3. pc = "planned" /\ total <= Len(arena) /\ ~answered
  BY DEF RunInv, Fits, Lent
<1>4. AtRest' /\ Lent' /\ Fits' /\ OnCpu' /\ InRows'
  <2>1. \A t \in Threads : worker[t].step = "idle"
    BY DEF RunInv, AtRest
  <2> QED
    BY <1>1, <1>3, <2>1 DEF AtRest, Lent, Fits, OnCpu, InRows
<1>5. InFlight'
  <2>1. \A i \in DOMAIN entries : Filled(i) => Filled(i)'
    BY FilledPersists DEF RunInv, PlanInv
  <2>2. FilledHere(Len(entries) + 1)'
    BY <1>1, <2>1 DEF FilledHere
  <2>3. PerQuery(entries[at])' = PerQuery(entries[n])
    BY <1>1 DEF PerQuery
  <2>4. \A i \in OnDevice' : i < at' => Filled(i)'
    BY <1>1
  <2>5. \A w \in 0 .. (read' * PerQuery(entries[at])' - 1) :
          arena'[entries'[at'].offset + w + 1] = Computed(entries'[at'], w)
    BY <2>3 DEF Holds, Computed
  <2> QED
    BY <1>1, <2>2, <2>4, <2>5 DEF InFlight, FilledThere, Holds, Computed
<1> QED
  BY <1>1, <1>2, <1>4, <1>5 DEF RunInv

\* The CPU pass is over: all is filled, or the flight starts at its first job.
LEMMA EndCpuStep ==
  ASSUME RunInv, EndCpu
  PROVE  RunInv'
<1>1. /\ run = "cpu" /\ at > Len(entries)
      /\ UNCHANGED <<planVars, arena, pool, todo, worker>>
  BY DEF EndCpu
<1>2. DOMAIN entries = 1 .. Len(entries) /\ Len(entries) \in Nat /\ at \in Nat /\ arena \in Seq(Words)
  BY AtEntry
<1>3. FilledHere(Len(entries) + 1)
  BY <1>1, <1>2 DEF RunInv, OnCpu, FilledHere
<1>4. Persists
  BY <1>1, ArenaKept
<1>5. CASE OnDevice = {} /\ Returns(TRUE)
  <2>1. \A i \in DOMAIN entries : Filled(i)
    BY <1>2, <1>3, <1>5 DEF FilledHere
  <2>2. \A i \in DOMAIN entries : Filled(i)'
    BY <1>1, <1>4, <2>1, AtEntry, FilledPersists
  <2> QED
    BY <1>1, <1>2, <1>5, <2>2, ReturnsStep
<1>6. CASE OnDevice # {} /\ run' = "flight" /\ at' = NextJob(0) /\ UNCHANGED <<read, answered>>
  <2>1. After(0) = OnDevice
    BY <1>2 DEF After, OnDevice
  <2>2. NextJob(0) \in OnDevice /\ \A k \in OnDevice : k < NextJob(0) => k <= 0
    BY <1>6, <2>1, AtEntry, NextJobIsNext
  <2>3. \A k \in OnDevice : ~(k <= 0)
    BY <1>2 DEF OnDevice
  <2>4. PICK n \in OnDevice : n = NextJob(0)
    BY <2>2
  <2>5. read' = 0
    BY <1>1, <1>6 DEF RunInv, AtRest
  <2>6. PerQuery(entries[n]) \in Nat /\ Len(entries[n].queries) \in Nat
    BY AtEntry, EntryShape DEF OnDevice
  <2>7. 0 = read' * PerQuery(entries[n])
    BY <2>5, <2>6
  <2> QED
    BY <1>1, <1>2, <1>3, <1>4, <1>6, <2>2, <2>3, <2>4, <2>5, <2>6, <2>7, FlightStep
<1> QED
  BY <1>5, <1>6 DEF EndCpu

\* Where the flight stands.
LEMMA AtFlight ==
  ASSUME RunInv, run = "flight"
  PROVE  \E n \in OnDevice :
           /\ n = at /\ n \in DOMAIN entries /\ n \in Nat
           /\ FilledHere(Len(entries) + 1) /\ FilledThere(n)
           /\ read \in Nat /\ read <= Len(entries[n].queries)
           /\ \A w \in 0 .. (read * PerQuery(entries[n]) - 1) : Holds(n, w)
BY AtEntry DEF RunInv, InFlight, OnDevice, RunTypes

\* The words of the queries from read on: where a piece of the device's answers
\* lands.
LEMMA Landing ==
  ASSUME NEW per \in Nat, NEW len \in Nat, NEW done \in Nat, done <= len,
         NEW count \in 0 .. (len - done)
  PROVE  /\ done * per \in Nat /\ (done + count) * per \in Nat
         /\ (done + count) * per <= len * per
         /\ \A words \in 0 .. ((len - done) * per - 1) :
              done * per + words \in Nat /\ done * per + words <= len * per
<1>1. (len - done) * per = len * per - done * per
  OBVIOUS
<1>2. done * per \in Nat /\ (done + count) * per \in Nat /\ len * per \in Nat
  OBVIOUS
<1>3. (done + count) * per <= len * per
  <2>1. done + count \in Nat /\ done + count <= len
    OBVIOUS
  <2> QED
    BY <2>1
<1> QED
  BY <1>1, <1>2, <1>3

\* The next segment is read back: within its job, to its end, or to the end of
\* the flight.
LEMMA ReadSegmentStep ==
  ASSUME RunInv, ReadSegment
  PROVE  RunInv'
<1>1. PICK n \in OnDevice :
        /\ n = at /\ n \in DOMAIN entries /\ n \in Nat
        /\ FilledHere(Len(entries) + 1) /\ FilledThere(n)
        /\ read \in Nat /\ read <= Len(entries[n].queries)
        /\ \A w \in 0 .. (read * PerQuery(entries[n]) - 1) : Holds(n, w)
  BY AtFlight DEF ReadSegment
<1> DEFINE per == PerQuery(entries[n])
           len == Len(entries[n].queries)
           words == entries[n].words
<1>2. per \in Nat /\ len \in Nat /\ words \in Nat /\ words = len * per
  BY <1>1, AtEntry, EntryShape
<1>3. PICK count \in 1 .. (len - read) :
        /\ Writes(entries[n], read * per, (read + count) * per)
        /\ \/ /\ count < len - read
              /\ read' = read + count
              /\ UNCHANGED <<run, at, answered>>
           \/ /\ count = len - read /\ After(n) # {}
              /\ read' = 0
              /\ at' = NextJob(n)
              /\ UNCHANGED <<run, answered>>
           \/ /\ count = len - read /\ After(n) = {}
              /\ Returns(TRUE)
  BY <1>1 DEF ReadSegment, Left
<1>4. run = "flight" /\ UNCHANGED <<planVars, pool, todo, worker>>
  BY DEF ReadSegment
<1> HIDE DEF per, len, words
<1>5. PICK from \in Nat, to \in Nat :
        from = read * per /\ to = (read + count) * per /\ to <= words
  <2>1. count \in 0 .. (len - read)
    BY <1>3
  <2> QED
    BY <1>1, <1>2, <2>1, Landing
<1>6. /\ arena' \in Seq(Words) /\ Len(arena') = Len(arena) /\ Persists
      /\ \A w \in from .. (to - 1) : Holds(n, w)'
  <2>1. Writes(entries[n], from, to) /\ to <= entries[n].words
    BY <1>3, <1>5 DEF words
  <2> QED
    BY <1>1, <1>4, <2>1, AtEntry, WritesAnswers DEF Persists
<1>7. \A w \in 0 .. (to - 1) : Holds(n, w)'
  <2> SUFFICES ASSUME NEW w \in 0 .. (to - 1) PROVE Holds(n, w)'
    OBVIOUS
  <2>1. CASE w < from
    <3>1. w \in 0 .. (words - 1) /\ w \in 0 .. (from - 1)
      BY <1>2, <1>5, <2>1
    <3>2. Holds(n, w)
      BY <1>1, <1>5, <3>1 DEF per
    <3> QED
      BY <1>1, <1>6, <3>1, <3>2 DEF Persists, words
  <2>2. CASE ~(w < from)
    BY <1>5, <1>6, <2>2
  <2> QED
    BY <2>1, <2>2
<1>8. /\ entries' = entries /\ OnDevice' = OnDevice
      /\ \A i \in DOMAIN entries : Filled(i) => Filled(i)'
  BY <1>4, <1>6, AtEntry, FilledPersists
<1>9. \A i \in OnDevice : i < n => Filled(i)'
  BY <1>1, <1>8 DEF FilledThere, OnDevice
<1>10. count = len - read => Filled(n)'
  <2> SUFFICES ASSUME count = len - read PROVE Filled(n)'
    OBVIOUS
  <2>1. to = words
    BY <1>1, <1>2, <1>5
  <2> QED
    BY <1>7, <1>8, <2>1 DEF Filled, words
<1>11. CASE count < len - read /\ read' = read + count /\ UNCHANGED <<run, at, answered>>
  <2>1. read' \in Nat /\ read' <= len /\ to = read' * per
    BY <1>1, <1>2, <1>3, <1>5, <1>11
  <2>2. UNCHANGED <<planVars, pool, todo, worker, answered>> /\ run' = "flight" /\ at' = n
    BY <1>1, <1>4, <1>11
  <2> QED
    BY <1>1, <1>4, <1>6, <1>7, <1>9, <2>1, <2>2, FlightStep DEF len, per
<1>12. CASE count = len - read /\ After(n) # {} /\ read' = 0 /\ at' = NextJob(n)
            /\ UNCHANGED <<run, answered>>
  <2>1. NextJob(n) \in OnDevice /\ \A k \in OnDevice : k < NextJob(n) => k <= n
    BY <1>1, <1>12, AtEntry, NextJobIsNext
  <2>2. PICK m \in OnDevice : m = NextJob(n)
    BY <2>1
  <2>3. \A i \in OnDevice : i < m => Filled(i)'
    <3> SUFFICES ASSUME NEW i \in OnDevice, i < m PROVE Filled(i)'
      OBVIOUS
    <3>1. i <= n /\ i \in Nat
      BY <2>1, <2>2, AtEntry DEF OnDevice
    <3>2. CASE i = n
      BY <1>10, <1>12, <3>2
    <3>3. CASE i < n
      BY <1>9, <3>3
    <3> QED
      BY <1>1, <3>1, <3>2, <3>3
  <2>4. PerQuery(entries[m]) \in Nat /\ Len(entries[m].queries) \in Nat
    BY AtEntry, EntryShape DEF OnDevice
  <2>5. /\ 0 = read' * PerQuery(entries[m]) /\ read' \in Nat
        /\ read' <= Len(entries[m].queries)
    BY <1>12, <2>4
  <2>6. UNCHANGED <<planVars, pool, todo, worker, answered>> /\ run' = "flight" /\ at' = m
    BY <1>4, <1>12, <2>2
  <2> QED
    BY <1>1, <1>4, <1>6, <2>3, <2>5, <2>6, FlightStep
<1>13. CASE count = len - read /\ After(n) = {} /\ Returns(TRUE)
  <2>1. ASSUME NEW i \in DOMAIN entries
        PROVE  Filled(i)'
    <3>1. CASE i \notin OnDevice
      <4>1. i < Len(entries) + 1
        BY AtEntry
      <4> QED
        BY <1>1, <1>8, <3>1, <4>1 DEF FilledHere
    <3>2. CASE i \in OnDevice
      <4>1. ~(i > n) /\ i \in Nat
        BY <1>13, <3>2, AtEntry DEF After
      <4>2. CASE i = n
        BY <1>10, <1>13, <4>2
      <4>3. CASE i < n
        BY <1>9, <3>2, <4>3
      <4> QED
        BY <1>1, <4>1, <4>2, <4>3
    <3> QED
      BY <3>1, <3>2
  <2> QED
    BY <1>4, <1>6, <1>13, <2>1, ReturnsStep
<1> QED
  BY <1>3, <1>11, <1>12, <1>13

\* The flight breaks off: nothing is promised, and nothing outside is written.
LEMMA FlightFailsStep ==
  ASSUME RunInv, FlightFails
  PROVE  RunInv'
<1>1. PICK n \in OnDevice :
        /\ n = at /\ n \in DOMAIN entries /\ n \in Nat
        /\ FilledHere(Len(entries) + 1) /\ FilledThere(n)
        /\ read \in Nat /\ read <= Len(entries[n].queries)
        /\ \A w \in 0 .. (read * PerQuery(entries[n]) - 1) : Holds(n, w)
  BY AtFlight DEF FlightFails
<1> DEFINE per == PerQuery(entries[n])
           len == Len(entries[n].queries)
<1>2. per \in Nat /\ len \in Nat /\ entries[n].words = len * per
  BY <1>1, AtEntry, EntryShape
<1>3. PICK words \in 0 .. ((len - read) * per - 1) :
        Writes(entries[n], read * per, read * per + words)
  BY <1>1 DEF FlightFails, Left
<1>4. run = "flight" /\ UNCHANGED <<planVars, pool, todo, worker>> /\ Returns(FALSE)
  BY DEF FlightFails
<1> HIDE DEF per, len
<1>5. PICK from \in Nat, to \in Nat :
        from = read * per /\ to = read * per + words /\ to <= len * per
  <2>1. 0 \in 0 .. (len - read)
    BY <1>1, <1>2 DEF len
  <2> QED
    BY <1>1, <1>2, <1>3, <2>1, Landing DEF len
<1>6. arena' \in Seq(Words) /\ Len(arena') = Len(arena)
  <2>1. Writes(entries[n], from, to) /\ to <= entries[n].words
    BY <1>2, <1>3, <1>5
  <2> QED
    BY <1>1, <1>4, <2>1, AtEntry, WritesAnswers
<1> QED
  BY <1>4, <1>6, ReturnsStep

\* Every step preserves the invariant.
LEMMA RunInductive ==
  ASSUME RunInv, [Next]_vars
  PROVE  RunInv'
<1>1. CASE UNCHANGED vars
  <2>1. PlanInv' /\ entries' = entries
    BY <1>1, PlanStays DEF RunInv, vars, planVars
  <2>2. Persists /\ UNCHANGED planVars
    BY <1>1, ArenaKept DEF vars
  <2>3. OnDevice' = OnDevice
    BY <2>1 DEF OnDevice
  <2>4. /\ \A i : Filled(i)' <=> Filled(i)
        /\ \A i, row : RowHolds(i, row)' <=> RowHolds(i, row)
        /\ \A i, w : Holds(i, w)' <=> Holds(i, w)
    BY <1>1, <2>1 DEF vars, Filled, RowHolds, Holds, Computed
  <2>5. /\ \A n : FilledHere(n)' <=> FilledHere(n)
        /\ \A n : FilledThere(n)' <=> FilledThere(n)
    BY <2>1, <2>3, <2>4 DEF FilledHere, FilledThere
  <2>6. RunTypes'
    BY <1>1, <2>1 DEF RunInv, RunTypes, vars, GridRows, Words, Workers
  <2>7. AtRest' /\ Fits' /\ OnCpu' /\ Lent'
    BY <1>1, <2>1, <2>4, <2>5 DEF RunInv, vars, planVars, AtRest, Fits, OnCpu, Lent, FilledHere
  <2>8. InRows'
    BY <1>1, <2>1, <2>4, <2>5 DEF RunInv, vars, InRows, GridRows, FilledHere, RowHolds, Holds, Computed
  <2>9. InFlight'
    BY <1>1, <2>1, <2>3, <2>4, <2>5
    DEF RunInv, vars, InFlight, PerQuery, FilledHere, FilledThere, Holds, Computed
  <2> QED
    BY <2>1, <2>6, <2>7, <2>8, <2>9 DEF RunInv
<1> QED
  BY <1>1, PlanningStep, ReserveStep, ReleaseStep, ExecuteStep, FillSerialStep, PassOverStep,
     StartRowsStep, LeaseStep, ComputeStep, ReturnStep, EndRowsStep, EndCpuStep,
     ReadSegmentStep, FlightFailsStep
  DEF Next, Executing

\* Throughout, the plan and the execution are where the invariant says.
THEOREM RunInvariance == Spec => []RunInv
<1>1. Init => RunInv
  <2> SUFFICES ASSUME Init PROVE RunInv
    OBVIOUS
  <2>1. PlanInv
    BY NothingPlanned DEF Init, PlanInit, NoError, Errors
  <2>2. worker \in Workers
    BY DEF Init, Workers, NoWorker
  <2>3. /\ arena \in Seq(Words) /\ pool \in Seq(Nat \ {0})
        /\ run = "idle" /\ at = 0 /\ read = 0 /\ todo = {} /\ answered = FALSE
        /\ \A t \in Threads : worker[t].step = "idle"
    BY DEF Init, NoWorker
  <2>4. at \in 0 .. Len(entries) + 1
    BY <2>3 DEF Init, PlanInit
  <2>5. RunTypes
    BY <2>2, <2>3, <2>4 DEF RunTypes
  <2> QED
    BY <2>1, <2>3, <2>5 DEF RunInv, AtRest, Fits, OnCpu, InRows, InFlight, Lent
<1>2. RunInv /\ [Next]_vars => RunInv'
  BY RunInductive
<1> QED
  BY <1>1, <1>2, PTL DEF Spec

\* The variables of plan and execution keep their types; in particular every
\* word of the arena is Zero or some entry's answer.
THEOREM RunTypeCorrect == Spec => []TypeOK
<1>1. RunInv => TypeOK
  BY DEF RunInv, RunTypes, PlanInv, TypeOK, Workers
<1> QED
  BY <1>1, RunInvariance, PTL

\* The plan keeps its promises whatever is executed in between.
THEOREM RunPlanCorrect == Spec => [](Tiling /\ PlanFaithful)
<1>1. RunInv => Tiling /\ PlanFaithful
  BY DEF RunInv, PlanInv
<1> QED
  BY <1>1, RunInvariance, PTL

\* No slice of execute panics: the arena holds the total of the plan, and a
\* leased row has the width of its chunk.
THEOREM NoPanicCorrect == Spec => []NoPanic
<1>1. RunInv => NoPanic
  BY AtRows DEF RunInv, Fits, AtRest, NoPanic, RowsAt
<1> QED
  BY <1>1, RunInvariance, PTL

\* Digits and Below together.
LEMMA Digit ==
  ASSUME NEW a \in Nat, NEW b \in Nat, NEW c \in Nat, NEW d \in Nat, c < b, a < d
  PROVE  LET x == a * b + c
         IN  x \in Nat /\ x \div b = a /\ x % b = c /\ x < d * b
BY Digits, Below

\* Where the view looks for a word, the kernels put it.
LEMMA ViewIsComputed ==
  ASSUME PlanTypeOK, PlanFaithful, NEW i \in DOMAIN entries,
         NEW q \in DOMAIN entries[i].queries,
         NEW row \in 0 .. (Rows[entries[i].matrix] - 1),
         NEW block \in 0 .. (Blocks[entries[i].matrix] - 1)
  PROVE  \E w \in 0 .. (entries[i].words - 1) :
           /\ (q - 1) * PerQuery(entries[i]) + row * Blocks[entries[i].matrix] + block = w
           /\ Computed(entries[i], w) = [matrix |-> entries[i].matrix, query |-> entries[i].queries[q],
                                         row |-> row, block |-> block]
<1> DEFINE r == Rows[entries[i].matrix]
           b == Blocks[entries[i].matrix]
           l == Len(entries[i].queries)
           words == entries[i].words
           flat == (q - 1) * r + row
           w == flat * b + block
<1>1. /\ r \in Nat /\ b \in Nat /\ l \in Nat /\ words = l * (r * b) /\ words \in Nat
      /\ q \in 1 .. l /\ PerQuery(entries[i]) = r * b
  BY EntryShape DEF PerQuery
<1>2. q - 1 \in Nat /\ q - 1 < l /\ row \in Nat /\ row < r /\ block \in Nat /\ block < b
  BY <1>1
<1> HIDE DEF r, b, l, words
<1>3. flat \in Nat /\ flat \div r = q - 1 /\ flat % r = row /\ flat < l * r
  <2>1. PICK a \in Nat : a = q - 1
    BY <1>2
  <2>2. LET x == a * r + row IN x \in Nat /\ x \div r = a /\ x % r = row /\ x < l * r
    BY <1>1, <1>2, <2>1, Digit
  <2> QED
    BY <2>1, <2>2
<1> HIDE DEF flat
<1>4. w \in Nat /\ w \div b = flat /\ w % b = block /\ w < (l * r) * b
  <2>1. PICK d \in Nat : d = l * r
    BY <1>1
  <2>2. flat < d
    BY <1>3, <2>1
  <2> QED
    BY <1>1, <1>2, <1>3, <2>1, <2>2, Digit
<1>5. w = (q - 1) * (r * b) + row * b + block
  <2>1. flat * b = ((q - 1) * r) * b + row * b
    BY <1>1, <1>2 DEF flat
  <2>2. ((q - 1) * r) * b = (q - 1) * (r * b)
    BY <1>1, <1>2
  <2> QED
    BY <2>1, <2>2
<1>6. (l * r) * b = words
  BY <1>1
<1> HIDE DEF w
<1>7. w \in 0 .. (words - 1)
  BY <1>1, <1>4, <1>6
<1>8. (flat \div r) + 1 = q
  BY <1>1, <1>2, <1>3
<1> QED
  BY <1>1, <1>3, <1>4, <1>5, <1>7, <1>8 DEF Computed, r, b, words

\* Answers that execute returns are the answers of the plan, word by word, for
\* any list, any number of threads, any interleaving of their rows and any cut
\* of the device's answers.
THEOREM AnswersExactCorrect == Spec => []AnswersExact
<1>1. ASSUME RunInv
      PROVE  AnswersExact
  <2> SUFFICES ASSUME answered, NEW i \in DOMAIN entries,
                      NEW q \in DOMAIN entries[i].queries,
                      NEW row \in 0 .. (Rows[entries[i].matrix] - 1),
                      NEW block \in 0 .. (Blocks[entries[i].matrix] - 1)
               PROVE  View(entries[i], q, row, block) =
                        [matrix |-> entries[i].matrix, query |-> entries[i].queries[q],
                         row |-> row, block |-> block]
    BY DEF AnswersExact
  <2>1. PICK w \in 0 .. (entries[i].words - 1) :
          /\ (q - 1) * PerQuery(entries[i]) + row * Blocks[entries[i].matrix] + block = w
          /\ Computed(entries[i], w) = [matrix |-> entries[i].matrix, query |-> entries[i].queries[q],
                                        row |-> row, block |-> block]
    BY <1>1, AtEntry, ViewIsComputed
  <2>2. arena[entries[i].offset + w + 1] = Computed(entries[i], w)
    BY <1>1 DEF RunInv, Lent, Filled, Holds
  <2>3. entries[i].offset + (q - 1) * PerQuery(entries[i]) + row * Blocks[entries[i].matrix] + block + 1
          = entries[i].offset + w + 1
    <3>1. /\ entries[i].offset \in Nat /\ PerQuery(entries[i]) \in Nat
          /\ Blocks[entries[i].matrix] \in Nat /\ Rows[entries[i].matrix] \in Nat
          /\ q \in Nat /\ q >= 1
      <4>1. q \in 1 .. Len(entries[i].queries) /\ Len(entries[i].queries) \in Nat
        BY <1>1, AtEntry, EntryShape
      <4> QED
        BY <1>1, <4>1, AtEntry, EntryShape
    <3> DEFINE per == PerQuery(entries[i])
               b == Blocks[entries[i].matrix]
               x == (q - 1) * per
               y == row * b
    <3>2. x \in Nat /\ y \in Nat /\ block \in Nat /\ x + y + block = w
      <4>1. row \in Nat /\ block \in Nat
        BY <3>1
      <4>2. x + y + block = w
        BY <2>1
      <4> HIDE DEF per, b
      <4>3. per \in Nat /\ b \in Nat
        BY <3>1 DEF per, b
      <4> QED
        BY <3>1, <4>1, <4>2, <4>3
    <3> HIDE DEF x, y
    <3>3. entries[i].offset + x + y + block + 1 = entries[i].offset + w + 1
      BY <3>1, <3>2
    <3> QED
      BY <3>3 DEF x, y
  <2> QED
    BY <2>1, <2>2, <2>3 DEF View
<1> QED
  BY <1>1, RunInvariance, PTL

=============================================================================
