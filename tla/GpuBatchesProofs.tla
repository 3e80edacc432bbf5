--------------------------- MODULE GpuBatchesProofs ---------------------------
(***************************************************************************)
(* Calls of any number of threads on one answerer do not disturb each      *)
(* other: CallsIsolated and FailsOnlyOnFault, for all batches, kernels and *)
(* numbers of chunks.                                                      *)
(*                                                                         *)
(* The inductive invariant IInv has three layers.  ControlInv says what a  *)
(* thread has at each place of its call, and that the cache holds the      *)
(* kernel of every key.  PlacesInv says that a set of buffers is in one    *)
(* place: held by one thread, once in one pool, or given up; and that a    *)
(* set in flight is not pooled.  SetsInv, FlightInv and ContentsInv say    *)
(* what the set of a thread holds at each place: buffers that fit, the     *)
(* queries of its call, and, once its submission is done, their answers.   *)
(* Each action has two lemmas: ...Effect, what it does to the control of   *)
(* the threads and to the device, and ...Step, that the layers survive it. *)
(***************************************************************************)
EXTENDS GpuBatches, TLAPS, FiniteSetTheorems, FunctionTheorems

-----------------------------------------------------------------------------
(* The invariant of the threads.                                            *)

\* What may be in an answer buffer: words of a call, by a kernel.
Words == [call : Nat, kernels : SUBSET (Nat \X Keys)]

Chunks == [queryCapacity : Nat, answerCapacity : Nat,
           query : Nat, output : Nat, staging : Nat,
           queries : Nat, answers : Words, mapped : BOOLEAN]

Places ==
  {"idle", "pipeline", "compile", "lease", "prepare", "submit", "map", "poll", "callbacks"}

Statuses == {"requested", "calling", "mapped", "failed"}

DeviceTypes ==
  /\ calls \in 0 .. MaxCalls
  /\ pool \in [Kinds -> Seq(SetIds)]
  /\ sets \in [SetIds -> Seq(Chunks)]
  /\ flights \in Seq([set : SetIds, kernels : Seq(Segments)])

ThreadTypes ==
  /\ pc \in [Threads -> Places]
  /\ job \in [Threads -> Jobs \cup {NoJob}]
  /\ kernels \in [Threads -> Seq(Segments)]
  /\ leased \in [Threads -> SetIds \cup {None}]
  /\ call \in [Threads -> SetIds \cup {None}]
  /\ mapping \in [Threads -> Seq(Statuses)]
  /\ callbacks \in [Threads -> SUBSET (SetIds \X Nat)]
  /\ outcome \in [Threads -> {"good", "error", "wrong", "panic"}]
  /\ faulty \in [Threads -> BOOLEAN]

\* A kernel in the cache is the one its key stands for.
CacheInv ==
  /\ DOMAIN pipelines \subseteq Keys
  /\ \A key \in DOMAIN pipelines : pipelines[key] = key

\* Where a thread has a set of buffers: a packed flight leases before it looks
\* its kernels up.
HasSet(t) ==
  \/ pc[t] \in {"prepare", "submit", "map", "poll", "callbacks"}
  \/ pc[t] \in {"pipeline", "compile"} /\ job[t].kind = "packed"

\* How many kernels a thread has at each place.
KernelsHad(t) ==
  /\ pc[t] \in {"pipeline", "compile"} => Len(kernels[t]) < Len(job[t].segments)
  /\ pc[t] \in {"submit", "map", "poll", "callbacks"} =>
       Len(kernels[t]) = Len(job[t].segments)
  /\ pc[t] \in {"lease", "prepare"} =>
       Len(kernels[t]) = IF job[t].kind = "single" THEN Len(job[t].segments) ELSE 0

ThreadInv(t) ==
  /\ pc[t] = "idle" => kernels[t] = <<>> /\ leased[t] = None /\ call[t] = None
  /\ pc[t] # "idle" => job[t] \in Jobs /\ job[t].valid /\ call[t] \in 1 .. calls
  /\ leased[t] = None <=> ~HasSet(t)
  /\ KernelsHad(t)
  /\ \A i \in DOMAIN kernels[t] : kernels[t][i] = job[t].segments[i]

ControlInv ==
  /\ ThreadTypes /\ CacheInv
  /\ \A t \in Threads : ThreadInv(t)

-----------------------------------------------------------------------------
(* Where a set of buffers is.                                               *)

\* A set is held, pooled, in flight, or nowhere.
Used(s) ==
  \/ \E t \in Threads : leased[t] = s
  \/ \E k \in Kinds : \E i \in DOMAIN pool[k] : pool[k][i] = s
  \/ InFlight(s)

\* No two threads are in one call, hold one set, or pool it twice; a pooled set
\* is neither held nor in flight, and none is in flight twice.
CallsApart == \A t, u \in Threads : call[t] = call[u] => t = u \/ call[t] = None

LeasesApart == \A t, u \in Threads : leased[t] = leased[u] => t = u \/ leased[t] = None

PoolsApart ==
  \A k, l \in Kinds : \A i \in DOMAIN pool[k], j \in DOMAIN pool[l] :
    pool[k][i] = pool[l][j] => k = l /\ i = j

PooledFree ==
  \A k \in Kinds : \A i \in DOMAIN pool[k] :
    ~InFlight(pool[k][i]) /\ \A t \in Threads : leased[t] # pool[k][i]

FlightsApart == \A i, j \in DOMAIN flights : flights[i].set = flights[j].set => i = j

\* A set does not exist before the call that makes it.
UsedOld == \A s \in SetIds : Used(s) => s \in 1 .. calls

UnusedNew == \A t \in Threads : leased[t] = None /\ call[t] # None => ~Used(call[t])

PlacesInv ==
  /\ CallsApart /\ LeasesApart /\ PoolsApart /\ PooledFree /\ FlightsApart
  /\ UsedOld /\ UnusedNew

\* The submission of a thread that waits for it, or no submission at all.
FlightInv(t) ==
  \A i \in DOMAIN flights :
    flights[i].set = leased[t] => pc[t] \in {"map", "poll"} /\ flights[i].kernels = kernels[t]

-----------------------------------------------------------------------------
(* What a set of buffers holds.                                             *)

\* The buffers of a chunk are as large as the capacities say.
Sized(chunk) ==
  /\ chunk.queryCapacity <= chunk.query
  /\ chunk.answerCapacity <= chunk.output
  /\ chunk.answerCapacity <= chunk.staging

Clean(chunks) == \A i \in DOMAIN chunks : ~chunks[i].mapped

\* The chunks hold the queries of the thread's call, and its answers fit.
Filled(chunks, t) ==
  /\ Len(job[t].chunks) <= Len(chunks)
  /\ \A i \in Plan(t) :
       /\ chunks[i].queries = call[t]
       /\ job[t].chunks[i].query <= chunks[i].query
       /\ job[t].chunks[i].answer <= chunks[i].output
       /\ job[t].chunks[i].answer <= chunks[i].staging

Answers(chunks, t) ==
  \A i \in Plan(t) :
    chunks[i].answers = [call |-> call[t], kernels |-> Dispatches(job[t].segments, i)]

ContentsInv(t) ==
  HasSet(t) =>
    /\ pc[t] # "prepare" => Filled(sets[leased[t]], t)
    /\ pc[t] \notin {"map", "poll", "callbacks"} => Clean(sets[leased[t]])
    /\ pc[t] \in {"map", "poll", "callbacks"} => InFlight(leased[t]) \/ Answers(sets[leased[t]], t)

SetsInv ==
  /\ \A s \in SetIds : \A i \in DOMAIN sets[s] : Sized(sets[s][i])
  /\ \A k \in Kinds : \A i \in DOMAIN pool[k] : Clean(sets[pool[k][i]])

IInv ==
  /\ ControlInv /\ DeviceTypes
  /\ PlacesInv /\ SetsInv
  /\ \A t \in Threads : FlightInv(t) /\ ContentsInv(t)
  /\ FailsOnlyOnFault
  /\ OwnAnswers

-----------------------------------------------------------------------------
(* The steps of a thread.                                                   *)

\* What a sequence is to the provers: a function on the numbers up to its length.
LEMMA SeqShape ==
  ASSUME NEW S, NEW s \in Seq(S)
  PROVE  /\ Len(s) \in Nat /\ DOMAIN s = 1 .. Len(s)
         /\ s # <<>> => Len(s) >= 1
         /\ \A i \in DOMAIN s : s[i] \in S
OBVIOUS

\* A status takes the place of another.
LEMMA SeqExcept ==
  ASSUME NEW S, NEW s \in Seq(S), NEW i, NEW x \in S
  PROVE  [s EXCEPT ![i] = x] \in Seq(S)
<1>1. Len(s) \in Nat /\ s \in [1 .. Len(s) -> S]
  OBVIOUS
<1> DEFINE new == [s EXCEPT ![i] = x]
<1>2. new \in [1 .. Len(s) -> S]
  BY <1>1
<1> HIDE DEF new
<1>3. new \in Seq(S)
  BY <1>1, <1>2
<1> QED
  BY <1>3 DEF new

\* A batch: its chunks and its segments, at least one for each chunk.
Shaped(j) ==
  /\ j.kind \in Kinds
  /\ j.chunks \in Seq([query : Nat, answer : Nat]) /\ j.segments \in Seq(Segments)
  /\ j \in Jobs /\ j.valid =>
       /\ j.chunks # <<>> /\ j.segments # <<>>
       /\ \A i \in DOMAIN j.chunks : \E k \in DOMAIN j.segments : j.segments[k].chunk = i
       /\ j.kind = "single" => Len(j.chunks) = 1 /\ Len(j.segments) = 1

LEMMA AllShaped ==
  ASSUME NEW j \in Jobs \cup {NoJob}
  PROVE  Shaped(j)
<1>1. CASE j \in Jobs
  BY <1>1, GpuBatchesAssumption DEF Shaped
<1>2. CASE j = NoJob /\ j \notin Jobs
  BY <1>2 DEF NoJob, Kinds, Shaped
<1> QED
  BY <1>1, <1>2

\* The job of a thread: a batch that passed, or none.
LEMMA JobShape ==
  ASSUME ThreadTypes, NEW t \in Threads
  PROVE  /\ job[t].kind \in Kinds
         /\ Len(job[t].chunks) \in Nat /\ Plan(t) = 1 .. Len(job[t].chunks)
         /\ \A i \in Plan(t) : job[t].chunks[i].query \in Nat /\ job[t].chunks[i].answer \in Nat
         /\ Len(job[t].segments) \in Nat
         /\ DOMAIN job[t].segments = 1 .. Len(job[t].segments)
         /\ \A i \in DOMAIN job[t].segments : job[t].segments[i] \in Segments
         /\ job[t] \in Jobs /\ job[t].valid =>
              /\ Len(job[t].chunks) >= 1 /\ Len(job[t].segments) >= 1
              /\ \A i \in Plan(t) :
                   \E k \in DOMAIN job[t].segments : job[t].segments[k].chunk = i
              /\ job[t].kind = "single" => Len(job[t].chunks) = 1 /\ Len(job[t].segments) = 1
<1> DEFINE j == job[t]
<1>1. j \in Jobs \cup {NoJob}
  BY DEF ThreadTypes
<1> HIDE DEF j
<1>2. Shaped(j)
  BY <1>1, AllShaped
<1>3. /\ Len(j.chunks) \in Nat /\ DOMAIN j.chunks = 1 .. Len(j.chunks)
      /\ j.chunks # <<>> => Len(j.chunks) >= 1
      /\ \A i \in DOMAIN j.chunks : j.chunks[i] \in [query : Nat, answer : Nat]
  BY <1>2, SeqShape DEF Shaped
<1>4. /\ Len(j.segments) \in Nat /\ DOMAIN j.segments = 1 .. Len(j.segments)
      /\ j.segments # <<>> => Len(j.segments) >= 1
      /\ \A i \in DOMAIN j.segments : j.segments[i] \in Segments
  BY <1>2, SeqShape DEF Shaped
<1>5. Plan(t) = DOMAIN j.chunks
  BY DEF Plan, j
<1>6. \A i \in DOMAIN j.chunks : j.chunks[i].query \in Nat /\ j.chunks[i].answer \in Nat
  BY <1>3
<1> QED
  BY <1>2, <1>3, <1>4, <1>5, <1>6 DEF Shaped, j

\* The same after a step.
LEMMA JobShapeNext ==
  ASSUME ThreadTypes', NEW t \in Threads
  PROVE  /\ job'[t].kind \in Kinds
         /\ Len(job'[t].segments) \in Nat
         /\ job'[t] \in Jobs /\ job'[t].valid =>
              /\ Len(job'[t].segments) >= 1
              /\ job'[t].kind = "single" => Len(job'[t].segments) = 1
<1> DEFINE j == job'[t]
<1>1. j \in Jobs \cup {NoJob}
  BY DEF ThreadTypes
<1> HIDE DEF j
<1>2. Shaped(j)
  BY <1>1, AllShaped
<1>3. Len(j.segments) \in Nat /\ (j.segments # <<>> => Len(j.segments) >= 1)
  BY <1>2, SeqShape DEF Shaped
<1> QED
  BY <1>2, <1>3 DEF Shaped, j

\* The other threads; a poll may change their mappings.
OthersStay(t) ==
  /\ \A u \in Threads : u # t =>
       /\ pc'[u] = pc[u] /\ job'[u] = job[u] /\ kernels'[u] = kernels[u]
       /\ leased'[u] = leased[u] /\ call'[u] = call[u]
  /\ calls' \in Nat /\ calls <= calls'

\* The control of the other threads survives a step that leaves them alone.
LEMMA OthersKeep ==
  ASSUME ControlInv, calls \in Nat, NEW t \in Threads, OthersStay(t), ThreadInv(t)'
  PROVE  \A u \in Threads : ThreadInv(u)'
<1> SUFFICES ASSUME NEW u \in Threads, u # t PROVE ThreadInv(u)'
  OBVIOUS
<1>1. /\ pc'[u] = pc[u] /\ job'[u] = job[u] /\ kernels'[u] = kernels[u]
      /\ leased'[u] = leased[u] /\ call'[u] = call[u]
      /\ calls' \in Nat /\ calls <= calls'
  BY DEF OthersStay
<1>2. ThreadInv(u) /\ call[u] \in SetIds \cup {None} /\ MaxCalls \in Nat
  BY GpuBatchesAssumption DEF ControlInv, ThreadTypes
<1>3. call[u] \in 1 .. calls => call[u] \in 1 .. calls'
  BY <1>1
<1>4. HasSet(u)' = HasSet(u) /\ KernelsHad(u)' = KernelsHad(u)
  BY <1>1 DEF HasSet, KernelsHad
<1> QED
  BY <1>1, <1>2, <1>3, <1>4 DEF ThreadInv

\* What a call that ends leaves behind.
Ended(t) ==
  /\ pc'[t] = "idle" /\ job'[t] = NoJob /\ kernels'[t] = <<>>
  /\ leased'[t] = None /\ call'[t] = None

\* Ends, in a step that leaves the cache, the count of calls and the callbacks alone.
LEMMA EndsEffect ==
  ASSUME ControlInv, DeviceTypes, NEW t \in Threads,
         NEW result \in {"good", "error", "wrong", "panic"}, Ends(t, result),
         UNCHANGED <<pipelines, calls, callbacks>>, faulty' \in [Threads -> BOOLEAN]
  PROVE  /\ ControlInv' /\ OthersStay(t) /\ Ended(t)
         /\ outcome'[t] = result
         /\ \A u \in Threads : u # t => outcome'[u] = outcome[u]
<1>1. Ended(t) /\ outcome'[t] = result
  BY DEF Ends, Goes, Ended, ControlInv, ThreadTypes
<1>2. ThreadTypes'
  <2>1. /\ kernels' \in [Threads -> Seq(Segments)] /\ job' \in [Threads -> Jobs \cup {NoJob}]
        /\ mapping' \in [Threads -> Seq(Statuses)]
    <3>1. <<>> \in Seq(Segments) /\ <<>> \in Seq(Statuses)
      OBVIOUS
    <3> QED
      BY <3>1 DEF Ends, ControlInv, ThreadTypes
  <2> QED
    BY <2>1 DEF Ends, Goes, ControlInv, ThreadTypes, Places
<1>3. OthersStay(t) /\ \A u \in Threads : u # t => outcome'[u] = outcome[u]
  BY GpuBatchesAssumption DEF Ends, Goes, OthersStay, ControlInv, ThreadTypes, DeviceTypes
<1>4. ThreadInv(t)'
  BY <1>1 DEF Ended, ThreadInv, HasSet, KernelsHad
<1> QED
  BY <1>1, <1>2, <1>3, <1>4, OthersKeep DEF ControlInv, CacheInv, DeviceTypes

\* Fault: the device is as it was, and the thread is idle with an error of its own.
LEMMA FaultEffect ==
  ASSUME ControlInv, DeviceTypes, NEW t \in Threads, Fault(t)
  PROVE  /\ ControlInv' /\ OthersStay(t) /\ Ended(t)
         /\ UNCHANGED device
         /\ outcome'[t] = "error" /\ faulty'[t]
         /\ \A u \in Threads : u # t => outcome'[u] = outcome[u] /\ faulty'[u] = faulty[u]
<1>1. faulty' \in [Threads -> BOOLEAN] /\ faulty'[t]
      /\ \A u \in Threads : u # t => faulty'[u] = faulty[u]
  BY DEF Fault, ControlInv, ThreadTypes
<1> QED
  BY <1>1, EndsEffect DEF Fault, device

\* Begin: a call that passes takes the next number, and holds no set yet.
LEMMA BeginEffect ==
  ASSUME ControlInv, DeviceTypes, NEW t \in Threads, NEW j \in Jobs, Begin(t, j)
  PROVE  /\ ControlInv' /\ OthersStay(t)
         /\ pc[t] = "idle" /\ leased'[t] = None /\ leased[t] = None /\ call[t] = None
         /\ \/ call'[t] = None /\ calls' = calls
            \/ call'[t] = calls' /\ calls' = calls + 1 /\ calls' <= MaxCalls
         /\ ~HasSet(t)'
         /\ UNCHANGED <<pipelines, pool, sets, flights, leased>>
<1>1. /\ ThreadInv(t) /\ ThreadTypes /\ calls \in Nat /\ calls < MaxCalls /\ MaxCalls \in Nat
      /\ pc[t] = "idle"
  BY GpuBatchesAssumption DEF Begin, ControlInv, DeviceTypes
<1>2. kernels[t] = <<>> /\ leased[t] = None /\ call[t] = None
  BY <1>1 DEF ThreadInv
<1>3. CASE j.valid
  <2>1. /\ pc' = [pc EXCEPT ![t] = IF j.kind = "single" THEN "pipeline" ELSE "lease"]
        /\ job' = [job EXCEPT ![t] = j] /\ calls' = calls + 1
        /\ call' = [call EXCEPT ![t] = calls + 1]
        /\ UNCHANGED <<pipelines, pool, sets, flights, kernels, leased, mapping, callbacks>>
    BY <1>3 DEF Begin, Goes
  <2>2. ThreadTypes'
    <3>1. calls + 1 \in SetIds
      BY <1>1 DEF SetIds
    <3>2. outcome' \in [Threads -> {"good", "error", "wrong", "panic"}] /\ faulty' \in [Threads -> BOOLEAN]
      BY <1>1, <1>3 DEF Begin, ThreadTypes
    <3> QED
      BY <1>1, <2>1, <3>1, <3>2 DEF ThreadTypes, Places
  <2>3. OthersStay(t)
    BY <1>1, <2>1 DEF OthersStay, ThreadTypes
  <2>4. /\ pc'[t] = IF j.kind = "single" THEN "pipeline" ELSE "lease"
        /\ job'[t] = j /\ call'[t] = calls + 1 /\ calls' = calls + 1
        /\ kernels'[t] = <<>> /\ leased'[t] = None
    BY <1>1, <1>2, <2>1 DEF ThreadTypes
  <2>5. /\ Len(j.segments) \in Nat /\ Len(j.segments) >= 1
        /\ j.kind \in Kinds /\ (j.kind = "single" => Len(j.segments) = 1)
    BY <1>3, <2>2, <2>4, JobShapeNext
  <2>6. KernelsHad(t)'
    BY <2>4, <2>5 DEF KernelsHad, Kinds
  <2>7. ~HasSet(t)'
    BY <2>4, <2>5 DEF HasSet, Kinds
  <2>8. ThreadInv(t)'
    BY <1>1, <1>3, <2>4, <2>6, <2>7 DEF ThreadInv
  <2> QED
    BY <1>1, <1>2, <2>1, <2>2, <2>3, <2>4, <2>7, <2>8, OthersKeep DEF ControlInv, CacheInv
<1>4. CASE ~j.valid
  <2>1. UNCHANGED <<job, calls, call, pc, pipelines, pool, sets, flights, kernels, leased, mapping, callbacks>>
    BY <1>4 DEF Begin
  <2>2. ThreadTypes'
    BY <1>1, <1>4, <2>1 DEF ThreadTypes, Begin
  <2>3. OthersStay(t) /\ ThreadInv(t)' /\ HasSet(t)' = HasSet(t)
    BY <1>1, <2>1 DEF OthersStay, ThreadInv, HasSet, KernelsHad
  <2>4. ControlInv'
    BY <1>1, <2>1, <2>2, <2>3, OthersKeep DEF ControlInv, CacheInv
  <2>5. ~HasSet(t)
    BY <1>1 DEF HasSet
  <2> QED
    BY <1>1, <1>2, <2>1, <2>3, <2>4, <2>5
<1> QED
  BY <1>3, <1>4

\* A thread has its next kernel, and goes on.
LEMMA ObtainsEffect ==
  ASSUME ControlInv, DeviceTypes, NEW t \in Threads, pc[t] \in {"pipeline", "compile"},
         Obtains(t, Wanted(t).key), CacheInv',
         UNCHANGED <<calls, job, leased, call, mapping, callbacks, outcome, faulty>>
  PROVE  /\ ControlInv' /\ OthersStay(t)
         /\ pc'[t] \in {"pipeline", "lease", "submit"}
         /\ HasSet(t)' = HasSet(t)
<1> DEFINE n == Len(kernels[t])
           segments == job[t].segments
           more == Append(kernels[t], [chunk |-> Wanted(t).chunk, key |-> Wanted(t).key])
<1>1. ThreadInv(t) /\ ThreadTypes /\ calls \in Nat /\ job[t] \in Jobs /\ job[t].valid
  BY DEF ControlInv, DeviceTypes, ThreadInv
<1>2. /\ Len(segments) \in Nat /\ DOMAIN segments = 1 .. Len(segments)
      /\ job[t].kind \in Kinds /\ (job[t].kind = "single" => Len(segments) = 1)
      /\ \A i \in DOMAIN segments : segments[i] \in Segments
  BY <1>1, JobShape
<1>3. /\ kernels[t] \in Seq(Segments) /\ n \in Nat /\ n < Len(segments)
      /\ DOMAIN kernels[t] = 1 .. n
      /\ \A i \in 1 .. n : kernels[t][i] = segments[i]
  BY <1>1 DEF ThreadTypes, ThreadInv, KernelsHad
<1>4. /\ Wanted(t) \in Segments /\ Wanted(t) = segments[n + 1]
      /\ [chunk |-> Wanted(t).chunk, key |-> Wanted(t).key] = Wanted(t)
  <2>1. Wanted(t) = segments[n + 1] /\ n + 1 \in DOMAIN segments
    BY <1>2, <1>3 DEF Wanted
  <2>2. Wanted(t) \in Segments
    BY <1>2, <2>1
  <2> QED
    BY <2>1, <2>2 DEF Segments
<1>5. /\ more \in Seq(Segments) /\ Len(more) = n + 1
      /\ DOMAIN more = 1 .. (n + 1)
      /\ \A i \in 1 .. (n + 1) : more[i] = segments[i]
  BY <1>3, <1>4
<1>6. /\ kernels' = [kernels EXCEPT ![t] = more]
      /\ pc' = [pc EXCEPT ![t] = AfterPipeline(t, more)]
  BY DEF Obtains, Goes
<1> HIDE DEF more, n
<1>7. /\ n + 1 < Len(segments) => AfterPipeline(t, more) = "pipeline"
      /\ n + 1 = Len(segments) /\ job[t].kind = "single" => AfterPipeline(t, more) = "lease"
      /\ n + 1 = Len(segments) /\ job[t].kind = "packed" => AfterPipeline(t, more) = "submit"
      /\ n + 1 < Len(segments) => job[t].kind = "packed"
      /\ n + 1 < Len(segments) \/ n + 1 = Len(segments)
      /\ job[t].kind \in {"single", "packed"}
  <2> DEFINE m == Len(segments)
             kind == job[t].kind
  <2>1. m \in Nat /\ n \in Nat /\ n < m /\ Len(more) = n + 1
    BY <1>2, <1>3, <1>5
  <2>2. kind \in {"single", "packed"} /\ (kind = "single" => m = 1)
    BY <1>2 DEF Kinds
  <2>3. AfterPipeline(t, more) = IF Len(more) < m THEN "pipeline"
                                 ELSE IF kind = "single" THEN "lease" ELSE "submit"
    BY DEF AfterPipeline
  <2> HIDE DEF m, kind
  <2>4. /\ n + 1 < m \/ n + 1 = m
        /\ n + 1 = m => ~(Len(more) < m)
        /\ m = 1 => ~(n + 1 < m)
    BY <2>1
  <2>5. /\ n + 1 < m => AfterPipeline(t, more) = "pipeline"
        /\ n + 1 = m /\ kind = "single" => AfterPipeline(t, more) = "lease"
        /\ n + 1 = m /\ kind = "packed" => AfterPipeline(t, more) = "submit"
        /\ n + 1 < m => kind = "packed"
    BY <2>1, <2>2, <2>3, <2>4
  <2> QED
    BY <2>2, <2>4, <2>5 DEF m, kind
<1>8. /\ pc'[t] = AfterPipeline(t, more) /\ kernels'[t] = more
      /\ job' = job /\ leased' = leased /\ call' = call /\ mapping' = mapping /\ calls' = calls
  BY <1>1, <1>6 DEF ThreadTypes
<1>9. HasSet(t)' = HasSet(t) /\ pc'[t] \in {"pipeline", "lease", "submit"}
  BY <1>7, <1>8 DEF HasSet
<1>10. ThreadTypes'
  <2>1. AfterPipeline(t, more) \in Places
    BY <1>7 DEF Places
  <2> QED
    BY <1>1, <1>5, <1>6, <1>8, <2>1 DEF ThreadTypes
<1>11. KernelsHad(t)'
  BY <1>2, <1>3, <1>5, <1>7, <1>8 DEF KernelsHad
<1>12. ThreadInv(t)'
  <2>1. pc[t] # "idle"
    BY <1>1 DEF ThreadInv
  <2>2. \A i \in DOMAIN kernels'[t] : kernels'[t][i] = job'[t].segments[i]
    BY <1>5, <1>8
  <2> QED
    BY <1>1, <1>8, <1>9, <1>11, <2>1, <2>2 DEF ThreadInv
<1>13. OthersStay(t)
  BY <1>1, <1>6, <1>8 DEF OthersStay, ThreadTypes
<1> QED
  BY <1>1, <1>9, <1>10, <1>12, <1>13, OthersKeep DEF ControlInv

\* LookUp: a kernel of the wanted key, or on to compile it.
LEMMA LookUpEffect ==
  ASSUME ControlInv, DeviceTypes, NEW t \in Threads, LookUp(t)
  PROVE  /\ ControlInv' /\ OthersStay(t) /\ UNCHANGED device
         /\ UNCHANGED <<job, leased, call, outcome, faulty>>
         /\ pc[t] = "pipeline" /\ pc'[t] \in {"pipeline", "compile", "lease", "submit"}
         /\ HasSet(t)' = HasSet(t)
<1>1. ThreadInv(t) /\ ThreadTypes /\ CacheInv /\ calls \in Nat /\ pc[t] = "pipeline"
      /\ UNCHANGED <<device, job, leased, call, mapping, callbacks, outcome, faulty>>
  BY DEF ControlInv, DeviceTypes, LookUp
<1>2. CASE Wanted(t).key \in DOMAIN pipelines
  <2>1. Obtains(t, Wanted(t).key)
    BY <1>1, <1>2 DEF LookUp, CacheKey, CacheInv
  <2> QED
    BY <1>1, <2>1, ObtainsEffect DEF device, CacheInv
<1>3. CASE Wanted(t).key \notin DOMAIN pipelines
  <2>1. pc' = [pc EXCEPT ![t] = "compile"] /\ UNCHANGED kernels
    BY <1>3 DEF LookUp, CacheKey, Goes
  <2>2. ThreadTypes' /\ pc'[t] = "compile" /\ OthersStay(t)
    BY <1>1, <2>1 DEF ThreadTypes, Places, OthersStay, device
  <2>3. ThreadInv(t)' /\ HasSet(t)' = HasSet(t)
    BY <1>1, <2>1, <2>2 DEF ThreadInv, HasSet, KernelsHad, device
  <2> QED
    BY <1>1, <2>2, <2>3, OthersKeep DEF ControlInv, CacheInv, device
<1> QED
  BY <1>2, <1>3

\* Compile: the cache gains the wanted kernel, and so does the thread.
LEMMA CompileEffect ==
  ASSUME ControlInv, DeviceTypes, NEW t \in Threads, Compile(t)
  PROVE  /\ ControlInv' /\ OthersStay(t)
         /\ UNCHANGED <<pool, sets, flights, calls, job, leased, call, outcome, faulty>>
         /\ pc[t] = "compile" /\ pc'[t] \in {"pipeline", "lease", "submit"}
         /\ HasSet(t)' = HasSet(t)
<1>1. /\ ThreadInv(t) /\ ThreadTypes /\ CacheInv /\ pc[t] = "compile" /\ Obtains(t, Wanted(t).key)
      /\ UNCHANGED <<pool, sets, flights, calls, job, leased, call, mapping, callbacks, outcome, faulty>>
      /\ pipelines' = [k \in DOMAIN pipelines \cup {Wanted(t).key} |->
                         IF k = Wanted(t).key THEN Wanted(t).key ELSE pipelines[k]]
  BY DEF ControlInv, Compile, CacheKey
<1>2. Wanted(t).key \in Keys
  <2>1. Len(kernels[t]) + 1 \in DOMAIN job[t].segments
    <3>1. Len(kernels[t]) \in Nat /\ Len(kernels[t]) < Len(job[t].segments)
      BY <1>1 DEF ThreadTypes, ThreadInv, KernelsHad
    <3> QED
      BY <1>1, <3>1, JobShape
  <2> QED
    BY <1>1, <2>1, JobShape DEF Wanted, Segments
<1>3. CacheInv'
  BY <1>1, <1>2 DEF CacheInv
<1> QED
  BY <1>1, <1>3, ObtainsEffect

-----------------------------------------------------------------------------
(* What is done to a set of buffers.                                        *)

\* The buffers of a new chunk are as large as their capacities, and not mapped.
LEMMA NewChunkShape ==
  ASSUME NEW query \in Nat, NEW answer \in Nat
  PROVE  /\ NewChunk(query, answer) \in Chunks
         /\ Sized(NewChunk(query, answer)) /\ ~NewChunk(query, answer).mapped
<1>1. [call |-> None, kernels |-> {}] \in Words
  BY DEF Words, None
<1> QED
  BY <1>1 DEF NewChunk, Chunks, Sized, None

\* A chunk made ready for a request.
LEMMA GrowShape ==
  ASSUME NEW chunk \in Chunks, Sized(chunk), NEW query \in Nat, NEW answer \in Nat,
         NEW grown, grown = GrowAnswer(GrowQuery(chunk, query), answer)
  PROVE  /\ grown \in Chunks /\ Sized(grown) /\ grown.mapped = chunk.mapped
         /\ query <= grown.query /\ answer <= grown.output /\ answer <= grown.staging
<1> DEFINE wide == GrowQuery(chunk, query)
           last == GrowAnswer(wide, answer)
<1>1. /\ wide \in Chunks /\ Sized(wide) /\ wide.mapped = chunk.mapped
      /\ query <= wide.query
  <2>1. CASE query > chunk.queryCapacity
    <3>1. wide = [chunk EXCEPT !.query = query, !.queryCapacity = query, !.queries = None]
      BY <2>1 DEF GrowQuery
    <3>2. wide \in Chunks
      <4>1. PICK larger \in Chunks :
              larger = [chunk EXCEPT !.query = query, !.queryCapacity = query]
        BY DEF Chunks
      <4>2. [larger EXCEPT !.queries = None] \in Chunks
        BY DEF Chunks, None
      <4> QED
        BY <3>1, <4>1, <4>2
    <3>3. /\ wide.query = query /\ wide.queryCapacity = query /\ wide.mapped = chunk.mapped
          /\ wide.answerCapacity = chunk.answerCapacity /\ wide.output = chunk.output
          /\ wide.staging = chunk.staging
      BY <3>1 DEF Chunks
    <3> QED
      BY <3>2, <3>3 DEF Sized
  <2>2. CASE ~(query > chunk.queryCapacity)
    <3>1. wide = chunk
      BY <2>2 DEF GrowQuery
    <3>2. chunk.queryCapacity \in Nat /\ chunk.query \in Nat
      BY DEF Chunks
    <3> QED
      BY <2>2, <3>1, <3>2 DEF Sized
  <2> QED
    BY <2>1, <2>2
<1> HIDE DEF wide
<1>2. /\ last \in Chunks /\ Sized(last)
      /\ last.mapped = wide.mapped /\ last.query = wide.query
      /\ answer <= last.output /\ answer <= last.staging
  <2>1. CASE answer > wide.answerCapacity
    <3>1. last = [wide EXCEPT !.output = answer, !.staging = answer, !.answerCapacity = answer]
      BY <2>1 DEF GrowAnswer
    <3>2. last \in Chunks
      BY <1>1, <3>1 DEF Chunks
    <3>3. /\ last.output = answer /\ last.staging = answer /\ last.answerCapacity = answer
          /\ last.query = wide.query /\ last.queryCapacity = wide.queryCapacity
          /\ last.mapped = wide.mapped
      BY <1>1, <3>1 DEF Chunks
    <3> QED
      BY <1>1, <3>2, <3>3 DEF Sized
  <2>2. CASE ~(answer > wide.answerCapacity)
    <3>1. last = wide
      BY <2>2 DEF GrowAnswer
    <3>2. wide.answerCapacity \in Nat /\ wide.output \in Nat /\ wide.staging \in Nat
      BY <1>1 DEF Chunks
    <3> QED
      BY <1>1, <2>2, <3>1, <3>2 DEF Sized
  <2> QED
    BY <2>1, <2>2
<1> QED
  BY <1>1, <1>2 DEF wide

\* A set made ready for a batch, with the queries of its call.
LEMMA UploadedShape ==
  ASSUME ThreadTypes, NEW t \in Threads, call[t] \in Nat, NEW chunks \in Seq(Chunks),
         \A i \in DOMAIN chunks : Sized(chunks[i]),
         NEW ready, ready = Uploaded(Prepared(chunks, job[t].chunks), t)
  PROVE  /\ ready \in Seq(Chunks) /\ \A i \in DOMAIN ready : Sized(ready[i])
         /\ Filled(ready, t)
         /\ Clean(chunks) => Clean(ready)
<1> DEFINE plan == job[t].chunks
           n == IF Len(chunks) < Len(plan) THEN Len(plan) ELSE Len(chunks)
           prepared == Prepared(chunks, plan)
           old(i) == IF i <= Len(chunks) THEN chunks[i] ELSE NewChunk(1, 1)
<1>1. /\ Len(plan) \in Nat /\ Plan(t) = 1 .. Len(plan)
      /\ \A i \in Plan(t) : plan[i].query \in Nat /\ plan[i].answer \in Nat
  BY JobShape
<1>2. /\ Len(chunks) \in Nat /\ DOMAIN chunks = 1 .. Len(chunks)
      /\ \A i \in DOMAIN chunks : chunks[i] \in Chunks
  BY SeqShape
<1>3. /\ n \in Nat /\ Len(plan) <= n /\ 1 .. n = DOMAIN prepared
      /\ \A i \in 1 .. n : prepared[i] =
           IF i <= Len(plan) THEN GrowAnswer(GrowQuery(old(i), plan[i].query), plan[i].answer)
           ELSE old(i)
  BY <1>1, <1>2 DEF Prepared
<1>4. ASSUME NEW i \in 1 .. n
      PROVE  /\ old(i) \in Chunks /\ Sized(old(i))
             /\ Clean(chunks) => ~old(i).mapped
  <2>1. CASE i <= Len(chunks)
    BY <1>2, <2>1 DEF Clean
  <2>2. CASE ~(i <= Len(chunks))
    BY <2>2, NewChunkShape
  <2> QED
    BY <2>1, <2>2
<1> HIDE DEF old, n, prepared
<1>5. ASSUME NEW i \in 1 .. n
      PROVE  /\ prepared[i] \in Chunks /\ Sized(prepared[i]) /\ prepared[i].mapped = old(i).mapped
             /\ i \in Plan(t) => /\ plan[i].query <= prepared[i].query
                                 /\ plan[i].answer <= prepared[i].output
                                 /\ plan[i].answer <= prepared[i].staging
  <2>1. CASE i \in Plan(t)
    <3>1. plan[i].query \in Nat /\ plan[i].answer \in Nat /\ i <= Len(plan)
      BY <1>1, <2>1
    <3>2. prepared[i] = GrowAnswer(GrowQuery(old(i), plan[i].query), plan[i].answer)
      BY <1>3, <3>1
    <3> DEFINE here == old(i)
               query == plan[i].query
               answer == plan[i].answer
               grown == prepared[i]
    <3>3. /\ here \in Chunks /\ Sized(here) /\ query \in Nat /\ answer \in Nat
          /\ grown = GrowAnswer(GrowQuery(here, query), answer)
      BY <1>4, <3>1, <3>2
    <3> HIDE DEF here, query, answer, grown
    <3>4. /\ grown \in Chunks /\ Sized(grown) /\ grown.mapped = here.mapped
          /\ query <= grown.query /\ answer <= grown.output /\ answer <= grown.staging
      BY <3>3, GrowShape
    <3> QED
      BY <3>4 DEF here, query, answer, grown
  <2>2. CASE i \notin Plan(t)
    <3>1. prepared[i] = old(i)
      BY <1>1, <1>3, <2>2
    <3> QED
      BY <1>4, <2>2, <3>1
  <2> QED
    BY <2>1, <2>2
<1>6. /\ DOMAIN ready = 1 .. n
      /\ \A i \in 1 .. n : ready[i] = IF i \in Plan(t) THEN [prepared[i] EXCEPT !.queries = call[t]]
                                       ELSE prepared[i]
      /\ ready = [i \in 1 .. n |-> ready[i]]
  BY <1>3 DEF Uploaded, prepared
<1>7. ASSUME NEW i \in 1 .. n
      PROVE  /\ ready[i] \in Chunks /\ Sized(ready[i]) /\ ready[i].mapped = prepared[i].mapped
             /\ i \in Plan(t) => /\ ready[i].queries = call[t]
                                 /\ ready[i].query = prepared[i].query
                                 /\ ready[i].output = prepared[i].output
                                 /\ ready[i].staging = prepared[i].staging
  <2>1. prepared[i] \in Chunks /\ Sized(prepared[i])
    BY <1>5
  <2>2. CASE i \in Plan(t)
    <3>1. ready[i] = [prepared[i] EXCEPT !.queries = call[t]]
      BY <1>6, <2>2
    <3> QED
      BY <2>1, <3>1 DEF Chunks, Sized
  <2>3. CASE i \notin Plan(t)
    BY <1>6, <2>1, <2>3
  <2> QED
    BY <2>2, <2>3
<1>8. ready \in Seq(Chunks) /\ Len(ready) = n
  BY <1>3, <1>6, <1>7
<1>9. \A i \in DOMAIN ready : Sized(ready[i])
  BY <1>6, <1>7
<1>10. Filled(ready, t)
  <2>1. \A i \in Plan(t) : i \in 1 .. n
    BY <1>1, <1>3
  <2>2. Len(plan) <= Len(ready)
    BY <1>3, <1>8
  <2> QED
    BY <1>5, <1>7, <2>1, <2>2 DEF Filled
<1>11. Clean(chunks) => Clean(ready)
  BY <1>4, <1>5, <1>6, <1>7 DEF Clean
<1> QED
  BY <1>8, <1>9, <1>10, <1>11

\* A chunk whose buffers keep their sizes and their queries.
Alike(chunk, new) ==
  /\ new \in Chunks
  /\ new.queryCapacity = chunk.queryCapacity /\ new.answerCapacity = chunk.answerCapacity
  /\ new.query = chunk.query /\ new.output = chunk.output /\ new.staging = chunk.staging
  /\ new.queries = chunk.queries

\* A set whose chunks keep their sizes is still a set, filled and sized as it was.
LEMMA AlikeShape ==
  ASSUME NEW chunks \in Seq(Chunks), \A i \in DOMAIN chunks : Sized(chunks[i]),
         NEW new, new = [i \in DOMAIN chunks |-> new[i]],
         \A i \in DOMAIN chunks : Alike(chunks[i], new[i])
  PROVE  /\ new \in Seq(Chunks) /\ DOMAIN new = DOMAIN chunks /\ Len(new) = Len(chunks)
         /\ \A i \in DOMAIN new : Sized(new[i])
         /\ \A t : Filled(chunks, t) /\ Plan(t) \subseteq DOMAIN chunks => Filled(new, t)
<1>1. Len(chunks) \in Nat /\ DOMAIN chunks = 1 .. Len(chunks)
  BY SeqShape
<1>2. DOMAIN new = DOMAIN chunks /\ \A i \in DOMAIN chunks : new[i] \in Chunks
  BY DEF Alike
<1>3. new \in Seq(Chunks) /\ Len(new) = Len(chunks)
  BY <1>1, <1>2
<1>4. \A i \in DOMAIN new : Sized(new[i])
  BY <1>2 DEF Alike, Sized
<1>5. ASSUME NEW t, Filled(chunks, t), Plan(t) \subseteq DOMAIN chunks
      PROVE  Filled(new, t)
  BY <1>2, <1>3, <1>5 DEF Alike, Filled
<1> QED
  BY <1>2, <1>3, <1>4, <1>5

\* The staging buffers of a submission are mapped ...
LEMMA MappedShape ==
  ASSUME NEW chunks \in Seq(Chunks), NEW n,
         NEW new, new = Mapped(chunks, n)
  PROVE  /\ new = [i \in DOMAIN chunks |-> new[i]]
         /\ \A i \in DOMAIN chunks : Alike(chunks[i], new[i]) /\ new[i].answers = chunks[i].answers
<1>1. ASSUME NEW i \in DOMAIN chunks
      PROVE  Alike(chunks[i], new[i]) /\ new[i].answers = chunks[i].answers
  <2>1. chunks[i] \in Chunks /\ new[i] = [chunks[i] EXCEPT !.mapped = @ \/ i = n]
    BY SeqShape DEF Mapped
  <2> QED
    BY <2>1 DEF Chunks, Alike
<1> QED
  BY <1>1 DEF Mapped

\* ... and unmapped when they are read.
LEMMA UnmappedShape ==
  ASSUME NEW chunks \in Seq(Chunks), NEW new, new = Unmapped(chunks)
  PROVE  /\ new = [i \in DOMAIN chunks |-> new[i]]
         /\ \A i \in DOMAIN chunks : Alike(chunks[i], new[i])
         /\ Clean(new)
<1>1. ASSUME NEW i \in DOMAIN chunks
      PROVE  Alike(chunks[i], new[i]) /\ ~new[i].mapped
  <2>1. chunks[i] \in Chunks /\ new[i] = [chunks[i] EXCEPT !.mapped = FALSE]
    BY SeqShape DEF Unmapped
  <2> QED
    BY <2>1 DEF Chunks, Alike
<1>2. DOMAIN new = DOMAIN chunks
  BY DEF Unmapped
<1> QED
  BY <1>1, <1>2 DEF Unmapped, Clean

\* What is dispatched on a chunk, by kernels of some keys.
LEMMA DispatchesShape ==
  ASSUME NEW passes \in Seq(Segments), NEW i
  PROVE  Dispatches(passes, i) \in SUBSET (Nat \X Keys)
<1>1. ASSUME NEW k \in DOMAIN passes
      PROVE  k \in Nat /\ passes[k].key \in Keys
  <2>1. k \in Nat /\ passes[k] \in Segments
    BY SeqShape
  <2> QED
    BY <2>1 DEF Segments
<1> QED
  BY <1>1 DEF Dispatches

\* A chunk that a submission writes holds the answers of its queries by the
\* submission's kernels.
Computed(chunk, new, passes, i) ==
  Dispatches(passes, i) # {} =>
    new.answers = [call |-> chunk.queries, kernels |-> Dispatches(passes, i)]

\* The device writes the answers of a submission.
LEMMA AnsweredShape ==
  ASSUME NEW chunks \in Seq(Chunks), NEW flight, flight.kernels \in Seq(Segments),
         NEW new, new = Answered(chunks, flight)
  PROVE  /\ new = [i \in DOMAIN chunks |-> new[i]]
         /\ \A i \in DOMAIN chunks : Alike(chunks[i], new[i]) /\ new[i].mapped = chunks[i].mapped
         /\ \A i \in DOMAIN chunks : Computed(chunks[i], new[i], flight.kernels, i)
<1>1. ASSUME NEW i \in DOMAIN chunks
      PROVE  /\ Alike(chunks[i], new[i]) /\ new[i].mapped = chunks[i].mapped
             /\ Computed(chunks[i], new[i], flight.kernels, i)
  <2> DEFINE dispatches == Dispatches(flight.kernels, i)
             words == [call |-> chunks[i].queries, kernels |-> dispatches]
  <2>1. chunks[i] \in Chunks
    BY SeqShape
  <2>2. new[i] = IF dispatches # {} THEN [chunks[i] EXCEPT !.answers = words] ELSE chunks[i]
    BY DEF Answered
  <2>3. words \in Words
    <3>1. chunks[i].queries \in Nat /\ dispatches \in SUBSET (Nat \X Keys)
      BY <2>1, DispatchesShape DEF Chunks
    <3> HIDE DEF dispatches
    <3> QED
      BY <3>1 DEF Words
  <2> HIDE DEF words
  <2>4. CASE dispatches # {}
    <3>1. new[i] = [chunks[i] EXCEPT !.answers = words]
      BY <2>2, <2>4
    <3> HIDE DEF dispatches
    <3>2. Alike(chunks[i], new[i]) /\ new[i].mapped = chunks[i].mapped /\ new[i].answers = words
      BY <2>1, <2>3, <3>1 DEF Chunks, Alike
    <3> QED
      BY <3>2 DEF words, dispatches, Computed
  <2>5. CASE dispatches = {}
    <3>1. new[i] = chunks[i]
      BY <2>2, <2>5
    <3> QED
      BY <2>1, <2>5, <3>1 DEF Alike, Computed
  <2> QED
    BY <2>4, <2>5
<1> QED
  BY <1>1 DEF Answered

\* A new set is as large as it says, and nothing of it is mapped.
LEMMA NewSetShape ==
  ASSUME ThreadTypes, NEW t \in Threads, job[t] \in Jobs, job[t].valid
  PROVE  /\ NewSet(job[t]) \in Seq(Chunks)
         /\ \A i \in DOMAIN NewSet(job[t]) : Sized(NewSet(job[t])[i])
         /\ Clean(NewSet(job[t]))
<1>1. CASE job[t].kind = "single"
  <2>1. job[t].chunks[1].query \in Nat /\ job[t].chunks[1].answer \in Nat
    <3>1. 1 \in Plan(t)
      BY <1>1, JobShape
    <3> QED
      BY <3>1, JobShape
  <2>2. PICK chunk \in Chunks : chunk = NewChunk(job[t].chunks[1].query, job[t].chunks[1].answer)
                                /\ Sized(chunk) /\ ~chunk.mapped
    BY <2>1, NewChunkShape
  <2>3. NewSet(job[t]) = << chunk >>
    BY <1>1, <2>2 DEF NewSet
  <2> QED
    BY <2>2, <2>3 DEF Clean
<1>2. CASE job[t].kind # "single"
  <2>1. NewSet(job[t]) = << >>
    BY <1>2 DEF NewSet
  <2>2. << >> \in Seq(Chunks) /\ DOMAIN << >> = {}
    OBVIOUS
  <2> QED
    BY <2>1, <2>2 DEF Clean
<1> QED
  BY <1>1, <1>2

-----------------------------------------------------------------------------
(* The steps that move sets of buffers.                                     *)

\* Where a thread has a set, it is one.
LEMMA HeldSet ==
  ASSUME ControlInv, NEW t \in Threads
  PROVE  /\ HasSet(t) <=> leased[t] \in SetIds
         /\ HasSet(t) => pc[t] # "idle" /\ job[t] \in Jobs /\ job[t].valid
         /\ pc[t] # "idle" => call[t] \in SetIds
         /\ call[t] \in Nat
<1>1. /\ leased[t] \in SetIds \cup {None} /\ (leased[t] = None <=> ~HasSet(t))
      /\ pc[t] # "idle" => job[t] \in Jobs /\ job[t].valid /\ call[t] \in 1 .. calls
      /\ call[t] \in SetIds \cup {None}
  BY DEF ControlInv, ThreadTypes, ThreadInv
<1>2. None \notin SetIds /\ SetIds \cup {None} \subseteq Nat
  BY GpuBatchesAssumption DEF SetIds, None
<1>3. pc[t] # "idle" => call[t] # None
  <2>1. None \notin 1 .. calls
    BY DEF None
  <2> QED
    BY <1>1, <2>1
<1>4. HasSet(t) => pc[t] # "idle"
  BY DEF HasSet
<1>5. call[t] \in Nat
  BY <1>1, <1>2
<1> QED
  BY <1>1, <1>2, <1>3, <1>4, <1>5

\* One set changes.
Changed(s, chunks) ==
  /\ sets'[s] = chunks
  /\ \A r \in SetIds : r # s => sets'[r] = sets[r]

\* What a thread leases: the top of a pool, or the set it makes.
FromPool(t) ==
  \E k \in Kinds :
    /\ Len(pool[k]) >= 1
    /\ leased'[t] = pool[k][Len(pool[k])]
    /\ DOMAIN pool'[k] = 1 .. (Len(pool[k]) - 1)
    /\ \A i \in DOMAIN pool'[k] : pool'[k][i] = pool[k][i]
    /\ \A l \in Kinds : l # k => pool'[l] = pool[l]
    /\ sets' = sets

Made(t) == leased'[t] = call[t] /\ pool' = pool /\ Changed(call[t], NewSet(job[t]))

\* Lease: the thread has a set, the last of its pool or one made for its call.
LEMMA LeaseEffect ==
  ASSUME ControlInv, DeviceTypes, NEW t \in Threads, Lease(t)
  PROVE  /\ ControlInv' /\ DeviceTypes' /\ OthersStay(t)
         /\ UNCHANGED <<flights, calls, job, kernels, call, outcome, faulty>>
         /\ pc[t] = "lease" /\ pc'[t] = "prepare" /\ leased[t] = None
         /\ call[t] \in SetIds /\ leased'[t] \in SetIds /\ HasSet(t)'
         /\ FromPool(t) \/ Made(t)
<1> DEFINE kind == job[t].kind
           free == pool[kind]
           n == Len(free)
<1>1. /\ ThreadTypes /\ ThreadInv(t) /\ calls \in Nat /\ pc[t] = "lease" /\ pc[t] # "idle"
      /\ ~HasSet(t)
      /\ UNCHANGED <<pipelines, flights, calls, job, kernels, call, mapping, callbacks, outcome, faulty>>
      /\ pc' = [pc EXCEPT ![t] = "prepare"]
  BY DEF ControlInv, DeviceTypes, Lease, Goes, HasSet
<1>2. /\ leased[t] = None /\ call[t] \in SetIds /\ job[t] \in Jobs /\ job[t].valid /\ kind \in Kinds
  BY <1>1, HeldSet, JobShape DEF ThreadInv
<1>3. /\ free \in Seq(SetIds) /\ n \in Nat /\ DOMAIN free = 1 .. n
      /\ free # <<>> => n >= 1 /\ free[n] \in SetIds
      /\ pool \in [Kinds -> Seq(SetIds)] /\ sets \in [SetIds -> Seq(Chunks)]
  <2>1. free \in Seq(SetIds)
    BY <1>2 DEF DeviceTypes
  <2>2. n \in Nat /\ DOMAIN free = 1 .. n /\ (free # <<>> => n >= 1) /\ \A i \in DOMAIN free : free[i] \in SetIds
    BY <2>1, SeqShape
  <2> QED
    BY <2>1, <2>2 DEF DeviceTypes
<1>4. ASSUME free # <<>>
      PROVE  /\ DeviceTypes' /\ leased'[t] \in SetIds /\ leased' \in [Threads -> SetIds \cup {None}]
             /\ \A u \in Threads : u # t => leased'[u] = leased[u]
             /\ FromPool(t)
  <2>1. /\ leased' = [leased EXCEPT ![t] = free[n]]
        /\ pool' = [pool EXCEPT ![kind] = SubSeq(free, 1, n - 1)]
        /\ sets' = sets
    BY <1>4 DEF Lease
  <2>2. /\ SubSeq(free, 1, n - 1) \in Seq(SetIds) /\ DOMAIN SubSeq(free, 1, n - 1) = 1 .. (n - 1)
        /\ \A i \in 1 .. (n - 1) : SubSeq(free, 1, n - 1)[i] = free[i]
    BY <1>3, <1>4
  <2>3. pool' \in [Kinds -> Seq(SetIds)] /\ pool'[kind] = SubSeq(free, 1, n - 1)
        /\ \A l \in Kinds : l # kind => pool'[l] = pool[l]
    BY <1>2, <1>3, <2>1, <2>2
  <2>4. leased'[t] = free[n] /\ leased'[t] \in SetIds /\ leased' \in [Threads -> SetIds \cup {None}]
    BY <1>1, <1>3, <1>4, <2>1 DEF ThreadTypes
  <2>5. FromPool(t)
    <3>1. /\ Len(pool[kind]) >= 1
          /\ leased'[t] = pool[kind][Len(pool[kind])]
          /\ DOMAIN pool'[kind] = 1 .. (Len(pool[kind]) - 1)
          /\ \A i \in DOMAIN pool'[kind] : pool'[kind][i] = pool[kind][i]
      BY <1>3, <1>4, <2>2, <2>3, <2>4
    <3>2. kind \in Kinds /\ sets' = sets /\ \A l \in Kinds : l # kind => pool'[l] = pool[l]
      BY <1>2, <2>1, <2>3
    <3> HIDE DEF kind
    <3> QED
      BY <3>1, <3>2 DEF FromPool
  <2>6. DeviceTypes'
    BY <1>1, <2>1, <2>3 DEF DeviceTypes
  <2>7. \A u \in Threads : u # t => leased'[u] = leased[u]
    BY <1>1, <2>1 DEF ThreadTypes
  <2> QED
    BY <2>4, <2>5, <2>6, <2>7
<1>5. ASSUME free = <<>>
      PROVE  /\ DeviceTypes' /\ leased'[t] \in SetIds /\ leased' \in [Threads -> SetIds \cup {None}]
             /\ \A u \in Threads : u # t => leased'[u] = leased[u]
             /\ Made(t)
  <2>1. /\ leased' = [leased EXCEPT ![t] = call[t]]
        /\ sets' = [sets EXCEPT ![call[t]] = NewSet(job[t])]
        /\ pool' = pool
    BY <1>5 DEF Lease
  <2>2. NewSet(job[t]) \in Seq(Chunks)
    BY <1>1, <1>2, NewSetShape
  <2>3. sets' \in [SetIds -> Seq(Chunks)] /\ Changed(call[t], NewSet(job[t]))
    BY <1>2, <1>3, <2>1, <2>2 DEF Changed
  <2>4. leased'[t] = call[t] /\ leased' \in [Threads -> SetIds \cup {None}]
        /\ \A u \in Threads : u # t => leased'[u] = leased[u]
    BY <1>1, <1>2, <2>1 DEF ThreadTypes
  <2>5. DeviceTypes' /\ Made(t)
    BY <1>1, <2>1, <2>3, <2>4 DEF DeviceTypes, Made
  <2> QED
    BY <1>2, <2>4, <2>5
<1> HIDE DEF n
<1>6. /\ DeviceTypes' /\ leased'[t] \in SetIds /\ leased' \in [Threads -> SetIds \cup {None}]
      /\ \A u \in Threads : u # t => leased'[u] = leased[u]
      /\ FromPool(t) \/ Made(t)
  BY <1>4, <1>5
<1>7. ThreadTypes' /\ pc'[t] = "prepare" /\ OthersStay(t)
  <2>1. pc' \in [Threads -> Places] /\ pc'[t] = "prepare"
        /\ \A u \in Threads : u # t => pc'[u] = pc[u]
    BY <1>1 DEF ThreadTypes, Places
  <2>2. ThreadTypes'
    BY <1>1, <1>6, <2>1 DEF ThreadTypes
  <2>3. OthersStay(t)
    BY <1>1, <1>6, <2>1 DEF OthersStay
  <2> QED
    BY <2>1, <2>2, <2>3
<1>8. HasSet(t)'
  BY <1>7 DEF HasSet
<1>9. KernelsHad(t)'
  BY <1>1, <1>7 DEF ThreadInv, KernelsHad
<1>10. leased'[t] # None
  BY <1>6, GpuBatchesAssumption DEF SetIds, None
<1>11. ThreadInv(t)'
  BY <1>1, <1>2, <1>7, <1>8, <1>9, <1>10 DEF ThreadInv
<1>12. ControlInv'
  BY <1>1, <1>7, <1>11, OthersKeep DEF ControlInv, CacheInv
<1> QED
  BY <1>1, <1>2, <1>6, <1>7, <1>8, <1>12

\* Upload: only the set of the thread changes, to one that holds its queries.
LEMMA UploadEffect ==
  ASSUME ControlInv, DeviceTypes, SetsInv, NEW t \in Threads, Upload(t)
  PROVE  /\ ControlInv' /\ DeviceTypes' /\ OthersStay(t)
         /\ UNCHANGED <<pool, flights, calls, job, kernels, leased, call, outcome, faulty>>
         /\ pc[t] = "prepare" /\ pc'[t] \in {"submit", "pipeline"} /\ HasSet(t) /\ HasSet(t)'
         /\ leased[t] \in SetIds
         /\ Changed(leased[t], Uploaded(Prepared(sets[leased[t]], job[t].chunks), t))
<1>1. /\ ThreadTypes /\ ThreadInv(t) /\ pc[t] = "prepare" /\ HasSet(t) /\ calls \in Nat
      /\ leased[t] \in SetIds /\ job[t] \in Jobs /\ job[t].valid
      /\ call[t] \in Nat
      /\ UNCHANGED <<pipelines, pool, flights, calls, job, kernels, leased, call, mapping,
                     callbacks, outcome, faulty>>
      /\ pc' = [pc EXCEPT ![t] = IF job[t].kind = "single" THEN "submit" ELSE "pipeline"]
  BY HeldSet DEF ControlInv, DeviceTypes, Upload, Goes, HasSet
<1>2. sets[leased[t]] \in Seq(Chunks) /\ \A i \in DOMAIN sets[leased[t]] : Sized(sets[leased[t]][i])
  BY <1>1 DEF DeviceTypes, SetsInv
<1>3. Uploaded(Prepared(sets[leased[t]], job[t].chunks), t) \in Seq(Chunks)
  BY <1>1, <1>2, UploadedShape
<1>4. sets' = [sets EXCEPT ![leased[t]] = Uploaded(Prepared(sets[leased[t]], job[t].chunks), t)]
  BY DEF Upload
<1>5. DeviceTypes' /\ Changed(leased[t], Uploaded(Prepared(sets[leased[t]], job[t].chunks), t))
  BY <1>1, <1>3, <1>4 DEF DeviceTypes, Changed
<1>6. /\ ThreadTypes' /\ OthersStay(t)
      /\ pc'[t] = IF job[t].kind = "single" THEN "submit" ELSE "pipeline"
  BY <1>1 DEF ThreadTypes, Places, OthersStay
<1>7. /\ job[t].kind \in {"single", "packed"}
      /\ Len(job[t].segments) \in Nat /\ Len(job[t].segments) >= 1
      /\ Len(kernels[t]) = IF job[t].kind = "single" THEN Len(job[t].segments) ELSE 0
  BY <1>1, JobShape DEF Kinds, ThreadInv, KernelsHad
<1>8. HasSet(t)' /\ KernelsHad(t)'
  BY <1>1, <1>6, <1>7 DEF HasSet, KernelsHad
<1>9. ThreadInv(t)'
  BY <1>1, <1>6, <1>8 DEF ThreadInv
<1> QED
  BY <1>1, <1>5, <1>6, <1>8, <1>9, OthersKeep DEF ControlInv, CacheInv

\* Submit, of buffers wgpu accepts: one more submission, of the thread's set and
\* kernels.
LEMMA SubmitEffect ==
  ASSUME ControlInv, DeviceTypes, NEW t \in Threads, Submit(t), Submittable(t)
  PROVE  /\ ControlInv' /\ DeviceTypes' /\ OthersStay(t)
         /\ UNCHANGED <<pool, sets, calls, job, kernels, leased, call, outcome, faulty>>
         /\ pc[t] = "submit" /\ pc'[t] = "map" /\ HasSet(t) /\ HasSet(t)'
         /\ leased[t] \in SetIds
         /\ flights' = Append(flights, [set |-> leased[t], kernels |-> kernels[t]])
<1>1. /\ ThreadTypes /\ ThreadInv(t) /\ pc[t] = "submit" /\ HasSet(t) /\ calls \in Nat
      /\ leased[t] \in SetIds
      /\ UNCHANGED <<pipelines, pool, sets, calls, job, kernels, leased, call, mapping,
                     callbacks, outcome, faulty>>
      /\ pc' = [pc EXCEPT ![t] = "map"]
      /\ flights' = Append(flights, [set |-> leased[t], kernels |-> kernels[t]])
  BY HeldSet DEF ControlInv, DeviceTypes, Submit, Goes, HasSet
<1>2. [set |-> leased[t], kernels |-> kernels[t]] \in [set : SetIds, kernels : Seq(Segments)]
  BY <1>1 DEF ThreadTypes
<1>3. flights' \in Seq([set : SetIds, kernels : Seq(Segments)])
  <2> DEFINE Flights == [set : SetIds, kernels : Seq(Segments)]
             last == [set |-> leased[t], kernels |-> kernels[t]]
  <2>1. flights \in Seq(Flights) /\ last \in Flights
    BY <1>2 DEF DeviceTypes
  <2> HIDE DEF Flights, last
  <2>2. Append(flights, last) \in Seq(Flights)
    BY <2>1
  <2> QED
    BY <1>1, <2>2 DEF Flights, last
<1>4. DeviceTypes'
  BY <1>1, <1>3 DEF DeviceTypes
<1>5. /\ ThreadTypes' /\ OthersStay(t) /\ pc'[t] = "map"
  BY <1>1 DEF ThreadTypes, Places, OthersStay
<1>6. HasSet(t)' /\ KernelsHad(t)'
  BY <1>1, <1>5 DEF HasSet, KernelsHad, ThreadInv
<1>7. ThreadInv(t)'
  BY <1>1, <1>5, <1>6 DEF ThreadInv
<1>8. ControlInv'
  BY <1>1, <1>5, <1>7, OthersKeep DEF ControlInv, CacheInv
<1> QED
  BY <1>1, <1>4, <1>5, <1>6, <1>8

\* RequestMap: the mapping of the next chunk is requested, and only the set of
\* the thread changes.
LEMMA RequestMapEffect ==
  ASSUME ControlInv, DeviceTypes, SetsInv, NEW t \in Threads, RequestMap(t)
  PROVE  /\ ControlInv' /\ DeviceTypes' /\ OthersStay(t)
         /\ UNCHANGED <<pool, flights, calls, job, kernels, leased, call, outcome, faulty>>
         /\ pc[t] = "map" /\ pc'[t] \in {"map", "poll"} /\ HasSet(t) /\ HasSet(t)'
         /\ leased[t] \in SetIds
         /\ Changed(leased[t], Mapped(sets[leased[t]], Len(mapping[t]) + 1))
<1> DEFINE n == Len(mapping[t]) + 1
           new == Mapped(sets[leased[t]], n)
<1>1. /\ ThreadTypes /\ ThreadInv(t) /\ pc[t] = "map" /\ HasSet(t) /\ calls \in Nat
      /\ leased[t] \in SetIds
      /\ UNCHANGED <<pipelines, pool, flights, calls, job, kernels, leased, call,
                     callbacks, outcome, faulty>>
  BY HeldSet DEF ControlInv, DeviceTypes, RequestMap, HasSet
<1>2. /\ pc' = [pc EXCEPT ![t] = IF n < Len(job[t].chunks) THEN "map" ELSE "poll"]
      /\ mapping' = [mapping EXCEPT ![t] = Append(mapping[t], "requested")]
      /\ sets' = [sets EXCEPT ![leased[t]] = new]
  BY DEF RequestMap, Goes
<1> HIDE DEF n
<1>3. sets[leased[t]] \in Seq(Chunks) /\ \A i \in DOMAIN sets[leased[t]] : Sized(sets[leased[t]][i])
  BY <1>1 DEF DeviceTypes, SetsInv
<1>4. new \in Seq(Chunks)
  <2> DEFINE chunks == sets[leased[t]]
  <2>1. /\ new = [i \in DOMAIN chunks |-> new[i]]
        /\ \A i \in DOMAIN chunks : Alike(chunks[i], new[i])
    BY <1>3, MappedShape
  <2> HIDE DEF chunks, new
  <2> QED
    BY <1>3, <2>1, AlikeShape DEF chunks
<1> HIDE DEF new
<1>5. sets' \in [SetIds -> Seq(Chunks)] /\ Changed(leased[t], new)
  BY <1>1, <1>2, <1>4 DEF DeviceTypes, Changed
<1>6. DeviceTypes'
  BY <1>1, <1>5 DEF DeviceTypes
<1>7. mapping' \in [Threads -> Seq(Statuses)]
  <2>1. mapping \in [Threads -> Seq(Statuses)] /\ "requested" \in Statuses
    BY <1>1 DEF ThreadTypes, Statuses
  <2>2. Append(mapping[t], "requested") \in Seq(Statuses)
    BY <2>1
  <2> QED
    BY <1>2, <2>1, <2>2
<1>8. /\ pc' \in [Threads -> Places] /\ pc'[t] \in {"map", "poll"}
      /\ \A u \in Threads : u # t => pc'[u] = pc[u]
  BY <1>1, <1>2 DEF ThreadTypes, Places
<1>9. ThreadTypes' /\ OthersStay(t)
  BY <1>1, <1>7, <1>8 DEF ThreadTypes, OthersStay
<1>10. HasSet(t)' /\ KernelsHad(t)'
  BY <1>1, <1>8 DEF HasSet, KernelsHad, ThreadInv
<1>11. ThreadInv(t)'
  BY <1>1, <1>8, <1>10 DEF ThreadInv
<1>12. ControlInv'
  BY <1>1, <1>9, <1>11, OthersKeep DEF ControlInv, CacheInv
<1> QED
  BY <1>1, <1>5, <1>6, <1>8, <1>9, <1>10, <1>12 DEF new, n

\* Poll: the submission of the thread is done, and ready mappings are being called.
LEMMA PollEffect ==
  ASSUME ControlInv, DeviceTypes, NEW t \in Threads, Poll(t)
  PROVE  /\ ControlInv' /\ OthersStay(t)
         /\ UNCHANGED <<device, job, kernels, leased, call, outcome, faulty>>
         /\ pc[t] = "poll" /\ pc'[t] = "callbacks" /\ HasSet(t) /\ HasSet(t)'
         /\ ~InFlight(leased[t])
<1>1. /\ ThreadTypes /\ ThreadInv(t) /\ pc[t] = "poll" /\ calls \in Nat
      /\ ~InFlight(leased[t])
      /\ UNCHANGED <<device, job, kernels, leased, call, outcome, faulty>>
      /\ pc' = [pc EXCEPT ![t] = "callbacks"]
      /\ callbacks' = [callbacks EXCEPT ![t] = Ready]
      /\ mapping' = [u \in Threads |->
                       [i \in DOMAIN mapping[u] |->
                          IF IsReady(u, i) THEN "calling" ELSE mapping[u][i]]]
  BY DEF ControlInv, DeviceTypes, Poll, Goes
<1>2. ASSUME NEW u \in Threads
      PROVE  DOMAIN mapping[u] \subseteq Nat /\ mapping'[u] \in Seq(Statuses)
  <2>1. mapping[u] \in Seq(Statuses) /\ "calling" \in Statuses
    BY <1>1 DEF ThreadTypes, Statuses
  <2>2. /\ Len(mapping[u]) \in Nat /\ DOMAIN mapping[u] = 1 .. Len(mapping[u])
        /\ \A i \in DOMAIN mapping[u] : mapping[u][i] \in Statuses
    BY <2>1, SeqShape
  <2>3. mapping'[u] \in [1 .. Len(mapping[u]) -> Statuses]
    BY <1>1, <2>1, <2>2
  <2> QED
    BY <2>2, <2>3
<1>3. Ready \subseteq SetIds \X Nat
  BY <1>2 DEF Ready
<1>4. mapping' \in [Threads -> Seq(Statuses)]
  <2>1. mapping' = [u \in Threads |-> mapping'[u]]
    BY <1>1
  <2> QED
    BY <1>2, <2>1
<1>5. callbacks' \in [Threads -> SUBSET (SetIds \X Nat)]
  BY <1>1, <1>3 DEF ThreadTypes
<1>6. ThreadTypes' /\ pc'[t] = "callbacks"
  BY <1>1, <1>4, <1>5 DEF ThreadTypes, Places
<1>7. OthersStay(t)
  BY <1>1 DEF OthersStay, ThreadTypes, device
<1>8. HasSet(t) /\ HasSet(t)' /\ KernelsHad(t)'
  BY <1>1, <1>6 DEF HasSet, KernelsHad, ThreadInv
<1>9. ThreadInv(t)'
  BY <1>1, <1>6, <1>8 DEF ThreadInv, device
<1> QED
  BY <1>1, <1>6, <1>7, <1>8, <1>9, OthersKeep DEF ControlInv, CacheInv, device

\* RunCallback: only mappings change, and only of the call whose callback runs.
LEMMA CallbackEffect ==
  ASSUME ControlInv, DeviceTypes, NEW t \in Threads, NEW c, NEW i, RunCallback(t, c, i)
  PROVE  /\ ControlInv' /\ OthersStay(t)
         /\ UNCHANGED <<device, pc, job, kernels, leased, call, outcome, faulty>>
<1>1. /\ ThreadTypes /\ ThreadInv(t) /\ pc[t] = "callbacks" /\ calls \in Nat
      /\ UNCHANGED <<device, pc, job, kernels, leased, call, outcome, faulty>>
      /\ callbacks' = [callbacks EXCEPT ![t] = @ \ {<<c, i>>}]
  BY DEF ControlInv, DeviceTypes, RunCallback
<1>2. PICK result \in {"mapped", "failed"} :
        mapping' = [u \in Threads |-> IF call[u] = c THEN Delivered(mapping[u], i, result)
                                      ELSE mapping[u]]
  BY DEF RunCallback
<1>3. ASSUME NEW u \in Threads
      PROVE  mapping'[u] \in Seq(Statuses)
  <2>1. mapping[u] \in Seq(Statuses) /\ result \in Statuses
    BY <1>1, <1>2 DEF ThreadTypes, Statuses
  <2>2. Delivered(mapping[u], i, result) \in Seq(Statuses)
    BY <2>1, SeqExcept DEF Delivered
  <2> QED
    BY <1>2, <2>1, <2>2
<1>4. mapping' \in [Threads -> Seq(Statuses)]
  <2>1. mapping' = [u \in Threads |-> mapping'[u]]
    BY <1>2
  <2> QED
    BY <1>3, <2>1
<1>5. callbacks' \in [Threads -> SUBSET (SetIds \X Nat)]
  BY <1>1 DEF ThreadTypes
<1>6. ThreadTypes'
  BY <1>1, <1>4, <1>5 DEF ThreadTypes
<1>7. OthersStay(t)
  BY <1>1 DEF OthersStay, device
<1>8. ThreadInv(t)'
  BY <1>1 DEF ThreadInv, HasSet, KernelsHad, device
<1> QED
  BY <1>1, <1>6, <1>7, <1>8, OthersKeep DEF ControlInv, CacheInv, device

\* MappingFails: the device is as it was, and the error is the thread's own mapping's.
LEMMA MappingFailsEffect ==
  ASSUME ControlInv, DeviceTypes, NEW t \in Threads, MappingFails(t)
  PROVE  /\ ControlInv' /\ OthersStay(t) /\ Ended(t)
         /\ UNCHANGED device
         /\ outcome'[t] = "error" /\ faulty'[t]
         /\ \A u \in Threads : u # t => outcome'[u] = outcome[u] /\ faulty'[u] = faulty[u]
<1>1. faulty' = [faulty EXCEPT ![t] = TRUE]
  <2>1. \E i \in DOMAIN mapping[t] : mapping[t][i] = "failed"
    BY DEF MappingFails, Received
  <2> QED
    BY <2>1 DEF MappingFails
<1>2. faulty' \in [Threads -> BOOLEAN] /\ faulty'[t]
      /\ \A u \in Threads : u # t => faulty'[u] = faulty[u]
  BY <1>1 DEF ControlInv, ThreadTypes
<1> QED
  BY <1>2, EndsEffect DEF MappingFails, device

\* A call that returns gives its set to its pool.
GivenBack(t) ==
  \E k \in Kinds :
    /\ DOMAIN pool'[k] = 1 .. (Len(pool[k]) + 1)
    /\ pool'[k][Len(pool[k]) + 1] = leased[t]
    /\ \A i \in DOMAIN pool[k] : pool'[k][i] = pool[k][i]
    /\ \A l \in Kinds : l # k => pool'[l] = pool[l]

\* Return: the set of the thread, unmapped, is the last of its pool.
LEMMA ReturnEffect ==
  ASSUME ControlInv, DeviceTypes, SetsInv, NEW t \in Threads, Return(t), ~Fault(t)
  PROVE  /\ ControlInv' /\ DeviceTypes' /\ OthersStay(t) /\ Ended(t)
         /\ UNCHANGED <<flights, calls, faulty>>
         /\ pc[t] = "callbacks" /\ HasSet(t) /\ leased[t] \in SetIds
         /\ GivenBack(t) /\ Changed(leased[t], Unmapped(sets[leased[t]]))
         /\ outcome'[t] = ReadAnswers(t)
         /\ \A u \in Threads : u # t => outcome'[u] = outcome[u]
<1> DEFINE kind == job[t].kind
           free == pool[kind]
<1>1. /\ ThreadTypes /\ pc[t] = "callbacks" /\ HasSet(t) /\ leased[t] \in SetIds
      /\ pool' = [pool EXCEPT ![kind] = Append(@, leased[t])]
      /\ sets' = [sets EXCEPT ![leased[t]] = Unmapped(@)]
      /\ Ends(t, ReadAnswers(t))
      /\ UNCHANGED <<pipelines, flights, calls, callbacks, faulty>>
  BY HeldSet DEF ControlInv, Return, HasSet
<1>2. ReadAnswers(t) \in {"good", "error", "wrong", "panic"} /\ faulty' \in [Threads -> BOOLEAN]
  BY <1>1 DEF ReadAnswers, ThreadTypes
<1>3. /\ ControlInv' /\ OthersStay(t) /\ Ended(t) /\ outcome'[t] = ReadAnswers(t)
      /\ \A u \in Threads : u # t => outcome'[u] = outcome[u]
  BY <1>1, <1>2, EndsEffect
<1>4. kind \in Kinds /\ free \in Seq(SetIds) /\ Len(free) \in Nat /\ DOMAIN free = 1 .. Len(free)
  <2>1. kind \in Kinds
    BY <1>1, JobShape
  <2> QED
    BY <2>1, SeqShape DEF DeviceTypes
<1>5. /\ Append(free, leased[t]) \in Seq(SetIds)
      /\ DOMAIN Append(free, leased[t]) = 1 .. (Len(free) + 1)
      /\ Append(free, leased[t])[Len(free) + 1] = leased[t]
      /\ \A i \in DOMAIN free : Append(free, leased[t])[i] = free[i]
  BY <1>1, <1>4
<1>6. /\ pool' \in [Kinds -> Seq(SetIds)] /\ pool'[kind] = Append(free, leased[t])
      /\ \A l \in Kinds : l # kind => pool'[l] = pool[l]
  BY <1>1, <1>4, <1>5 DEF DeviceTypes
<1>7. GivenBack(t)
  BY <1>4, <1>5, <1>6 DEF GivenBack
<1>8. sets[leased[t]] \in Seq(Chunks) /\ \A i \in DOMAIN sets[leased[t]] : Sized(sets[leased[t]][i])
  BY <1>1 DEF DeviceTypes, SetsInv
<1>9. Unmapped(sets[leased[t]]) \in Seq(Chunks)
  BY <1>8, UnmappedShape, AlikeShape
<1>10. sets' \in [SetIds -> Seq(Chunks)] /\ Changed(leased[t], Unmapped(sets[leased[t]]))
  BY <1>1, <1>9 DEF DeviceTypes, Changed
<1> QED
  BY <1>1, <1>3, <1>6, <1>7, <1>10 DEF DeviceTypes

\* DeviceFinishes: the oldest submission is gone, and only the set it writes changes.
LEMMA DeviceEffect ==
  ASSUME ControlInv, DeviceTypes, SetsInv, DeviceFinishes
  PROVE  /\ ControlInv' /\ DeviceTypes'
         /\ UNCHANGED <<pool, calls, pc, job, kernels, leased, call, outcome, faulty>>
         /\ Len(flights) \in Nat /\ Len(flights) >= 1
         /\ flights[1].set \in SetIds /\ flights[1].kernels \in Seq(Segments)
         /\ DOMAIN flights = 1 .. Len(flights)
         /\ DOMAIN flights' = 1 .. (Len(flights) - 1)
         /\ \A i \in DOMAIN flights' : flights'[i] = flights[i + 1]
         /\ Changed(flights[1].set, Answered(sets[flights[1].set], flights[1]))
<1> DEFINE first == flights[1]
<1>1. /\ UNCHANGED <<pipelines, pool, calls, pc, job, kernels, leased, call, mapping,
                     callbacks, outcome, faulty>>
      /\ flights # <<>> /\ flights' = Tail(flights)
      /\ sets' = [sets EXCEPT ![Head(flights).set] = Answered(@, Head(flights))]
  BY DEF DeviceFinishes
<1>2. ControlInv'
  BY <1>1 DEF ControlInv, ThreadTypes, CacheInv, ThreadInv, HasSet, KernelsHad
<1>3. /\ Len(flights) \in Nat /\ Len(flights) >= 1 /\ DOMAIN flights = 1 .. Len(flights)
      /\ first \in [set : SetIds, kernels : Seq(Segments)] /\ Head(flights) = first
      /\ flights' \in Seq([set : SetIds, kernels : Seq(Segments)])
      /\ DOMAIN flights' = 1 .. (Len(flights) - 1)
      /\ \A i \in DOMAIN flights' : flights'[i] = flights[i + 1]
  <2> DEFINE Flights == [set : SetIds, kernels : Seq(Segments)]
  <2>1. flights \in Seq(Flights)
    BY DEF DeviceTypes
  <2> HIDE DEF Flights
  <2>2. /\ Len(flights) \in Nat /\ Len(flights) >= 1 /\ DOMAIN flights = 1 .. Len(flights)
        /\ flights[1] \in Flights /\ Head(flights) = flights[1]
    BY <1>1, <2>1, SeqShape
  <2>3. /\ Tail(flights) \in Seq(Flights) /\ DOMAIN Tail(flights) = 1 .. (Len(flights) - 1)
        /\ \A i \in 1 .. (Len(flights) - 1) : Tail(flights)[i] = flights[i + 1]
    BY <1>1, <2>1, <2>2
  <2> QED
    BY <1>1, <2>2, <2>3 DEF Flights
<1>4. first.set \in SetIds /\ first.kernels \in Seq(Segments)
  BY <1>3
<1>5. sets[first.set] \in Seq(Chunks) /\ \A i \in DOMAIN sets[first.set] : Sized(sets[first.set][i])
  BY <1>4 DEF DeviceTypes, SetsInv
<1>6. Answered(sets[first.set], first) \in Seq(Chunks)
  <2> DEFINE chunks == sets[first.set]
             new == Answered(chunks, first)
  <2>1. /\ new = [i \in DOMAIN chunks |-> new[i]]
        /\ \A i \in DOMAIN chunks : Alike(chunks[i], new[i])
    BY <1>4, <1>5, AnsweredShape
  <2> HIDE DEF chunks, new
  <2>2. new \in Seq(Chunks)
    BY <1>5, <2>1, AlikeShape DEF chunks
  <2> QED
    BY <2>2 DEF chunks, new
<1>7. sets' \in [SetIds -> Seq(Chunks)] /\ Changed(first.set, Answered(sets[first.set], first))
  BY <1>1, <1>3, <1>4, <1>6 DEF DeviceTypes, Changed
<1>8. DeviceTypes'
  BY <1>1, <1>3, <1>7 DEF DeviceTypes
<1> QED
  BY <1>1, <1>2, <1>3, <1>4, <1>7, <1>8

-----------------------------------------------------------------------------
(* Where the sets are, after each step.                                     *)

\* The types of what names a set: no place names the set None.
LEMMA PlaceTypes ==
  ASSUME ControlInv, DeviceTypes
  PROVE  /\ None \notin SetIds /\ SetIds = 1 .. MaxCalls /\ MaxCalls \in Nat
         /\ \A k \in Kinds : /\ Len(pool[k]) \in Nat /\ DOMAIN pool[k] = 1 .. Len(pool[k])
                             /\ \A i \in DOMAIN pool[k] : pool[k][i] \in SetIds
         /\ Len(flights) \in Nat /\ DOMAIN flights = 1 .. Len(flights)
         /\ \A i \in DOMAIN flights : /\ flights[i].set \in SetIds
                                      /\ flights[i].kernels \in Seq(Segments)
         /\ \A t \in Threads : /\ leased[t] \in SetIds \cup {None}
                               /\ call[t] \in SetIds \cup {None}
                               /\ call[t] # None => call[t] \in 1 .. calls
         /\ calls \in Nat
<1>1. None \notin SetIds /\ SetIds = 1 .. MaxCalls /\ MaxCalls \in Nat
  BY GpuBatchesAssumption DEF SetIds, None
<1>2. ASSUME NEW k \in Kinds
      PROVE  /\ Len(pool[k]) \in Nat /\ DOMAIN pool[k] = 1 .. Len(pool[k])
             /\ \A i \in DOMAIN pool[k] : pool[k][i] \in SetIds
  <2>1. pool[k] \in Seq(SetIds)
    BY DEF DeviceTypes
  <2> QED
    BY <2>1, SeqShape
<1>3. /\ Len(flights) \in Nat /\ DOMAIN flights = 1 .. Len(flights)
      /\ \A i \in DOMAIN flights : /\ flights[i].set \in SetIds
                                   /\ flights[i].kernels \in Seq(Segments)
  <2> DEFINE Flights == [set : SetIds, kernels : Seq(Segments)]
  <2>1. flights \in Seq(Flights)
    BY DEF DeviceTypes
  <2> HIDE DEF Flights
  <2>2. /\ Len(flights) \in Nat /\ DOMAIN flights = 1 .. Len(flights)
        /\ \A i \in DOMAIN flights : flights[i] \in Flights
    BY <2>1, SeqShape
  <2> QED
    BY <2>2 DEF Flights
<1>4. ASSUME NEW t \in Threads
      PROVE  /\ leased[t] \in SetIds \cup {None}
             /\ call[t] \in SetIds \cup {None}
             /\ call[t] # None => call[t] \in 1 .. calls
  BY DEF ControlInv, ThreadTypes, ThreadInv
<1>5. calls \in Nat
  BY DEF DeviceTypes
<1> QED
  BY <1>1, <1>2, <1>3, <1>4, <1>5

\* What is in flight depends on the queue alone.
LEMMA FlightsKept ==
  ASSUME UNCHANGED flights
  PROVE  \A s : InFlight(s)' <=> InFlight(s)
BY DEF InFlight

\* Nothing moves.
LEMMA PlacesSame ==
  ASSUME PlacesInv, UNCHANGED <<pool, flights, leased, call, calls>>
  PROVE  PlacesInv'
<1>1. \A s : Used(s)' <=> Used(s)
  BY FlightsKept DEF Used
<1>2. CallsApart' /\ LeasesApart' /\ PoolsApart' /\ FlightsApart'
  BY DEF PlacesInv, CallsApart, LeasesApart, PoolsApart, FlightsApart
<1>3. PooledFree'
  BY FlightsKept DEF PlacesInv, PooledFree
<1>4. UsedOld' /\ UnusedNew'
  BY <1>1 DEF PlacesInv, UsedOld, UnusedNew
<1> QED
  BY <1>2, <1>3, <1>4 DEF PlacesInv

\* A call ends without giving its set back.
LEMMA PlacesEnds ==
  ASSUME ControlInv, DeviceTypes, PlacesInv, NEW t \in Threads, Ended(t), OthersStay(t),
         UNCHANGED <<pool, flights, calls>>
  PROVE  PlacesInv'
<1>1. \A u \in Threads : \/ leased'[u] = leased[u] /\ call'[u] = call[u]
                         \/ leased'[u] = None /\ call'[u] = None
  BY DEF Ended, OthersStay
<1>2. \A s \in SetIds : Used(s)' => Used(s)
  BY <1>1, PlaceTypes, FlightsKept DEF Used
<1>3. CallsApart' /\ LeasesApart'
  BY <1>1 DEF PlacesInv, CallsApart, LeasesApart
<1>4. PoolsApart' /\ FlightsApart'
  BY DEF PlacesInv, PoolsApart, FlightsApart
<1>5. PooledFree'
  BY <1>1, PlaceTypes, FlightsKept DEF PlacesInv, PooledFree
<1>6. UsedOld' /\ UnusedNew'
  BY <1>1, <1>2, PlaceTypes DEF PlacesInv, UsedOld, UnusedNew
<1> QED
  BY <1>3, <1>4, <1>5, <1>6 DEF PlacesInv

\* A call begins: its number names a set that is nowhere yet.
LEMMA PlacesBegin ==
  ASSUME ControlInv, DeviceTypes, PlacesInv, NEW t \in Threads, NEW j \in Jobs, Begin(t, j)
  PROVE  PlacesInv'
<1>1. /\ OthersStay(t) /\ leased[t] = None /\ call[t] = None
      /\ \/ call'[t] = None /\ calls' = calls
         \/ call'[t] = calls' /\ calls' = calls + 1 /\ calls' <= MaxCalls
      /\ UNCHANGED <<pool, flights, leased>>
  BY BeginEffect
<1>2. \A s : Used(s)' <=> Used(s)
  BY <1>1, FlightsKept DEF Used
<1>3. \A u \in Threads : u # t => call'[u] = call[u]
  BY <1>1 DEF OthersStay
<1>4. call'[t] = None \/ (call'[t] = calls + 1 /\ calls + 1 \in SetIds)
  <2>1. calls \in Nat /\ MaxCalls \in Nat /\ SetIds = 1 .. MaxCalls
    BY PlaceTypes
  <2>2. calls + 1 <= MaxCalls => calls + 1 \in 1 .. MaxCalls
    BY <2>1
  <2>3. calls' = calls + 1 /\ calls' <= MaxCalls => calls + 1 <= MaxCalls
    OBVIOUS
  <2>4. CASE call'[t] = calls' /\ calls' = calls + 1 /\ calls' <= MaxCalls
    BY <2>1, <2>2, <2>3, <2>4
  <2> QED
    BY <1>1, <2>4
<1>5. CallsApart'
  <2>1. \A u \in Threads : call[u] # calls + 1 \/ call[u] = None
    BY PlaceTypes
  <2> QED
    BY <1>3, <1>4, <2>1 DEF PlacesInv, CallsApart
<1>6. LeasesApart' /\ PoolsApart' /\ FlightsApart'
  BY <1>1 DEF PlacesInv, LeasesApart, PoolsApart, FlightsApart
<1>7. PooledFree'
  BY <1>1, FlightsKept DEF PlacesInv, PooledFree
<1>8. UsedOld'
  BY <1>1, <1>2, PlaceTypes DEF PlacesInv, UsedOld
<1>9. UnusedNew'
  <2>1. calls + 1 \in SetIds => ~Used(calls + 1)
    BY PlaceTypes DEF PlacesInv, UsedOld
  <2> QED
    BY <1>1, <1>2, <1>3, <1>4, <2>1 DEF PlacesInv, UnusedNew
<1> QED
  BY <1>5, <1>6, <1>7, <1>8, <1>9 DEF PlacesInv

\* A set goes from its pool to a thread, or is made.
LEMMA PlacesLease ==
  ASSUME ControlInv, DeviceTypes, PlacesInv, NEW t \in Threads, Lease(t)
  PROVE  PlacesInv'
<1> DEFINE s == leased'[t]
<1>1. /\ OthersStay(t) /\ leased[t] = None /\ call[t] \in SetIds /\ s \in SetIds
      /\ UNCHANGED <<flights, calls, call>>
      /\ FromPool(t) \/ Made(t)
  BY LeaseEffect
<1>2. \A u \in Threads : u # t => leased'[u] = leased[u]
  BY <1>1 DEF OthersStay
<1>3. /\ \A k \in Kinds : /\ DOMAIN pool'[k] \subseteq DOMAIN pool[k]
                          /\ \A i \in DOMAIN pool'[k] : pool'[k][i] = pool[k][i] /\ pool[k][i] # s
      /\ ~InFlight(s) /\ s \in 1 .. calls
      /\ \A u \in Threads : leased[u] # s
      /\ \A u \in Threads : u # t /\ leased[u] = None => call[u] # s
  <2>1. CASE FromPool(t)
    <3>1. PICK k \in Kinds :
            /\ Len(pool[k]) >= 1
            /\ s = pool[k][Len(pool[k])]
            /\ DOMAIN pool'[k] = 1 .. (Len(pool[k]) - 1)
            /\ \A i \in DOMAIN pool'[k] : pool'[k][i] = pool[k][i]
            /\ \A l \in Kinds : l # k => pool'[l] = pool[l]
      BY <2>1 DEF FromPool
    <3> HIDE DEF s
    <3>2. Len(pool[k]) \in DOMAIN pool[k] /\ Len(pool[k]) \notin DOMAIN pool'[k]
          /\ DOMAIN pool'[k] \subseteq DOMAIN pool[k]
      BY <3>1, PlaceTypes
    <3>3. \A l \in Kinds : /\ DOMAIN pool'[l] \subseteq DOMAIN pool[l]
                           /\ \A i \in DOMAIN pool'[l] : pool'[l][i] = pool[l][i]
      BY <3>1, <3>2
    <3>4. \A l \in Kinds : \A i \in DOMAIN pool'[l] : pool[l][i] # s
      BY <3>1, <3>2, <3>3 DEF PlacesInv, PoolsApart
    <3>5. Used(s) /\ ~InFlight(s) /\ \A u \in Threads : leased[u] # s
      BY <3>1, <3>2 DEF PlacesInv, PooledFree, Used
    <3>6. s \in 1 .. calls
      BY <1>1, <3>5 DEF PlacesInv, UsedOld
    <3>7. \A u \in Threads : u # t /\ leased[u] = None => call[u] # s
      BY <1>1, <3>5, PlaceTypes DEF PlacesInv, UnusedNew
    <3> QED
      BY <3>3, <3>4, <3>5, <3>6, <3>7
  <2>2. CASE Made(t)
    <3>1. s = call[t] /\ pool' = pool /\ s # None
      BY <1>1, <2>2, PlaceTypes DEF Made
    <3> HIDE DEF s
    <3>2. ~Used(s)
      BY <1>1, <3>1 DEF PlacesInv, UnusedNew
    <3>3. /\ ~InFlight(s) /\ \A u \in Threads : leased[u] # s
          /\ \A k \in Kinds : \A i \in DOMAIN pool[k] : pool[k][i] # s
      BY <3>2 DEF Used
    <3>4. s \in 1 .. calls
      BY <3>1, PlaceTypes
    <3>5. \A u \in Threads : u # t => call[u] # s
      BY <3>1 DEF PlacesInv, CallsApart
    <3> QED
      BY <3>1, <3>3, <3>4, <3>5
  <2> QED
    BY <1>1, <2>1, <2>2
<1>4. leased'[t] = s
  OBVIOUS
<1> HIDE DEF s
<1>5. \A r : Used(r)' => Used(r) \/ r = s
  BY <1>1, <1>2, <1>3, <1>4, FlightsKept DEF Used
<1>6. CallsApart' /\ FlightsApart'
  BY <1>1 DEF PlacesInv, CallsApart, FlightsApart
<1>7. LeasesApart'
  BY <1>2, <1>3, <1>4 DEF PlacesInv, LeasesApart
<1>8. PoolsApart'
  BY <1>3 DEF PlacesInv, PoolsApart
<1>9. PooledFree'
  BY <1>1, <1>2, <1>3, <1>4, FlightsKept DEF PlacesInv, PooledFree
<1>10. UsedOld'
  BY <1>1, <1>3, <1>5 DEF PlacesInv, UsedOld
<1>11. UnusedNew'
  <2>1. s # None
    BY <1>1, PlaceTypes
  <2> QED
    BY <1>1, <1>2, <1>3, <1>4, <1>5, <2>1 DEF PlacesInv, UnusedNew
<1> QED
  BY <1>6, <1>7, <1>8, <1>9, <1>10, <1>11 DEF PlacesInv

\* What a submission adds to the queue.
LEMMA FlightAdded ==
  ASSUME ControlInv, DeviceTypes, NEW t \in Threads,
         flights' = Append(flights, [set |-> leased[t], kernels |-> kernels[t]])
  PROVE  /\ DOMAIN flights' = 1 .. (Len(flights) + 1)
         /\ \A i \in DOMAIN flights : flights'[i] = flights[i]
         /\ flights'[Len(flights) + 1].set = leased[t]
         /\ flights'[Len(flights) + 1].kernels = kernels[t]
         /\ \A i \in DOMAIN flights' : i \in DOMAIN flights \/ i = Len(flights) + 1
         /\ Len(flights) + 1 \in DOMAIN flights' /\ DOMAIN flights \subseteq DOMAIN flights'
         /\ \A s : InFlight(s)' <=> InFlight(s) \/ s = leased[t]
<1> DEFINE last == [set |-> leased[t], kernels |-> kernels[t]]
           n == Len(flights)
           Flights == [set : SetIds, kernels : Seq(Segments)]
<1>1. last.set = leased[t] /\ last.kernels = kernels[t]
  OBVIOUS
<1>2. flights \in Seq(Flights)
  BY DEF DeviceTypes
<1> HIDE DEF last, Flights
<1>3. /\ n \in Nat /\ DOMAIN flights = 1 .. n /\ DOMAIN flights' = 1 .. (n + 1)
      /\ \A i \in 1 .. n : flights'[i] = flights[i]
      /\ flights'[n + 1] = last
  BY <1>2 DEF last
<1> HIDE DEF n
<1>4. /\ \A i \in 1 .. (n + 1) : i \in 1 .. n \/ i = n + 1
      /\ n + 1 \in 1 .. (n + 1) /\ 1 .. n \subseteq 1 .. (n + 1)
  BY <1>3
<1>5. \A s : InFlight(s)' <=> InFlight(s) \/ s = leased[t]
  BY <1>1, <1>3, <1>4 DEF InFlight
<1> QED
  BY <1>1, <1>3, <1>4, <1>5 DEF n

\* A held set is submitted.
LEMMA PlacesSubmit ==
  ASSUME ControlInv, DeviceTypes, PlacesInv, NEW t \in Threads, FlightInv(t),
         leased[t] \in SetIds, pc[t] \notin {"map", "poll"},
         flights' = Append(flights, [set |-> leased[t], kernels |-> kernels[t]]),
         UNCHANGED <<pool, calls, leased, call>>
  PROVE  PlacesInv'
<1>1. ~InFlight(leased[t])
  BY DEF FlightInv, InFlight
<1>2. \A s : Used(s)' => Used(s)
  BY FlightAdded DEF Used
<1>3. CallsApart' /\ LeasesApart' /\ PoolsApart'
  BY DEF PlacesInv, CallsApart, LeasesApart, PoolsApart
<1>4. PooledFree'
  BY FlightAdded DEF PlacesInv, PooledFree
<1>5. FlightsApart'
  <2>1. \A i \in DOMAIN flights : flights[i].set # leased[t]
    BY <1>1 DEF InFlight
  <2> QED
    BY <2>1, FlightAdded DEF PlacesInv, FlightsApart
<1>6. UsedOld' /\ UnusedNew'
  BY <1>2 DEF PlacesInv, UsedOld, UnusedNew
<1> QED
  BY <1>3, <1>4, <1>5, <1>6 DEF PlacesInv

\* A call gives its set back.
LEMMA PlacesReturn ==
  ASSUME ControlInv, DeviceTypes, PlacesInv, NEW t \in Threads, FlightInv(t),
         leased[t] \in SetIds, pc[t] \notin {"map", "poll"}, GivenBack(t), Ended(t), OthersStay(t),
         UNCHANGED <<flights, calls>>
  PROVE  /\ PlacesInv'
         /\ \A k \in Kinds : \A i \in DOMAIN pool'[k] :
              \/ i \in DOMAIN pool[k] /\ pool'[k][i] = pool[k][i]
              \/ pool'[k][i] = leased[t]
<1> DEFINE s == leased[t]
<1>1. PICK k \in Kinds :
        /\ DOMAIN pool'[k] = 1 .. (Len(pool[k]) + 1)
        /\ pool'[k][Len(pool[k]) + 1] = s
        /\ \A i \in DOMAIN pool[k] : pool'[k][i] = pool[k][i]
        /\ \A l \in Kinds : l # k => pool'[l] = pool[l]
  BY DEF GivenBack
<1>2. \A u \in Threads : \/ u # t /\ leased'[u] = leased[u] /\ call'[u] = call[u]
                         \/ u = t /\ leased'[u] = None /\ call'[u] = None
  BY DEF Ended, OthersStay
<1>3. /\ ~InFlight(s) /\ s # None /\ Used(s)
      /\ \A l \in Kinds : \A i \in DOMAIN pool[l] : pool[l][i] # s
      /\ \A u \in Threads : u # t => leased[u] # s
  <2>1. ~InFlight(s) /\ Used(s)
    BY DEF FlightInv, InFlight, Used
  <2>2. \A l \in Kinds : \A i \in DOMAIN pool[l] : pool[l][i] # s
    BY DEF PlacesInv, PooledFree
  <2>3. s # None /\ \A u \in Threads : u # t => leased[u] # s
    BY PlaceTypes DEF PlacesInv, LeasesApart
  <2> QED
    BY <2>1, <2>2, <2>3
<1> HIDE DEF s
<1>4. \A l \in Kinds : \A i \in DOMAIN pool'[l] :
        \/ i \in DOMAIN pool[l] /\ pool'[l][i] = pool[l][i]
        \/ l = k /\ i = Len(pool[k]) + 1 /\ pool'[l][i] = s
  <2>1. \A i \in 1 .. (Len(pool[k]) + 1) : i \in DOMAIN pool[k] \/ i = Len(pool[k]) + 1
    BY PlaceTypes
  <2> QED
    BY <1>1, <2>1
<1>5. \A r : Used(r)' => Used(r) \/ r = None
  BY <1>2, <1>3, <1>4, FlightsKept DEF Used
<1>6. CallsApart' /\ LeasesApart'
  BY <1>2 DEF PlacesInv, CallsApart, LeasesApart
<1>7. PoolsApart'
  BY <1>3, <1>4 DEF PlacesInv, PoolsApart
<1>8. FlightsApart'
  BY DEF PlacesInv, FlightsApart
<1>9. PooledFree'
  <2>1. ASSUME NEW l \in Kinds, NEW i \in DOMAIN pool'[l]
        PROVE  ~InFlight(pool'[l][i]) /\ \A u \in Threads : leased'[u] # pool'[l][i]
    <3>1. CASE i \in DOMAIN pool[l] /\ pool'[l][i] = pool[l][i]
      <4>1. pool[l][i] # None
        BY <3>1, PlaceTypes
      <4> QED
        BY <1>2, <3>1, <4>1 DEF PlacesInv, PooledFree
    <3>2. CASE pool'[l][i] = s
      BY <1>2, <1>3, <3>2
    <3> QED
      BY <1>4, <3>1, <3>2
  <2> QED
    BY <2>1, FlightsKept DEF PooledFree
<1>10. UsedOld'
  BY <1>5, PlaceTypes DEF PlacesInv, UsedOld
<1>11. UnusedNew'
  BY <1>2, <1>5 DEF PlacesInv, UnusedNew
<1> QED
  BY <1>4, <1>6, <1>7, <1>8, <1>9, <1>10, <1>11 DEF PlacesInv, s

\* A submission is done.
LEMMA PlacesDevice ==
  ASSUME ControlInv, DeviceTypes, PlacesInv, SetsInv, DeviceFinishes
  PROVE  /\ PlacesInv'
         /\ \A s : InFlight(s)' <=> InFlight(s) /\ s # flights[1].set
<1>1. /\ UNCHANGED <<pool, calls, leased, call>>
      /\ DOMAIN flights = 1 .. Len(flights) /\ Len(flights) \in Nat /\ Len(flights) >= 1
      /\ DOMAIN flights' = 1 .. (Len(flights) - 1)
      /\ \A i \in DOMAIN flights' : flights'[i] = flights[i + 1]
  BY DeviceEffect
<1>2. /\ 1 \in DOMAIN flights
      /\ \A i \in DOMAIN flights' : i \in Nat /\ i + 1 \in DOMAIN flights /\ i + 1 # 1
      /\ \A i \in DOMAIN flights : i = 1 \/ (i - 1 \in DOMAIN flights' /\ (i - 1) + 1 = i)
      /\ \A i, j \in DOMAIN flights' : i + 1 = j + 1 => i = j
  BY <1>1
<1>3. \A s : InFlight(s)' <=> InFlight(s) /\ s # flights[1].set
  <2>1. ASSUME NEW i \in DOMAIN flights' 
        PROVE  /\ \E j \in DOMAIN flights : flights[j].set = flights'[i].set
               /\ flights'[i].set # flights[1].set
    <3>1. flights'[i] = flights[i + 1] /\ i + 1 \in DOMAIN flights /\ i + 1 # 1
      BY <1>1, <1>2
    <3> QED
      BY <1>2, <3>1 DEF PlacesInv, FlightsApart
  <2>2. ASSUME NEW i \in DOMAIN flights, flights[i].set # flights[1].set
        PROVE  \E j \in DOMAIN flights' : flights'[j].set = flights[i].set
    <3>1. i - 1 \in DOMAIN flights' /\ (i - 1) + 1 = i
      BY <1>2, <2>2
    <3> QED
      BY <1>1, <3>1
  <2> QED
    BY <2>1, <2>2 DEF InFlight
<1>4. \A s : Used(s)' => Used(s)
  BY <1>1, <1>3 DEF Used
<1>5. CallsApart' /\ LeasesApart' /\ PoolsApart'
  BY <1>1 DEF PlacesInv, CallsApart, LeasesApart, PoolsApart
<1>6. PooledFree'
  BY <1>1, <1>3 DEF PlacesInv, PooledFree
<1>7. FlightsApart'
  BY <1>1, <1>2 DEF PlacesInv, FlightsApart
<1>8. UsedOld' /\ UnusedNew'
  BY <1>1, <1>4 DEF PlacesInv, UsedOld, UnusedNew
<1> QED
  BY <1>3, <1>5, <1>6, <1>7, <1>8 DEF PlacesInv

-----------------------------------------------------------------------------
(* What the sets hold, after each step.                                     *)

\* A step that leaves the pools and the sets as they are, or takes from a pool.
LEMMA SetsSame ==
  ASSUME SetsInv, sets' = sets,
         \A k \in Kinds : \A i \in DOMAIN pool'[k] :
           i \in DOMAIN pool[k] /\ pool'[k][i] = pool[k][i]
  PROVE  SetsInv'
BY DEF SetsInv, Clean

\* A step that changes a set that is not pooled, or leaves it clean.
LEMMA SetsChanged ==
  ASSUME ControlInv, DeviceTypes, SetsInv, NEW s \in SetIds, NEW chunks, Changed(s, chunks),
         \A i \in DOMAIN chunks : Sized(chunks[i]),
         \A k \in Kinds : \A i \in DOMAIN pool'[k] :
           \/ i \in DOMAIN pool[k] /\ pool'[k][i] = pool[k][i] /\ pool[k][i] # s
           \/ pool'[k][i] = s /\ Clean(chunks)
  PROVE  SetsInv'
<1>1. \A r \in SetIds : \A i \in DOMAIN sets'[r] : Sized(sets'[r][i])
  BY DEF SetsInv, Changed
<1>2. ASSUME NEW k \in Kinds, NEW i \in DOMAIN pool'[k]
      PROVE  Clean(sets'[pool'[k][i]])
  <2>1. CASE i \in DOMAIN pool[k] /\ pool'[k][i] = pool[k][i] /\ pool[k][i] # s
    BY <2>1, PlaceTypes DEF SetsInv, Changed
  <2>2. CASE pool'[k][i] = s /\ Clean(chunks)
    BY <2>2 DEF Changed
  <2> QED
    BY <2>1, <2>2
<1> QED
  BY <1>1, <1>2 DEF SetsInv

\* The buffers another thread holds are not touched.
LEMMA OthersHold ==
  ASSUME NEW t \in Threads, OthersStay(t), NEW u \in Threads, u # t,
         FlightInv(u), ContentsInv(u), flights' = flights,
         HasSet(u) => sets'[leased[u]] = sets[leased[u]]
  PROVE  FlightInv(u)' /\ ContentsInv(u)'
<1>1. /\ pc'[u] = pc[u] /\ job'[u] = job[u] /\ kernels'[u] = kernels[u]
      /\ leased'[u] = leased[u] /\ call'[u] = call[u]
  BY DEF OthersStay
<1>2. HasSet(u)' <=> HasSet(u)
  BY <1>1 DEF HasSet
<1>3. FlightInv(u)'
  BY <1>1 DEF FlightInv
<1>4. ContentsInv(u)'
  BY <1>1, <1>2, FlightsKept DEF ContentsInv, Filled, Clean, Answers, Plan
<1> QED
  BY <1>3, <1>4

\* A set that changes is not one another thread holds.
LEMMA HeldApart ==
  ASSUME ControlInv, PlacesInv, NEW s \in SetIds, NEW chunks, Changed(s, chunks),
         NEW u \in Threads, leased[u] # s
  PROVE  HasSet(u) => sets'[leased[u]] = sets[leased[u]]
BY HeldSet DEF Changed

\* The step of one thread is the step of all.
LEMMA AllHold ==
  ASSUME IInv, NEW t \in Threads, OthersStay(t), flights' = flights,
         \A u \in Threads : u # t /\ HasSet(u) => sets'[leased[u]] = sets[leased[u]],
         FlightInv(t)' /\ ContentsInv(t)'
  PROVE  \A u \in Threads : FlightInv(u)' /\ ContentsInv(u)'
BY OthersHold DEF IInv

\* A thread without a set.
LEMMA NothingHeld ==
  ASSUME DeviceTypes', NEW t \in Threads, leased'[t] = None, ~HasSet(t)'
  PROVE  FlightInv(t)' /\ ContentsInv(t)'
<1>1. None \notin SetIds
  BY GpuBatchesAssumption DEF SetIds, None
<1>2. \A i \in DOMAIN flights' : flights'[i].set \in SetIds
  <2> DEFINE Flights == [set : SetIds, kernels : Seq(Segments)]
  <2>1. flights' \in Seq(Flights)
    BY DEF DeviceTypes
  <2> HIDE DEF Flights
  <2>2. \A i \in DOMAIN flights' : flights'[i] \in Flights
    BY <2>1, SeqShape
  <2> QED
    BY <2>2 DEF Flights
<1> QED
  BY <1>1, <1>2 DEF FlightInv, ContentsInv

\* A thread in IInv before it submits.
LEMMA NotInFlight ==
  ASSUME IInv, NEW t \in Threads, pc[t] \notin {"map", "poll"}
  PROVE  ~InFlight(leased[t])
BY DEF IInv, FlightInv, InFlight

-----------------------------------------------------------------------------
(* The invariant, step by step.                                             *)

\* IInv without what is said of the outcomes of the calls.
DeviceInv ==
  /\ ControlInv /\ DeviceTypes
  /\ PlacesInv /\ SetsInv
  /\ \A t \in Threads : FlightInv(t) /\ ContentsInv(t)

\* A thread looks a kernel up, or compiles it.
LEMMA PipelineStep ==
  ASSUME IInv, NEW t \in Threads, LookUp(t) \/ Compile(t)
  PROVE  DeviceInv'
<1>1. ControlInv /\ DeviceTypes /\ PlacesInv /\ SetsInv /\ FlightInv(t) /\ ContentsInv(t)
  BY DEF IInv
<1>2. /\ ControlInv' /\ OthersStay(t)
      /\ UNCHANGED <<pool, sets, flights, calls, job, leased, call>>
      /\ pc[t] \in {"pipeline", "compile"}
      /\ pc'[t] \in {"pipeline", "compile", "lease", "submit"}
      /\ HasSet(t)' = HasSet(t)
  BY <1>1, LookUpEffect, CompileEffect DEF device
<1>3. DeviceTypes' /\ SetsInv' /\ PlacesInv'
  BY <1>1, <1>2, SetsSame, PlacesSame DEF DeviceTypes
<1>4. FlightInv(t)'
  BY <1>1, <1>2 DEF FlightInv
<1>5. ContentsInv(t)'
  BY <1>1, <1>2, FlightsKept DEF ContentsInv, Filled, Clean, Answers, Plan
<1> QED
  BY <1>2, <1>3, <1>4, <1>5, AllHold DEF DeviceInv

\* A call begins, or its batch is refused.
LEMMA BeginStep ==
  ASSUME IInv, NEW t \in Threads, NEW j \in Jobs, Begin(t, j)
  PROVE  DeviceInv'
<1>1. ControlInv /\ DeviceTypes /\ PlacesInv /\ SetsInv
  BY DEF IInv
<1>2. /\ ControlInv' /\ OthersStay(t) /\ leased'[t] = None /\ ~HasSet(t)'
      /\ UNCHANGED <<pool, sets, flights>>
  BY <1>1, BeginEffect
<1>3. DeviceTypes'
  <2>1. calls' \in 0 .. MaxCalls
    <3>1. \/ calls' = calls
          \/ calls' = calls + 1 /\ calls' <= MaxCalls
      BY <1>1, BeginEffect
    <3> QED
      BY <1>1, <3>1, GpuBatchesAssumption DEF DeviceTypes
  <2> QED
    BY <1>1, <1>2, <2>1 DEF DeviceTypes
<1>4. SetsInv' /\ PlacesInv'
  BY <1>1, <1>2, SetsSame, PlacesBegin
<1>5. FlightInv(t)' /\ ContentsInv(t)'
  BY <1>2, <1>3, NothingHeld
<1> QED
  BY <1>2, <1>3, <1>4, <1>5, AllHold DEF DeviceInv

\* A call ends with an error: its set goes nowhere.
LEMMA EndsStep ==
  ASSUME IInv, NEW t \in Threads, ControlInv', OthersStay(t), Ended(t), UNCHANGED device
  PROVE  DeviceInv'
<1>1. ControlInv /\ DeviceTypes /\ PlacesInv /\ SetsInv
  BY DEF IInv
<1>2. UNCHANGED <<pool, sets, flights, calls>> /\ leased'[t] = None /\ ~HasSet(t)'
  BY DEF device, Ended, HasSet
<1>3. DeviceTypes' /\ SetsInv' /\ PlacesInv'
  BY <1>1, <1>2, SetsSame, PlacesEnds DEF DeviceTypes
<1>4. FlightInv(t)' /\ ContentsInv(t)'
  BY <1>2, <1>3, NothingHeld
<1> QED
  BY <1>2, <1>3, <1>4, AllHold DEF DeviceInv

\* A thread leases a set: nobody else holds it, and nothing of it is mapped.
LEMMA LeaseStep ==
  ASSUME IInv, NEW t \in Threads, Lease(t)
  PROVE  DeviceInv'
<1> DEFINE s == leased'[t]
<1>1. ControlInv /\ DeviceTypes /\ PlacesInv /\ SetsInv /\ ThreadTypes
  BY DEF IInv, ControlInv
<1>2. /\ ControlInv' /\ DeviceTypes' /\ OthersStay(t) /\ HasSet(t)'
      /\ UNCHANGED <<flights, job, call>>
      /\ pc[t] = "lease" /\ pc'[t] = "prepare" /\ leased[t] = None
      /\ call[t] \in SetIds /\ s \in SetIds
      /\ FromPool(t) \/ Made(t)
  BY <1>1, LeaseEffect
<1>3. PlacesInv'
  BY <1>1, PlacesLease
<1>4. SetsInv' /\ Clean(sets'[s]) /\ ~InFlight(s)
      /\ \A u \in Threads : u # t /\ HasSet(u) => sets'[leased[u]] = sets[leased[u]]
  <2>1. CASE FromPool(t)
    <3>1. PICK k \in Kinds :
            /\ Len(pool[k]) >= 1
            /\ s = pool[k][Len(pool[k])]
            /\ DOMAIN pool'[k] = 1 .. (Len(pool[k]) - 1)
            /\ \A i \in DOMAIN pool'[k] : pool'[k][i] = pool[k][i]
            /\ \A l \in Kinds : l # k => pool'[l] = pool[l]
            /\ sets' = sets
      BY <2>1 DEF FromPool
    <3> HIDE DEF s
    <3>2. Len(pool[k]) \in DOMAIN pool[k] /\ DOMAIN pool'[k] \subseteq DOMAIN pool[k]
      BY <1>1, <3>1, PlaceTypes
    <3>3. SetsInv'
      BY <1>1, <3>1, <3>2, SetsSame
    <3>4. Clean(sets[s]) /\ ~InFlight(s)
      BY <1>1, <3>1, <3>2 DEF SetsInv, PlacesInv, PooledFree
    <3> QED
      BY <3>1, <3>3, <3>4
  <2>2. CASE Made(t)
    <3>1. s = call[t] /\ pool' = pool /\ Changed(s, NewSet(job[t])) /\ s # None
      BY <1>1, <1>2, <2>2, PlaceTypes DEF Made
    <3> HIDE DEF s
    <3>2. ~Used(s)
      BY <1>2, <3>1 DEF PlacesInv, IInv, UnusedNew
    <3>3. /\ ~InFlight(s) /\ \A u \in Threads : leased[u] # s
          /\ \A k \in Kinds : \A i \in DOMAIN pool[k] : pool[k][i] # s
      BY <3>2 DEF Used
    <3>4. job[t] \in Jobs /\ job[t].valid
      BY <1>1, <1>2 DEF ControlInv, ThreadInv
    <3>5. (\A i \in DOMAIN NewSet(job[t]) : Sized(NewSet(job[t])[i])) /\ Clean(NewSet(job[t]))
      BY <1>1, <3>4, NewSetShape
    <3>6. SetsInv'
      BY <1>1, <1>2, <3>1, <3>3, <3>5, SetsChanged
    <3>7. Clean(sets'[s])
      BY <3>1, <3>5 DEF Changed
    <3>8. \A u \in Threads : u # t /\ HasSet(u) => sets'[leased[u]] = sets[leased[u]]
      BY <1>1, <1>2, <3>1, <3>3, HeldApart
    <3> QED
      BY <3>3, <3>6, <3>7, <3>8
  <2> QED
    BY <1>2, <2>1, <2>2
<1>5. FlightInv(t)'
  BY <1>2, <1>4 DEF FlightInv, InFlight
<1>6. ContentsInv(t)'
  BY <1>2, <1>4 DEF ContentsInv, Clean
<1> QED
  BY <1>2, <1>3, <1>4, <1>5, <1>6, AllHold DEF DeviceInv

\* A thread fills its set: the chunks fit its batch and hold its queries.
LEMMA UploadStep ==
  ASSUME IInv, NEW t \in Threads, Upload(t)
  PROVE  DeviceInv'
<1> DEFINE s == leased[t]
           new == Uploaded(Prepared(sets[s], job[t].chunks), t)
<1>1. /\ ControlInv /\ DeviceTypes /\ PlacesInv /\ SetsInv /\ ThreadTypes
      /\ FlightInv(t) /\ ContentsInv(t)
  BY DEF IInv, ControlInv
<1>2. /\ ControlInv' /\ DeviceTypes' /\ OthersStay(t) /\ HasSet(t) /\ HasSet(t)'
      /\ UNCHANGED <<pool, flights, calls, job, kernels, leased, call>>
      /\ pc[t] = "prepare" /\ pc'[t] \in {"submit", "pipeline"}
      /\ s \in SetIds /\ Changed(s, new)
  BY <1>1, UploadEffect
<1>3. /\ new \in Seq(Chunks) /\ (\A i \in DOMAIN new : Sized(new[i]))
      /\ Filled(new, t) /\ Clean(new)
  <2>1. /\ sets[s] \in Seq(Chunks) /\ (\A i \in DOMAIN sets[s] : Sized(sets[s][i]))
        /\ call[t] \in Nat /\ Clean(sets[s])
    BY <1>1, <1>2, HeldSet DEF DeviceTypes, SetsInv, ContentsInv
  <2> QED
    BY <1>1, <2>1, UploadedShape
<1> HIDE DEF new, s
<1>4. PlacesInv'
  BY <1>1, <1>2, PlacesSame
<1>5. \A k \in Kinds : \A i \in DOMAIN pool[k] : pool[k][i] # s
  BY <1>1 DEF PlacesInv, PooledFree, s
<1>6. SetsInv'
  BY <1>1, <1>2, <1>3, <1>5, SetsChanged
<1>7. \A u \in Threads : u # t /\ HasSet(u) => sets'[leased[u]] = sets[leased[u]]
  <2>1. \A u \in Threads : u # t => leased[u] # s
    BY <1>1, <1>2, PlaceTypes DEF PlacesInv, LeasesApart, s
  <2> QED
    BY <1>1, <1>2, <2>1, HeldApart
<1>8. FlightInv(t)'
  BY <1>1, <1>2 DEF FlightInv
<1>9. ContentsInv(t)'
  <2>1. sets'[leased'[t]] = new
    BY <1>2 DEF Changed, s
  <2>2. Filled(sets[leased[t]], t)' /\ Clean(sets[leased[t]])'
    BY <1>2, <1>3, <2>1 DEF Filled, Clean, Plan
  <2> QED
    BY <1>2, <2>2 DEF ContentsInv
<1> QED
  BY <1>2, <1>4, <1>6, <1>7, <1>8, <1>9, AllHold DEF DeviceInv

\* What is uploaded can be submitted: wgpu has nothing to refuse.
LEMMA SubmittableHeld ==
  ASSUME IInv, NEW t \in Threads, pc[t] = "submit"
  PROVE  Submittable(t)
<1>1. HasSet(t)
  BY DEF HasSet
<1>2. Filled(sets[leased[t]], t) /\ Clean(sets[leased[t]]) /\ leased[t] \in SetIds
  BY <1>1, HeldSet DEF IInv, ContentsInv
<1>3. sets[leased[t]] \in Seq(Chunks)
  BY <1>2 DEF IInv, DeviceTypes
<1>4. Plan(t) \subseteq DOMAIN sets[leased[t]]
  <2>1. Plan(t) = 1 .. Len(job[t].chunks) /\ Len(job[t].chunks) \in Nat
    BY JobShape DEF IInv, ControlInv
  <2>2. Len(sets[leased[t]]) \in Nat /\ DOMAIN sets[leased[t]] = 1 .. Len(sets[leased[t]])
    BY <1>3, SeqShape
  <2> QED
    BY <1>2, <2>1, <2>2 DEF Filled
<1> QED
  BY <1>2, <1>4 DEF Submittable, Filled, Clean

\* The chunks of the plan are chunks of a set that is filled for it.
LEMMA PlanHeld ==
  ASSUME ThreadTypes, NEW t \in Threads, NEW chunks \in Seq(Chunks), Filled(chunks, t)
  PROVE  Plan(t) \subseteq DOMAIN chunks
<1>1. Plan(t) = 1 .. Len(job[t].chunks) /\ Len(job[t].chunks) \in Nat
  BY JobShape
<1>2. Len(chunks) \in Nat /\ DOMAIN chunks = 1 .. Len(chunks)
  BY SeqShape
<1> QED
  BY <1>1, <1>2 DEF Filled

\* A thread submits its set: wgpu never refuses it, since a held set is clean and filled.
LEMMA SubmitStep ==
  ASSUME IInv, NEW t \in Threads, Submit(t)
  PROVE  DeviceInv' /\ UNCHANGED <<outcome, faulty>>
<1> DEFINE s == leased[t]
<1>1. /\ ControlInv /\ DeviceTypes /\ PlacesInv /\ SetsInv /\ ThreadTypes
      /\ FlightInv(t) /\ ContentsInv(t) /\ pc[t] = "submit"
  BY DEF IInv, ControlInv, Submit
<1>2. /\ ControlInv' /\ DeviceTypes' /\ OthersStay(t) /\ HasSet(t) /\ HasSet(t)'
      /\ UNCHANGED <<pool, sets, calls, job, kernels, leased, call, outcome, faulty>>
      /\ pc'[t] = "map" /\ s \in SetIds
      /\ flights' = Append(flights, [set |-> s, kernels |-> kernels[t]])
  BY <1>1, SubmittableHeld, SubmitEffect
<1>3. PlacesInv' /\ SetsInv'
  BY <1>1, <1>2, PlacesSubmit, SetsSame
<1>4. \A u \in Threads : u # t => leased[u] # s
  BY <1>1, <1>2, PlaceTypes DEF PlacesInv, LeasesApart
<1>5. ~InFlight(s)
  BY <1>1 DEF FlightInv, InFlight
<1> HIDE DEF s
<1>6. FlightInv(t)'
  <2>1. ASSUME NEW i \in DOMAIN flights', flights'[i].set = s
        PROVE  flights'[i].kernels = kernels[t]
    <3>1. \A j \in DOMAIN flights : flights[j].set # s
      BY <1>5 DEF InFlight
    <3> QED
      BY <1>1, <1>2, <2>1, <3>1, FlightAdded DEF s
  <2> QED
    BY <1>2, <2>1 DEF FlightInv, s
<1>7. ContentsInv(t)'
  <2>1. Filled(sets[leased[t]], t)'
    BY <1>1, <1>2 DEF ContentsInv, Filled, Plan, s
  <2>2. InFlight(leased[t])'
    BY <1>1, <1>2, FlightAdded DEF s
  <2> QED
    BY <1>2, <2>1, <2>2 DEF ContentsInv
<1>8. ASSUME NEW u \in Threads, u # t
      PROVE  FlightInv(u)' /\ ContentsInv(u)'
  <2>1. /\ pc'[u] = pc[u] /\ job'[u] = job[u] /\ kernels'[u] = kernels[u]
        /\ leased'[u] = leased[u] /\ call'[u] = call[u] /\ leased[u] # s
    BY <1>2, <1>4, <1>8 DEF OthersStay
  <2>2. FlightInv(u) /\ ContentsInv(u)
    BY DEF IInv
  <2>3. FlightInv(u)'
    <3>1. ASSUME NEW i \in DOMAIN flights', flights'[i].set = leased[u]
          PROVE  pc[u] \in {"map", "poll"} /\ flights'[i].kernels = kernels[u]
      BY <1>1, <1>2, <2>1, <2>2, <3>1, FlightAdded DEF FlightInv, s
    <3> QED
      BY <2>1, <3>1 DEF FlightInv
  <2>4. InFlight(leased[u])' <=> InFlight(leased[u])
    BY <1>1, <1>2, <2>1, FlightAdded DEF s
  <2>5. HasSet(u)' <=> HasSet(u)
    BY <2>1 DEF HasSet
  <2>6. ContentsInv(u)'
    BY <1>2, <2>1, <2>2, <2>4, <2>5 DEF ContentsInv, Filled, Clean, Answers, Plan
  <2> QED
    BY <2>3, <2>6
<1> QED
  BY <1>2, <1>3, <1>6, <1>7, <1>8 DEF DeviceInv

\* A thread requests a mapping: what its set holds is still there.
LEMMA RequestMapStep ==
  ASSUME IInv, NEW t \in Threads, RequestMap(t)
  PROVE  DeviceInv'
<1> DEFINE s == leased[t]
           chunks == sets[s]
           n == Len(mapping[t]) + 1
           new == Mapped(chunks, n)
<1>1. /\ ControlInv /\ DeviceTypes /\ PlacesInv /\ SetsInv /\ ThreadTypes
      /\ FlightInv(t) /\ ContentsInv(t)
  BY DEF IInv, ControlInv
<1>2. /\ ControlInv' /\ DeviceTypes' /\ OthersStay(t) /\ HasSet(t) /\ HasSet(t)'
      /\ UNCHANGED <<pool, flights, calls, job, kernels, leased, call>>
      /\ pc[t] = "map" /\ pc'[t] \in {"map", "poll"}
      /\ s \in SetIds /\ Changed(s, new)
  BY <1>1, RequestMapEffect
<1>3. /\ chunks \in Seq(Chunks) /\ (\A i \in DOMAIN chunks : Sized(chunks[i]))
      /\ Filled(chunks, t) /\ (InFlight(s) \/ Answers(chunks, t))
  BY <1>1, <1>2 DEF DeviceTypes, SetsInv, ContentsInv
<1>4. Plan(t) \subseteq DOMAIN chunks
  <2> HIDE DEF chunks
  <2> QED
    BY <1>1, <1>3, PlanHeld
<1>5. /\ new = [i \in DOMAIN chunks |-> new[i]]
      /\ \A i \in DOMAIN chunks : Alike(chunks[i], new[i]) /\ new[i].answers = chunks[i].answers
  <2> HIDE DEF chunks, n
  <2> QED
    BY <1>3, MappedShape
<1>6. PlacesInv'
  BY <1>1, <1>2, PlacesSame
<1>7. \A k \in Kinds : \A i \in DOMAIN pool[k] : pool[k][i] # s
  BY <1>1 DEF PlacesInv, PooledFree
<1>8. \A u \in Threads : u # t => leased[u] # s
  BY <1>1, <1>2, PlaceTypes DEF PlacesInv, LeasesApart
<1> HIDE DEF new, chunks, n
<1>9. /\ (\A i \in DOMAIN new : Sized(new[i])) /\ Filled(new, t)
  BY <1>3, <1>4, <1>5, AlikeShape
<1>10. Answers(chunks, t) => Answers(new, t)
  BY <1>4, <1>5 DEF Answers
<1>11. SetsInv'
  <2> HIDE DEF s
  <2> QED
    BY <1>1, <1>2, <1>7, <1>9, SetsChanged
<1>12. \A u \in Threads : u # t /\ HasSet(u) => sets'[leased[u]] = sets[leased[u]]
  <2> HIDE DEF s
  <2> QED
    BY <1>1, <1>2, <1>8, HeldApart
<1>13. FlightInv(t)'
  BY <1>1, <1>2 DEF FlightInv
<1>14. ContentsInv(t)'
  <2>1. sets'[leased'[t]] = new
    BY <1>2 DEF Changed
  <2>2. Filled(sets[leased[t]], t)'
    BY <1>2, <1>9, <2>1 DEF Filled, Plan
  <2>3. InFlight(leased[t])' \/ Answers(sets[leased[t]], t)'
    BY <1>2, <1>3, <1>10, <2>1, FlightsKept DEF Answers, Plan
  <2> QED
    BY <1>2, <2>2, <2>3 DEF ContentsInv
<1> QED
  BY <1>2, <1>6, <1>11, <1>12, <1>13, <1>14, AllHold DEF DeviceInv

\* A thread has polled: its submission is done, so its answers are in its set.
LEMMA PollStep ==
  ASSUME IInv, NEW t \in Threads, Poll(t)
  PROVE  DeviceInv'
<1>1. ControlInv /\ DeviceTypes /\ PlacesInv /\ SetsInv /\ FlightInv(t) /\ ContentsInv(t)
  BY DEF IInv
<1>2. /\ ControlInv' /\ OthersStay(t) /\ HasSet(t) /\ HasSet(t)'
      /\ UNCHANGED <<pool, sets, flights, calls, job, kernels, leased, call>>
      /\ pc[t] = "poll" /\ pc'[t] = "callbacks" /\ ~InFlight(leased[t])
  BY <1>1, PollEffect DEF device
<1>3. DeviceTypes' /\ SetsInv' /\ PlacesInv'
  BY <1>1, <1>2, SetsSame, PlacesSame DEF DeviceTypes
<1>4. FlightInv(t)'
  BY <1>2 DEF FlightInv, InFlight
<1>5. ContentsInv(t)'
  BY <1>1, <1>2 DEF ContentsInv, Filled, Answers, Plan
<1> QED
  BY <1>2, <1>3, <1>4, <1>5, AllHold DEF DeviceInv

\* A thread runs a callback, its own or another thread's.
LEMMA CallbackStep ==
  ASSUME IInv, NEW t \in Threads, NEW c, NEW i, RunCallback(t, c, i)
  PROVE  DeviceInv'
<1>1. ControlInv /\ DeviceTypes /\ PlacesInv /\ SetsInv /\ FlightInv(t) /\ ContentsInv(t)
  BY DEF IInv
<1>2. /\ ControlInv' /\ OthersStay(t)
      /\ UNCHANGED <<pool, sets, flights, calls, pc, job, kernels, leased, call>>
  BY <1>1, CallbackEffect DEF device
<1>3. DeviceTypes' /\ SetsInv' /\ PlacesInv'
  BY <1>1, <1>2, SetsSame, PlacesSame DEF DeviceTypes
<1>4. FlightInv(t)'
  BY <1>1, <1>2 DEF FlightInv
<1>5. ContentsInv(t)'
  BY <1>1, <1>2, FlightsKept DEF ContentsInv, HasSet, Filled, Clean, Answers, Plan
<1> QED
  BY <1>2, <1>3, <1>4, <1>5, AllHold DEF DeviceInv

\* A call that returns has read its own answers.
LEMMA ReturnStep ==
  ASSUME IInv, NEW t \in Threads, Return(t), ~Fault(t)
  PROVE  DeviceInv' /\ ReadAnswers(t) = "good"
<1> DEFINE s == leased[t]
           new == Unmapped(sets[s])
<1>1. /\ ControlInv /\ DeviceTypes /\ PlacesInv /\ SetsInv /\ ThreadTypes
      /\ FlightInv(t) /\ ContentsInv(t)
  BY DEF IInv, ControlInv
<1>2. /\ ControlInv' /\ DeviceTypes' /\ OthersStay(t) /\ Ended(t)
      /\ UNCHANGED <<flights, calls>>
      /\ pc[t] = "callbacks" /\ HasSet(t) /\ s \in SetIds
      /\ GivenBack(t) /\ Changed(s, new)
  BY <1>1, ReturnEffect
<1>3. sets[s] \in Seq(Chunks) /\ \A i \in DOMAIN sets[s] : Sized(sets[s][i])
  BY <1>1, <1>2 DEF DeviceTypes, SetsInv
<1>4. (\A i \in DOMAIN new : Sized(new[i])) /\ Clean(new)
  <2> DEFINE chunks == sets[s]
  <2>1. /\ new = [i \in DOMAIN chunks |-> new[i]] /\ Clean(new)
        /\ \A i \in DOMAIN chunks : Alike(chunks[i], new[i])
    BY <1>3, UnmappedShape
  <2>2. chunks \in Seq(Chunks) /\ \A i \in DOMAIN chunks : Sized(chunks[i])
    BY <1>3
  <2> HIDE DEF chunks, new
  <2> QED
    BY <2>1, <2>2, AlikeShape
<1>5. ~InFlight(s) /\ Answers(sets[s], t)
  BY <1>1, <1>2 DEF FlightInv, InFlight, ContentsInv
<1>6. ReadAnswers(t) = "good"
  BY <1>5 DEF ReadAnswers, Answers, Plan
<1>7. PlacesInv' /\ \A k \in Kinds : \A i \in DOMAIN pool'[k] :
                      \/ i \in DOMAIN pool[k] /\ pool'[k][i] = pool[k][i]
                      \/ pool'[k][i] = s
  BY <1>1, <1>2, PlacesReturn
<1>8. (\A k \in Kinds : \A i \in DOMAIN pool[k] : pool[k][i] # s)
      /\ \A u \in Threads : u # t => leased[u] # s
  BY <1>1, <1>2, PlaceTypes DEF PlacesInv, PooledFree, LeasesApart
<1>9. leased'[t] = None /\ ~HasSet(t)'
  BY <1>2 DEF Ended, HasSet
<1> HIDE DEF new, s
<1>10. SetsInv'
  BY <1>1, <1>2, <1>4, <1>7, <1>8, SetsChanged
<1>11. \A u \in Threads : u # t /\ HasSet(u) => sets'[leased[u]] = sets[leased[u]]
  BY <1>1, <1>2, <1>8, HeldApart
<1>12. FlightInv(t)' /\ ContentsInv(t)'
  BY <1>2, <1>9, NothingHeld
<1> QED
  BY <1>2, <1>6, <1>7, <1>10, <1>11, <1>12, AllHold DEF DeviceInv

\* The device finishes a submission: the call that waits for it finds the answers
\* of its own queries, by its own kernels.
LEMMA DeviceStep ==
  ASSUME IInv, DeviceFinishes
  PROVE  DeviceInv'
<1> DEFINE first == flights[1]
           s == first.set
           new == Answered(sets[s], first)
<1>1. /\ ControlInv /\ DeviceTypes /\ PlacesInv /\ SetsInv /\ ThreadTypes
      /\ \A u \in Threads : FlightInv(u) /\ ContentsInv(u)
  BY DEF IInv, ControlInv
<1>2. /\ ControlInv' /\ DeviceTypes'
      /\ UNCHANGED <<pool, calls, pc, job, kernels, leased, call>>
      /\ Len(flights) \in Nat /\ Len(flights) >= 1
      /\ s \in SetIds /\ first.kernels \in Seq(Segments)
      /\ DOMAIN flights = 1 .. Len(flights)
      /\ DOMAIN flights' = 1 .. (Len(flights) - 1)
      /\ \A i \in DOMAIN flights' : flights'[i] = flights[i + 1]
      /\ Changed(s, new)
  BY <1>1, DeviceEffect
<1>3. sets[s] \in Seq(Chunks) /\ \A i \in DOMAIN sets[s] : Sized(sets[s][i])
  BY <1>1, <1>2 DEF DeviceTypes, SetsInv
<1>4. /\ new = [i \in DOMAIN sets[s] |-> new[i]]
      /\ \A i \in DOMAIN sets[s] : Alike(sets[s][i], new[i])
      /\ \A i \in DOMAIN sets[s] : Computed(sets[s][i], new[i], first.kernels, i)
  <2> DEFINE chunks == sets[s]
  <2>1. chunks \in Seq(Chunks) /\ new = Answered(chunks, first) /\ first.kernels \in Seq(Segments)
    BY <1>2, <1>3
  <2> HIDE DEF chunks, first, s, new
  <2>2. /\ new = [i \in DOMAIN chunks |-> new[i]]
        /\ \A i \in DOMAIN chunks : Alike(chunks[i], new[i])
        /\ \A i \in DOMAIN chunks : Computed(chunks[i], new[i], first.kernels, i)
    BY <2>1, AnsweredShape
  <2> QED
    BY <2>2 DEF chunks
<1>5. 1 \in DOMAIN flights /\ InFlight(s)
  BY <1>2 DEF InFlight
<1>6. PlacesInv' /\ \A r : InFlight(r)' <=> InFlight(r) /\ r # s
  BY <1>1, PlacesDevice
<1> HIDE DEF new
<1>7. /\ (\A i \in DOMAIN new : Sized(new[i]))
      /\ \A u : Filled(sets[s], u) /\ Plan(u) \subseteq DOMAIN sets[s] => Filled(new, u)
  <2> DEFINE chunks == sets[s]
  <2>1. /\ chunks \in Seq(Chunks) /\ (\A i \in DOMAIN chunks : Sized(chunks[i]))
        /\ new = [i \in DOMAIN chunks |-> new[i]]
        /\ \A i \in DOMAIN chunks : Alike(chunks[i], new[i])
    BY <1>3, <1>4
  <2> HIDE DEF chunks
  <2>2. /\ (\A i \in DOMAIN new : Sized(new[i]))
        /\ \A u : Filled(chunks, u) /\ Plan(u) \subseteq DOMAIN chunks => Filled(new, u)
    BY <2>1, AlikeShape
  <2> QED
    BY <2>2 DEF chunks
<1>8. SetsInv'
  <2>1. \A k \in Kinds : \A i \in DOMAIN pool[k] : pool[k][i] # s
    BY <1>1, <1>5 DEF PlacesInv, PooledFree
  <2> HIDE DEF s
  <2> QED
    BY <1>1, <1>2, <1>7, <2>1, SetsChanged
<1>9. ASSUME NEW u \in Threads
      PROVE  FlightInv(u)' /\ ContentsInv(u)'
  <2>1. FlightInv(u) /\ ContentsInv(u) /\ (HasSet(u)' <=> HasSet(u))
    BY <1>1, <1>2 DEF HasSet
  <2>2. FlightInv(u)'
    <3>1. ASSUME NEW i \in DOMAIN flights', flights'[i].set = leased[u]
          PROVE  pc[u] \in {"map", "poll"} /\ flights'[i].kernels = kernels[u]
      <4>1. i + 1 \in DOMAIN flights /\ flights'[i] = flights[i + 1]
        BY <1>2
      <4> QED
        BY <2>1, <3>1, <4>1 DEF FlightInv
    <3> QED
      BY <1>2, <3>1 DEF FlightInv
  <2>3. CASE leased[u] # s
    <3>1. HasSet(u) => sets'[leased[u]] = sets[leased[u]]
      <4> HIDE DEF s
      <4> QED
        BY <1>1, <1>2, <2>3, HeldApart
    <3>2. InFlight(leased[u])' <=> InFlight(leased[u])
      <4> HIDE DEF s
      <4>1. InFlight(leased[u])' <=> \E i \in DOMAIN flights' : flights'[i].set = leased[u]
        BY <1>2 DEF InFlight
      <4>2. (\E i \in DOMAIN flights' : flights'[i].set = leased[u])
              <=> InFlight(leased[u]) /\ leased[u] # s
        BY <1>6 DEF InFlight
      <4> QED
        BY <2>3, <4>1, <4>2
    <3>3. ContentsInv(u)'
      BY <1>2, <2>1, <3>1, <3>2 DEF ContentsInv, Filled, Clean, Answers, Plan
    <3> QED
      BY <2>2, <3>3
  <2>4. CASE leased[u] = s
    <3>1. pc[u] \in {"map", "poll"} /\ first.kernels = kernels[u] /\ HasSet(u)
      BY <1>5, <2>1, <2>4 DEF FlightInv, HasSet
    <3>2. Filled(sets[s], u)
      BY <2>1, <2>4, <3>1 DEF ContentsInv
    <3>3. \A i \in Plan(u) : /\ Dispatches(first.kernels, i) = Dispatches(job[u].segments, i)
                             /\ Dispatches(first.kernels, i) # {}
      <4> DEFINE segments == job[u].segments
      <4>1. /\ ThreadInv(u) /\ kernels[u] \in Seq(Segments) /\ pc[u] # "idle"
            /\ job[u] \in Jobs /\ job[u].valid
        BY <1>1, <3>1 DEF ControlInv, ThreadTypes, ThreadInv
      <4>2. /\ DOMAIN segments = 1 .. Len(segments)
            /\ \A i \in Plan(u) : \E k \in DOMAIN segments : segments[k].chunk = i
        BY <1>1, <4>1, JobShape
      <4>3. DOMAIN kernels[u] = DOMAIN segments /\ \A k \in DOMAIN segments : kernels[u][k] = segments[k]
        BY <3>1, <4>1, <4>2, SeqShape DEF ThreadInv, KernelsHad
      <4>4. \A i : Dispatches(kernels[u], i) = Dispatches(segments, i)
        BY <4>3 DEF Dispatches
      <4>5. \A i \in Plan(u) : Dispatches(segments, i) # {}
        BY <4>2 DEF Dispatches
      <4> QED
        BY <3>1, <4>4, <4>5
    <3>4. Plan(u) \subseteq DOMAIN sets[s]
      <4> HIDE DEF s
      <4> QED
        BY <1>1, <1>3, <3>2, PlanHeld
    <3>5. Filled(new, u)
      BY <1>7, <3>2, <3>4
    <3>6. \A i \in Plan(u) :
            new[i].answers = [call |-> call[u], kernels |-> Dispatches(job[u].segments, i)]
      BY <1>4, <3>2, <3>3, <3>4 DEF Filled, Computed
    <3>7. sets'[leased'[u]] = new /\ job' = job /\ call' = call /\ pc'[u] \in {"map", "poll"}
      BY <1>2, <2>4, <3>1 DEF Changed
    <3>8. Filled(sets[leased[u]], u)' /\ Answers(sets[leased[u]], u)'
      BY <3>5, <3>6, <3>7 DEF Filled, Answers, Plan
    <3>9. ContentsInv(u)'
      BY <3>7, <3>8 DEF ContentsInv
    <3> QED
      BY <2>2, <3>9
  <2> QED
    BY <2>3, <2>4
<1> QED
  BY <1>2, <1>6, <1>8, <1>9 DEF DeviceInv

-----------------------------------------------------------------------------
(* What the calls answer.                                                   *)

\* The step leaves the answers of the other threads alone, and gives this thread
\* its own answers, or an error its batch or the device has deserved.
AnswersWell(t) ==
  /\ \A u \in Threads : u # t => outcome'[u] = outcome[u] /\ faulty'[u] = faulty[u]
  /\ outcome'[t] \notin {"wrong", "panic"}
  /\ outcome'[t] = "error" => faulty'[t]

\* A step that changes the answers of one thread so keeps the promises to all.
LEMMA OutcomesKeep ==
  ASSUME IInv, NEW t \in Threads, DeviceInv', AnswersWell(t)
  PROVE  IInv'
<1>1. \A u \in Threads : outcome[u] \notin {"wrong", "panic"} /\ (outcome[u] = "error" => faulty[u])
  BY DEF IInv, OwnAnswers, FailsOnlyOnFault
<1>2. OwnAnswers' /\ FailsOnlyOnFault'
  BY <1>1 DEF AnswersWell, OwnAnswers, FailsOnlyOnFault
<1> QED
  BY <1>2 DEF IInv, DeviceInv

\* A step that leaves all answers alone keeps the promises.
LEMMA OutcomesSame ==
  ASSUME IInv, DeviceInv', UNCHANGED <<outcome, faulty>>
  PROVE  IInv'
<1>1. OwnAnswers' /\ FailsOnlyOnFault'
  BY DEF IInv, OwnAnswers, FailsOnlyOnFault
<1> QED
  BY <1>1 DEF IInv, DeviceInv

\* A fault ends the call of its own thread, with an error.
LEMMA FaultStep ==
  ASSUME IInv, NEW t \in Threads, Fault(t) \/ MappingFails(t)
  PROVE  IInv'
<1>1. ControlInv /\ DeviceTypes
  BY DEF IInv
<1>2. /\ ControlInv' /\ OthersStay(t) /\ Ended(t) /\ UNCHANGED device
      /\ outcome'[t] = "error" /\ faulty'[t]
      /\ \A u \in Threads : u # t => outcome'[u] = outcome[u] /\ faulty'[u] = faulty[u]
  BY <1>1, FaultEffect, MappingFailsEffect
<1>3. DeviceInv'
  BY <1>2, EndsStep
<1>4. AnswersWell(t)
  BY <1>2 DEF AnswersWell
<1> QED
  BY <1>3, <1>4, OutcomesKeep

\* Beginning a call forgets the outcome of the last; an invalid batch fails at once.
LEMMA BeginKeeps ==
  ASSUME IInv, NEW t \in Threads, NEW j \in Jobs, Begin(t, j)
  PROVE  IInv'
<1>1. outcome \in [Threads -> {"good", "error", "wrong", "panic"}] /\ faulty \in [Threads -> BOOLEAN]
  BY DEF IInv, ControlInv, ThreadTypes
<1>2. /\ outcome' = [outcome EXCEPT ![t] = IF j.valid THEN "good" ELSE "error"]
      /\ faulty' = [faulty EXCEPT ![t] = ~j.valid]
  BY DEF Begin
<1>3. /\ outcome'[t] = (IF j.valid THEN "good" ELSE "error") /\ faulty'[t] = ~j.valid
      /\ \A u \in Threads : u # t => outcome'[u] = outcome[u] /\ faulty'[u] = faulty[u]
  BY <1>1, <1>2
<1>4. AnswersWell(t)
  BY <1>3 DEF AnswersWell
<1> QED
  BY <1>4, BeginStep, OutcomesKeep

\* A call that returns answers the queries it was given.
LEMMA ReturnKeeps ==
  ASSUME IInv, NEW t \in Threads, Return(t), ~Fault(t)
  PROVE  IInv'
<1>1. ControlInv /\ DeviceTypes /\ SetsInv
  BY DEF IInv
<1>2. /\ outcome'[t] = ReadAnswers(t) /\ faulty' = faulty
      /\ \A u \in Threads : u # t => outcome'[u] = outcome[u]
  BY <1>1, ReturnEffect
<1>3. DeviceInv' /\ ReadAnswers(t) = "good"
  BY ReturnStep
<1>4. AnswersWell(t)
  BY <1>2, <1>3 DEF AnswersWell
<1> QED
  BY <1>3, <1>4, OutcomesKeep

\* Every step of a thread inside a call keeps the invariant.
LEMMA StepKeeps ==
  ASSUME IInv, NEW t \in Threads, Step(t)
  PROVE  IInv'
<1>1. CASE LookUp(t) \/ Compile(t)
  <2>1. UNCHANGED <<outcome, faulty>>
    BY <1>1 DEF LookUp, Compile
  <2> QED
    BY <1>1, <2>1, PipelineStep, OutcomesSame
<1>2. CASE Lease(t)
  <2>1. UNCHANGED <<outcome, faulty>>
    BY <1>2 DEF Lease
  <2> QED
    BY <1>2, <2>1, LeaseStep, OutcomesSame
<1>3. CASE Upload(t)
  <2>1. UNCHANGED <<outcome, faulty>>
    BY <1>3 DEF Upload
  <2> QED
    BY <1>3, <2>1, UploadStep, OutcomesSame
<1>4. CASE Submit(t)
  <2>1. DeviceInv' /\ UNCHANGED <<outcome, faulty>>
    BY <1>4, SubmitStep
  <2> QED
    BY <2>1, OutcomesSame
<1>5. CASE Refused(t) \/ PollFails(t)
  <2>1. Fault(t)
    BY <1>5 DEF Refused, PollFails
  <2> QED
    BY <2>1, FaultStep
<1>6. CASE Poll(t)
  <2>1. UNCHANGED <<outcome, faulty>>
    BY <1>6 DEF Poll
  <2> QED
    BY <1>6, <2>1, PollStep, OutcomesSame
<1>7. CASE \E p \in callbacks[t] : RunCallback(t, p[1], p[2])
  <2>1. PICK p \in callbacks[t] : RunCallback(t, p[1], p[2])
    BY <1>7
  <2>2. UNCHANGED <<outcome, faulty>>
    BY <2>1 DEF RunCallback
  <2> QED
    BY <2>1, <2>2, CallbackStep, OutcomesSame
<1>8. CASE Return(t)
  <2>1. CASE Fault(t)
    BY <2>1, FaultStep
  <2>2. CASE ~Fault(t)
    BY <1>8, <2>2, ReturnKeeps
  <2> QED
    BY <2>1, <2>2
<1>9. CASE MappingFails(t)
  BY <1>9, FaultStep
<1>10. CASE RequestMap(t)
  <2>1. UNCHANGED <<outcome, faulty>>
    BY <1>10 DEF RequestMap
  <2> QED
    BY <1>10, <2>1, RequestMapStep, OutcomesSame
<1> QED
  BY <1>1, <1>2, <1>3, <1>4, <1>5, <1>6, <1>7, <1>8, <1>9, <1>10 DEF Step

\* The answerer starts without sets, submissions or calls.
LEMMA InitHolds == Init => IInv
<1> SUFFICES ASSUME Init PROVE IInv
  OBVIOUS
<1>1. ThreadTypes
  <2>1. <<>> \in Seq(Segments) /\ <<>> \in Seq(Statuses)
    OBVIOUS
  <2> QED
    BY <2>1 DEF Init, ThreadTypes, Places, None
<1>2. CacheInv
  BY DEF Init, CacheInv
<1>3. \A t \in Threads : ThreadInv(t)
  BY DEF Init, ThreadInv, HasSet, KernelsHad
<1>4. DeviceTypes
  BY GpuBatchesAssumption DEF Init, DeviceTypes
<1>5. \A s : ~InFlight(s)
  BY DEF Init, InFlight
<1>6. \A s \in SetIds : ~Used(s)
  BY <1>5 DEF Init, Used, None, SetIds
<1>7. PlacesInv
  BY <1>5, <1>6
     DEF Init, PlacesInv, CallsApart, LeasesApart, PoolsApart, PooledFree, FlightsApart,
         UsedOld, UnusedNew
<1>8. SetsInv
  BY DEF Init, SetsInv
<1>9. \A t \in Threads : FlightInv(t) /\ ContentsInv(t)
  BY DEF Init, FlightInv, ContentsInv, HasSet
<1>10. FailsOnlyOnFault /\ OwnAnswers
  BY DEF Init, FailsOnlyOnFault, OwnAnswers
<1> QED
  BY <1>1, <1>2, <1>3, <1>4, <1>7, <1>8, <1>9, <1>10 DEF IInv, ControlInv

\* Every step of the answerer and of its device keeps the invariant.
LEMMA NextKeeps == IInv /\ [Next]_vars => IInv'
<1> SUFFICES ASSUME IInv, [Next]_vars PROVE IInv'
  OBVIOUS
<1>1. CASE UNCHANGED vars
  <2>1. ControlInv' /\ DeviceTypes'
    BY <1>1
       DEF vars, IInv, ControlInv, ThreadTypes, CacheInv, ThreadInv, HasSet, KernelsHad,
           DeviceTypes
  <2>2. PlacesInv'
    <3>1. \A s : InFlight(s)' <=> InFlight(s)
      BY <1>1 DEF vars, InFlight
    <3>2. \A s : Used(s)' <=> Used(s)
      BY <1>1, <3>1 DEF vars, Used
    <3> QED
      BY <1>1, <3>1, <3>2
         DEF vars, IInv, PlacesInv, CallsApart, LeasesApart, PoolsApart, PooledFree,
             FlightsApart, UsedOld, UnusedNew
  <2>3. SetsInv'
    BY <1>1 DEF vars, IInv, SetsInv
  <2>4. ASSUME NEW t \in Threads
        PROVE  FlightInv(t)' /\ ContentsInv(t)'
    <3>1. FlightInv(t) /\ ContentsInv(t)
      BY DEF IInv
    <3>2. FlightInv(t)'
      BY <1>1, <3>1 DEF vars, FlightInv
    <3>3. InFlight(leased[t])' <=> InFlight(leased[t])
      BY <1>1 DEF vars, InFlight
    <3>4. HasSet(t)' <=> HasSet(t)
      BY <1>1 DEF vars, HasSet
    <3>5. ContentsInv(t)'
      BY <1>1, <3>1, <3>3, <3>4 DEF vars, ContentsInv, Filled, Answers, Clean, Plan
    <3> QED
      BY <3>2, <3>5
  <2> QED
    BY <1>1, <2>1, <2>2, <2>3, <2>4, OutcomesSame DEF vars, DeviceInv
<1>2. CASE \E t \in Threads : Step(t)
  BY <1>2, StepKeeps
<1>3. CASE \E t \in Threads : \E j \in Jobs : Begin(t, j)
  BY <1>3, BeginKeeps
<1>4. CASE DeviceFinishes
  <2>1. UNCHANGED <<outcome, faulty>>
    BY <1>4 DEF DeviceFinishes
  <2> QED
    BY <1>4, <2>1, DeviceStep, OutcomesSame
<1> QED
  BY <1>1, <1>2, <1>3, <1>4 DEF Next

-----------------------------------------------------------------------------
\* The invariant of the answerer, its pools, its kernel cache and its device, for
\* any number of threads, batches, chunks and kernels.
THEOREM BatchesInvariance == Spec => []IInv
<1> QED
  BY InitHolds, NextKeeps, PTL DEF Spec

\* A pool that names no set twice has as many sets as places.
LEMMA PoolCounts ==
  ASSUME DeviceTypes, PoolsApart, NEW k \in Kinds
  PROVE  Cardinality({ pool[k][i] : i \in DOMAIN pool[k] }) = Len(pool[k])
<1> DEFINE f == [i \in 1 .. Len(pool[k]) |-> pool[k][i]]
           S == { pool[k][i] : i \in DOMAIN pool[k] }
<1>1. Len(pool[k]) \in Nat /\ DOMAIN pool[k] = 1 .. Len(pool[k])
  <2>1. pool[k] \in Seq(SetIds)
    BY DEF DeviceTypes
  <2> QED
    BY <2>1, SeqShape
<1>2. \A i, j \in 1 .. Len(pool[k]) : pool[k][i] = pool[k][j] => i = j
  BY <1>1 DEF PoolsApart
<1>3. f \in Bijection(1 .. Len(pool[k]), S)
  <2>1. f \in [1 .. Len(pool[k]) -> S]
    BY <1>1
  <2>2. f \in Injection(1 .. Len(pool[k]), S)
    BY <1>2, <2>1, Fun_IsInj
  <2>3. f \in Surjection(1 .. Len(pool[k]), S)
    BY <1>1, <2>1 DEF Surjection
  <2> QED
    BY <2>2, <2>3 DEF Bijection
<1>4. ExistsBijection(1 .. Len(pool[k]), S)
  BY <1>3 DEF ExistsBijection
<1> HIDE DEF S, f
<1>5. IsFiniteSet(1 .. Len(pool[k])) /\ Cardinality(1 .. Len(pool[k])) = Len(pool[k])
  BY <1>1, FS_Interval
<1>6. Cardinality(S) = Len(pool[k])
  BY <1>4, <1>5, FS_Bijection
<1> QED
  BY <1>6 DEF S

\* Calls are isolated (execute_validated_batch_into, begin_packed_into and
\* finish_packed_into_at): whatever the other threads do with the pools, the cache
\* and the device, every call reads the answers of its own queries by its own
\* kernels, none submits buffers wgpu refuses, and the sets in the pools are held
\* by nobody, in one place only, written by no submission, unmapped, and as large
\* as they say.
THEOREM CallsIsolatedCorrect == Spec => []CallsIsolated
<1>1. IInv => CallsIsolated
  <2> SUFFICES ASSUME IInv PROVE CallsIsolated
    OBVIOUS
  <2>1. /\ DeviceTypes /\ PoolsApart /\ PooledFree /\ SetsInv /\ OwnAnswers
        /\ pool \in [Kinds -> Seq(SetIds)]
    BY DEF IInv, PlacesInv, DeviceTypes
  <2>2. \A k \in Kinds : Cardinality({ pool[k][i] : i \in DOMAIN pool[k] }) = Len(pool[k])
    BY <2>1, PoolCounts
  <2>3. ASSUME NEW s \in Pooled
        PROVE  /\ ~InFlight(s) /\ s \notin Held
               /\ \A i \in DOMAIN sets[s] : Sized(sets[s][i]) /\ ~sets[s][i].mapped
    <3>1. PICK k \in Kinds : \E i \in DOMAIN pool[k] : pool[k][i] = s
      BY <2>3 DEF Pooled
    <3>2. PICK i \in DOMAIN pool[k] : pool[k][i] = s
      BY <3>1
    <3>3. s \in SetIds
      <4>1. pool[k] \in Seq(SetIds)
        BY <2>1
      <4> QED
        BY <3>2, <4>1, SeqShape
    <3>4. Clean(sets[s])
      BY <2>1, <3>2 DEF SetsInv
    <3> QED
      BY <2>1, <3>2, <3>3, <3>4 DEF PooledFree, Held, SetsInv, Clean
  <2>4. PoolClean
    BY <2>2, <2>3 DEF PoolClean, Sized
  <2> QED
    BY <2>1, <2>4 DEF CallsIsolated
<1> QED
  BY <1>1, BatchesInvariance, PTL

\* A call fails only for its own batch, or for an allocation, a poll, a mapping or a
\* read of its own: never for what another thread did, though another thread's poll
\* may run its callback.
THEOREM FailsOnlyOnFaultCorrect == Spec => []FailsOnlyOnFault
<1>1. IInv => FailsOnlyOnFault
  BY DEF IInv
<1> QED
  BY <1>1, BatchesInvariance, PTL

=============================================================================
