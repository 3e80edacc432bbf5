----------------------------- MODULE GpuBatches -----------------------------
(***************************************************************************)
(* Answer batches of several threads on one GpuAnswerer: the single batch  *)
(* of emvp/src/gpu/mod.rs (execute_validated_batch_into) and the packed    *)
(* flight of emvp/src/gpu/packed.rs (begin_packed_into and                 *)
(* finish_packed_into_at), with the two pools of buffer sets, the cache of *)
(* compiled kernels, and what wgpu does with a submission.                 *)
(*                                                                         *)
(* A set of buffers has an identity; a pool is a stack of sets.  A set is  *)
(* a sequence of chunks (one in the single batch) of query, output and     *)
(* staging buffers with the capacities the set remembers.  The contents of *)
(* a buffer are abstracted to the call they were computed for: a call is a *)
(* number, given when it begins.                                           *)
(*                                                                         *)
(* wgpu: submissions finish in the order of the queue; poll waits for one  *)
(* submission, then runs the callbacks of every mapping that is ready, its *)
(* own or another thread's.  Allocation, staging memory, poll, mapping and *)
(* the device's words may fail at any call.                                *)
(***************************************************************************)
EXTENDS Naturals, Sequences, FiniteSets

CONSTANTS
  Threads,    \* the threads that call the answerer
  Keys,       \* of the kernels: what the shader is specialised to
  Jobs,       \* batches: the words of each chunk, and where each segment runs
  MaxCalls    \* bound on the calls that pass validation

Kinds == {"single", "packed"}

\* A segment is what one dispatch computes: in which chunk, by which kernel.
Segments == [chunk : Nat, key : Keys]

\* A single batch is one dispatch; plan_packed makes no flight of no chunks,
\* and no chunk of no segments.
ASSUME GpuBatchesAssumption ==
  /\ MaxCalls \in Nat \ {0}
  /\ Jobs \subseteq [kind : Kinds, valid : BOOLEAN,
                     chunks : Seq([query : Nat, answer : Nat]), segments : Seq(Segments)]
  /\ \A j \in Jobs :
       j.valid =>
         /\ j.chunks # <<>> /\ j.segments # <<>>
         /\ \A i \in DOMAIN j.chunks : \E k \in DOMAIN j.segments : j.segments[k].chunk = i
         /\ j.kind = "single" => Len(j.chunks) = 1 /\ Len(j.segments) = 1

SetIds == 1 .. MaxCalls

\* Nothing computed yet, or freed.
None == 0

VARIABLES
  pipelines,  \* the cache: from the keys compiled so far to kernels
  pool,       \* scratch_pool and packed_scratch_pool, as stacks of sets
  sets,       \* the buffers of every set that was ever made
  flights,    \* the queue's submissions, oldest first: [set, kernels]
  calls,      \* calls that passed validation
  pc, job,    \* of each thread
  kernels,    \* the segments a thread has a kernel for, and the kernel's key
  leased,     \* the set a thread holds
  call,       \* the number of a thread's call
  mapping,    \* of each chunk: the thread's staging mapping and its callback
  callbacks,  \* what a polling thread still runs: the callbacks of calls' chunks
  outcome,    \* of a thread's last call
  faulty      \* whether its batch or its device failed

vars == <<pipelines, pool, sets, flights, calls, pc, job, kernels, leased, call,
          mapping, callbacks, outcome, faulty>>

device == <<pipelines, pool, sets, flights, calls>>

NoJob == [kind |-> "single", chunks |-> <<>>, segments |-> <<>>, valid |-> FALSE]

Init ==
  /\ pipelines = <<>>
  /\ pool = [k \in Kinds |-> <<>>]
  /\ sets = [s \in SetIds |-> <<>>]
  /\ flights = <<>>
  /\ calls = 0
  /\ pc = [t \in Threads |-> "idle"]
  /\ job = [t \in Threads |-> NoJob]
  /\ kernels = [t \in Threads |-> <<>>]
  /\ leased = [t \in Threads |-> None]
  /\ call = [t \in Threads |-> None]
  /\ mapping = [t \in Threads |-> <<>>]
  /\ callbacks = [t \in Threads |-> {}]
  /\ outcome = [t \in Threads |-> "good"]
  /\ faulty = [t \in Threads |-> FALSE]

-----------------------------------------------------------------------------
Goes(t, place) == pc' = [pc EXCEPT ![t] = place]

\* Every error path drops what the call holds: the set does not go back to
\* its pool, and mappings still under way are cancelled.
Ends(t, result) ==
  /\ Goes(t, "idle")
  /\ job' = [job EXCEPT ![t] = NoJob]
  /\ call' = [call EXCEPT ![t] = None]
  /\ leased' = [leased EXCEPT ![t] = None]
  /\ mapping' = [mapping EXCEPT ![t] = <<>>]
  /\ kernels' = [kernels EXCEPT ![t] = <<>>]
  /\ outcome' = [outcome EXCEPT ![t] = result]

\* Mutant of Fault: the set goes back to its pool on an error, too.
PooledFault(t) ==
  /\ faulty' = [faulty EXCEPT ![t] = TRUE]
  /\ Ends(t, "error")
  /\ pool' = [pool EXCEPT ![job[t].kind] = Append(@, leased[t])]
  /\ UNCHANGED <<pipelines, sets, flights, calls, callbacks>>

Fault(t) ==
  /\ faulty' = [faulty EXCEPT ![t] = TRUE]
  /\ Ends(t, "error")
  /\ UNCHANGED <<device, callbacks>>

\* A batch enters: the single batch is validated, and its kernel looked up,
\* before it leases a set; the packed flight was validated by its plan.
Begin(t, j) ==
  /\ pc[t] = "idle"
  /\ calls < MaxCalls
  /\ outcome' = [outcome EXCEPT ![t] = IF j.valid THEN "good" ELSE "error"]
  /\ faulty' = [faulty EXCEPT ![t] = ~j.valid]
  /\ IF j.valid
       THEN /\ job' = [job EXCEPT ![t] = j]
            /\ calls' = calls + 1
            /\ call' = [call EXCEPT ![t] = calls + 1]
            /\ Goes(t, IF j.kind = "single" THEN "pipeline" ELSE "lease")
       ELSE UNCHANGED <<job, calls, call, pc>>
  /\ UNCHANGED <<pipelines, pool, sets, flights, kernels, leased, mapping, callbacks>>

\* Mutant of CacheKey: one kernel for all moduli.
CacheKeyByTile(key) == key.tile

CacheKey(key) == key

Wanted(t) == job[t].segments[Len(kernels[t]) + 1]

AfterPipeline(t, obtained) ==
  IF Len(obtained) < Len(job[t].segments) THEN "pipeline"
  ELSE IF job[t].kind = "single" THEN "lease" ELSE "submit"

\* The next segment's dispatch, by this kernel.
Obtains(t, kernel) ==
  LET obtained == Append(kernels[t], [chunk |-> Wanted(t).chunk, key |-> kernel])
  IN  /\ kernels' = [kernels EXCEPT ![t] = obtained]
      /\ Goes(t, AfterPipeline(t, obtained))

\* answer_pipeline: the cache is locked for the look-up ...
LookUp(t) ==
  /\ pc[t] = "pipeline"
  /\ LET key == CacheKey(Wanted(t).key)
     IN  IF key \in DOMAIN pipelines
           THEN Obtains(t, pipelines[key])
           ELSE Goes(t, "compile") /\ UNCHANGED kernels
  /\ UNCHANGED <<device, job, leased, call, mapping, callbacks, outcome, faulty>>

\* ... and again for the insertion; several threads may compile one kernel.
Compile(t) ==
  /\ pc[t] = "compile"
  /\ LET key == CacheKey(Wanted(t).key)
     IN  pipelines' = [k \in DOMAIN pipelines \cup {key} |->
                         IF k = key THEN Wanted(t).key ELSE pipelines[k]]
  /\ Obtains(t, Wanted(t).key)
  /\ UNCHANGED <<pool, sets, flights, calls, job, leased, call, mapping, callbacks,
                 outcome, faulty>>

-----------------------------------------------------------------------------
NewChunk(query, answer) ==
  [queryCapacity |-> query, answerCapacity |-> answer,
   query |-> query, output |-> answer, staging |-> answer,
   queries |-> None, answers |-> [call |-> None, kernels |-> {}], mapped |-> FALSE]

\* AnswerScratch::new makes buffers of the batch's size; a PackedScratch starts
\* without chunks, and its chunks at one word.
NewSet(j) ==
  IF j.kind = "single" THEN << NewChunk(j.chunks[1].query, j.chunks[1].answer) >> ELSE <<>>

\* The last set of the pool, or a new one, named after the call that makes it.
Lease(t) ==
  /\ pc[t] = "lease"
  /\ LET kind == job[t].kind
         free == pool[kind]
     IN  IF free # <<>>
           THEN /\ leased' = [leased EXCEPT ![t] = free[Len(free)]]
                /\ pool' = [pool EXCEPT ![kind] = SubSeq(free, 1, Len(free) - 1)]
                /\ UNCHANGED sets
           ELSE /\ leased' = [leased EXCEPT ![t] = call[t]]
                /\ sets' = [sets EXCEPT ![call[t]] = NewSet(job[t])]
                /\ UNCHANGED pool
  /\ Goes(t, "prepare")
  /\ UNCHANGED <<pipelines, flights, calls, job, kernels, call, mapping, callbacks,
                 outcome, faulty>>

\* AnswerScratch::prepare and ChunkScratch::prepare: a buffer that is too small
\* for the request is replaced, and then the capacity raised.
GrowQuery(chunk, words) ==
  IF words > chunk.queryCapacity
    THEN [chunk EXCEPT !.query = words, !.queryCapacity = words, !.queries = None]
    ELSE chunk

\* Mutant of GrowAnswer: the staging buffer keeps its size.
GrowAnswerOnDevice(chunk, words) ==
  IF words > chunk.answerCapacity
    THEN [chunk EXCEPT !.output = words, !.answerCapacity = words]
    ELSE chunk

GrowAnswer(chunk, words) ==
  IF words > chunk.answerCapacity
    THEN [chunk EXCEPT !.output = words, !.staging = words, !.answerCapacity = words]
    ELSE chunk

\* A set keeps the chunks beyond those of the plan as they are.
Prepared(chunks, plan) ==
  [i \in 1 .. (IF Len(chunks) < Len(plan) THEN Len(plan) ELSE Len(chunks)) |->
     LET chunk == IF i <= Len(chunks) THEN chunks[i] ELSE NewChunk(1, 1)
     IN  IF i <= Len(plan)
           THEN GrowAnswer(GrowQuery(chunk, plan[i].query), plan[i].answer)
           ELSE chunk]

Plan(t) == DOMAIN job[t].chunks

\* The staged words of the call's queries and its uniforms go to the set's own
\* buffers, before the next submission.
Uploaded(chunks, t) ==
  [i \in DOMAIN chunks |-> IF i \in Plan(t) THEN [chunks[i] EXCEPT !.queries = call[t]]
                           ELSE chunks[i]]

\* A single batch has its kernel already; a packed flight looks the kernels up
\* while it encodes its segments.
Upload(t) ==
  /\ pc[t] = "prepare"
  /\ sets' = [sets EXCEPT ![leased[t]] = Uploaded(Prepared(@, job[t].chunks), t)]
  /\ Goes(t, IF job[t].kind = "single" THEN "submit" ELSE "pipeline")
  /\ UNCHANGED <<pipelines, pool, flights, calls, job, kernels, leased, call, mapping,
                 callbacks, outcome, faulty>>

\* wgpu refuses a copy into a buffer that is mapped or too small.
Submittable(t) ==
  \A i \in Plan(t) :
    LET chunk == sets[leased[t]][i]
    IN  /\ ~chunk.mapped
        /\ job[t].chunks[i].query <= chunk.query
        /\ job[t].chunks[i].answer <= chunk.output
        /\ job[t].chunks[i].answer <= chunk.staging

\* The dispatches and the copies to staging.
Submit(t) ==
  /\ pc[t] = "submit"
  /\ IF Submittable(t)
       THEN /\ flights' = Append(flights, [set |-> leased[t], kernels |-> kernels[t]])
            /\ Goes(t, "map")
            /\ UNCHANGED <<job, leased, call, kernels, mapping, outcome>>
       ELSE /\ Ends(t, "panic")
            /\ UNCHANGED flights
  /\ UNCHANGED <<pipelines, pool, sets, calls, callbacks, faulty>>

Mapped(chunks, n) ==
  [i \in DOMAIN chunks |-> [chunks[i] EXCEPT !.mapped = @ \/ i = n]]

\* map_async, chunk by chunk; other threads poll in between.
RequestMap(t) ==
  /\ pc[t] = "map"
  /\ LET n == Len(mapping[t]) + 1
     IN  /\ sets' = [sets EXCEPT ![leased[t]] = Mapped(@, n)]
         /\ mapping' = [mapping EXCEPT ![t] = Append(@, "requested")]
         /\ Goes(t, IF n < Len(job[t].chunks) THEN "map" ELSE "poll")
  /\ UNCHANGED <<pipelines, pool, flights, calls, job, kernels, leased, call, callbacks,
                 outcome, faulty>>

\* Any allocation or staging request of these steps may be refused.
Refused(t) ==
  /\ pc[t] = "prepare"
  /\ Fault(t)

-----------------------------------------------------------------------------
\* What is dispatched on a chunk: its segments, each with its kernel.
Dispatches(passes, i) ==
  { <<k, passes[k].key>> : k \in { n \in DOMAIN passes : passes[n].chunk = i } }

Answered(chunks, flight) ==
  [i \in DOMAIN chunks |->
     LET dispatches == Dispatches(flight.kernels, i)
     IN  IF dispatches # {}
           THEN [chunks[i] EXCEPT !.answers = [call |-> chunks[i].queries,
                                               kernels |-> dispatches]]
           ELSE chunks[i]]

\* The device finishes its oldest submission.  The buffers of a call that gave
\* up live until then.
DeviceFinishes ==
  /\ flights # <<>>
  /\ flights' = Tail(flights)
  /\ sets' = [sets EXCEPT ![Head(flights).set] = Answered(@, Head(flights))]
  /\ UNCHANGED <<pipelines, pool, calls, pc, job, kernels, leased, call, mapping,
                 callbacks, outcome, faulty>>

InFlight(s) == \E i \in DOMAIN flights : flights[i].set = s

\* The mappings that are ready: requested, of a set no submission writes.
IsReady(u, i) == i \in DOMAIN mapping[u] /\ mapping[u][i] = "requested" /\ ~InFlight(leased[u])

Ready == { p \in SetIds \X (UNION { DOMAIN mapping[u] : u \in Threads }) :
             \E u \in Threads : call[u] = p[1] /\ IsReady(u, p[2]) }

\* poll returns once the thread's submission has finished, and on its way runs
\* the callbacks of every mapping that is ready.
Poll(t) ==
  /\ pc[t] = "poll"
  /\ ~InFlight(leased[t])
  /\ callbacks' = [callbacks EXCEPT ![t] = Ready]
  /\ mapping' = [u \in Threads |->
                    [i \in DOMAIN mapping[u] |->
                       IF IsReady(u, i) THEN "calling" ELSE mapping[u][i]]]
  /\ Goes(t, "callbacks")
  /\ UNCHANGED <<device, job, kernels, leased, call, outcome, faulty>>

\* Mutant of Delivered: the callback sends nothing when the mapping failed.
DeliveredIfOk(m, i, result) == IF result = "mapped" THEN [m EXCEPT ![i] = result] ELSE m

\* A callback sends the result of the mapping to its chunk's receiver.
Delivered(m, i, result) == [m EXCEPT ![i] = result]

\* If the call is gone, nobody listens.
RunCallback(t, c, i) ==
  /\ pc[t] = "callbacks"
  /\ <<c, i>> \in callbacks[t]
  /\ callbacks' = [callbacks EXCEPT ![t] = @ \ {<<c, i>>}]
  /\ \E result \in {"mapped", "failed"} :
       mapping' = [u \in Threads |-> IF call[u] = c THEN Delivered(mapping[u], i, result)
                                     ELSE mapping[u]]
  /\ UNCHANGED <<device, pc, job, kernels, leased, call, outcome, faulty>>

PollFails(t) ==
  /\ pc[t] = "poll"
  /\ Fault(t)

ReadAnswers(t) ==
  IF \A i \in DOMAIN job[t].chunks :
       sets[leased[t]][i].answers =
         [call |-> call[t], kernels |-> Dispatches(job[t].segments, i)]
  THEN "good" ELSE "wrong"

\* Mutant of Unmapped: only the first chunk is unmapped.
UnmapsOne(chunks) == [chunks EXCEPT ![1].mapped = FALSE]

Unmapped(chunks) == [i \in DOMAIN chunks |-> [chunks[i] EXCEPT !.mapped = FALSE]]

\* The receivers are waited on in the order of the chunks.
Reached(t, i) == \A k \in 1 .. (i - 1) : mapping[t][k] = "mapped"

\* Mutant of Received: a result is looked for, not waited for.
TriedReceive(t) ==
  \E i \in DOMAIN mapping[t] : Reached(t, i) /\ mapping[t][i] # "mapped"

\* receiver.recv waits until the callback ran, on whatever thread, and gives
\* the call the error of its mapping, whatever becomes of the later chunks.
Received(t) ==
  \E i \in DOMAIN mapping[t] : Reached(t, i) /\ mapping[t][i] = "failed"

MappingFails(t) ==
  /\ pc[t] = "callbacks"
  /\ callbacks[t] = {}
  /\ Received(t)
  /\ faulty' = [faulty EXCEPT ![t] = \E i \in DOMAIN mapping[t] : mapping[t][i] = "failed"]
  /\ Ends(t, "error")
  /\ UNCHANGED <<device, callbacks>>

\* The answers are copied out, the staging buffers unmapped, and the set goes
\* back to its pool, unless a range or a word cannot be read.
Return(t) ==
  /\ pc[t] = "callbacks"
  /\ callbacks[t] = {}
  /\ \A i \in DOMAIN mapping[t] : mapping[t][i] = "mapped"
  /\ \/ /\ pool' = [pool EXCEPT ![job[t].kind] = Append(@, leased[t])]
        /\ sets' = [sets EXCEPT ![leased[t]] = Unmapped(@)]
        /\ Ends(t, ReadAnswers(t))
        /\ UNCHANGED <<pipelines, flights, calls, callbacks, faulty>>
     \/ Fault(t)

-----------------------------------------------------------------------------
Step(t) ==
  \/ LookUp(t) \/ Compile(t) \/ Lease(t) \/ Upload(t) \/ Submit(t) \/ RequestMap(t)
  \/ Refused(t) \/ Poll(t) \/ PollFails(t)
  \/ \E p \in callbacks[t] : RunCallback(t, p[1], p[2])
  \/ Return(t) \/ MappingFails(t)

Next ==
  \/ \E t \in Threads : Step(t) \/ \E j \in Jobs : Begin(t, j)
  \/ DeviceFinishes

Spec == Init /\ [][Next]_vars

\* A thread inside a call keeps running, and the device finishes what it was
\* given.  Nothing obliges a call to be made, or to fail.
Fairness ==
  /\ \A t \in Threads : WF_vars(Step(t))
  /\ WF_vars(DeviceFinishes)

FairSpec == Spec /\ Fairness

-----------------------------------------------------------------------------
Pooled == UNION { { pool[k][i] : i \in DOMAIN pool[k] } : k \in Kinds }

Held == { leased[t] : t \in Threads } \ {None}

\* No call reads answers of other queries, of another modulus or tile, or of
\* an earlier call that used its buffers, and none submits buffers wgpu
\* refuses, whatever the other threads do with the pools and the cache.
OwnAnswers == \A t \in Threads : outcome[t] \notin {"wrong", "panic"}

\* A set in a pool can be leased as it is: it is in one place only, no
\* submission still writes it, nothing of it is mapped, and each of its
\* buffers is as large as the capacity the set remembers for it.
PoolClean ==
  /\ Pooled \cap Held = {}
  /\ \A k \in Kinds : Cardinality({ pool[k][i] : i \in DOMAIN pool[k] }) = Len(pool[k])
  /\ \A s \in Pooled :
       /\ ~InFlight(s)
       /\ \A i \in DOMAIN sets[s] :
            LET chunk == sets[s][i]
            IN  /\ ~chunk.mapped
                /\ chunk.queryCapacity <= chunk.query
                /\ chunk.answerCapacity <= chunk.output
                /\ chunk.answerCapacity <= chunk.staging

\* Calls do not disturb each other: not while they run, and not by what they leave
\* in the pools.
CallsIsolated == OwnAnswers /\ PoolClean

\* A call fails only if its batch was invalid, or an allocation, a poll, a
\* mapping or a read of its own failed: never for what another thread did,
\* though another thread's poll may run its callback.
FailsOnlyOnFault == \A t \in Threads : outcome[t] = "error" => faulty[t]

\* Every call returns: no thread waits for a callback that nobody will run.
CallsReturn == \A t \in Threads : pc[t] # "idle" ~> pc[t] = "idle"

=============================================================================
