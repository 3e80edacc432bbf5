------------------------------ MODULE Residency ------------------------------
(***************************************************************************)
(* The device-residency budget of one AnswerEngine, shared by the session  *)
(* threads of the server: emvp/src/engine.rs, prepare_batch_core and       *)
(* reserve_budget, the GpuReservation destructor, and the shared handles   *)
(* (PreparedMatrix) it is attached to.                                     *)
(*                                                                         *)
(* reserved_bytes is the engine's AtomicU64.  A call loads it, computes    *)
(* and retries with compare_exchange_weak (a spurious failure observes the *)
(* value it expected and is a stuttering step), then uploads its matrices  *)
(* one at a time.  A matrix leaves through the destructors of its last     *)
(* handle: the device buffer first, then the reservation, because          *)
(* PreparedMatrixInner declares its fields in that order.                  *)
(*                                                                         *)
(* The order of a batch is arbitrary, so a batch is a set and the next     *)
(* matrix to upload is any of those left.  A call that fails validation    *)
(* changes no shared state and is not modelled.                            *)
(***************************************************************************)
EXTENDS Footprint

CONSTANTS
  Threads,     \* session threads calling the engine
  MaxBytes,    \* GpuEngine::max_bytes
  MaxBatch,    \* bound: the largest batch a caller offers
  MaxClones    \* bound: the most handles one matrix has at once

ASSUME ResidencyAssumption ==
  /\ MaxBytes \in 0 .. (U64 - 1)
  /\ MaxBatch \in Nat \ {0}
  /\ MaxClones \in Nat \ {0}

VARIABLES
  reserved_bytes,  \* GpuEngine::reserved_bytes
  current,         \* current[t]: the value t last read from the counter
  pc,              \* pc[t]: where t is in prepare_batch_core
  batch,           \* batch[t]: the matrices t's call still has in its hands
  status,          \* status[m]: what is held on behalf of matrix m
  clones           \* clones[m]: the PreparedMatrix handles of m

vars == <<reserved_bytes, current, pc, batch, status, clones>>

Status ==
  { "free",        \* nothing is held
    "offered",     \* in a validated batch, no bytes reserved
    "reserved",    \* bytes counted, no GpuReservation made yet
    "resident",    \* uploaded, its handle in the call's `prepared` vector
    "handle",      \* returned: some PreparedMatrix is alive
    "dropping",    \* its last handle is being dropped, the buffer is alive
    "unbuffered",  \* buffer gone, the reservation is about to be dropped
    "leaked" }     \* bytes counted, nobody left to give them back

\* The bytes of these matrices are in the counter.
Charged == {m \in Matrices : status[m] \notin {"free", "offered"}}

\* The device buffers of these matrices are alive.
OnDevice == {m \in Matrices : status[m] \in {"resident", "handle", "dropping"}}

Init ==
  /\ reserved_bytes = 0
  /\ current = [t \in Threads |-> 0]
  /\ pc = [t \in Threads |-> "idle"]
  /\ batch = [t \in Threads |-> {}]
  /\ status = [m \in Matrices |-> "free"]
  /\ clones = [m \in Matrices |-> 0]

StatusOf(S, s) == [m \in Matrices |-> IF m \in S THEN s ELSE status[m]]

-----------------------------------------------------------------------------
(* Phases 1 and 2: validation and the reservation. *)

\* Phase 1 totals the batch; a total beyond u64 is DimensionOverflow.
Begin(t, S) ==
  /\ pc[t] = "idle"
  /\ S # {}
  /\ Cardinality(S) <= MaxBatch
  /\ \A m \in S : status[m] = "free"
  /\ Footprint(S) < U64
  /\ pc' = [pc EXCEPT ![t] = "load"]
  /\ batch' = [batch EXCEPT ![t] = S]
  /\ status' = StatusOf(S, "offered")
  /\ UNCHANGED <<reserved_bytes, current, clones>>

Load(t) ==
  /\ pc[t] = "load"
  /\ current' = [current EXCEPT ![t] = reserved_bytes]
  /\ pc' = [pc EXCEPT ![t] = "cas"]
  /\ UNCHANGED <<reserved_bytes, batch, status, clones>>

\* Mutants of Fits: the budget is not checked, and an off-by-one refuses the
\* set that fits exactly.
FitsInU64(t) == current[t] + Footprint(batch[t]) < U64
FitsStrictly(t) == current[t] + Footprint(batch[t]) < MaxBytes

\* current.checked_add(bytes) is Some(next) and next is within the budget.
Fits(t) ==
  LET next == current[t] + Footprint(batch[t])
  IN  next < U64 /\ next <= MaxBytes

\* BudgetExceeded: decided on the value last read, whatever the counter is now.
Exhausted(t) ==
  /\ pc[t] = "cas"
  /\ ~Fits(t)
  /\ pc' = [pc EXCEPT ![t] = "idle"]
  /\ batch' = [batch EXCEPT ![t] = {}]
  /\ status' = StatusOf(batch[t], "free")
  /\ UNCHANGED <<reserved_bytes, current, clones>>

\* Mutant of CasSucceeds: a plain store in place of the exchange.
StoreSucceeds(t) == TRUE

CasSucceeds(t) == reserved_bytes = current[t]

Reserve(t) ==
  /\ pc[t] = "cas"
  /\ Fits(t)
  /\ CasSucceeds(t)
  /\ reserved_bytes' = current[t] + Footprint(batch[t])
  /\ pc' = [pc EXCEPT ![t] = "upload"]
  /\ status' = StatusOf(batch[t], "reserved")
  /\ UNCHANGED <<current, batch, clones>>

\* Mutant of Retry: the loop tries again with the value it already had.
RetryStale(t) ==
  /\ pc[t] = "cas"
  /\ Fits(t)
  /\ ~CasSucceeds(t)
  /\ UNCHANGED vars

\* The exchange fails and hands back the value it observed.
Retry(t) ==
  /\ pc[t] = "cas"
  /\ Fits(t)
  /\ ~CasSucceeds(t)
  /\ current' = [current EXCEPT ![t] = reserved_bytes]
  /\ UNCHANGED <<reserved_bytes, pc, batch, status, clones>>

-----------------------------------------------------------------------------
(* Phase 3: the uploads. *)

Upload(t, m) ==
  /\ pc[t] = "upload"
  /\ m \in batch[t]
  /\ status[m] = "reserved"
  /\ status' = [status EXCEPT ![m] = "resident"]
  /\ UNCHANGED <<reserved_bytes, current, pc, batch, clones>>

Unreached(t, m) == {x \in batch[t] : x # m /\ status[x] = "reserved"}

\* The reservations are made by a lazy iterator, one at each turn of the loop.
\* A failing upload therefore drops its own reservation and the handles
\* prepared so far; the matrices behind it never had a reservation to drop.
UploadFails(t, m) ==
  /\ pc[t] = "upload"
  /\ m \in batch[t]
  /\ status[m] = "reserved"
  /\ pc' = [pc EXCEPT ![t] = "abort"]
  /\ batch' = [batch EXCEPT ![t] = @ \ Unreached(t, m)]
  /\ status' = [x \in Matrices |->
                  CASE x = m                  -> "unbuffered"
                    [] x \in Unreached(t, m)  -> "leaked"
                    [] x \in batch[t] \ (Unreached(t, m) \cup {m}) -> "dropping"
                    [] OTHER                  -> status[x]]
  /\ UNCHANGED <<reserved_bytes, current, clones>>

\* Every matrix is uploaded: the handles are returned to the caller.
Return(t) ==
  /\ pc[t] = "upload"
  /\ \A m \in batch[t] : status[m] = "resident"
  /\ pc' = [pc EXCEPT ![t] = "idle"]
  /\ batch' = [batch EXCEPT ![t] = {}]
  /\ status' = StatusOf(batch[t], "handle")
  /\ clones' = [m \in Matrices |-> IF m \in batch[t] THEN 1 ELSE clones[m]]
  /\ UNCHANGED <<reserved_bytes, current>>

\* The destructors of the failed call have run: the Upload error is returned.
ReturnError(t) ==
  /\ pc[t] = "abort"
  /\ batch[t] = {}
  /\ pc' = [pc EXCEPT ![t] = "idle"]
  /\ UNCHANGED <<reserved_bytes, current, batch, status, clones>>

-----------------------------------------------------------------------------
(* The handles and their destructors. *)

Clone(m) ==
  /\ status[m] = "handle"
  /\ clones[m] < MaxClones
  /\ clones' = [clones EXCEPT ![m] = @ + 1]
  /\ UNCHANGED <<reserved_bytes, current, pc, batch, status>>

\* Only the final clone runs the destructor of the shared matrix.
DropHandle(m) ==
  /\ status[m] = "handle"
  /\ clones' = [clones EXCEPT ![m] = @ - 1]
  /\ status' = IF clones[m] = 1 THEN [status EXCEPT ![m] = "dropping"] ELSE status
  /\ UNCHANGED <<reserved_bytes, current, pc, batch>>

DropBuffer(m) ==
  /\ status[m] = "dropping"
  /\ status' = [status EXCEPT ![m] = "unbuffered"]
  /\ UNCHANGED <<reserved_bytes, current, pc, batch, clones>>

\* AtomicU64::fetch_sub wraps below zero.
FetchSub(n) == IF n <= reserved_bytes THEN reserved_bytes - n
                                      ELSE reserved_bytes + U64 - n

DropReservation(m) ==
  /\ status[m] = "unbuffered"
  /\ reserved_bytes' = FetchSub(Bytes[m])
  /\ status' = [status EXCEPT ![m] = "free"]
  /\ batch' = [t \in Threads |-> batch[t] \ {m}]
  /\ UNCHANGED <<current, pc, clones>>

-----------------------------------------------------------------------------
CallStep(t) ==
  \/ Load(t)
  \/ Exhausted(t)
  \/ Reserve(t)
  \/ Retry(t)
  \/ \E m \in Matrices : Upload(t, m) \/ UploadFails(t, m)
  \/ Return(t)
  \/ ReturnError(t)

Destructor(m) == DropBuffer(m) \/ DropReservation(m)

Next ==
  \/ \E t \in Threads : CallStep(t) \/ \E S \in SUBSET Matrices : Begin(t, S)
  \/ \E m \in Matrices : Clone(m) \/ DropHandle(m) \/ Destructor(m)

Spec == Init /\ [][Next]_vars

\* A thread that entered the engine keeps running, and so does a destructor
\* that began.  Nothing makes callers offer, clone or drop.
Fairness ==
  /\ \A t \in Threads : WF_vars(CallStep(t))
  /\ \A m \in Matrices : WF_vars(Destructor(m))

FairSpec == Spec /\ Fairness

-----------------------------------------------------------------------------
(* Properties. *)

TypeOK ==
  /\ reserved_bytes \in 0 .. (U64 - 1)
  /\ current \in [Threads -> 0 .. (U64 - 1)]
  /\ pc \in [Threads -> {"idle", "load", "cas", "upload", "abort"}]
  /\ batch \in [Threads -> SUBSET Matrices]
  /\ status \in [Matrices -> Status]
  /\ clones \in [Matrices -> 0 .. MaxClones]

\* What a call holds at each of its program points; no two calls hold the same
\* matrix, and only a handle nobody holds is in its destructor.
Holdings ==
  /\ \A t \in Threads :
       /\ pc[t] = "idle" => batch[t] = {}
       /\ \A m \in batch[t] :
            /\ pc[t] \in {"load", "cas"} => status[m] = "offered"
            /\ pc[t] = "upload"          => status[m] \in {"reserved", "resident"}
            /\ pc[t] = "abort"           => status[m] \in {"dropping", "unbuffered"}
  /\ \A t, u \in Threads : t # u => batch[t] \cap batch[u] = {}
  /\ \A m \in Matrices : status[m] = "handle" <=> clones[m] # 0

\* The counter is exactly the bytes of the matrices whose reservation was
\* taken and not given back, whatever calls, retries and destructors overlap:
\* no lost update, no double release, no wrap.
Accounting == reserved_bytes = Footprint(Charged)

\* The device never holds more matrix bytes than the counter says, and the
\* counter never passes max_bytes, also between a destructor's two steps.
DeviceWithinBudget ==
  /\ Footprint(OnDevice) <= reserved_bytes
  /\ reserved_bytes <= MaxBytes

\* The inductive invariant of ResidencyProofs.
IInv ==
  /\ TypeOK
  /\ Holdings
  /\ Accounting
  /\ reserved_bytes <= MaxBytes

\* prepare_batch: "concurrent callers observe each set as all-or-nothing".
\* A step that adds bytes adds the whole set of one call, and a call that
\* uploads holds every one of its matrices.
WholeSets ==
  [][ reserved_bytes' > reserved_bytes =>
        \E t \in Threads : /\ pc[t] = "cas" /\ pc'[t] = "upload"
                           /\ Charged' \ Charged = batch[t]
                           /\ batch'[t] = batch[t] ]_vars

\* What the module promises, decided in one step: see ResidencyBudget.
CallState(t) ==
  IF pc[t] = "idle" THEN "none"
  ELSE IF pc[t] \in {"upload", "abort"} THEN "granted"
  ELSE IF pc[t] = "cas" /\ ~Fits(t) THEN "rejected"
  ELSE "pending"

Calls == [t \in Threads |-> [state |-> CallState(t), set |-> batch[t]]]

Budget == INSTANCE ResidencyBudget WITH charged <- Charged, call <- Calls

\* The retry loop implements the atomic decision: a set is granted only if it
\* fits at that instant, and a rejection was true when the counter was read.
ImplementsBudget == Budget!Spec

\* The retry loop is lock-free: a call is held in it for ever only if the
\* counter keeps changing.
LockFree ==
  \A t \in Threads :
    <>[](pc[t] = "cas") => []<><<reserved_bytes' # reserved_bytes>>_vars

\* The documentation of prepare_batch: "On any failure no handle is returned
\* and the entire reservation is released."  Once no call is running and no
\* handle is alive or being dropped, the counter is back at zero.
EntireReservationReleased ==
  ( /\ \A t \in Threads : pc[t] = "idle"
    /\ \A m \in Matrices : status[m] \in {"free", "leaked"} )
  => reserved_bytes = 0

=============================================================================
