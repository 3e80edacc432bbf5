--------------------------- MODULE ResidencyProofs ---------------------------
(* Theorems about Residency, for every set of threads, every set of         *)
(* matrices, every charge and every budget.                                 *)
EXTENDS Residency, FiniteSetTheorems, TLAPS

-----------------------------------------------------------------------------
(* The footprint of a set of matrices.                                      *)

\* One matrix owns exactly the bytes residency_bytes charges it with.
LEMMA SingleFootprint ==
  ASSUME NEW m \in Matrices
  PROVE  /\ IsFiniteSet(BytesOf({m}))
         /\ Footprint({m}) = Bytes[m]
<1>1. Bytes[m] \in Nat
  BY FootprintAssumption
<1>2. BytesOf({m}) = {m} \X (1 .. Bytes[m])
  BY DEF BytesOf
<1>3. IsFiniteSet({m}) /\ Cardinality({m}) = 1
  BY FS_Singleton
<1>4. IsFiniteSet(1 .. Bytes[m]) /\ Cardinality(1 .. Bytes[m]) = Bytes[m]
  BY <1>1, FS_Interval
<1>5. /\ IsFiniteSet({m} \X (1 .. Bytes[m]))
      /\ Cardinality({m} \X (1 .. Bytes[m])) = 1 * Bytes[m]
  BY <1>3, <1>4, FS_Product
<1>6. 1 * Bytes[m] = Bytes[m]
  BY <1>1
<1> QED
  BY <1>2, <1>5, <1>6 DEF Footprint

\* A footprint is a number: finitely many matrices, finitely many bytes each.
LEMMA FootprintType ==
  ASSUME NEW S \in SUBSET Matrices
  PROVE  /\ IsFiniteSet(BytesOf(S))
         /\ Footprint(S) \in Nat
<1>1. IsFiniteSet(Matrices) /\ U64 \in Int
  BY FootprintAssumption
<1>2. IsFiniteSet(1 .. (U64 - 1))
  BY <1>1, FS_Interval
<1>3. IsFiniteSet(Matrices \X (1 .. (U64 - 1)))
  BY <1>1, <1>2, FS_Product
<1>4. BytesOf(S) \in SUBSET (Matrices \X (1 .. (U64 - 1)))
  <2>1. ASSUME NEW m \in S
        PROVE  {m} \X (1 .. Bytes[m]) \in SUBSET (Matrices \X (1 .. (U64 - 1)))
    BY <1>1, FootprintAssumption
  <2> QED
    BY <2>1 DEF BytesOf
<1> QED
  BY <1>3, <1>4, FS_Subset, FS_CardinalityType DEF Footprint

\* No matrices, no bytes.
LEMMA EmptyFootprint == Footprint({}) = 0
<1>1. BytesOf({}) = {}
  BY DEF BytesOf
<1> QED
  BY <1>1, FS_EmptySet DEF Footprint

\* The footprints of disjoint sets add up.
LEMMA DisjointFootprint ==
  ASSUME NEW S \in SUBSET Matrices, NEW T \in SUBSET Matrices, S \cap T = {}
  PROVE  Footprint(S \cup T) = Footprint(S) + Footprint(T)
<1>1. IsFiniteSet(BytesOf(S)) /\ IsFiniteSet(BytesOf(T))
  BY FootprintType
<1>2. BytesOf(S \cup T) = BytesOf(S) \cup BytesOf(T)
  BY DEF BytesOf
<1>3. BytesOf(S) \cap BytesOf(T) = {}
  BY DEF BytesOf
<1>4. Cardinality(BytesOf(S) \cup BytesOf(T))
        = Cardinality(BytesOf(S)) + Cardinality(BytesOf(T)) - Cardinality({})
  BY <1>1, <1>3, FS_Union
<1>5. Cardinality(BytesOf(S)) \in Nat /\ Cardinality(BytesOf(T)) \in Nat
  BY <1>1, FS_CardinalityType
<1>6. Cardinality({}) = 0
  BY FS_EmptySet
<1>7. Cardinality(BytesOf(S) \cup BytesOf(T))
        = Cardinality(BytesOf(S)) + Cardinality(BytesOf(T))
  BY <1>4, <1>5, <1>6
<1> QED
  BY <1>2, <1>7 DEF Footprint

\* A part of a set owns no more than the set.
LEMMA SubsetFootprint ==
  ASSUME NEW T \in SUBSET Matrices, NEW S \in SUBSET T
  PROVE  Footprint(S) <= Footprint(T)
<1>1. IsFiniteSet(BytesOf(T))
  BY FootprintType
<1>2. BytesOf(S) \in SUBSET BytesOf(T)
  BY DEF BytesOf
<1> QED
  BY <1>1, <1>2, FS_Subset DEF Footprint

\* Taking one matrix out of a set takes out exactly its bytes.
LEMMA RemoveFootprint ==
  ASSUME NEW S \in SUBSET Matrices, NEW m \in S
  PROVE  /\ Footprint(S) = Footprint(S \ {m}) + Bytes[m]
         /\ Footprint(S \ {m}) = Footprint(S) - Bytes[m]
<1>1. S = (S \ {m}) \cup {m} /\ (S \ {m}) \cap {m} = {}
  OBVIOUS
<1>2. Footprint(S) = Footprint(S \ {m}) + Footprint({m})
  BY <1>1, DisjointFootprint
<1>3. Footprint({m}) = Bytes[m] /\ Bytes[m] \in Nat
  BY SingleFootprint, FootprintAssumption
<1>4. Footprint(S \ {m}) \in Nat
  BY FootprintType
<1> QED
  BY <1>2, <1>3, <1>4

-----------------------------------------------------------------------------
(* The invariant of the counter and the handles.                            *)

\* Nothing is charged at the start.
LEMMA InitIInv == Init => IInv
<1> SUFFICES ASSUME Init PROVE IInv
  OBVIOUS
<1>1. TypeOK
  BY ResidencyAssumption, FootprintAssumption DEF Init, TypeOK, Status
<1>2. Holdings
  BY DEF Init, Holdings
<1>3. Charged = {}
  BY DEF Init, Charged
<1>4. Accounting /\ reserved_bytes <= MaxBytes
  BY <1>3, EmptyFootprint, ResidencyAssumption DEF Init, Accounting
<1> QED
  BY <1>1, <1>2, <1>4 DEF IInv

\* Every step keeps the types: the counter stays a u64 because a reservation
\* is bounded by max_bytes and a release by what is charged.
LEMMA TypeStep == IInv /\ [Next]_vars => TypeOK'
<1> SUFFICES ASSUME IInv, [Next]_vars PROVE TypeOK'
  OBVIOUS
<1> USE ResidencyAssumption, FootprintAssumption DEF IInv, TypeOK, Status
<1>1. ASSUME NEW t \in Threads, NEW S \in SUBSET Matrices, Begin(t, S)
      PROVE  TypeOK'
  BY <1>1 DEF Begin, StatusOf
<1>2. ASSUME NEW t \in Threads, Load(t) PROVE TypeOK'
  BY <1>2 DEF Load
<1>3. ASSUME NEW t \in Threads, Exhausted(t) PROVE TypeOK'
  BY <1>3 DEF Exhausted, StatusOf
<1>4. ASSUME NEW t \in Threads, Reserve(t) PROVE TypeOK'
  <2>1. Footprint(batch[t]) \in Nat
    BY FootprintType
  <2>2. reserved_bytes' \in 0 .. (U64 - 1)
    BY <1>4, <2>1 DEF Reserve, Fits
  <2> QED
    BY <1>4, <2>2 DEF Reserve, StatusOf
<1>5. ASSUME NEW t \in Threads, Retry(t) PROVE TypeOK'
  BY <1>5 DEF Retry
<1>6. ASSUME NEW t \in Threads, NEW m \in Matrices, Upload(t, m)
      PROVE  TypeOK'
  BY <1>6 DEF Upload
<1>7. ASSUME NEW t \in Threads, NEW m \in Matrices, UploadFails(t, m)
      PROVE  TypeOK'
  BY <1>7 DEF UploadFails, Unreached
<1>8. ASSUME NEW t \in Threads, Return(t) PROVE TypeOK'
  BY <1>8 DEF Return, StatusOf
<1>9. ASSUME NEW t \in Threads, ReturnError(t) PROVE TypeOK'
  BY <1>9 DEF ReturnError
<1>10. ASSUME NEW m \in Matrices, Clone(m) PROVE TypeOK'
  BY <1>10 DEF Clone
<1>11. ASSUME NEW m \in Matrices, DropHandle(m) PROVE TypeOK'
  BY <1>11 DEF DropHandle, Holdings
<1>12. ASSUME NEW m \in Matrices, DropBuffer(m) PROVE TypeOK'
  BY <1>12 DEF DropBuffer
<1>13. ASSUME NEW m \in Matrices, DropReservation(m) PROVE TypeOK'
  <2>1. reserved_bytes' \in 0 .. (U64 - 1)
    BY <1>13 DEF DropReservation, FetchSub
  <2> QED
    BY <1>13, <2>1 DEF DropReservation
<1>14. CASE UNCHANGED vars
  BY <1>14 DEF vars
<1> QED
  BY <1>1, <1>2, <1>3, <1>4, <1>5, <1>6, <1>7, <1>8, <1>9, <1>10, <1>11,
     <1>12, <1>13, <1>14 DEF Next, CallStep, Destructor


\* Every step keeps the holdings of the calls apart and in step with their
\* program counters.
LEMMA HoldingsStep == IInv /\ [Next]_vars => Holdings'
<1> SUFFICES ASSUME IInv, [Next]_vars PROVE Holdings'
  OBVIOUS
<1> USE DEF IInv, TypeOK, Status, Holdings
<1>1. ASSUME NEW t \in Threads, NEW S \in SUBSET Matrices, Begin(t, S)
      PROVE  Holdings'
  BY <1>1 DEF Begin, StatusOf
<1>2. ASSUME NEW t \in Threads, Load(t) PROVE Holdings'
  BY <1>2 DEF Load
<1>3. ASSUME NEW t \in Threads, Exhausted(t) PROVE Holdings'
  BY <1>3 DEF Exhausted, StatusOf
<1>4. ASSUME NEW t \in Threads, Reserve(t) PROVE Holdings'
  BY <1>4 DEF Reserve, StatusOf
<1>5. ASSUME NEW t \in Threads, Retry(t) PROVE Holdings'
  BY <1>5 DEF Retry
<1>6. ASSUME NEW t \in Threads, NEW m \in Matrices, Upload(t, m)
      PROVE  Holdings'
  BY <1>6 DEF Upload
<1>7. ASSUME NEW t \in Threads, NEW m \in Matrices, UploadFails(t, m)
      PROVE  Holdings'
  BY <1>7 DEF UploadFails, Unreached
<1>8. ASSUME NEW t \in Threads, Return(t) PROVE Holdings'
  BY <1>8 DEF Return, StatusOf
<1>9. ASSUME NEW t \in Threads, ReturnError(t) PROVE Holdings'
  BY <1>9 DEF ReturnError
<1>10. ASSUME NEW m \in Matrices, Clone(m) PROVE Holdings'
  BY <1>10 DEF Clone
<1>11. ASSUME NEW m \in Matrices, DropHandle(m) PROVE Holdings'
  BY <1>11 DEF DropHandle
<1>12. ASSUME NEW m \in Matrices, DropBuffer(m) PROVE Holdings'
  BY <1>12 DEF DropBuffer
<1>13. ASSUME NEW m \in Matrices, DropReservation(m) PROVE Holdings'
  BY <1>13 DEF DropReservation
<1>14. CASE UNCHANGED vars
  BY <1>14 DEF vars
<1> QED
  BY <1>1, <1>2, <1>3, <1>4, <1>5, <1>6, <1>7, <1>8, <1>9, <1>10, <1>11,
     <1>12, <1>13, <1>14 DEF Next, CallStep, Destructor


\* Which matrices are charged changes in two steps only: a reservation adds
\* the batch, a dropped reservation takes its matrix out.
LEMMA ChargedStep ==
  ASSUME IInv, [Next]_vars
  PROVE  \/ /\ Charged' = Charged
            /\ reserved_bytes' = reserved_bytes
         \/ \E t \in Threads : /\ Reserve(t)
                               /\ Charged \cap batch[t] = {}
                               /\ Charged' = Charged \cup batch[t]
         \/ \E m \in Matrices : /\ DropReservation(m)
                                /\ m \in Charged
                                /\ Charged' = Charged \ {m}
<1> DEFINE Same == Charged' = Charged /\ reserved_bytes' = reserved_bytes
<1> USE DEF IInv, TypeOK, Status, Holdings
<1>1. ASSUME NEW t \in Threads, NEW S \in SUBSET Matrices, Begin(t, S)
      PROVE  Same
  BY <1>1 DEF Begin, StatusOf, Charged
<1>2. ASSUME NEW t \in Threads, Load(t) PROVE Same
  BY <1>2 DEF Load, Charged
<1>3. ASSUME NEW t \in Threads, Exhausted(t) PROVE Same
  BY <1>3 DEF Exhausted, StatusOf, Charged
<1>4. ASSUME NEW t \in Threads, Reserve(t)
      PROVE  Charged \cap batch[t] = {} /\ Charged' = Charged \cup batch[t]
  BY <1>4 DEF Reserve, StatusOf, Charged
<1>5. ASSUME NEW t \in Threads, Retry(t) PROVE Same
  BY <1>5 DEF Retry, Charged
<1>6. ASSUME NEW t \in Threads, NEW m \in Matrices, Upload(t, m)
      PROVE  Same
  BY <1>6 DEF Upload, Charged
<1>7. ASSUME NEW t \in Threads, NEW m \in Matrices, UploadFails(t, m)
      PROVE  Same
  BY <1>7 DEF UploadFails, Unreached, Charged
<1>8. ASSUME NEW t \in Threads, Return(t) PROVE Same
  BY <1>8 DEF Return, StatusOf, Charged
<1>9. ASSUME NEW t \in Threads, ReturnError(t) PROVE Same
  BY <1>9 DEF ReturnError, Charged
<1>10. ASSUME NEW m \in Matrices, Clone(m) PROVE Same
  BY <1>10 DEF Clone, Charged
<1>11. ASSUME NEW m \in Matrices, DropHandle(m) PROVE Same
  BY <1>11 DEF DropHandle, Charged
<1>12. ASSUME NEW m \in Matrices, DropBuffer(m) PROVE Same
  BY <1>12 DEF DropBuffer, Charged
<1>13. ASSUME NEW m \in Matrices, DropReservation(m)
       PROVE  m \in Charged /\ Charged' = Charged \ {m}
  BY <1>13 DEF DropReservation, Charged
<1>14. CASE UNCHANGED vars
  BY <1>14 DEF vars, Charged
<1> QED
  BY <1>1, <1>2, <1>3, <1>4, <1>5, <1>6, <1>7, <1>8, <1>9, <1>10, <1>11,
     <1>12, <1>13, <1>14 DEF Next, CallStep, Destructor

\* The counter follows the charged set, and a reservation is bounded.
LEMMA AccountingStep ==
  IInv /\ [Next]_vars => Accounting' /\ reserved_bytes' <= MaxBytes
<1> SUFFICES ASSUME IInv, [Next]_vars
             PROVE  Accounting' /\ reserved_bytes' <= MaxBytes
  OBVIOUS
<1> USE ResidencyAssumption, FootprintAssumption DEF IInv, TypeOK, Accounting
<1>1. CASE Charged' = Charged /\ reserved_bytes' = reserved_bytes
  BY <1>1 DEF Footprint, BytesOf
<1>2. ASSUME NEW t \in Threads, Reserve(t), Charged \cap batch[t] = {},
             Charged' = Charged \cup batch[t]
      PROVE  Accounting' /\ reserved_bytes' <= MaxBytes
  <2>1. Charged \in SUBSET Matrices /\ batch[t] \in SUBSET Matrices
    BY DEF Charged
  <2>2. Footprint(Charged \cup batch[t]) = Footprint(Charged) + Footprint(batch[t])
    BY <1>2, <2>1, DisjointFootprint
  <2>3. reserved_bytes' = reserved_bytes + Footprint(batch[t])
    BY <1>2 DEF Reserve, CasSucceeds
  <2>4. reserved_bytes' <= MaxBytes
    BY <1>2 DEF Reserve, Fits
  <2>5. Footprint(Charged') = Footprint(Charged \cup batch[t])
    BY <1>2
  <2> QED
    BY <2>2, <2>3, <2>4, <2>5
<1>3. ASSUME NEW m \in Matrices, DropReservation(m), m \in Charged,
             Charged' = Charged \ {m}
      PROVE  Accounting' /\ reserved_bytes' <= MaxBytes
  <2>1. Charged \in SUBSET Matrices /\ Charged \ {m} \in SUBSET Matrices
    BY DEF Charged
  <2>2. /\ Footprint(Charged) = Footprint(Charged \ {m}) + Bytes[m]
        /\ Footprint(Charged \ {m}) = Footprint(Charged) - Bytes[m]
    BY <1>3, <2>1, RemoveFootprint
  <2>3. Footprint(Charged \ {m}) \in Nat /\ Bytes[m] \in Nat
    BY <2>1, FootprintType
  <2>4. Bytes[m] <= reserved_bytes
    BY <2>2, <2>3
  <2>5. reserved_bytes' = reserved_bytes - Bytes[m]
    BY <1>3, <2>4 DEF DropReservation, FetchSub
  <2>6. Footprint(Charged') = Footprint(Charged \ {m})
    BY <1>3
  <2>7. reserved_bytes' <= MaxBytes
    BY <2>3, <2>5
  <2> QED
    BY <2>2, <2>5, <2>6, <2>7
<1> QED
  BY <1>1, <1>2, <1>3, ChargedStep

\* The inductive invariant holds in every reachable state.
THEOREM Invariance == Spec => []IInv
<1>1. IInv /\ [Next]_vars => IInv'
  BY TypeStep, HoldingsStep, AccountingStep DEF IInv
<1> QED
  BY InitIInv, <1>1, PTL DEF Spec


\* In every reachable state the variables have their types: the counter is a
\* u64 that never wrapped.
THEOREM TypeCorrect == Spec => []TypeOK
BY Invariance, PTL DEF IInv

\* The counter is exactly the bytes charged, however calls, retries and
\* destructors interleave.
THEOREM AccountingCorrect == Spec => []Accounting
BY Invariance, PTL DEF IInv

\* What a call holds at each program point, and that no two calls share it.
THEOREM HoldingsCorrect == Spec => []Holdings
BY Invariance, PTL DEF IInv

\* The device never holds more bytes than the counter, nor the counter more
\* than max_bytes.
THEOREM BudgetCorrect == Spec => []DeviceWithinBudget
<1>1. IInv => DeviceWithinBudget
  <2> SUFFICES ASSUME IInv PROVE DeviceWithinBudget
    OBVIOUS
  <2>1. Charged \in SUBSET Matrices /\ OnDevice \in SUBSET Charged
    BY DEF Charged, OnDevice
  <2>2. Footprint(OnDevice) <= Footprint(Charged)
    BY <2>1, SubsetFootprint
  <2> QED
    BY <2>2 DEF IInv, Accounting, DeviceWithinBudget
<1> QED
  BY Invariance, <1>1, PTL

\* Bytes are added by whole sets: a step that raises the counter charges all
\* the matrices of one call.
THEOREM WholeSetsCorrect == Spec => WholeSets
<1> DEFINE Whole(t) == /\ pc[t] = "cas" /\ pc'[t] = "upload"
                       /\ Charged' \ Charged = batch[t]
                       /\ batch'[t] = batch[t]
<1>1. ASSUME IInv, [Next]_vars, reserved_bytes' > reserved_bytes
      PROVE  \E t \in Threads : Whole(t)
  <2>1. CASE Charged' = Charged /\ reserved_bytes' = reserved_bytes
    BY <1>1, <2>1, FootprintAssumption DEF IInv, TypeOK
  <2>2. ASSUME NEW t \in Threads, Reserve(t), Charged \cap batch[t] = {},
               Charged' = Charged \cup batch[t]
        PROVE  Whole(t)
    BY <1>1, <2>2 DEF Reserve, IInv, TypeOK
  <2>3. ASSUME NEW m \in Matrices, DropReservation(m), m \in Charged,
               Charged' = Charged \ {m}
        PROVE  FALSE
    <3>1. Charged \in SUBSET Matrices /\ Charged \ {m} \in SUBSET Matrices
      BY DEF Charged
    <3>2. /\ Footprint(Charged) = Footprint(Charged \ {m}) + Bytes[m]
          /\ Footprint(Charged \ {m}) \in Nat
      BY <2>3, <3>1, RemoveFootprint, FootprintType
    <3>3. Bytes[m] \in Nat
      BY FootprintAssumption
    <3>4. Bytes[m] <= reserved_bytes
      BY <1>1, <3>2, <3>3 DEF IInv, Accounting
    <3>5. reserved_bytes' = reserved_bytes - Bytes[m]
      BY <2>3, <3>4 DEF DropReservation, FetchSub
    <3> QED
      BY <1>1, <3>3, <3>5, FootprintAssumption DEF IInv, TypeOK
  <2> QED
    BY <1>1, <2>1, <2>2, <2>3, ChargedStep
<1>2. IInv /\ [Next]_vars =>
        [reserved_bytes' > reserved_bytes => \E t \in Threads : Whole(t)]_vars
  BY <1>1
<1> QED
  BY Invariance, <1>2, PTL DEF Spec, WholeSets

-----------------------------------------------------------------------------
(* The retry loop implements ResidencyBudget. *)

\* Initially no set is charged and no call is running.
LEMMA InitBudget == Init => Budget!Init
<1> SUFFICES ASSUME Init PROVE Budget!Init
  OBVIOUS
<1>1. Charged = {}
  BY DEF Init, Charged
<1>2. Calls = [t \in Threads |-> Budget!NoCall]
  BY DEF Init, Calls, CallState, Budget!NoCall
<1> QED
  BY <1>1, <1>2 DEF Budget!Init

\* The value a call just read decides it as the abstract budget does.
LEMMA FitsExactly ==
  ASSUME IInv, NEW t \in Threads, Charged \cap batch[t] = {},
         NEW n, n = reserved_bytes
  PROVE  Footprint(Charged \cup batch[t]) > MaxBytes
           <=> ~(/\ n + Footprint(batch[t]) < U64
                 /\ n + Footprint(batch[t]) <= MaxBytes)
<1>1. Charged \in SUBSET Matrices /\ batch[t] \in SUBSET Matrices
  BY DEF Charged, IInv, TypeOK
<1>2. Footprint(Charged \cup batch[t]) = reserved_bytes + Footprint(batch[t])
  BY <1>1, DisjointFootprint DEF IInv, Accounting
<1>3. Footprint(batch[t]) \in Nat
  BY <1>1, FootprintType
<1> QED
  BY <1>2, <1>3, ResidencyAssumption, FootprintAssumption DEF IInv, TypeOK


\* A step that decides nothing and charges nothing is a stutter.
LEMMA StutterStep ==
  ASSUME IInv, batch' = batch, Charged' = Charged,
         \A t \in Threads : CallState(t)' = CallState(t)
  PROVE  UNCHANGED Budget!vars
BY DEF Budget!vars, Calls

\* Every step of the retry loop, the uploads and the destructors is a step
\* of the abstract budget or a stutter.
LEMMA SimulationStep ==
  ASSUME IInv, IInv', [Next]_vars
  PROVE  [Budget!Next]_(Budget!vars)
<1> DEFINE Simulated == [Budget!Next]_(Budget!vars)
<1> USE DEF IInv, TypeOK, Status, Holdings
<1>1. ASSUME NEW t \in Threads, NEW S \in SUBSET Matrices, Begin(t, S)
      PROVE  Simulated
  <2>1. Calls[t] = Budget!NoCall
    BY <1>1 DEF Begin, Calls, CallState, Budget!NoCall
  <2>2. S \cap Charged = {} /\ Charged' = Charged
    BY <1>1 DEF Begin, StatusOf, Charged
  <2>3. \A u \in Threads : S \cap Calls[u].set = {}
    BY <1>1 DEF Begin, Calls
  <2>4. Calls' = [Calls EXCEPT ![t] = [state |-> "pending", set |-> S]]
    BY <1>1 DEF Begin, Calls, CallState, Fits
  <2>5. Budget!Ask(t, S)
    BY <1>1, <2>1, <2>2, <2>3, <2>4 DEF Budget!Ask, Begin
  <2> QED
    BY <2>5 DEF Budget!Next
<1>2. ASSUME NEW t \in Threads, Load(t) PROVE Simulated
  <2>1. Charged' = Charged /\ batch' = batch
    BY <1>2 DEF Load, Charged
  <2>2. Charged \cap batch[t] = {}
    BY <1>2 DEF Load, Charged
  <2>3. Calls[t].state = "pending" /\ Calls[t].set = batch[t]
    BY <1>2 DEF Load, Calls, CallState
  <2>4. Footprint(Charged \cup batch[t]) > MaxBytes <=> ~Fits(t)'
    BY <1>2, <2>2, FitsExactly DEF Load, Fits
  <2>5. \A u \in Threads \ {t} : CallState(u)' = CallState(u)
    BY <1>2 DEF Load, CallState, Fits
  <2>6. CASE Fits(t)'
    <3>1. CallState(t)' = CallState(t)
      BY <1>2, <2>6 DEF Load, CallState
    <3> QED
      BY <2>1, <2>5, <3>1, StutterStep
  <2>7. CASE ~Fits(t)'
    <3>1. CallState(t)' = "rejected"
      BY <1>2, <2>7 DEF Load, CallState
    <3>2. Calls' = [Calls EXCEPT ![t].state = "rejected"]
      BY <2>1, <2>5, <3>1 DEF Calls
    <3>3. Budget!Reject(t)
      BY <2>1, <2>3, <2>4, <2>7, <3>2 DEF Budget!Reject
    <3> QED
      BY <3>3 DEF Budget!Next
  <2> QED
    BY <2>6, <2>7
<1>3. ASSUME NEW t \in Threads, Exhausted(t) PROVE Simulated
  <2>1. Charged' = Charged
    BY <1>3 DEF Exhausted, StatusOf, Charged
  <2>2. Calls[t].state = "rejected"
    BY <1>3 DEF Exhausted, Calls, CallState
  <2>3. Calls' = [Calls EXCEPT ![t] = Budget!NoCall]
    BY <1>3 DEF Exhausted, Calls, CallState, Fits, Budget!NoCall
  <2>4. Budget!Return(t)
    BY <2>1, <2>2, <2>3 DEF Budget!Return
  <2> QED
    BY <2>4 DEF Budget!Next
<1>4. ASSUME NEW t \in Threads, Reserve(t) PROVE Simulated
  <2>1. Charged \cap batch[t] = {} /\ Charged' = Charged \cup batch[t]
    BY <1>4 DEF Reserve, StatusOf, Charged
  <2>2. Calls[t].state = "pending" /\ Calls[t].set = batch[t]
    BY <1>4 DEF Reserve, Calls, CallState
  <2>3. Calls' = [Calls EXCEPT ![t].state = "granted"]
    BY <1>4 DEF Reserve, Calls, CallState, Fits
  <2>4. Footprint(Charged \cup batch[t]) \in Nat
    <3>1. Charged \cup batch[t] \in SUBSET Matrices
      BY DEF Charged
    <3> QED
      BY <3>1, FootprintType
  <2>5. Footprint(Charged \cup batch[t]) <= MaxBytes
    BY <1>4, <2>1, <2>4, FitsExactly, ResidencyAssumption
       DEF Reserve, Fits, CasSucceeds
  <2>6. Budget!Grant(t)
    BY <2>1, <2>2, <2>3, <2>5 DEF Budget!Grant
  <2> QED
    BY <2>6 DEF Budget!Next
<1>5. ASSUME NEW t \in Threads, Retry(t) PROVE Simulated
  <2>1. Charged' = Charged /\ batch' = batch
    BY <1>5 DEF Retry, Charged
  <2>2. Charged \cap batch[t] = {}
    BY <1>5 DEF Retry, Charged
  <2>3. Calls[t].state = "pending" /\ Calls[t].set = batch[t]
    BY <1>5 DEF Retry, Calls, CallState
  <2>4. Footprint(Charged \cup batch[t]) > MaxBytes <=> ~Fits(t)'
    BY <1>5, <2>2, FitsExactly DEF Retry, Fits
  <2>5. \A u \in Threads \ {t} : CallState(u)' = CallState(u)
    BY <1>5 DEF Retry, CallState, Fits
  <2>6. CASE Fits(t)'
    <3>1. CallState(t)' = CallState(t)
      BY <1>5, <2>6 DEF Retry, CallState
    <3> QED
      BY <2>1, <2>5, <3>1, StutterStep
  <2>7. CASE ~Fits(t)'
    <3>1. CallState(t)' = "rejected"
      BY <1>5, <2>7 DEF Retry, CallState
    <3>2. Calls' = [Calls EXCEPT ![t].state = "rejected"]
      BY <2>1, <2>5, <3>1 DEF Calls
    <3>3. Budget!Reject(t)
      BY <2>1, <2>3, <2>4, <2>7, <3>2 DEF Budget!Reject
    <3> QED
      BY <3>3 DEF Budget!Next
  <2> QED
    BY <2>6, <2>7
<1>6. ASSUME NEW t \in Threads, NEW m \in Matrices, Upload(t, m)
      PROVE  Simulated
  BY <1>6, StutterStep DEF Upload, Charged, CallState, Fits
<1>7. ASSUME NEW t \in Threads, NEW m \in Matrices, UploadFails(t, m)
      PROVE  Simulated
  <2>1. Charged' = Charged
    BY <1>7 DEF UploadFails, Unreached, Charged
  <2>2. Calls[t].state = "granted"
    BY <1>7 DEF UploadFails, Calls, CallState
  <2>3. Calls' = [Calls EXCEPT ![t].set = @ \ Unreached(t, m)]
    BY <1>7 DEF UploadFails, Calls, CallState, Fits
  <2>4. Unreached(t, m) \in SUBSET Matrices
    BY DEF Unreached
  <2>5. Budget!Abandon(t, Unreached(t, m))
    BY <2>1, <2>2, <2>3 DEF Budget!Abandon
  <2> QED
    BY <2>4, <2>5 DEF Budget!Next
<1>8. ASSUME NEW t \in Threads, Return(t) PROVE Simulated
  <2>1. Charged' = Charged
    BY <1>8 DEF Return, StatusOf, Charged
  <2>2. Calls[t].state = "granted"
    BY <1>8 DEF Return, Calls, CallState
  <2>3. Calls' = [Calls EXCEPT ![t] = Budget!NoCall]
    BY <1>8 DEF Return, Calls, CallState, Fits, Budget!NoCall
  <2>4. Budget!Return(t)
    BY <2>1, <2>2, <2>3 DEF Budget!Return
  <2> QED
    BY <2>4 DEF Budget!Next
<1>9. ASSUME NEW t \in Threads, ReturnError(t) PROVE Simulated
  <2>1. Charged' = Charged
    BY <1>9 DEF ReturnError, Charged
  <2>2. Calls[t].state = "granted"
    BY <1>9 DEF ReturnError, Calls, CallState
  <2>3. Calls' = [Calls EXCEPT ![t] = Budget!NoCall]
    BY <1>9 DEF ReturnError, Calls, CallState, Fits, Budget!NoCall
  <2>4. Budget!Return(t)
    BY <2>1, <2>2, <2>3 DEF Budget!Return
  <2> QED
    BY <2>4 DEF Budget!Next
<1>10. ASSUME NEW m \in Matrices, Clone(m) PROVE Simulated
  BY <1>10, StutterStep DEF Clone, Charged, CallState, Fits
<1>11. ASSUME NEW m \in Matrices, DropHandle(m) PROVE Simulated
  BY <1>11, StutterStep DEF DropHandle, Charged, CallState, Fits
<1>12. ASSUME NEW m \in Matrices, DropBuffer(m) PROVE Simulated
  BY <1>12, StutterStep DEF DropBuffer, Charged, CallState, Fits
<1>13. ASSUME NEW m \in Matrices, DropReservation(m) PROVE Simulated
  <2>1. m \in Charged /\ Charged' = Charged \ {m}
    BY <1>13 DEF DropReservation, Charged
  <2>2. \A t \in Threads : batch'[t] = batch[t] \ {m}
    BY <1>13 DEF DropReservation
  <2>3. \A t \in Threads : pc[t] = "cas" => batch'[t] = batch[t]
    BY <1>13 DEF DropReservation
  <2>4. \A t \in Threads : CallState(t)' = CallState(t)
    BY <1>13, <2>3 DEF DropReservation, CallState, Fits
  <2>5. Calls' = [t \in Threads |-> [Calls[t] EXCEPT !.set = @ \ {m}]]
    BY <2>2, <2>4 DEF Calls
  <2>6. Budget!Release(m)
    BY <2>1, <2>5 DEF Budget!Release
  <2> QED
    BY <2>6 DEF Budget!Next
<1>14. CASE UNCHANGED vars
  BY <1>14, StutterStep DEF vars, Charged, CallState, Fits
<1> QED
  BY <1>1, <1>2, <1>3, <1>4, <1>5, <1>6, <1>7, <1>8, <1>9, <1>10, <1>11,
     <1>12, <1>13, <1>14 DEF Next, CallStep, Destructor

\* The compare-and-swap loop, with its stale reads and its destructors running
\* beside it, implements the budget that decides every call in one step.
THEOREM Refinement == Spec => ImplementsBudget
<1>1. IInv /\ IInv' /\ [Next]_vars => [Budget!Next]_(Budget!vars)
  BY SimulationStep
<1> QED
  BY Invariance, InitBudget, <1>1, PTL DEF Spec, ImplementsBudget, Budget!Spec

=============================================================================
