--------------------------- MODULE QueryIdsProofs ---------------------------
(***************************************************************************)
(* That no randomness of the protocol is used twice, for any instances,    *)
(* any window of the PRF and any history of crashes and restarts.          *)
(***************************************************************************)
EXTENDS QueryIds, TLAPS

\* Counters run ahead: of everything in the process the one in memory, of
\* everything that left or may leave the persisted one, and that one never
\* ahead of the one in memory.
Ahead ==
  /\ \A token \in tokens : token.instance \in alive /\ token.id < next[token.instance]
  /\ \A query \in held :
       /\ query.instance \in alive /\ query.id < next[query.instance]
       /\ query.saved => query.instance \in recorded /\ query.id < durable[query.instance]
  /\ \A query \in released : query.instance \in recorded /\ query.id < durable[query.instance]
  /\ \A i \in alive \cap recorded : durable[i] <= next[i]

\* Every identifier is in one place: an unused reservation, a query in the
\* process, or one that left.
Apart ==
  /\ \A token \in tokens : \A query \in held \cup released : ~SamePad(token, query)
  /\ \A one \in held : \A other \in released : ~SamePad(one, other)
  /\ \A one, other \in held : SamePad(one, other) => one = other
  /\ \A one, other \in released : SamePad(one, other) => one = other

\* A state whose matrix was encrypted, in whatever life, has its latch set.
Latched ==
  /\ MaskUsedOnce
  /\ \A c \in ciphertexts :
       c.instance \in derived /\ (c.instance \in alive => encrypted[c.instance])

IInv == TypeOK /\ Ahead /\ Apart /\ Latched

-----------------------------------------------------------------------------
(* The slots of a window end where the window ends. *)
LEMMA WindowHoldsSlots ==
  /\ MAX_INDEX \in Nat
  /\ MAX_INDEX * 8 + 8 <= WindowWords
  BY QueryIdsAssumption DEF QueryIdsAssumption, MAX_INDEX, SLOT_WORDS

(* What reserve_query_ids may return: within the window, and no further than *)
(* the counter moves.                                                        *)
LEMMA Reserved ==
  ASSUME TypeOK, NEW i \in Instances, NEW count \in Nat, Reserves(i, count)
  PROVE  /\ i \in alive
         /\ next[i] + count \in 0 .. (MAX_INDEX + 1)
         /\ next' = [next EXCEPT ![i] = next[i] + count]
         /\ \A id \in Taken(i, count) :
              id \in Indices /\ next[i] <= id /\ id < next[i] + count
  BY WindowHoldsSlots DEF TypeOK, Reserves, Taken, Indices

\* What query and query_batch do: the counter moves on, and every query made
\* has an identifier it passed, each its own.
LEMMA QueriesMade ==
  ASSUME TypeOK, NEW i \in Instances,
         QueryBatch(i) \/ \E vector \in Plaintexts : Query(i, vector)
  PROVE  /\ i \in alive
         /\ next' \in [Instances -> 0 .. (MAX_INDEX + 1)]
         /\ next' = [next EXCEPT ![i] = next'[i]]
         /\ next[i] <= next'[i]
         /\ held \subseteq held'
         /\ \A made \in held' \ held :
              /\ made \in HeldQueries
              /\ made.instance = i
              /\ made.saved = FALSE
              /\ next[i] <= made.id /\ made.id < next'[i]
         /\ \A one, other \in held' \ held : one.id = other.id => one = other
         /\ UNCHANGED <<alive, encrypted, tokens, world>>
<1>1. ASSUME NEW count \in Nat,
             Reserves(i, count),
             \/ \E vectors \in [Taken(i, count) -> Plaintexts] :
                  held' = held \cup { Made(i, id, vectors[id]) : id \in Taken(i, count) }
             \/ UNCHANGED held,
             UNCHANGED <<alive, encrypted, tokens, world>>
      PROVE  /\ i \in alive
             /\ next' \in [Instances -> 0 .. (MAX_INDEX + 1)]
             /\ next' = [next EXCEPT ![i] = next'[i]]
             /\ next[i] <= next'[i]
             /\ held \subseteq held'
             /\ \A made \in held' \ held :
                  /\ made \in HeldQueries
                  /\ made.instance = i
                  /\ made.saved = FALSE
                  /\ next[i] <= made.id /\ made.id < next'[i]
             /\ \A one, other \in held' \ held : one.id = other.id => one = other
  <2>1. /\ i \in alive
        /\ next[i] + count \in 0 .. (MAX_INDEX + 1)
        /\ next' = [next EXCEPT ![i] = next[i] + count]
        /\ \A id \in Taken(i, count) :
             id \in Indices /\ next[i] <= id /\ id < next[i] + count
    BY <1>1, Reserved
  <2>2. next \in [Instances -> 0 .. (MAX_INDEX + 1)]
    BY DEF TypeOK
  <2>3. next'[i] = next[i] + count /\ next[i] \in Nat
    BY <2>1, <2>2, WindowHoldsSlots
  <2>4. CASE UNCHANGED held
    BY <2>1, <2>2, <2>3, <2>4, WindowHoldsSlots
  <2>5. ASSUME NEW vectors \in [Taken(i, count) -> Plaintexts],
               held' = held \cup { Made(i, id, vectors[id]) : id \in Taken(i, count) }
        PROVE  /\ held \subseteq held'
               /\ \A made \in held' \ held :
                    /\ made \in HeldQueries
                    /\ made.instance = i
                    /\ made.saved = FALSE
                    /\ next[i] <= made.id /\ made.id < next'[i]
               /\ \A one, other \in held' \ held : one.id = other.id => one = other
    <3>1. \A made \in held' \ held :
            \E id \in Taken(i, count) : made = Made(i, id, vectors[id])
      BY <2>5
    <3>2. ASSUME NEW made \in held' \ held
          PROVE  /\ made \in HeldQueries
                 /\ made.instance = i
                 /\ made.saved = FALSE
                 /\ next[i] <= made.id /\ made.id < next'[i]
      <4>1. PICK id \in Taken(i, count) : made = Made(i, id, vectors[id])
        BY <3>1
      <4>2. id \in Indices /\ next[i] <= id /\ id < next[i] + count
        BY <2>1
      <4>3. vectors[id] \in Plaintexts
        OBVIOUS
      <4> QED
        BY <2>3, <4>1, <4>2, <4>3 DEF Made, HeldQueries
    <3>3. \A id, jd : Made(i, id, vectors[id]).id = Made(i, jd, vectors[jd]).id => id = jd
      BY DEF Made
    <3>4. \A one, other \in held' \ held : one.id = other.id => one = other
      BY <3>1, <3>3
    <3>5. held \subseteq held'
      BY <2>5
    <3> QED
      BY <3>2, <3>4, <3>5
  <2>6. /\ i \in alive
        /\ next' \in [Instances -> 0 .. (MAX_INDEX + 1)]
        /\ next' = [next EXCEPT ![i] = next'[i]]
        /\ next[i] <= next'[i]
    BY <2>1, <2>2, <2>3, WindowHoldsSlots
  <2> QED
    BY <1>1, <2>4, <2>5, <2>6
<1>2. CASE QueryBatch(i)
  <2>1. PICK count \in 1 .. MaxBatch :
          /\ Reserves(i, count)
          /\ \/ \E vectors \in [Taken(i, count) -> Plaintexts] :
                  held' = held \cup { Made(i, id, vectors[id]) : id \in Taken(i, count) }
             \/ UNCHANGED held
          /\ UNCHANGED <<alive, encrypted, tokens, world>>
    BY <1>2 DEF QueryBatch
  <2>2. count \in Nat
    BY QueryIdsAssumption DEF QueryIdsAssumption
  <2> QED
    BY <1>1, <2>1, <2>2
<1>3. ASSUME NEW vector \in Plaintexts, Query(i, vector) PROVE QueryBatch(i)
  <2>1. 1 \in 1 .. MaxBatch
    BY QueryIdsAssumption DEF QueryIdsAssumption
  <2>2. Taken(i, 1) = {next[i]}
    BY WindowHoldsSlots DEF TypeOK, Taken
  <2> DEFINE vectors == [id \in Taken(i, 1) |-> vector]
  <2>3. vectors \in [Taken(i, 1) -> Plaintexts]
    OBVIOUS
  <2>4. { Made(i, id, vectors[id]) : id \in Taken(i, 1) } = {Made(i, next[i], vector)}
    BY <2>2
  <2>5. /\ Reserves(i, 1)
        /\ \/ held' = held \cup { Made(i, id, vectors[id]) : id \in Taken(i, 1) }
           \/ UNCHANGED held
        /\ UNCHANGED <<alive, encrypted, tokens, world>>
    BY <1>3, <2>4 DEF Query
  <2> HIDE DEF vectors
  <2>6. \/ \E v \in [Taken(i, 1) -> Plaintexts] :
             held' = held \cup { Made(i, id, v[id]) : id \in Taken(i, 1) }
        \/ UNCHANGED held
    BY <2>3, <2>5
  <2> QED
    BY <2>1, <2>5, <2>6 DEF QueryBatch
<1> QED
  BY <1>2, <1>3

\* What reserve_query_ids does: tokens for the identifiers it passes.
LEMMA ReservationsTaken ==
  ASSUME TypeOK, NEW i \in Instances, NEW count \in 0 .. (U64 - 1), Reserve(i, count)
  PROVE  /\ i \in alive
         /\ next' \in [Instances -> 0 .. (MAX_INDEX + 1)]
         /\ next' = [next EXCEPT ![i] = next'[i]]
         /\ next[i] <= next'[i]
         /\ tokens \subseteq tokens'
         /\ \A token \in tokens' \ tokens :
              /\ token \in Tokens
              /\ token.instance = i
              /\ next[i] <= token.id /\ token.id < next'[i]
         /\ UNCHANGED <<alive, encrypted, held, world>>
<1>1. Reserves(i, count) /\ count \in Nat
  BY DEF Reserve
<1>2. /\ i \in alive
      /\ next[i] + count \in 0 .. (MAX_INDEX + 1)
      /\ next' = [next EXCEPT ![i] = next[i] + count]
      /\ \A id \in Taken(i, count) :
           id \in Indices /\ next[i] <= id /\ id < next[i] + count
  BY <1>1, Reserved
<1>3. next \in [Instances -> 0 .. (MAX_INDEX + 1)]
  BY DEF TypeOK
<1>4. /\ next' \in [Instances -> 0 .. (MAX_INDEX + 1)]
      /\ next'[i] = next[i] + count
      /\ next[i] \in Nat
  BY <1>2, <1>3, WindowHoldsSlots
<1>5. ASSUME NEW token \in tokens' \ tokens
      PROVE  /\ token \in Tokens
             /\ token.instance = i
             /\ next[i] <= token.id /\ token.id < next'[i]
  <2>1. PICK id \in Taken(i, count) : token = [instance |-> i, id |-> id]
    BY DEF Reserve
  <2> QED
    BY <1>2, <1>4, <2>1 DEF Tokens
<1>6. /\ tokens \subseteq tokens'
      /\ UNCHANGED <<alive, encrypted, held, world>>
  BY DEF Reserve
<1> QED
  BY <1>1, <1>2, <1>4, <1>5, <1>6

\* Every step keeps the types, the range of the counters among them.
LEMMA TypeStep == IInv /\ [Next]_vars => TypeOK'
<1> SUFFICES ASSUME IInv, [Next]_vars PROVE TypeOK'
  OBVIOUS
<1> USE DEF IInv, TypeOK, Tokens, Queries, HeldQueries, Ciphertexts
<1>1. ASSUME NEW i \in Instances, Derive(i) PROVE TypeOK'
  BY <1>1, WindowHoldsSlots DEF Derive
<1>2. ASSUME NEW i \in Instances, Restore(i) PROVE TypeOK'
  BY <1>2 DEF Restore, world
<1>3. ASSUME NEW i \in Instances, NEW matrix \in Plaintexts, Encrypt(i, matrix)
      PROVE  TypeOK'
  BY <1>3 DEF Encrypt
<1>4. ASSUME NEW i \in Instances, NEW count \in 0 .. (U64 - 1), Reserve(i, count)
      PROVE  TypeOK'
  BY <1>4, ReservationsTaken DEF world
<1>5. ASSUME NEW i \in Instances, QueryBatch(i) \/ \E vector \in Plaintexts : Query(i, vector)
      PROVE  TypeOK'
  BY <1>5, QueriesMade DEF world
<1>6. ASSUME NEW i \in Instances, NEW token \in tokens, NEW vector \in Plaintexts,
             QueryWithScratch(i, token, vector)
      PROVE  TypeOK'
  <2>1. held' = held \/ (token.instance = i /\ held' = held \cup {Made(i, token.id, vector)})
    BY <1>6 DEF QueryWithScratch
  <2>2. /\ i \in alive
        /\ tokens' = tokens \ {token}
        /\ UNCHANGED <<alive, next, encrypted, world>>
    BY <1>6 DEF QueryWithScratch
  <2>3. CASE held' = held
    BY <2>2, <2>3 DEF world
  <2>4. CASE token.instance = i /\ held' = held \cup {Made(i, token.id, vector)}
    <3>1. Made(i, token.id, vector) \in HeldQueries
      BY DEF Made
    <3> QED
      BY <2>2, <2>4, <3>1 DEF world
  <2> QED
    BY <2>1, <2>3, <2>4
<1>7. ASSUME NEW i \in Instances, Persist(i) PROVE TypeOK'
  BY <1>7 DEF Persist
<1>8. ASSUME NEW query \in held, Release(query) PROVE TypeOK'
  BY <1>8 DEF Release
<1>9. CASE Crash
  BY <1>9 DEF Crash, world
<1>10. CASE UNCHANGED vars
  BY <1>10 DEF vars, process, world
<1> QED
  BY <1>1, <1>2, <1>3, <1>4, <1>5, <1>6, <1>7, <1>8, <1>9, <1>10 DEF Next

\* No step lets something into the world that the record does not cover.
LEMMA AheadStep == IInv /\ [Next]_vars => Ahead'
<1> SUFFICES ASSUME IInv, [Next]_vars PROVE Ahead'
  OBVIOUS
<1> USE DEF IInv, TypeOK, Tokens, Queries, HeldQueries, Ahead, Indices
<1>1. ASSUME NEW i \in Instances, Derive(i) PROVE Ahead'
  BY <1>1 DEF Derive
<1>2. ASSUME NEW i \in Instances, Restore(i) PROVE Ahead'
  BY <1>2 DEF Restore, world
<1>3. ASSUME NEW i \in Instances, NEW matrix \in Plaintexts, Encrypt(i, matrix)
      PROVE  Ahead'
  BY <1>3 DEF Encrypt
<1>4. ASSUME NEW i \in Instances, NEW count \in 0 .. (U64 - 1), Reserve(i, count)
      PROVE  Ahead'
  BY <1>4, ReservationsTaken DEF world
<1>5. ASSUME NEW i \in Instances, QueryBatch(i) \/ \E vector \in Plaintexts : Query(i, vector)
      PROVE  Ahead'
  <2>1. /\ i \in alive
        /\ next' \in [Instances -> 0 .. (MAX_INDEX + 1)]
        /\ next' = [next EXCEPT ![i] = next'[i]]
        /\ next[i] <= next'[i]
        /\ held \subseteq held'
        /\ \A made \in held' \ held :
             /\ made \in HeldQueries
             /\ made.instance = i
             /\ made.saved = FALSE
             /\ next[i] <= made.id /\ made.id < next'[i]
        /\ \A one, other \in held' \ held : one.id = other.id => one = other
        /\ UNCHANGED <<alive, encrypted, tokens, world>>
    BY <1>5, QueriesMade
  <2> QED
    BY <2>1 DEF world
<1>6. ASSUME NEW i \in Instances, NEW token \in tokens, NEW vector \in Plaintexts,
             QueryWithScratch(i, token, vector)
      PROVE  Ahead'
  <2>1. held' = held \/ (token.instance = i /\ held' = held \cup {Made(i, token.id, vector)})
    BY <1>6 DEF QueryWithScratch
  <2>2. /\ i \in alive
        /\ tokens' = tokens \ {token}
        /\ UNCHANGED <<alive, next, encrypted, world>>
    BY <1>6 DEF QueryWithScratch
  <2>3. CASE held' = held
    BY <2>2, <2>3 DEF world
  <2>4. CASE token.instance = i /\ held' = held \cup {Made(i, token.id, vector)}
    BY <2>2, <2>4 DEF Made, world
  <2> QED
    BY <2>1, <2>3, <2>4
<1>7. ASSUME NEW i \in Instances, Persist(i) PROVE Ahead'
  BY <1>7 DEF Persist
<1>8. ASSUME NEW query \in held, Release(query) PROVE Ahead'
  BY <1>8 DEF Release
<1>9. CASE Crash
  BY <1>9 DEF Crash, world
<1>10. CASE UNCHANGED vars
  BY <1>10 DEF vars, process, world
<1> QED
  BY <1>1, <1>2, <1>3, <1>4, <1>5, <1>6, <1>7, <1>8, <1>9, <1>10 DEF Next

\* No step puts an identifier in two places.
LEMMA ApartStep == IInv /\ [Next]_vars => Apart'
<1> SUFFICES ASSUME IInv, [Next]_vars PROVE Apart'
  OBVIOUS
<1> USE DEF IInv, TypeOK, Tokens, Queries, HeldQueries, Ahead, Apart, SamePad, Indices
<1>1. ASSUME NEW i \in Instances, Derive(i) PROVE Apart'
  BY <1>1 DEF Derive
<1>2. ASSUME NEW i \in Instances, Restore(i) PROVE Apart'
  BY <1>2 DEF Restore, world
<1>3. ASSUME NEW i \in Instances, NEW matrix \in Plaintexts, Encrypt(i, matrix)
      PROVE  Apart'
  BY <1>3 DEF Encrypt
<1>4. ASSUME NEW i \in Instances, NEW count \in 0 .. (U64 - 1), Reserve(i, count)
      PROVE  Apart'
  BY <1>4, ReservationsTaken DEF world
<1>5. ASSUME NEW i \in Instances, QueryBatch(i) \/ \E vector \in Plaintexts : Query(i, vector)
      PROVE  Apart'
  <2>1. /\ i \in alive
        /\ next' \in [Instances -> 0 .. (MAX_INDEX + 1)]
        /\ next' = [next EXCEPT ![i] = next'[i]]
        /\ next[i] <= next'[i]
        /\ held \subseteq held'
        /\ \A made \in held' \ held :
             /\ made \in HeldQueries
             /\ made.instance = i
             /\ made.saved = FALSE
             /\ next[i] <= made.id /\ made.id < next'[i]
        /\ \A one, other \in held' \ held : one.id = other.id => one = other
        /\ UNCHANGED <<alive, encrypted, tokens, world>>
    BY <1>5, QueriesMade
  <2> QED
    BY <2>1 DEF world
<1>6. ASSUME NEW i \in Instances, NEW token \in tokens, NEW vector \in Plaintexts,
             QueryWithScratch(i, token, vector)
      PROVE  Apart'
  <2>1. held' = held \/ (token.instance = i /\ held' = held \cup {Made(i, token.id, vector)})
    BY <1>6 DEF QueryWithScratch
  <2>2. /\ i \in alive
        /\ tokens' = tokens \ {token}
        /\ UNCHANGED <<alive, next, encrypted, world>>
    BY <1>6 DEF QueryWithScratch
  <2>3. CASE held' = held
    BY <2>2, <2>3 DEF world
  <2>4. CASE token.instance = i /\ held' = held \cup {Made(i, token.id, vector)}
    <3> DEFINE made == Made(i, token.id, vector)
    <3>1. made.instance = token.instance /\ made.id = token.id
      BY <2>4 DEF Made
    <3>2. \A other \in tokens : SamePad(other, token) => other = token
      <4>1. token \in Tokens /\ tokens \subseteq Tokens
        OBVIOUS
      <4> QED
        BY <4>1 DEF Tokens
    <3>3. \A other \in held \cup released : ~SamePad(made, other) /\ ~SamePad(other, made)
      BY <3>1
    <3>4. \A other \in tokens' : ~SamePad(other, made)
      BY <2>2, <3>1, <3>2
    <3> HIDE DEF made
    <3>5. held' = held \cup {made} /\ released' = released /\ tokens' \subseteq tokens
      BY <2>2, <2>4 DEF made, world
    <3>6. \A other \in tokens' : \A query \in held' \cup released' : ~SamePad(other, query)
      BY <3>4, <3>5
    <3>7. \A one \in held' : \A other \in released' : ~SamePad(one, other)
      BY <3>3, <3>5
    <3>8. \A one, other \in held' : SamePad(one, other) => one = other
      BY <3>3, <3>5
    <3> QED
      BY <3>5, <3>6, <3>7, <3>8
  <2> QED
    BY <2>1, <2>3, <2>4
<1>7. ASSUME NEW i \in Instances, Persist(i) PROVE Apart'
  BY <1>7 DEF Persist
<1>8. ASSUME NEW query \in held, Release(query) PROVE Apart'
  BY <1>8 DEF Release
<1>9. CASE Crash
  BY <1>9 DEF Crash, world
<1>10. CASE UNCHANGED vars
  BY <1>10 DEF vars, process, world
<1> QED
  BY <1>1, <1>2, <1>3, <1>4, <1>5, <1>6, <1>7, <1>8, <1>9, <1>10 DEF Next

\* No step encrypts a second time.
LEMMA LatchedStep == IInv /\ [Next]_vars => Latched'
<1> SUFFICES ASSUME IInv, [Next]_vars PROVE Latched'
  OBVIOUS
<1> USE DEF IInv, TypeOK, Ciphertexts, Latched, MaskUsedOnce
<1>1. ASSUME NEW i \in Instances, Derive(i) PROVE Latched'
  BY <1>1 DEF Derive
<1>2. ASSUME NEW i \in Instances, Restore(i) PROVE Latched'
  BY <1>2 DEF Restore, world
<1>3. ASSUME NEW i \in Instances, NEW matrix \in Plaintexts, Encrypt(i, matrix)
      PROVE  Latched'
  BY <1>3 DEF Encrypt
<1>4. ASSUME NEW i \in Instances, NEW count \in 0 .. (U64 - 1), Reserve(i, count)
      PROVE  Latched'
  BY <1>4, ReservationsTaken DEF world
<1>5. ASSUME NEW i \in Instances, QueryBatch(i) \/ \E vector \in Plaintexts : Query(i, vector)
      PROVE  Latched'
  <2>1. /\ i \in alive
        /\ next' \in [Instances -> 0 .. (MAX_INDEX + 1)]
        /\ next' = [next EXCEPT ![i] = next'[i]]
        /\ next[i] <= next'[i]
        /\ held \subseteq held'
        /\ \A made \in held' \ held :
             /\ made \in HeldQueries
             /\ made.instance = i
             /\ made.saved = FALSE
             /\ next[i] <= made.id /\ made.id < next'[i]
        /\ \A one, other \in held' \ held : one.id = other.id => one = other
        /\ UNCHANGED <<alive, encrypted, tokens, world>>
    BY <1>5, QueriesMade
  <2> QED
    BY <2>1 DEF world
<1>6. ASSUME NEW i \in Instances, NEW token \in tokens, NEW vector \in Plaintexts,
             QueryWithScratch(i, token, vector)
      PROVE  Latched'
  BY <1>6 DEF QueryWithScratch, Made, world
<1>7. ASSUME NEW i \in Instances, Persist(i) PROVE Latched'
  BY <1>7 DEF Persist
<1>8. ASSUME NEW query \in held, Release(query) PROVE Latched'
  BY <1>8 DEF Release
<1>9. CASE Crash
  BY <1>9 DEF Crash, world
<1>10. CASE UNCHANGED vars
  BY <1>10 DEF vars, process, world
<1> QED
  BY <1>1, <1>2, <1>3, <1>4, <1>5, <1>6, <1>7, <1>8, <1>9, <1>10 DEF Next

-----------------------------------------------------------------------------
LEMMA InitIInv == Init => IInv
  BY WindowHoldsSlots
  DEF Init, IInv, TypeOK, Ahead, Apart, Latched, MaskUsedOnce

(* The inductive invariant holds always. *)
THEOREM PadsInvariance == Spec => []IInv
<1>1. IInv /\ [Next]_vars => IInv'
  BY TypeStep, AheadStep, ApartStep, LatchedStep DEF IInv
<1> QED
  BY <1>1, InitIInv, PTL DEF Spec

(* The randomness of a query identifier hides one vector for ever. *)
THEOREM PadsCorrect == Spec => []PadsUsedOnce
<1>1. IInv => PadsUsedOnce
  BY DEF IInv, Apart, PadsUsedOnce, SamePad
<1> QED
  BY <1>1, PadsInvariance, PTL

(* The mask of an instance hides one matrix for ever. *)
THEOREM MaskCorrect == Spec => []MaskUsedOnce
<1>1. IInv => MaskUsedOnce
  BY DEF IInv, Latched
<1> QED
  BY <1>1, PadsInvariance, PTL

(* Two slots overlap only if they are one. *)
LEMMA SlotsApart ==
  ASSUME NEW p \in {QUERY_NONZERO, QUERY_CODEWORD, INSTANCE_ID},
         NEW q \in {QUERY_NONZERO, QUERY_CODEWORD, INSTANCE_ID},
         NEW a \in Indices, NEW b \in Indices, <<p, a>> # <<q, b>>
  PROVE  Slot(p, a) \cap Slot(q, b) = {}
<1> DEFINE first(r, c) == r * WindowWords + c * SLOT_WORDS
<1>1. p # q \/ a # b
  OBVIOUS
<1>2. \/ first(p, a) + SLOT_WORDS <= first(q, b)
      \/ first(q, b) + SLOT_WORDS <= first(p, a)
  BY <1>1, WindowHoldsSlots, QueryIdsAssumption
  DEF QueryIdsAssumption, Indices, SLOT_WORDS, QUERY_NONZERO, QUERY_CODEWORD, INSTANCE_ID
<1>3. first(p, a) \in Int /\ first(q, b) \in Int
  BY WindowHoldsSlots, QueryIdsAssumption
  DEF QueryIdsAssumption, Indices, SLOT_WORDS, QUERY_NONZERO, QUERY_CODEWORD, INSTANCE_ID
<1> HIDE DEF first
<1>4. /\ Slot(p, a) = first(p, a) .. (first(p, a) + SLOT_WORDS - 1)
      /\ Slot(q, b) = first(q, b) .. (first(q, b) + SLOT_WORDS - 1)
  BY DEF Slot, first
<1> QED
  BY <1>2, <1>3, <1>4 DEF SLOT_WORDS

(* The seeds of an instance are read from different words of the stream. *)
THEOREM SeedsCorrect == Spec => []SeedsApart
<1>1. TypeOK => SeedsApart
  <2>1. 0 \in Indices
    BY WindowHoldsSlots DEF Indices
  <2> QED
    BY <2>1, SlotsApart DEF TypeOK, SeedsApart, HeldQueries, Queries
<1> QED
  BY <1>1, PadsInvariance, PTL DEF IInv

=============================================================================
