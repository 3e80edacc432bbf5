------------------------------ MODULE QueryIds ------------------------------
(***************************************************************************)
(* One-time randomness of the protocol (emvp/src/protocol.rs, prf.rs): the *)
(* query identifiers a DerivedState hands out, the latch that lets it      *)
(* encrypt once, and the seed slots both are expanded from, over crashes   *)
(* and restarts of the process that keeps what the documentation tells the *)
(* caller to keep.                                                         *)
(*                                                                         *)
(* All randomness is a function of the key, the instance and an index, so  *)
(* that what matters is what an index is used for: a query is its instance,*)
(* identifier and plaintext vector, a ciphertext its instance and          *)
(* plaintext matrix.  Equal ones are the same bytes; two different ones    *)
(* with the same randomness reveal their difference.  Calls that fail      *)
(* before they change anything (a wrong length, an exhausted counter, a    *)
(* second encryption) are stuttering steps.                                *)
(***************************************************************************)
EXTENDS Integers

CONSTANTS
  Instances,     \* matrix instances, each of a nonce of its own
  Plaintexts,    \* what is encrypted: matrices and query vectors
  Blocks,        \* mask blocks of an instance
  WindowWords,   \* words of one purpose in the stream of the PRF, 2^32
  U64,           \* 2^64
  MaxBatch       \* bound: queries of one batch

VARIABLES
  alive,         \* the instances with a DerivedState in the process
  next,          \* next[i]: DerivedState::next_query_index
  encrypted,     \* encrypted[i]: DerivedState::encrypted
  tokens,        \* QueryReservations nobody consumed
  held,          \* queries (with their decoding keys) still in the process
  released,      \* queries and keys that left it
  ciphertexts,   \* encrypted matrices that left it
  derived,       \* the instances that exist
  recorded,      \* the instances the caller persisted
  durable        \* durable[i]: the next_query_index it persisted

process == <<alive, next, encrypted, tokens, held>>
world == <<released, ciphertexts, derived, recorded, durable>>
vars == <<process, world>>

SLOT_WORDS == 8

\* Mutant of MAX_INDEX: one slot too many.
MAX_INDEX_OffByOne == WindowWords \div SLOT_WORDS

MAX_INDEX == WindowWords \div SLOT_WORDS - 1

ASSUME QueryIdsAssumption ==
  /\ WindowWords \in Nat /\ WindowWords >= SLOT_WORDS
  /\ U64 \in Nat /\ U64 > MAX_INDEX + 1
  /\ Blocks \in Nat \ {0}
  /\ MaxBatch \in Nat \ {0}

Indices == 0 .. MAX_INDEX

Init ==
  /\ alive = {}
  /\ next = [i \in Instances |-> 0]
  /\ encrypted = [i \in Instances |-> FALSE]
  /\ tokens = {}
  /\ held = {}
  /\ released = {}
  /\ ciphertexts = {}
  /\ derived = {}
  /\ recorded = {}
  /\ durable = [i \in Instances |-> 0]

-----------------------------------------------------------------------------
(* SecretKey::derive and SecretKey::restore *)

Derive(i) ==
  /\ i \notin derived          \* the nonce is fresh
  /\ Blocks - 1 \in Indices
  /\ derived' = derived \cup {i}
  /\ alive' = alive \cup {i}
  /\ next' = [next EXCEPT ![i] = 0]
  /\ encrypted' = [encrypted EXCEPT ![i] = FALSE]
  /\ UNCHANGED <<tokens, held, released, ciphertexts, recorded, durable>>

\* Mutant of Restore: the latch is not set.
RestoreUnlatched(i) ==
  /\ i \in recorded \ alive
  /\ alive' = alive \cup {i}
  /\ next' = [next EXCEPT ![i] = durable[i]]
  /\ encrypted' = [encrypted EXCEPT ![i] = FALSE]
  /\ UNCHANGED <<tokens, held, world>>

\* Whether the matrix was encrypted before is not recorded: it counts as so.
Restore(i) ==
  /\ i \in recorded \ alive
  /\ alive' = alive \cup {i}
  /\ next' = [next EXCEPT ![i] = durable[i]]
  /\ encrypted' = [encrypted EXCEPT ![i] = TRUE]
  /\ UNCHANGED <<tokens, held, world>>

-----------------------------------------------------------------------------
(* encrypt: the latch is set when the ciphertext exists. *)

Encrypt(i, matrix) ==
  /\ i \in alive
  /\ ~encrypted[i]
  /\ encrypted' = [encrypted EXCEPT ![i] = TRUE]
  /\ ciphertexts' = ciphertexts \cup {[instance |-> i, matrix |-> matrix]}
  /\ UNCHANGED <<alive, next, tokens, held, released, derived, recorded, durable>>

-----------------------------------------------------------------------------
(* reserve_query_ids, and the queries made of reservations *)

\* Mutant of Reserves: the addition wraps.
ReservesWrapping(i, count) ==
  LET end == (next[i] + count) % U64
  IN  /\ i \in alive
      /\ count > 0 => end - 1 \in Indices
      /\ next' = [next EXCEPT ![i] = end]

\* The identifiers next[i] .. next[i] + count - 1 are taken.
Reserves(i, count) ==
  LET end == next[i] + count
  IN  /\ i \in alive
      /\ end < U64
      /\ count > 0 => end - 1 \in Indices
      /\ next' = [next EXCEPT ![i] = end]

Taken(i, count) == next[i] .. (next[i] + count - 1)

\* A query as query_core makes it.  saved: the counter was persisted since.
Made(i, id, vector) ==
  [instance |-> i, id |-> id, vector |-> vector, saved |-> FALSE]

Reserve(i, count) ==
  /\ Reserves(i, count)
  /\ tokens' = tokens \cup { [instance |-> i, id |-> id] : id \in Taken(i, count) }
  /\ UNCHANGED <<alive, encrypted, held, world>>

\* query: a failure of query_core leaves the identifier spent.
Query(i, vector) ==
  /\ Reserves(i, 1)
  /\ held' = held \cup {Made(i, next[i], vector)} \/ UNCHANGED held
  /\ UNCHANGED <<alive, encrypted, tokens, world>>

\* query_batch: if one query fails, none is returned and all are spent.
QueryBatch(i) ==
  \E count \in 1 .. MaxBatch :
    /\ Reserves(i, count)
    /\ \/ \E vectors \in [Taken(i, count) -> Plaintexts] :
            held' = held \cup { Made(i, id, vectors[id]) : id \in Taken(i, count) }
       \/ UNCHANGED held
    /\ UNCHANGED <<alive, encrypted, tokens, world>>

\* Mutant of QueryWithScratch: the reservation of another instance is taken.
QueryWithAnyScratch(i, token, vector) ==
  /\ i \in alive
  /\ token \in tokens
  /\ tokens' = tokens \ {token}
  /\ held' = held \cup {Made(i, token.id, vector)}
  /\ UNCHANGED <<alive, next, encrypted, world>>

\* query_with_scratch consumes the reservation, also when it fails.
QueryWithScratch(i, token, vector) ==
  /\ i \in alive
  /\ token \in tokens
  /\ tokens' = tokens \ {token}
  /\ \/ token.instance = i /\ held' = held \cup {Made(i, token.id, vector)}
     \/ UNCHANGED held
  /\ UNCHANGED <<alive, next, encrypted, world>>

-----------------------------------------------------------------------------
(* The caller, who follows the documentation: the nonce and the counter are *)
(* persisted before a query leaves the process.  It may keep what is left.  *)

Persist(i) ==
  /\ i \in alive
  /\ recorded' = recorded \cup {i}
  /\ durable' = [durable EXCEPT ![i] = next[i]]
  /\ held' = { [query EXCEPT !.saved = @ \/ query.instance = i] : query \in held }
  /\ UNCHANGED <<alive, next, encrypted, tokens, released, ciphertexts, derived>>

Release(query) ==
  /\ query \in held
  /\ query.saved
  /\ held' = held \ {query}
  /\ released' = released \cup
       {[instance |-> query.instance, id |-> query.id, vector |-> query.vector]}
  /\ UNCHANGED <<alive, next, encrypted, tokens, ciphertexts, derived, recorded, durable>>

Crash ==
  /\ alive' = {}
  /\ tokens' = {}
  /\ held' = {}
  /\ UNCHANGED <<next, encrypted, world>>

Next ==
  \/ \E i \in Instances :
       \/ Derive(i)
       \/ Restore(i)
       \/ \E matrix \in Plaintexts : Encrypt(i, matrix)
       \/ \E count \in 0 .. (U64 - 1) : Reserve(i, count)
       \/ \E vector \in Plaintexts : Query(i, vector)
       \/ QueryBatch(i)
       \/ \E token \in tokens, vector \in Plaintexts : QueryWithScratch(i, token, vector)
       \/ Persist(i)
  \/ \E query \in held : Release(query)
  \/ Crash

Spec == Init /\ [][Next]_vars

-----------------------------------------------------------------------------
Tokens == [instance : Instances, id : Indices]
Queries == [instance : Instances, id : Indices, vector : Plaintexts]
HeldQueries ==
  [instance : Instances, id : Indices, vector : Plaintexts, saved : BOOLEAN]
Ciphertexts == [instance : Instances, matrix : Plaintexts]

TypeOK ==
  /\ alive \subseteq derived
  /\ derived \subseteq Instances
  /\ recorded \subseteq derived
  /\ next \in [Instances -> 0 .. (MAX_INDEX + 1)]
  /\ durable \in [Instances -> 0 .. (MAX_INDEX + 1)]
  /\ encrypted \in [Instances -> BOOLEAN]
  /\ tokens \subseteq Tokens
  /\ held \subseteq HeldQueries
  /\ released \subseteq Queries
  /\ ciphertexts \subseteq Ciphertexts

\* Two queries draw from the same randomness.
SamePad(one, other) == one.instance = other.instance /\ one.id = other.id

\* The randomness of an identifier hides one vector: a query that left the
\* process, in this life or an earlier one, shares its identifier with no
\* query of another vector, left or still held, so that the answer to one is
\* never decoded with the key of another.
PadsUsedOnce ==
  \A one \in released : \A other \in released \cup held :
    SamePad(one, other) => one.vector = other.vector

\* The mask of an instance hides one matrix, also after a restart.
MaskUsedOnce ==
  \A one, other \in ciphertexts : one.instance = other.instance => one = other

\* The words of the PRF stream a seed is read from (Prf::stream), by purpose.
QUERY_NONZERO == 4
QUERY_CODEWORD == 5
INSTANCE_ID == 6
Slot(purpose, index) ==
  LET first == purpose * WindowWords + index * SLOT_WORDS
  IN  first .. (first + SLOT_WORDS - 1)

\* No two seeds of an instance overlap: neither those of two queries, nor the
\* scalars of one query with the codeword of another or the identifier of the
\* instance, however far the counter runs.
SeedsApart ==
  LET ids(i) == { query.id : query \in { q \in held \cup released : q.instance = i } }
      seeds(i) == ({QUERY_NONZERO, QUERY_CODEWORD} \X ids(i)) \cup {<<INSTANCE_ID, 0>>}
  IN  \A i \in Instances : \A one, other \in seeds(i) :
        one # other => Slot(one[1], one[2]) \cap Slot(other[1], other[2]) = {}

=============================================================================
