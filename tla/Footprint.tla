------------------------------ MODULE Footprint ------------------------------
(***************************************************************************)
(* The device residency of a set of encrypted matrices.                    *)
(*                                                                         *)
(* emvp/src/engine.rs charges every matrix with residency_bytes(words),    *)
(* four bytes per field word, and adds the charges of a batch.  The total  *)
(* is stated here as the number of bytes owned: a byte is a pair of a      *)
(* matrix and a position, so the footprint of a set is the number of its   *)
(* bytes.  It is the sum of the charges, in a form that needs no           *)
(* recursion, which is what the proofs of ResidencyProofs rely on.         *)
(***************************************************************************)
EXTENDS Naturals, FiniteSets

CONSTANTS
  Matrices,   \* the encrypted matrices callers offer for preparation
  U64,        \* the number of values of a u64 (2^64)
  Bytes       \* Bytes[m]: residency_bytes of matrix m, a positive u64

ASSUME FootprintAssumption ==
  /\ IsFiniteSet(Matrices)
  /\ U64 \in Nat
  /\ Bytes \in [Matrices -> 1 .. (U64 - 1)]

BytesOf(S) == UNION { {m} \X (1 .. Bytes[m]) : m \in S }

Footprint(S) == Cardinality(BytesOf(S))

=============================================================================
