--------------------------- MODULE ResidencyBudget ---------------------------
(***************************************************************************)
(* What AnswerEngine::prepare_batch promises about the residency budget    *)
(* (emvp/src/engine.rs, the documentation of prepare_batch): concurrent    *)
(* callers observe each set as all-or-nothing, a set either fits entirely  *)
(* alongside every set charged before it or is rejected whole, and the     *)
(* charged sets never exceed the budget.                                   *)
(*                                                                         *)
(* There is no counter here and no retry loop: a call is decided in one    *)
(* step, against the sets charged at that instant.                         *)
(***************************************************************************)
EXTENDS Naturals

CONSTANTS
  Matrices,       \* the encrypted matrices callers offer for preparation
  Footprint(_),   \* the bytes a set of matrices is charged with
  Threads,        \* the callers of prepare_batch
  MaxBytes        \* the residency budget of the engine

VARIABLES
  charged,    \* the matrices whose bytes count against the budget
  call        \* call[t]: the state of t's call and the set it asks for

vars == <<charged, call>>

NoCall == [state |-> "none", set |-> {}]

Init ==
  /\ charged = {}
  /\ call = [t \in Threads |-> NoCall]

\* A caller asks for a set of matrices nobody else is asking for.
Ask(t, S) ==
  /\ call[t] = NoCall
  /\ S # {}
  /\ S \cap charged = {}
  /\ \A u \in Threads : S \cap call[u].set = {}
  /\ call' = [call EXCEPT ![t] = [state |-> "pending", set |-> S]]
  /\ UNCHANGED charged

\* The whole set is charged because it fits beside everything charged.
Grant(t) ==
  /\ call[t].state = "pending"
  /\ Footprint(charged \cup call[t].set) <= MaxBytes
  /\ charged' = charged \cup call[t].set
  /\ call' = [call EXCEPT ![t].state = "granted"]

\* The whole set is rejected because it does not fit.
Reject(t) ==
  /\ call[t].state = "pending"
  /\ Footprint(charged \cup call[t].set) > MaxBytes
  /\ call' = [call EXCEPT ![t].state = "rejected"]
  /\ UNCHANGED charged

\* A decided call gives up matrices of its set: a failed upload abandons
\* those behind it, a failed call releases the others one by one.
Abandon(t, S) ==
  /\ call[t].state = "granted"
  /\ call' = [call EXCEPT ![t].set = @ \ S]
  /\ UNCHANGED charged

Return(t) ==
  /\ call[t].state \in {"granted", "rejected"}
  /\ call' = [call EXCEPT ![t] = NoCall]
  /\ UNCHANGED charged

\* The bytes of one matrix are given back; no call asks for it any more.
Release(m) ==
  /\ m \in charged
  /\ charged' = charged \ {m}
  /\ call' = [t \in Threads |-> [call[t] EXCEPT !.set = @ \ {m}]]

Next ==
  \/ \E t \in Threads : \/ \E S \in SUBSET Matrices : Ask(t, S) \/ Abandon(t, S)
                        \/ Grant(t)
                        \/ Reject(t)
                        \/ Return(t)
  \/ \E m \in Matrices : Release(m)

Spec == Init /\ [][Next]_vars

=============================================================================
