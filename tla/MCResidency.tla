----------------------------- MODULE MCResidency -----------------------------
(* Small instances of Residency for TLC: the matrices and their charges.    *)
EXTENDS Residency, TLC

CONSTANTS m1, m2, m3

\* With a budget of 4 and a u64 of 8 values: m1 alone and {m2, m3} fit exactly,
\* m1 with another exceeds the budget, all three overflow the u64.
MCBytes == m1 :> 4 @@ m2 :> 2 @@ m3 :> 2

=============================================================================
