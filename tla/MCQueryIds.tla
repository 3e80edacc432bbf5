----------------------------- MODULE MCQueryIds -----------------------------
(* Two instances of two queries each.                                       *)
EXTENDS QueryIds, TLC

MCSymmetry == Permutations(Instances) \cup Permutations(Plaintexts)

=============================================================================
