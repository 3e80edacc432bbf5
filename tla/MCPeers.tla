------------------------------- MODULE MCPeers -------------------------------
(* Peers with matrices of their own under the same identifiers, who name     *)
(* known identifiers and others, with queries for their own matrices and for *)
(* a stranger's.                                                             *)
EXTENDS Peers, TLC

CONSTANTS c1, c2, m1, m2, m3

\* One peer uploads a smaller or a larger set, the other one of its own.
MCOffers == [c \in Conns |-> IF c = c1 THEN {{m1}, {m1, m2}} ELSE {{m3}}]

MCBytes == m1 :> 1 @@ m2 :> 2 @@ m3 :> 1

MCPlace == m1 :> 1 @@ m2 :> 2 @@ m3 :> 1

\* One matrix, two, one under another's identifier, one identifier twice.
MCEvaluations ==
  { {<<1, m1>>}, {<<1, m1>>, <<2, m2>>}, {<<1, m2>>}, {<<1, m1>>, <<1, m2>>} }

\* The queries of both peers under the one identifier.
MCStrangers == { {<<1, m1>>}, {<<1, m3>>} }

=============================================================================
