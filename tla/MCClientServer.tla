--------------------------- MODULE MCClientServer ---------------------------
(* One client of a server with just the room for its set.                   *)
EXTENDS ClientServer, TLC

CONSTANTS c1, m1, m2

MCSets == c1 :> {m1, m2}

MCBytes == m1 :> 2 @@ m2 :> 1

MCPlace == m1 :> 1 @@ m2 :> 2

=============================================================================
