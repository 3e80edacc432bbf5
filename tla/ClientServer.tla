---------------------------- MODULE ClientServer ----------------------------
(***************************************************************************)
(* The client program against the server: as many runs as there are        *)
(* connections, over one engine.  Clients are killed at any step, buffers  *)
(* are refused, the device fails, and no end has room for a whole frame.   *)
(***************************************************************************)
EXTENDS Server, Client

\* What the clients upload are matrices the server accounts for.
ASSUME SetsAssumption == \A c \in Conns : Sets[c] \subseteq Matrices /\ Placed(Sets[c])

vars == <<net, server, client>>

Init == NetInit /\ ServerInit /\ ClientInit

Next ==
  \E c \in Conns :
    \/ ServerStep(c) /\ UNCHANGED client
    \/ ClientStep(c) /\ UNCHANGED server
    \/ Crash(c) /\ UNCHANGED server

Spec == Init /\ [][Next]_vars

\* Both programs are threads the operating system keeps running; nobody owes
\* a crash.
Fairness ==
  \A c \in Conns :
    /\ WF_vars(ServerStep(c) /\ UNCHANGED client)
    /\ WF_vars(ClientStep(c) /\ UNCHANGED server)

FairSpec == Spec /\ Fairness

-----------------------------------------------------------------------------
(* The client program as one of the peers of Peers: which of its hello and   *)
(* frames are begun, how much of the last one is still to write, and how     *)
(* many answers it read the header of, all follow from where its run is.     *)

Greeted(c) == unsent[c] # ClientHello

Owed(c) ==
  IF unsent[c] # <<>> /\ Head(unsent[c]).part = "payload" THEN Len(unsent[c]) ELSE 0

\* The frame of this stage is begun.
Begun(c) == IF Len(unsent[c]) = Parts + 1 THEN 0 ELSE 1

Asked(c) ==
  CASE stage[c] = "hello"    -> 0
    [] stage[c] = "upload"   -> Begun(c)
    [] stage[c] = "evaluate" -> 1 + Begun(c)

Heard(c) ==
  (IF stage[c] = "evaluate" THEN 1 ELSE 0) + (IF answer[c].part = "header" THEN 1 ELSE 0)

P == INSTANCE Peers WITH
  MaxFrames   <- 2,
  Offers      <- [c \in Conns |-> {Sets[c]}],
  Evaluations <- { Entries(Sets[c]) : c \in Conns },
  Hellos      <- {"good"},
  Contents    <- {"good"},
  Misfits     <- {},
  greeted     <- [c \in Conns |-> Greeted(c)],
  owed        <- [c \in Conns |-> Owed(c)],
  asked       <- [c \in Conns |-> Asked(c)],
  heard       <- [c \in Conns |-> Heard(c)]

-----------------------------------------------------------------------------
ClientTypeOK ==
  /\ stage \in [Conns -> {"hello", "upload", "evaluate"}]
  /\ unread \in [Conns -> 0 .. Parts]
  /\ outcome \in [Conns -> Outcomes]
  /\ \A c \in Conns :
       /\ Len(unsent[c]) <= Parts + 1
       /\ answer[c].part \in {"none", "status", "header", "payload"}

TypeOK == ServerTypeOK /\ ClientTypeOK

\* The two programs agree on the protocol.  A run never gets an answer it did
\* not ask for, is never turned away for what it said, and never finds the
\* stream closed in place of an answer; if it loses the answer to a reset, the
\* server had run out of memory inside the request.
Understood ==
  \A c \in Conns :
    /\ outcome[c] \notin {"shape", "rejected", "closed"}
    /\ outcome[c] = "server" =>
         answer[c].code \in {"UploadFailed", "GpuFailure", "AllocationFailed"}
    /\ outcome[c] = "codec" => fate[c] = "transport"

\* "a failure releases the whole reservation [...] and the connection closes
\* so the client can retry with a fresh session": a client that reads the
\* refusal of its upload finds its bytes back in the budget, before the old
\* session is gone.  (A device failure leaks, see Residency.)
RefusedMayRetry ==
  \A c \in Conns :
    /\ answer[c].kind = "Error"
    /\ answer[c].code = "UploadFailed"
    /\ fate[c] # "upload"
    => Sets[c] \cap charged = {}

\* Whatever a client does until it is killed, it frames correctly: it is one of
\* the peers of Peers, that says hello once, writes an upload of its own set
\* and an evaluation, each to its end before the next, and reads what comes.
\* What Peers shows of the server holds beside every client program.
ImplementsPeers == P!Spec

\* However short the buffers, nobody waits for ever: a run returns, with its
\* answers verified or with an error.
RunsReturn == \A c \in Conns : <>(~net[c].open["client"])

=============================================================================
