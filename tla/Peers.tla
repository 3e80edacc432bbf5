-------------------------------- MODULE Peers --------------------------------
(***************************************************************************)
(* The server against peers that frame correctly and otherwise send what   *)
(* they like, as the server's own tests do: a hello of any kind, then      *)
(* frames of any kind with payloads that decode or do not, before or after *)
(* the answers to the last ones were read, closed at any token.            *)
(***************************************************************************)
EXTENDS Server

CONSTANTS
  MaxFrames,   \* bound: the frames a peer begins
  Offers,      \* Offers[c]: the sets the peer of c uploads
  Evaluations, \* bound: the evaluations peers ask, sets of entries
  Hellos,      \* bound: the hellos peers say
  Contents,    \* bound: the payloads of their uploads and evaluations
  Misfits      \* bound: the other kinds they send

\* An upload makes matrices of its own: two connections share none.
ASSUME PeersAssumption ==
  /\ MaxFrames \in Nat
  /\ Offers \in [Conns -> SUBSET (SUBSET Matrices)]
  /\ \A c \in Conns : \A set \in Offers[c] : Placed(set)
  /\ \A c, d \in Conns : c # d => (UNION Offers[c]) \cap (UNION Offers[d]) = {}
  /\ Evaluations \subseteq SUBSET ((Nat \ {0}) \X Matrices)
  /\ Hellos \subseteq {"good", "foreign", "magic"}
  /\ Contents \subseteq {"good", "malformed", "invalid"}
  /\ Misfits \subseteq Kinds \ {"UploadMatrices", "Evaluate"}

VARIABLES
  greeted,   \* greeted[c]: the hello is written
  owed,      \* owed[c]: the payload tokens of the current frame to write
  asked,     \* asked[c]: frames begun
  heard      \* heard[c]: answers whose header was read

peer == <<greeted, owed, asked, heard>>
vars == <<net, server, peer>>

Init ==
  /\ NetInit
  /\ ServerInit
  /\ greeted = [c \in Conns |-> FALSE]
  /\ owed = [c \in Conns |-> 0]
  /\ asked = [c \in Conns |-> 0]
  /\ heard = [c \in Conns |-> 0]

Greet(c) ==
  /\ net[c].open["client"]
  /\ ~greeted[c]
  /\ \E content \in Hellos : Sends(c, "client", Hello(content))
  /\ greeted' = [greeted EXCEPT ![c] = TRUE]
  /\ UNCHANGED <<owed, asked, heard>>

\* Only the two client kinds have contents the server looks at.  An upload
\* offers a set of the peer's own; an evaluation may name any identifiers, with
\* queries encrypted for any matrices.
Requests(c) ==
  { Request("UploadMatrices", content, set, {}) : content \in Contents, set \in Offers[c] }
  \cup { Request("Evaluate", content, {}, entries) :
           content \in Contents, entries \in Evaluations }
  \cup { Request(kind, "good", {}, {}) : kind \in Misfits }

Ask(c) ==
  /\ net[c].open["client"]
  /\ greeted[c]
  /\ owed[c] = 0
  /\ asked[c] < MaxFrames
  /\ \E header \in Requests(c) : Sends(c, "client", header)
  /\ owed' = [owed EXCEPT ![c] = Parts]
  /\ asked' = [asked EXCEPT ![c] = @ + 1]
  /\ UNCHANGED <<greeted, heard>>

Continue(c) ==
  /\ net[c].open["client"]
  /\ owed[c] > 0
  /\ Sends(c, "client", Payload)
  /\ owed' = [owed EXCEPT ![c] = @ - 1]
  /\ UNCHANGED <<greeted, asked, heard>>

Hear(c) ==
  /\ net[c].open["client"]
  /\ Unread(c, "client") # <<>>
  /\ LET token == Head(Unread(c, "client"))
     IN  /\ Receives(c, "client", token)
         /\ heard' = IF token.part = "header" THEN [heard EXCEPT ![c] = @ + 1] ELSE heard
  /\ UNCHANGED <<greeted, owed, asked>>

Leave(c) ==
  /\ net[c].open["client"]
  /\ Closes(c, "client")
  /\ UNCHANGED peer

Next ==
  \E c \in Conns :
    \/ ServerStep(c) /\ UNCHANGED peer
    \/ (Greet(c) \/ Ask(c) \/ Continue(c) \/ Hear(c) \/ Leave(c)) /\ UNCHANGED server

Spec == Init /\ [][Next]_vars

Fairness == \A c \in Conns : WF_vars(ServerStep(c) /\ UNCHANGED peer)

FairSpec == Spec /\ Fairness

-----------------------------------------------------------------------------
Headers(tokens) == Cardinality({i \in DOMAIN tokens : tokens[i].part = "header"})

\* Every frame a peer begins is, at any time, unread, being handled, being
\* answered, answered and unread, or heard: none is answered twice, and none
\* is passed over, also when a peer writes several before it reads.
AnsweredOnce ==
  \A c \in Conns :
    /\ net[c].open["client"] /\ net[c].open["server"] /\ ~net[c].reset
    => asked[c] = Headers(Unread(c, "server"))
                  + (IF pc[c] \in {"payload", "decoded", "commit"} THEN 1 ELSE 0)
                  + Headers(reply[c].tokens)
                  + Headers(Unread(c, "client"))
                  + heard[c]

\* Every session numbers its matrices from one, and a request may name any
\* number, with queries for any matrix: an answer on its way is about matrices
\* of the session it came from, each under the identifier that session gave it.
AnswersOwnSet ==
  \A c \in Conns : \A i \in DOMAIN Unread(c, "client") :
    LET token == Unread(c, "client")[i]
    IN  token.part = "header" /\ token.kind \in {"UploadAccepted", "Products"}
          => token.entries \subseteq Entries(stored[c]) \/ fate[c] # "none"

\* A session thread is held only by a peer that keeps its connection open:
\* one that left, in whatever state, is followed by the end of its session.
LeaversReleased ==
  \A c \in Conns : ~net[c].open["client"] ~> pc[c] = "closed"

=============================================================================
