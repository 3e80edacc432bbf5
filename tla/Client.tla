------------------------------- MODULE Client -------------------------------
(***************************************************************************)
(* The client program: client/src/session.rs, run(), one run per           *)
(* connection.  It shakes hands, uploads its set once, evaluates once and  *)
(* verifies what it gets; each request is written whole before its answer  *)
(* is read.  When run() returns the stream is dropped.                     *)
(*                                                                         *)
(* Deriving and encrypting happen before the first write and decoding      *)
(* after the last read: their failures end the run without the network.    *)
(***************************************************************************)
EXTENDS Wire

CONSTANT Sets   \* Sets[c]: the matrices the client of connection c uploads

\* check_rows: a run has something to upload.  The matrices are its own.
ASSUME ClientAssumption ==
  /\ \A c \in Conns : Sets[c] # {}
  /\ \A c, d \in Conns : c # d => Sets[c] \cap Sets[d] = {}

VARIABLES
  stage,     \* stage[c]: how far run() got
  unsent,    \* unsent[c]: the tokens of the request still to write
  unread,    \* unread[c]: FrameReader::remaining of the answer, in tokens
  answer,    \* answer[c]: the header of the answer being read
  ids,       \* ids[c]: matrix_ids, an identifier for each of its matrices
  outcome    \* outcome[c]: what run() returned, "none" while it runs

client == <<stage, unsent, unread, answer, ids, outcome>>

Outcomes == {"none", "verified", "rejected", "server", "shape", "closed", "codec", "memory",
             "crashed"}

NoAnswer == [part |-> "none", kind |-> "none"]

ClientHello == <<[part |-> "hello", content |-> "good"]>>

\* Mutant of ClientRequest: the payload is one token short.
ClientRequestShort(kind, set, entries) ==
  SubSeq(Frame([part |-> "header", kind |-> kind, content |-> "good", set |-> set,
                entries |-> entries]), 1, Parts)

ClientRequest(kind, set, entries) ==
  Frame([part |-> "header", kind |-> kind, content |-> "good", set |-> set,
         entries |-> entries])

ClientInit ==
  /\ stage = [c \in Conns |-> "hello"]
  /\ unsent = [c \in Conns |-> ClientHello]
  /\ unread = [c \in Conns |-> 0]
  /\ answer = [c \in Conns |-> NoAnswer]
  /\ ids = [c \in Conns |-> {}]
  /\ outcome = [c \in Conns |-> "none"]

Running(c) == outcome[c] = "none"

Returns(c, o) == outcome' = [outcome EXCEPT ![c] = o]

\* write_client_hello, write_upload_matrices, write_evaluate
Send(c) ==
  /\ Running(c)
  /\ unsent[c] # <<>>
  /\ \/ /\ Sends(c, "client", Head(unsent[c]))
        /\ unsent' = [unsent EXCEPT ![c] = Tail(@)]
        /\ UNCHANGED outcome
     \/ /\ SendFails(c)
        /\ Returns(c, "codec")
        /\ UNCHANGED <<net, unsent>>
  /\ UNCHANGED <<stage, unread, answer, ids>>

\* read_server_hello
ReadStatus(c) ==
  /\ Running(c)
  /\ stage[c] = "hello"
  /\ unsent[c] = <<>>
  /\ \/ /\ \E ok \in BOOLEAN :
             /\ Receives(c, "client", [part |-> "status", ok |-> ok])
             /\ \/ /\ ok
                   /\ stage' = [stage EXCEPT ![c] = "upload"]
                   /\ unsent' = [unsent EXCEPT ![c] = ClientRequest("UploadMatrices", Sets[c], {})]
                   /\ UNCHANGED outcome
                \/ /\ ~ok
                   /\ Returns(c, "rejected")
                   /\ UNCHANGED <<stage, unsent>>
     \/ /\ EndOfStream(c, "client") \/ ReadFails(c)
        /\ Returns(c, "codec")
        /\ UNCHANGED <<net, stage, unsent>>
  /\ UNCHANGED <<unread, answer, ids>>

\* The header of an upload or evaluation answer.
Expects(c) == IF stage[c] = "upload" THEN "UploadAccepted" ELSE "Products"

ReadAnswer(c) ==
  /\ Running(c)
  /\ stage[c] \in {"upload", "evaluate"}
  /\ unsent[c] = <<>>
  /\ unread[c] = 0
  /\ answer[c] = NoAnswer
  /\ \/ /\ Unread(c, "client") # <<>>
        /\ LET header == Head(Unread(c, "client"))
           IN  /\ Receives(c, "client", header)
               /\ answer' = [answer EXCEPT ![c] = header]
               /\ \/ /\ header.part = "header"
                     /\ header.kind \in {Expects(c), "Error"}
                     /\ unread' = [unread EXCEPT ![c] = Parts]
                     /\ UNCHANGED outcome
                  \/ /\ header.part # "header" \/ header.kind \notin {Expects(c), "Error"}
                     /\ Returns(c, "shape")
                     /\ UNCHANGED unread
     \/ /\ EndOfStream(c, "client")
        /\ Returns(c, "closed")
        /\ UNCHANGED <<net, unread, answer>>
     \/ /\ ReadFails(c)
        /\ Returns(c, "codec")
        /\ UNCHANGED <<net, unread, answer>>
  /\ UNCHANGED <<stage, unsent, ids>>

\* The payload: read and decoded, or cut off.
ReadAnswerPart(c) ==
  /\ Running(c)
  /\ unread[c] > 0
  /\ \/ /\ Receives(c, "client", Payload)
        /\ unread' = [unread EXCEPT ![c] = @ - 1]
        /\ UNCHANGED outcome
     \/ /\ EndOfStream(c, "client") \/ ReadFails(c)
        /\ Returns(c, "codec")
        /\ UNCHANGED <<net, unread>>
  /\ UNCHANGED <<stage, unsent, answer, ids>>

\* The workspace the answer is decoded into refuses to grow.
AllocationFails(c) ==
  /\ Running(c)
  /\ unread[c] > 0
  /\ Returns(c, "memory")
  /\ UNCHANGED <<net, stage, unsent, unread, answer, ids>>

\* validate_upload_reply: an identifier for each matrix, none zero, none twice.
Acknowledges(c, entries) ==
  /\ { e[2] : e \in entries } = Sets[c]
  /\ \A e \in entries : e[1] # 0
  /\ \A e, f \in entries : e[1] = f[1] => e = f

\* The answer is about this set: verify_products goes through its entries in
\* the order of the request.
AboutSet(c) ==
  IF answer[c].kind = "UploadAccepted" THEN Acknowledges(c, answer[c].entries)
                                       ELSE answer[c].entries = ids[c]

UseAnswer(c) ==
  /\ Running(c)
  /\ answer[c] # NoAnswer
  /\ unread[c] = 0
  /\ \/ /\ answer[c].kind = "Error"
        /\ Returns(c, "server")
        /\ UNCHANGED <<stage, unsent, answer, ids>>
     \/ /\ answer[c].kind # "Error"
        /\ ~AboutSet(c)
        /\ Returns(c, "shape")
        /\ UNCHANGED <<stage, unsent, answer, ids>>
     \/ /\ answer[c].kind = "UploadAccepted"
        /\ AboutSet(c)
        /\ stage' = [stage EXCEPT ![c] = "evaluate"]
        /\ unsent' = [unsent EXCEPT ![c] = ClientRequest("Evaluate", {}, answer[c].entries)]
        /\ answer' = [answer EXCEPT ![c] = NoAnswer]
        /\ ids' = [ids EXCEPT ![c] = answer[c].entries]
        /\ UNCHANGED outcome
     \/ /\ answer[c].kind = "Products"
        /\ AboutSet(c)
        /\ Returns(c, "verified")
        /\ UNCHANGED <<stage, unsent, answer, ids>>
  /\ UNCHANGED <<net, unread>>

Hangup(c) ==
  /\ ~Running(c)
  /\ net[c].open["client"]
  /\ Closes(c, "client")
  /\ UNCHANGED client

\* The process is killed between any two steps; its socket closes.
Crash(c) ==
  /\ Running(c)
  /\ Returns(c, "crashed")
  /\ UNCHANGED <<net, stage, unsent, unread, answer, ids>>

ClientStep(c) ==
  \/ Send(c) \/ ReadStatus(c) \/ ReadAnswer(c) \/ ReadAnswerPart(c)
  \/ AllocationFails(c) \/ UseAnswer(c) \/ Hangup(c)

=============================================================================
