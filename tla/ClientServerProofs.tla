------------------------- MODULE ClientServerProofs -------------------------
(***************************************************************************)
(* The client program and the server, for any number of connections, any   *)
(* sets, any budget and any frame length.                                  *)
(*                                                                         *)
(* A client is one of the peers of Peers, so the session invariants of     *)
(* PeersProofs hold beside it; they come through the instance Q.  On top   *)
(* of them, as long as a run has not returned, it and its session thread   *)
(* go through the exchange in step: LockStep says where the two are and    *)
(* what is under way between them.                                         *)
(***************************************************************************)
EXTENDS ClientServer, TLAPS

\* Peers and what is proved about it, under the mapping of ClientServer.
Q == INSTANCE PeersProofs WITH
  MaxFrames   <- 2,
  Offers      <- [c \in Conns |-> {Sets[c]}],
  Evaluations <- { Entries(Sets[c]) : c \in Conns },
  Hellos      <- {"good"},
  Contents    <- {"good"},
  Misfits     <- {},
  greeted     <- [c \in Conns |-> Greeted(c)],
  owed        <- [c \in Conns |-> Owed(c)],
  asked       <- [c \in Conns |-> Asked(c)],
  heard       <- [c \in Conns |-> Heard(c)]

-----------------------------------------------------------------------------
\* The entries of a set are of its matrices, one each.
LEMMA EntriesShape ==
  ASSUME NEW set
  PROVE  /\ { e[2] : e \in Entries(set) } = set
         /\ set # {} => Entries(set) # {}
         /\ \A e \in Entries(set) : \E m \in set : e = <<Place[m], m>>
<1>1. \A e \in Entries(set) : \E m \in set : e = <<Place[m], m>>
  BY DEF Entries
<1>2. ASSUME NEW m \in set
      PROVE  m \in { e[2] : e \in Entries(set) } /\ Entries(set) # {}
  <2>1. <<Place[m], m>> \in Entries(set) /\ <<Place[m], m>>[2] = m
    BY DEF Entries
  <2> QED
    BY <2>1
<1>3. ASSUME NEW e \in Entries(set) PROVE e[2] \in set
  BY <1>1
<1> QED
  BY <1>1, <1>2, <1>3

-----------------------------------------------------------------------------
(* What the instance assumes, and that it speaks of the same program.       *)

\* The sets of the clients are what peers may offer.
LEMMA QPeersAssumption == Q!PeersAssumption
<1>1. \A c \in Conns : {Sets[c]} \in SUBSET (SUBSET Matrices)
  BY SetsAssumption
<1>2. [c \in Conns |-> {Sets[c]}] \in [Conns -> SUBSET (SUBSET Matrices)]
  BY <1>1
<1>3. \A c, d \in Conns : c # d => (UNION {Sets[c]}) \cap (UNION {Sets[d]}) = {}
  BY ClientAssumption
<1>4. \A c \in Conns : Q!Placed(Sets[c])
  BY SetsAssumption DEF Q!Placed, Placed, Q!Cardinality, Cardinality
<1>5. ASSUME NEW c \in Conns
      PROVE  Entries(Sets[c]) \subseteq (Nat \ {0}) \X Matrices
  <2>1. \A m \in Sets[c] : m \in Matrices /\ Place[m] \in Nat \ {0}
    BY SetsAssumption, ServerAssumption
  <2> QED
    BY <2>1 DEF Entries
<1> QED
  BY <1>2, <1>3, <1>4, <1>5 DEF Q!PeersAssumption

\* The other constants are the same.
LEMMA QAssumptions ==
  /\ Q!PeersAssumption /\ Q!WireAssumption /\ Q!ServerAssumption /\ Q!FootprintAssumption
BY QPeersAssumption, WireAssumption, ServerAssumption, FootprintAssumption
   DEF Q!WireAssumption, Q!ServerAssumption, Q!FootprintAssumption, Q!IsFiniteSet, IsFiniteSet

\* The tokens are the same.
LEMMA SameTokens ==
  /\ Payload = Q!Payload
  /\ \A header : Frame(header) = Q!Frame(header)
  /\ \A kind, content, set, entries :
       Request(kind, content, set, entries) = Q!Request(kind, content, set, entries)
  /\ \A kind, entries : Answer(kind, entries) = Q!Answer(kind, entries)
  /\ \A set : Entries(set) = Q!Entries(set)
  /\ \A code : ErrorFrame(code) = Q!ErrorFrame(code)
  /\ \A content : Hello(content) = Q!Hello(content)
  /\ \A ok : Status(ok) = Q!Status(ok)
BY DEF Payload, Q!Payload, Frame, Q!Frame, Request, Q!Request, Answer, Q!Answer, ErrorFrame,
       Q!ErrorFrame, Hello, Q!Hello, Status, Q!Status, Entries, Q!Entries

\* The operations of the wire are the same.
LEMMA SameWire ==
  ASSUME NEW c \in Conns, NEW s \in Sides, NEW token
  PROVE  /\ Sends(c, s, token) <=> Q!Sends(c, s, token)
         /\ Receives(c, s, token) <=> Q!Receives(c, s, token)
         /\ Closes(c, s) <=> Q!Closes(c, s)
         /\ Unread(c, s) = Q!Unread(c, s)
BY DEF Sends, Q!Sends, Receives, Q!Receives, Closes, Q!Closes, Unread, Q!Unread, Other, Q!Other,
       Discarded, Q!Discarded, Sides, Q!Sides

\* The steps of the session threads are the same.
LEMMA SameServer ==
  ASSUME NEW c \in Conns
  PROVE  /\ ReadHello(c) <=> Q!ReadHello(c)
         /\ HelloFails(c) <=> Q!HelloFails(c)
         /\ ReadHeader(c) <=> Q!ReadHeader(c)
         /\ HeaderEnds(c) <=> Q!HeaderEnds(c)
         /\ ReadPart(c) <=> Q!ReadPart(c)
         /\ ReserveFails(c) <=> Q!ReserveFails(c)
         /\ PayloadEnds(c) <=> Q!PayloadEnds(c)
         /\ UploadRefused(c) <=> Q!UploadRefused(c)
         /\ ReserveSet(c) <=> Q!ReserveSet(c)
         /\ CommitSucceeds(c) <=> Q!CommitSucceeds(c)
         /\ CommitFails(c) <=> Q!CommitFails(c)
         /\ EvaluateInvalid(c) <=> Q!EvaluateInvalid(c)
         /\ EngineAnswers(c) <=> Q!EngineAnswers(c)
         /\ EngineFails(c) <=> Q!EngineFails(c)
         /\ Write(c) <=> Q!Write(c)
         /\ WriteFails(c) <=> Q!WriteFails(c)
         /\ \A m \in Matrices : DropMatrix(c, m) <=> Q!DropMatrix(c, m)
         /\ CloseStream(c) <=> Q!CloseStream(c)
         /\ ServerStep(c) <=> Q!ServerStep(c)
BY DEF ServerStep, Q!ServerStep, ReadHello, Q!ReadHello, HelloFails, Q!HelloFails,
       ReadHeader, Q!ReadHeader, HeaderEnds, Q!HeaderEnds, ReadPart, Q!ReadPart,
       ReserveFails, Q!ReserveFails, PayloadEnds, Q!PayloadEnds, UploadRefused,
       Q!UploadRefused, ReserveSet, Q!ReserveSet, CommitSucceeds, Q!CommitSucceeds,
       CommitFails, Q!CommitFails, EvaluateInvalid, Q!EvaluateInvalid, EngineAnswers,
       Q!EngineAnswers, EngineFails, Q!EngineFails, Write, Q!Write, WriteFails,
       Q!WriteFails, DropMatrix, Q!DropMatrix, CloseStream, Q!CloseStream, Replies,
       Q!Replies, Rejects, Q!Rejects, RejectsAndCloses, Q!RejectsAndCloses, Ends, Q!Ends,
       Admits, Q!Admits, Known, Q!Known, Matrix, Q!Matrix, Valid, Q!Valid, Products,
       Q!Products, Entries, Q!Entries, TakesPayload, Q!TakesPayload, Refusal, Q!Refusal,
       Request, Q!Request, Hello, Q!Hello, Status, Q!Status, Answer, Q!Answer, ErrorFrame,
       Q!ErrorFrame, NoReply, Q!NoReply, Frame, Q!Frame, Payload, Q!Payload, Unread,
       Q!Unread, Sends, Q!Sends, SendFails, Q!SendFails, Receives, Q!Receives, EndOfStream,
       Q!EndOfStream, ReadFails, Q!ReadFails, Closes, Q!Closes, Other, Q!Other, Discarded,
       Q!Discarded, Sides, Q!Sides, Footprint, Q!Footprint, BytesOf, Q!BytesOf,
       Cardinality, Q!Cardinality

\* The peers of ClientServer and of this module are the same.
LEMMA SamePeers ==
  /\ P!Init <=> Q!Init
  /\ P!Next <=> Q!Next
  /\ P!vars = Q!vars
<1>1. P!Init <=> Q!Init
  BY DEF P!Init, Q!Init, P!NetInit, Q!NetInit, P!ServerInit, Q!ServerInit, P!Connected,
         Q!Connected, P!Sides, Q!Sides, P!NoRequest, Q!NoRequest, P!Request, Q!Request,
         P!NoReply, Q!NoReply
<1>2. P!Next <=> Q!Next
  BY DEF P!Next, Q!Next, P!ServerStep, Q!ServerStep, P!ReadHello, Q!ReadHello,
         P!HelloFails, Q!HelloFails, P!ReadHeader, Q!ReadHeader, P!HeaderEnds,
         Q!HeaderEnds, P!ReadPart, Q!ReadPart, P!ReserveFails, Q!ReserveFails,
         P!PayloadEnds, Q!PayloadEnds, P!UploadRefused, Q!UploadRefused, P!ReserveSet,
         Q!ReserveSet, P!CommitSucceeds, Q!CommitSucceeds, P!CommitFails, Q!CommitFails,
         P!EvaluateInvalid, Q!EvaluateInvalid, P!EngineAnswers, Q!EngineAnswers,
         P!EngineFails, Q!EngineFails, P!Write, Q!Write, P!WriteFails, Q!WriteFails,
         P!DropMatrix, Q!DropMatrix, P!CloseStream, Q!CloseStream, P!Replies, Q!Replies,
         P!Rejects, Q!Rejects, P!RejectsAndCloses, Q!RejectsAndCloses, P!Ends, Q!Ends,
         P!Admits, Q!Admits, P!Known, Q!Known, P!Matrix, Q!Matrix, P!Valid, Q!Valid,
         P!Products, Q!Products, P!Entries, Q!Entries, P!TakesPayload, Q!TakesPayload, P!Refusal,
         Q!Refusal, P!Request, Q!Request, P!Hello, Q!Hello, P!Status, Q!Status, P!Answer,
         Q!Answer, P!ErrorFrame, Q!ErrorFrame, P!NoReply, Q!NoReply, P!Frame, Q!Frame,
         P!Payload, Q!Payload, P!Unread, Q!Unread, P!Sends, Q!Sends, P!SendFails,
         Q!SendFails, P!Receives, Q!Receives, P!EndOfStream, Q!EndOfStream, P!ReadFails,
         Q!ReadFails, P!Closes, Q!Closes, P!Other, Q!Other, P!Discarded, Q!Discarded,
         P!Sides, Q!Sides, P!Footprint, Q!Footprint, P!BytesOf, Q!BytesOf, P!Cardinality,
         Q!Cardinality, P!Greet, Q!Greet, P!Ask, Q!Ask, P!Continue, Q!Continue, P!Hear,
         Q!Hear, P!Leave, Q!Leave, P!Requests, Q!Requests, P!peer, Q!peer, P!server,
         Q!server
<1>3. P!vars = Q!vars
  BY DEF P!vars, Q!vars, P!server, Q!server, P!peer, Q!peer
<1> QED
  BY <1>1, <1>2, <1>3

-----------------------------------------------------------------------------
(* Frames, token by token.                                                  *)

\* The last k tokens of a frame.
Payloads(k) == [i \in 1 .. k |-> Payload]

\* The end of a frame is payload, as long as there is some.
LEMMA PayloadsShape ==
  ASSUME NEW k \in Nat
  PROVE  /\ Payloads(k) \in Seq({Payload}) /\ Len(Payloads(k)) = k
         /\ Payloads(k) = <<>> <=> k = 0
         /\ k # 0 => Head(Payloads(k)) = Payload /\ Tail(Payloads(k)) = Payloads(k - 1)
         /\ Payloads(k) # ClientHello
<1> DEFINE f(n) == [i \in 1 .. n |-> Payload]
<1>1. f(k) \in Seq({Payload}) /\ Len(f(k)) = k /\ \A i \in 1 .. k : f(k)[i] = Payload
  OBVIOUS
<1>2. f(k) = <<>> <=> k = 0
  BY <1>1
<1>3. ASSUME k # 0
      PROVE  Head(f(k)) = Payload /\ Tail(f(k)) = f(k - 1)
  <2>1. k - 1 \in Nat /\ 1 \in 1 .. k /\ f(k) # <<>>
    BY <1>1, <1>2, <1>3
  <2>2. f(k - 1) \in Seq({Payload}) /\ Len(f(k - 1)) = k - 1
        /\ \A i \in 1 .. (k - 1) : f(k - 1)[i] = Payload
    BY <2>1
  <2>3. /\ Tail(f(k)) \in Seq({Payload}) /\ Len(Tail(f(k))) = k - 1
        /\ \A i \in 1 .. (k - 1) : Tail(f(k))[i] = f(k)[i + 1]
    <3> HIDE DEF f
    <3> QED
      BY <1>1, <2>1
  <2>4. \A i \in 1 .. (k - 1) : Tail(f(k))[i] = f(k - 1)[i]
    <3> HIDE DEF f
    <3> QED
      BY <1>1, <2>1, <2>2, <2>3
  <2> HIDE DEF f
  <2>5. Tail(f(k)) = f(k - 1)
    BY <2>1, <2>2, <2>3, <2>4
  <2> QED
    BY <1>1, <2>1, <2>5
<1>4. f(k) # ClientHello
  <2>1. Payload.part = "payload" /\ ClientHello[1].part = "hello" /\ Len(ClientHello) = 1
    BY DEF Payload, ClientHello
  <2> SUFFICES ASSUME f(k) = ClientHello PROVE FALSE
    OBVIOUS
  <2> HIDE DEF f
  <2>2. k = 1
    BY <1>1, <2>1
  <2>3. f(k)[1] = Payload
    BY <1>1, <2>2
  <2> QED
    BY <2>1, <2>3
<1> QED
  BY <1>1, <1>2, <1>3, <1>4 DEF Payloads

\* A frame is its header and payload.
LEMMA FrameShape ==
  ASSUME NEW header
  PROVE  /\ Frame(header) # <<>> /\ Len(Frame(header)) = Parts + 1
         /\ Head(Frame(header)) = header /\ Tail(Frame(header)) = Payloads(Parts)
         /\ \A T : header \in T /\ Payload \in T => Frame(header) \in Seq(T)
         /\ header.part = "header" => Frame(header) # ClientHello
<1> DEFINE body == Payloads(Parts)
           T0 == {header, Payload}
<1>1. Parts \in Nat
  BY WireAssumption
<1>2. body \in Seq({Payload}) /\ Len(body) = Parts
  BY <1>1, PayloadsShape
<1>3. Frame(header) = <<header>> \o body
  BY DEF Frame, Payloads
<1> HIDE DEF body
<1>4. body \in Seq(T0) /\ <<header>> \in Seq(T0) /\ Len(<<header>>) = 1
  BY <1>2
<1>5. <<header>> \o body \in Seq(T0) /\ Len(<<header>> \o body) = Parts + 1
      /\ (<<header>> \o body)[1] = header
  BY <1>1, <1>2, <1>4
<1>6. <<header>> \o body # <<>> /\ Head(<<header>> \o body) = header
  BY <1>1, <1>5
<1>7. Tail(<<header>> \o body) = body
  BY <1>1, <1>2, <1>4
<1>8. ASSUME NEW T, header \in T, Payload \in T
      PROVE  <<header>> \o body \in Seq(T)
  BY <1>2, <1>8
<1>9. header.part = "header" => <<header>> \o body # ClientHello
  <2>1. ClientHello[1].part = "hello"
    BY DEF ClientHello
  <2> QED
    BY <1>5, <2>1
<1> QED
  BY <1>3, <1>5, <1>6, <1>7, <1>8, <1>9 DEF body

-----------------------------------------------------------------------------
(* The client program, step by step.                                        *)

\* The kind and the header of the request of this stage, and of its answer.
Kind(c) == IF stage[c] = "upload" THEN "UploadMatrices" ELSE "Evaluate"
Wanted(c, kind) ==
  IF kind = "UploadMatrices" THEN Request(kind, "good", Sets[c], {})
                             ELSE Request(kind, "good", {}, Entries(Sets[c]))
Asks(c) == Wanted(c, Kind(c))

ClientTypes ==
  /\ stage \in [Conns -> {"hello", "upload", "evaluate"}]
  /\ unsent \in [Conns -> Seq(Q!Tokens)]
  /\ unread \in [Conns -> 0 .. Parts]
  /\ answer \in [Conns -> {NoAnswer} \cup Q!ServerTokens]
  /\ ids \in [Conns -> Q!Listings]
  /\ \A c \in Conns : stage[c] = "evaluate" => ids[c] = Entries(Sets[c])
  /\ outcome \in [Conns -> Outcomes]

\* A run has its end open; what it has not sent is its hello, its request or
\* the rest of it; it has an answer to its last request only.
ClientInv(c) ==
  /\ Running(c) => net[c].open["client"]
  /\ IF stage[c] = "hello"
     THEN unsent[c] \in {ClientHello, <<>>} /\ answer[c] = NoAnswer /\ unread[c] = 0
     ELSE unsent[c] = Frame(Asks(c)) \/ \E k \in 0 .. Parts : unsent[c] = Payloads(k)
  /\ Running(c) /\ answer[c] # NoAnswer =>
       /\ unsent[c] = <<>>
       /\ answer[c].part = "header" /\ answer[c].kind \in {Expects(c), "Error"}

\* Nothing of another client changes.
ClientElsewhere(c) ==
  \A d \in Conns : d # c =>
    /\ stage'[d] = stage[d] /\ unsent'[d] = unsent[d] /\ unread'[d] = unread[d]
    /\ answer'[d] = answer[d] /\ outcome'[d] = outcome[d]

ClientMoves(c) ==
  /\ ClientTypes' /\ ClientElsewhere(c) /\ Q!NetTypes'
  /\ \A d \in Conns : d # c => net'[d] = net[d]

Stays(c) == ClientMoves(c) /\ net' = net

\* What a client writes are tokens of a peer.
LEMMA ClientTokens ==
  ASSUME NEW c \in Conns, NEW kind \in {"UploadMatrices", "Evaluate"}
  PROVE  /\ Wanted(c, kind) \in Q!Requests(c)
         /\ Wanted(c, kind) \in Q!PeerTokens(c)
         /\ Wanted(c, kind) \in Q!Tokens
         /\ Hello("good") \in Q!PeerTokens(c) /\ Hello("good") \in Q!Tokens
         /\ Payload \in Q!PeerTokens(c) /\ Payload \in Q!Tokens
<1> DEFINE offers == [d \in Conns |-> {Sets[d]}]
           evaluations == { Entries(Sets[d]) : d \in Conns }
<1>1. offers[c] = {Sets[c]} /\ Entries(Sets[c]) \in evaluations
  OBVIOUS
<1>2. Wanted(c, kind) \in Q!Requests(c)
  BY <1>1, SameTokens DEF Q!Requests, Wanted
<1>3. Wanted(c, kind) \in Q!Frames
  BY <1>2, QAssumptions, Q!RequestsType
<1>4. Hello("good") \in Q!Greetings
  BY DEF Hello, Q!Greetings
<1>5. Payload \in Q!ServerTokens
  BY SameTokens DEF Q!ServerTokens
<1> QED
  BY <1>2, <1>3, <1>4, <1>5, SameTokens DEF Q!PeerTokens, Q!Tokens

\* A write of a client.
LEMMA SendEffect ==
  ASSUME Q!Types, ClientTypes, NEW c \in Conns, ClientInv(c), Send(c)
  PROVE  /\ ClientMoves(c) /\ Running(c) /\ unsent[c] # <<>>
         /\ UNCHANGED <<stage, unread, answer, ids>>
         /\ \/ /\ Sends(c, "client", Head(unsent[c])) /\ Q!Sent(c, Head(unsent[c]))
               /\ unsent'[c] = Tail(unsent[c]) /\ outcome' = outcome
            \/ /\ net[c].reset /\ outcome'[c] = "codec" /\ UNCHANGED <<net, unsent>>
<1>1. Running(c) /\ unsent[c] # <<>> /\ UNCHANGED <<stage, unread, answer, ids>>
  BY DEF Send
<1>2. CASE /\ Sends(c, "client", Head(unsent[c]))
           /\ unsent' = [unsent EXCEPT ![c] = Tail(@)]
           /\ UNCHANGED outcome
  <2>1. Head(unsent[c]) \in Q!PeerTokens(c)
    <3>1. CASE unsent[c] = ClientHello
      <4>1. Head(unsent[c]) = Hello("good")
        BY <3>1 DEF ClientHello, Hello
      <4> QED
        BY <4>1, ClientTokens
    <3>2. CASE unsent[c] = Frame(Asks(c))
      <4>1. Head(unsent[c]) = Asks(c)
        BY <3>2, FrameShape
      <4> QED
        BY <4>1, ClientTokens DEF Asks, Kind
    <3>3. ASSUME NEW k \in 0 .. Parts, unsent[c] = Payloads(k)
          PROVE  Head(unsent[c]) \in Q!PeerTokens(c)
      <4>1. Head(unsent[c]) = Payload
        BY <1>1, <3>3, PayloadsShape
      <4> QED
        BY <4>1, ClientTokens
    <3> QED
      BY <1>1, <3>1, <3>2, <3>3 DEF ClientInv
  <2>2. Q!Sends(c, "client", Head(unsent[c]))
    BY <1>2, SameWire DEF Sides
  <2>3. /\ Q!NetTypes' /\ Q!Sent(c, Head(unsent[c]))
        /\ \A d \in Conns : d # c => net'[d] = net[d]
    BY <2>1, <2>2, QAssumptions, Q!PeerSent DEF Q!Types
  <2>4. unsent[c] \in Seq(Q!Tokens) /\ Tail(unsent[c]) \in Seq(Q!Tokens)
    BY <1>1 DEF ClientTypes
  <2>5. /\ unsent' \in [Conns -> Seq(Q!Tokens)] /\ unsent'[c] = Tail(unsent[c])
        /\ \A d \in Conns : d # c => unsent'[d] = unsent[d]
    BY <1>2, <2>4 DEF ClientTypes
  <2>6. ClientTypes' /\ ClientElsewhere(c)
    BY <1>1, <1>2, <2>5 DEF ClientTypes, ClientElsewhere
  <2> QED
    BY <1>1, <1>2, <2>3, <2>5, <2>6 DEF ClientMoves
<1>3. CASE SendFails(c) /\ Returns(c, "codec") /\ UNCHANGED <<net, unsent>>
  <2>1. ClientTypes' /\ ClientElsewhere(c) /\ outcome'[c] = "codec"
    BY <1>1, <1>3 DEF ClientTypes, ClientElsewhere, Returns, Outcomes
  <2>2. Q!NetTypes'
    BY <1>3, QAssumptions, Q!NetKept DEF Q!Types
  <2> QED
    BY <1>1, <1>3, <2>1, <2>2 DEF ClientMoves, SendFails
<1> QED
  BY <1>2, <1>3 DEF Send

\* A client took the first of what was unread.
ClientTook(c) ==
  /\ net'[c].open = net[c].open /\ net'[c].reset = net[c].reset
  /\ net[c].inbox["client"] # <<>>
  /\ net'[c].inbox["client"] = Tail(net[c].inbox["client"])
  /\ net'[c].inbox["server"] = net[c].inbox["server"]

\* A read of a client.
LEMMA ClientReceives ==
  ASSUME Q!Types, NEW c \in Conns, NEW token, Receives(c, "client", token)
  PROVE  /\ Q!NetTypes' /\ ClientTook(c) /\ token = Head(net[c].inbox["client"])
         /\ token \in Q!ServerTokens
         /\ \A d \in Conns : d # c => net'[d] = net[d]
<1>1. "client" \in Sides /\ "client" \in Q!Sides /\ Q!Other("client") = "server"
  BY DEF Sides, Q!Sides, Q!Other
<1>2. Q!Receives(c, "client", token)
  BY <1>1, SameWire
<1>3. /\ Q!NetTypes' /\ ClientTook(c) /\ token = Head(net[c].inbox["client"])
      /\ \A d \in Conns : d # c => net'[d] = net[d]
  BY <1>1, <1>2, QAssumptions, Q!EndReceives DEF Q!Types, ClientTook
<1>4. net[c].inbox["client"] \in Seq(Q!ServerTokens)
  BY QAssumptions, Q!LinkFields DEF Q!Types
<1> QED
  BY <1>3, <1>4 DEF ClientTook

\* The end of the handshake.
LEMMA ReadStatusEffect ==
  ASSUME Q!Types, ClientTypes, NEW c \in Conns, ReadStatus(c)
  PROVE  /\ ClientMoves(c) /\ Running(c) /\ stage[c] = "hello" /\ unsent[c] = <<>>
         /\ UNCHANGED <<unread, answer, ids>>
         /\ \/ /\ Receives(c, "client", Status(TRUE)) /\ ClientTook(c)
               /\ Status(TRUE) = Head(net[c].inbox["client"])
               /\ stage'[c] = "upload" /\ outcome' = outcome
               /\ unsent'[c] = Frame(Wanted(c, "UploadMatrices"))
            \/ /\ Receives(c, "client", Status(FALSE)) /\ ClientTook(c)
               /\ Status(FALSE) = Head(net[c].inbox["client"])
               /\ outcome'[c] = "rejected" /\ UNCHANGED <<stage, unsent>>
            \/ /\ EndOfStream(c, "client") \/ ReadFails(c)
               /\ outcome'[c] = "codec" /\ UNCHANGED <<net, stage, unsent>>
<1>1. /\ Running(c) /\ stage[c] = "hello" /\ unsent[c] = <<>>
      /\ UNCHANGED <<unread, answer, ids>>
  BY DEF ReadStatus
<1>2. CASE /\ Receives(c, "client", Status(TRUE))
           /\ stage' = [stage EXCEPT ![c] = "upload"]
           /\ unsent' = [unsent EXCEPT ![c] = Frame(Wanted(c, "UploadMatrices"))]
           /\ UNCHANGED outcome
  <2>1. /\ Q!NetTypes' /\ ClientTook(c) /\ Status(TRUE) = Head(net[c].inbox["client"])
        /\ \A d \in Conns : d # c => net'[d] = net[d]
    BY <1>2, ClientReceives
  <2>2. Frame(Wanted(c, "UploadMatrices")) \in Seq(Q!Tokens)
    BY FrameShape, ClientTokens DEF Wanted, Request
  <2>3. /\ unsent' \in [Conns -> Seq(Q!Tokens)]
        /\ unsent'[c] = Frame(Wanted(c, "UploadMatrices"))
        /\ \A d \in Conns : d # c => unsent'[d] = unsent[d]
    BY <1>2, <2>2 DEF ClientTypes
  <2>4. ClientTypes' /\ ClientElsewhere(c) /\ stage'[c] = "upload"
    BY <1>1, <1>2, <2>3 DEF ClientTypes, ClientElsewhere
  <2> QED
    BY <1>1, <1>2, <2>1, <2>3, <2>4 DEF ClientMoves
<1>3. CASE /\ Receives(c, "client", Status(FALSE))
           /\ Returns(c, "rejected")
           /\ UNCHANGED <<stage, unsent>>
  <2>1. /\ Q!NetTypes' /\ ClientTook(c) /\ Status(FALSE) = Head(net[c].inbox["client"])
        /\ \A d \in Conns : d # c => net'[d] = net[d]
    BY <1>3, ClientReceives
  <2>2. ClientTypes' /\ ClientElsewhere(c) /\ outcome'[c] = "rejected"
    BY <1>1, <1>3 DEF ClientTypes, ClientElsewhere, Returns, Outcomes
  <2> QED
    BY <1>1, <1>3, <2>1, <2>2 DEF ClientMoves
<1>4. CASE /\ EndOfStream(c, "client") \/ ReadFails(c)
           /\ Returns(c, "codec") /\ UNCHANGED <<net, stage, unsent>>
  <2>1. ClientTypes' /\ ClientElsewhere(c) /\ outcome'[c] = "codec"
    BY <1>1, <1>4 DEF ClientTypes, ClientElsewhere, Returns, Outcomes
  <2>2. Q!NetTypes'
    BY <1>4, QAssumptions, Q!NetKept DEF Q!Types
  <2> QED
    BY <1>1, <1>4, <2>1, <2>2 DEF ClientMoves
<1>5. ClientRequest("UploadMatrices", Sets[c], {}) = Frame(Wanted(c, "UploadMatrices"))
  BY DEF ClientRequest, Wanted, Request
<1> QED
  BY <1>2, <1>3, <1>4, <1>5 DEF ReadStatus, Status

\* The header of an answer.
LEMMA ReadAnswerEffect ==
  ASSUME Q!Types, ClientTypes, NEW c \in Conns, ReadAnswer(c)
  PROVE  /\ ClientMoves(c) /\ Running(c) /\ stage[c] \in {"upload", "evaluate"}
         /\ unsent[c] = <<>> /\ unread[c] = 0 /\ answer[c] = NoAnswer
         /\ UNCHANGED <<stage, unsent, ids>>
         /\ \/ /\ Receives(c, "client", answer'[c]) /\ ClientTook(c)
               /\ answer'[c] = Head(net[c].inbox["client"])
               /\ \/ /\ answer'[c].part = "header" /\ answer'[c].kind \in {Expects(c), "Error"}
                     /\ unread'[c] = Parts /\ outcome' = outcome
                  \/ /\ answer'[c].part # "header" \/ answer'[c].kind \notin {Expects(c), "Error"}
                     /\ unread' = unread /\ outcome'[c] = "shape"
            \/ /\ EndOfStream(c, "client") /\ outcome'[c] = "closed"
               /\ UNCHANGED <<net, unread, answer>>
            \/ ReadFails(c) /\ outcome'[c] = "codec" /\ UNCHANGED <<net, unread, answer>>
<1>1. /\ Running(c) /\ stage[c] \in {"upload", "evaluate"}
      /\ unsent[c] = <<>> /\ unread[c] = 0 /\ answer[c] = NoAnswer
      /\ UNCHANGED <<stage, unsent, ids>>
  BY DEF ReadAnswer
<1>2. ASSUME NEW header, Receives(c, "client", header),
             answer' = [answer EXCEPT ![c] = header],
             \/ /\ header.part = "header"
                /\ header.kind \in {Expects(c), "Error"}
                /\ unread' = [unread EXCEPT ![c] = Parts]
                /\ UNCHANGED outcome
             \/ /\ header.part # "header" \/ header.kind \notin {Expects(c), "Error"}
                /\ Returns(c, "shape")
                /\ UNCHANGED unread
      PROVE  /\ ClientMoves(c) /\ Receives(c, "client", answer'[c]) /\ ClientTook(c)
             /\ answer'[c] = Head(net[c].inbox["client"])
             /\ \/ /\ answer'[c].part = "header" /\ answer'[c].kind \in {Expects(c), "Error"}
                   /\ unread'[c] = Parts /\ outcome' = outcome
                \/ /\ answer'[c].part # "header" \/ answer'[c].kind \notin {Expects(c), "Error"}
                   /\ unread' = unread /\ outcome'[c] = "shape"
  <2>1. /\ Q!NetTypes' /\ ClientTook(c) /\ header = Head(net[c].inbox["client"])
        /\ header \in Q!ServerTokens
        /\ \A d \in Conns : d # c => net'[d] = net[d]
    BY <1>2, ClientReceives
  <2>2. /\ answer'[c] = header /\ answer' \in [Conns -> {NoAnswer} \cup Q!ServerTokens]
        /\ \A d \in Conns : d # c => answer'[d] = answer[d]
    BY <1>2, <2>1 DEF ClientTypes
  <2>3. Parts \in 0 .. Parts
    BY WireAssumption
  <2>4. CASE /\ header.part = "header"
             /\ header.kind \in {Expects(c), "Error"}
             /\ unread' = [unread EXCEPT ![c] = Parts]
             /\ UNCHANGED outcome
    <3>1. ClientTypes' /\ ClientElsewhere(c) /\ unread'[c] = Parts
      BY <1>1, <2>2, <2>3, <2>4 DEF ClientTypes, ClientElsewhere
    <3> QED
      BY <1>2, <2>1, <2>2, <2>4, <3>1 DEF ClientMoves
  <2>5. CASE /\ header.part # "header" \/ header.kind \notin {Expects(c), "Error"}
             /\ Returns(c, "shape")
             /\ UNCHANGED unread
    <3>1. ClientTypes' /\ ClientElsewhere(c) /\ outcome'[c] = "shape"
      BY <1>1, <2>2, <2>5 DEF ClientTypes, ClientElsewhere, Returns, Outcomes
    <3> QED
      BY <1>2, <2>1, <2>2, <2>5, <3>1 DEF ClientMoves
  <2> QED
    BY <1>2, <2>4, <2>5
<1>3. ASSUME NEW o \in {"closed", "codec"}, Returns(c, o), UNCHANGED <<net, unread, answer>>
      PROVE  ClientMoves(c) /\ outcome'[c] = o
  <2>1. ClientTypes' /\ ClientElsewhere(c) /\ outcome'[c] = o
    BY <1>1, <1>3 DEF ClientTypes, ClientElsewhere, Returns, Outcomes
  <2>2. Q!NetTypes'
    BY <1>3, QAssumptions, Q!NetKept DEF Q!Types
  <2> QED
    BY <1>3, <2>1, <2>2 DEF ClientMoves
<1> QED
  BY <1>1, <1>2, <1>3 DEF ReadAnswer

\* The payload of an answer.
LEMMA ReadAnswerPartEffect ==
  ASSUME Q!Types, ClientTypes, NEW c \in Conns, ReadAnswerPart(c)
  PROVE  /\ ClientMoves(c) /\ Running(c) /\ unread[c] \in 1 .. Parts
         /\ UNCHANGED <<stage, unsent, answer, ids>>
         /\ \/ /\ Receives(c, "client", Payload) /\ ClientTook(c)
               /\ Payload = Head(net[c].inbox["client"])
               /\ unread'[c] = unread[c] - 1 /\ outcome' = outcome
            \/ /\ EndOfStream(c, "client") \/ ReadFails(c)
               /\ outcome'[c] = "codec" /\ UNCHANGED <<net, unread>>
<1>1. Running(c) /\ unread[c] > 0 /\ UNCHANGED <<stage, unsent, answer, ids>>
  BY DEF ReadAnswerPart
<1>2. unread[c] \in 1 .. Parts /\ unread[c] - 1 \in 0 .. Parts
  BY <1>1, WireAssumption DEF ClientTypes
<1>3. CASE /\ Receives(c, "client", Payload)
           /\ unread' = [unread EXCEPT ![c] = @ - 1]
           /\ UNCHANGED outcome
  <2>1. /\ Q!NetTypes' /\ ClientTook(c) /\ Payload = Head(net[c].inbox["client"])
        /\ \A d \in Conns : d # c => net'[d] = net[d]
    BY <1>3, ClientReceives
  <2>2. ClientTypes' /\ ClientElsewhere(c) /\ unread'[c] = unread[c] - 1
    BY <1>1, <1>2, <1>3 DEF ClientTypes, ClientElsewhere
  <2> QED
    BY <1>1, <1>2, <1>3, <2>1, <2>2 DEF ClientMoves
<1>4. CASE /\ EndOfStream(c, "client") \/ ReadFails(c)
           /\ Returns(c, "codec")
           /\ UNCHANGED <<net, unread>>
  <2>1. ClientTypes' /\ ClientElsewhere(c) /\ outcome'[c] = "codec"
    BY <1>1, <1>4 DEF ClientTypes, ClientElsewhere, Returns, Outcomes
  <2>2. Q!NetTypes'
    BY <1>4, QAssumptions, Q!NetKept DEF Q!Types
  <2> QED
    BY <1>1, <1>2, <1>4, <2>1, <2>2 DEF ClientMoves
<1> QED
  BY <1>3, <1>4 DEF ReadAnswerPart

\* A run that ends without the network.
LEMMA ReturnsEffect ==
  ASSUME Q!Types, ClientTypes, NEW c \in Conns, AllocationFails(c) \/ Crash(c)
  PROVE  /\ ClientMoves(c) /\ outcome'[c] \in {"memory", "crashed"}
         /\ UNCHANGED <<net, stage, unsent, unread, answer, ids>>
<1>1. PICK o \in {"memory", "crashed"} :
        Returns(c, o) /\ UNCHANGED <<net, stage, unsent, unread, answer, ids>>
  BY DEF AllocationFails, Crash
<1>2. ClientTypes' /\ ClientElsewhere(c) /\ outcome'[c] = o
  BY <1>1 DEF ClientTypes, ClientElsewhere, Returns, Outcomes
<1>3. Q!NetTypes'
  BY <1>1, QAssumptions, Q!NetKept DEF Q!Types
<1> QED
  BY <1>1, <1>2, <1>3 DEF ClientMoves

\* The identifiers a client accepts are those its set gets.
LEMMA Acknowledged ==
  ASSUME NEW c \in Conns, NEW entries \in Q!Numberings, Acknowledges(c, entries)
  PROVE  entries = Entries(Sets[c])
<1>1. PICK set : entries = Entries(set)
  BY SameTokens DEF Q!Numberings
<1>2. { e[2] : e \in Entries(set) } = set
  BY EntriesShape
<1> QED
  BY <1>1, <1>2 DEF Acknowledges

\* An answer read to its end.
LEMMA UseAnswerEffect ==
  ASSUME Q!Types, ClientTypes, NEW c \in Conns, ClientInv(c), UseAnswer(c)
  PROVE  /\ ClientMoves(c) /\ Running(c) /\ answer[c] # NoAnswer /\ unread[c] = 0
         /\ UNCHANGED <<net, unread>>
         /\ \/ /\ answer[c].kind = "Error" /\ outcome'[c] = "server"
               /\ UNCHANGED <<stage, unsent, answer, ids>>
            \/ /\ answer[c].kind # "Error" /\ ~AboutSet(c) /\ outcome'[c] = "shape"
               /\ UNCHANGED <<stage, unsent, answer, ids>>
            \/ /\ answer[c].kind = "UploadAccepted" /\ AboutSet(c)
               /\ stage'[c] = "evaluate" /\ unsent'[c] = Frame(Wanted(c, "Evaluate"))
               /\ answer'[c] = NoAnswer /\ outcome' = outcome
            \/ /\ answer[c].kind = "Products" /\ outcome'[c] = "verified"
               /\ UNCHANGED <<stage, unsent, answer, ids>>
<1>1. Running(c) /\ answer[c] # NoAnswer /\ unread[c] = 0 /\ UNCHANGED <<net, unread>>
  BY DEF UseAnswer
<1>2. Q!NetTypes'
  BY <1>1, QAssumptions, Q!NetKept DEF Q!Types
<1>3. ASSUME NEW o \in {"server", "shape", "verified"}, Returns(c, o),
             UNCHANGED <<stage, unsent, answer, ids>>
      PROVE  ClientMoves(c) /\ outcome'[c] = o
  <2>1. ClientTypes' /\ ClientElsewhere(c) /\ outcome'[c] = o
    BY <1>1, <1>3 DEF ClientTypes, ClientElsewhere, Returns, Outcomes
  <2> QED
    BY <1>1, <1>2, <2>1 DEF ClientMoves
<1>4. ASSUME stage' = [stage EXCEPT ![c] = "evaluate"],
             unsent' = [unsent EXCEPT ![c] = Frame(Wanted(c, "Evaluate"))],
             answer' = [answer EXCEPT ![c] = NoAnswer],
             ids' = [ids EXCEPT ![c] = Entries(Sets[c])],
             UNCHANGED outcome
      PROVE  /\ ClientMoves(c) /\ stage'[c] = "evaluate"
             /\ unsent'[c] = Frame(Wanted(c, "Evaluate")) /\ answer'[c] = NoAnswer
  <2>1. Frame(Wanted(c, "Evaluate")) \in Seq(Q!Tokens)
    BY FrameShape, ClientTokens DEF Wanted, Request
  <2>2. /\ unsent' \in [Conns -> Seq(Q!Tokens)]
        /\ unsent'[c] = Frame(Wanted(c, "Evaluate"))
        /\ \A d \in Conns : d # c => unsent'[d] = unsent[d]
    BY <1>4, <2>1 DEF ClientTypes
  <2>3. Entries(Sets[c]) \in Q!Listings
    BY SetsAssumption, QAssumptions, Q!EntriesType, SameTokens
  <2>4. /\ ids' \in [Conns -> Q!Listings] /\ ids'[c] = Entries(Sets[c])
        /\ \A d \in Conns : d # c => ids'[d] = ids[d]
    BY <1>4, <2>3 DEF ClientTypes
  <2>5. ClientTypes' /\ ClientElsewhere(c) /\ stage'[c] = "evaluate" /\ answer'[c] = NoAnswer
    BY <1>1, <1>4, <2>2, <2>4 DEF ClientTypes, ClientElsewhere
  <2> QED
    BY <1>1, <1>2, <2>2, <2>5 DEF ClientMoves
<1>5. ASSUME answer[c].kind = "UploadAccepted", AboutSet(c)
      PROVE  /\ answer[c].entries = Entries(Sets[c])
             /\ ClientRequest("Evaluate", {}, answer[c].entries) = Frame(Wanted(c, "Evaluate"))
  <2>1. answer[c] \in Q!ServerTokens /\ answer[c].part = "header"
    BY <1>1 DEF ClientTypes, ClientInv
  <2>2. Q!Payload.part = "payload"
    BY DEF Q!Payload
  <2>3. answer[c].entries \in Q!Numberings
    BY <1>5, <2>1, <2>2 DEF Q!ServerTokens
  <2>4. answer[c].entries = Entries(Sets[c])
    BY <1>5, <2>3, Acknowledged DEF AboutSet
  <2> QED
    BY <2>4 DEF ClientRequest, Wanted, Request
<1> QED
  BY <1>1, <1>3, <1>4, <1>5 DEF UseAnswer

\* The end of a run.
LEMMA HangupEffect ==
  ASSUME Q!Types, ClientTypes, NEW c \in Conns, Hangup(c)
  PROVE  /\ ClientMoves(c) /\ ~Running(c) /\ net[c].open["client"] /\ UNCHANGED client
         /\ Q!Closes(c, "client")
<1>1. ~Running(c) /\ net[c].open["client"] /\ Closes(c, "client") /\ UNCHANGED client
  BY DEF Hangup
<1>2. "client" \in Sides /\ "client" \in Q!Sides
  BY DEF Sides, Q!Sides
<1>3. Q!Closes(c, "client")
  BY <1>1, <1>2, SameWire
<1>4. Q!NetTypes' /\ \A d \in Conns : d # c => net'[d] = net[d]
  BY <1>2, <1>3, QAssumptions, Q!EndCloses DEF Q!Types
<1>5. ClientTypes' /\ ClientElsewhere(c)
  BY <1>1 DEF ClientTypes, ClientElsewhere, client
<1> QED
  BY <1>1, <1>3, <1>4, <1>5 DEF ClientMoves

-----------------------------------------------------------------------------
(* A client is a peer: every step of it is one of Peers, or none.           *)

\* What the mapping makes of what a client has not sent.
LEMMA UnsentShape ==
  ASSUME NEW c \in Conns
  PROVE  /\ Parts \in Nat /\ Parts >= 1
         /\ Len(<<>>) = 0 /\ <<>> # ClientHello
         /\ ClientHello # <<>> /\ Len(ClientHello) = 1 /\ Head(ClientHello) = Hello("good")
         /\ Head(ClientHello).part = "hello" /\ Tail(ClientHello) = <<>>
         /\ \A kind : LET u == Frame(Wanted(c, kind))
                      IN  /\ u # <<>> /\ u # ClientHello /\ Len(u) = Parts + 1
                          /\ Head(u) = Wanted(c, kind)
                          /\ Head(u).part = "header" /\ Tail(u) = Payloads(Parts)
         /\ \A k \in 0 .. Parts : /\ Payloads(k) # ClientHello /\ Len(Payloads(k)) = k
                                  /\ Payloads(k) = <<>> <=> k = 0
                                  /\ k # 0 => /\ Head(Payloads(k)) = Payload
                                              /\ Head(Payloads(k)).part = "payload"
                                              /\ Tail(Payloads(k)) = Payloads(k - 1)
                                              /\ k - 1 \in 0 .. Parts
<1>1. Parts \in Nat /\ Parts >= 1
  BY WireAssumption
<1>2. ClientHello # <<>> /\ Len(ClientHello) = 1 /\ Head(ClientHello) = Hello("good")
      /\ Head(ClientHello).part = "hello" /\ Tail(ClientHello) = <<>>
  BY DEF ClientHello, Hello
<1>3. ASSUME NEW kind
      PROVE  LET u == Frame(Wanted(c, kind))
             IN  /\ u # <<>> /\ u # ClientHello /\ Len(u) = Parts + 1
                 /\ Head(u) = Wanted(c, kind)
                 /\ Head(u).part = "header" /\ Tail(u) = Payloads(Parts)
  <2>1. Wanted(c, kind).part = "header"
    BY DEF Wanted, Request
  <2> QED
    BY <2>1, FrameShape
<1>4. ASSUME NEW k \in 0 .. Parts
      PROVE  /\ Payloads(k) # ClientHello /\ Len(Payloads(k)) = k
             /\ Payloads(k) = <<>> <=> k = 0
             /\ k # 0 => /\ Head(Payloads(k)) = Payload
                         /\ Head(Payloads(k)).part = "payload"
                         /\ Tail(Payloads(k)) = Payloads(k - 1)
                         /\ k - 1 \in 0 .. Parts
  <2>1. k \in Nat /\ (k # 0 => k - 1 \in 0 .. Parts)
    BY <1>1
  <2>2. Payload.part = "payload"
    BY DEF Payload
  <2> QED
    BY <2>1, <2>2, PayloadsShape
<1> QED
  BY <1>1, <1>2, <1>3, <1>4

\* The request of a stage is what the client writes in it.
LEMMA StageRequest ==
  ASSUME NEW c \in Conns, stage[c] # "hello", stage \in [Conns -> {"hello", "upload", "evaluate"}]
  PROVE  /\ stage[c] = "upload" => Kind(c) = "UploadMatrices"
         /\ stage[c] = "evaluate" => Kind(c) = "Evaluate"
         /\ Asks(c) = Wanted(c, Kind(c))
BY DEF Kind, Asks

\* Steps of one client leave what the others are mapped to.
LEMMA BarsElsewhere ==
  ASSUME NEW c \in Conns, ClientElsewhere(c), NEW d \in Conns, d # c
  PROVE  Greeted(d)' = Greeted(d) /\ Owed(d)' = Owed(d) /\ Asked(d)' = Asked(d) /\ Heard(d)' = Heard(d)
BY DEF ClientElsewhere, Greeted, Owed, Asked, Begun, Heard

\* A step that is none for the peer.
LEMMA BarsKept ==
  ASSUME \A d \in Conns :
           Greeted(d)' = Greeted(d) /\ Owed(d)' = Owed(d) /\ Asked(d)' = Asked(d) /\ Heard(d)' = Heard(d)
  PROVE  UNCHANGED Q!peer
BY DEF Q!peer

\* A step that writes nothing, reads nothing and keeps the stage is none for the peer.
LEMMA BarsSame ==
  ASSUME UNCHANGED <<stage, unsent, answer>>
  PROVE  UNCHANGED Q!peer
<1>1. \A d \in Conns :
        Greeted(d)' = Greeted(d) /\ Owed(d)' = Owed(d) /\ Asked(d)' = Asked(d) /\ Heard(d)' = Heard(d)
  BY DEF Greeted, Owed, Asked, Begun, Heard
<1> QED
  BY <1>1, BarsKept

\* A read of the client is a step of the peer.
LEMMA HearsOne ==
  ASSUME Q!Types, NEW c \in Conns, net[c].open["client"], ClientElsewhere(c), UNCHANGED server,
         NEW token, Receives(c, "client", token),
         Greeted(c)' = Greeted(c), Owed(c)' = Owed(c), Asked(c)' = Asked(c),
         Heard(c)' = IF token.part = "header" THEN Heard(c) + 1 ELSE Heard(c)
  PROVE  Q!Next
<1>1. \A d \in Conns : d # c =>
        Greeted(d)' = Greeted(d) /\ Owed(d)' = Owed(d) /\ Asked(d)' = Asked(d) /\ Heard(d)' = Heard(d)
  BY BarsElsewhere
<1>2. UNCHANGED << [d \in Conns |-> Greeted(d)], [d \in Conns |-> Owed(d)],
                   [d \in Conns |-> Asked(d)] >>
  BY <1>1
<1>3. CASE token.part = "header"
  <2>1. [d \in Conns |-> Heard(d)]' = [[d \in Conns |-> Heard(d)] EXCEPT ![c] = @ + 1]
    BY <1>1, <1>3
  <2>2. Q!Hear(c)
    <3>1. Q!Receives(c, "client", token) /\ Unread(c, "client") = Q!Unread(c, "client")
      BY SameWire DEF Sides
    <3>2. Q!Unread(c, "client") # <<>> /\ token = Head(Q!Unread(c, "client"))
      BY <3>1 DEF Receives
    <3> QED
      BY <1>2, <1>3, <2>1, <3>1, <3>2 DEF Q!Hear
  <2> QED
    BY <2>2 DEF Q!Next, server, Q!server
<1>4. CASE token.part # "header"
  <2>1. UNCHANGED [d \in Conns |-> Heard(d)]
    BY <1>1, <1>4
  <2>2. Q!Hear(c)
    <3>1. Q!Receives(c, "client", token) /\ Unread(c, "client") = Q!Unread(c, "client")
      BY SameWire DEF Sides
    <3>2. Q!Unread(c, "client") # <<>> /\ token = Head(Q!Unread(c, "client"))
      BY <3>1 DEF Receives
    <3> QED
      BY <1>2, <1>4, <2>1, <3>1, <3>2 DEF Q!Hear
  <2> QED
    BY <2>2 DEF Q!Next, server, Q!server
<1> QED
  BY <1>3, <1>4

\* A write of the client is a step of the peer.
LEMMA SendRefines ==
  ASSUME Q!Types, ClientTypes, NEW c \in Conns, ClientInv(c), Send(c), UNCHANGED server
  PROVE  Q!Next \/ UNCHANGED Q!vars
<1>1. /\ ClientMoves(c) /\ net[c].open["client"] /\ unsent[c] # <<>>
      /\ UNCHANGED <<stage, unread, answer>>
      /\ \/ /\ Sends(c, "client", Head(unsent[c]))
            /\ unsent'[c] = Tail(unsent[c])
         \/ UNCHANGED <<net, unsent>>
  BY SendEffect DEF ClientInv
<1>2. \A d \in Conns : d # c =>
        Greeted(d)' = Greeted(d) /\ Owed(d)' = Owed(d) /\ Asked(d)' = Asked(d) /\ Heard(d)' = Heard(d)
  BY <1>1, BarsElsewhere DEF ClientMoves
<1>3. Heard(c)' = Heard(c)
  BY <1>1 DEF Heard
<1>4. stage[c] \in {"hello", "upload", "evaluate"}
  BY DEF ClientTypes
<1>5. ASSUME Sends(c, "client", Head(unsent[c])), unsent'[c] = Tail(unsent[c])
      PROVE  Q!Next
  <2>1. Q!Sends(c, "client", Head(unsent[c]))
    BY <1>5, SameWire DEF Sides
  <2>2. UNCHANGED Q!server
    BY DEF server, Q!server
  <2>3. UNCHANGED [d \in Conns |-> Heard(d)]
    BY <1>2, <1>3
  <2>4. CASE unsent[c] = ClientHello
    <3>1. /\ ~Greeted(c) /\ Greeted(c)' /\ Owed(c) = 0 /\ Owed(c)' = 0
          /\ Head(unsent[c]) = Hello("good")
      BY <1>5, <2>4, UnsentShape DEF Greeted, Owed
    <3>2. stage[c] = "hello"
      <4>1. \A k \in 0 .. Parts : Payloads(k) # ClientHello
        BY UnsentShape
      <4>2. Frame(Asks(c)) # ClientHello
        BY FrameShape DEF Asks, Wanted, Request
      <4> QED
        BY <2>4, <4>1, <4>2 DEF ClientInv
    <3>3. Asked(c)' = Asked(c)
      BY <1>1, <3>2 DEF Asked
    <3>4. /\ [d \in Conns |-> Greeted(d)]' = [[d \in Conns |-> Greeted(d)] EXCEPT ![c] = TRUE]
          /\ UNCHANGED <<[d \in Conns |-> Owed(d)], [d \in Conns |-> Asked(d)]>>
      BY <1>2, <3>1, <3>3 DEF Greeted
    <3>5. Q!Sends(c, "client", Q!Hello("good"))
      BY <2>1, <3>1, SameTokens
    <3>6. Q!Greet(c)
      BY <1>1, <2>3, <3>1, <3>4, <3>5 DEF Q!Greet
    <3> QED
      BY <2>2, <3>6 DEF Q!Next
  <2>5. CASE unsent[c] = Frame(Asks(c)) /\ stage[c] # "hello"
    <3>1. /\ unsent[c] = Frame(Wanted(c, Kind(c))) /\ Kind(c) \in {"UploadMatrices", "Evaluate"}
          /\ stage[c] \in {"upload", "evaluate"}
      BY <1>4, <2>5, StageRequest DEF ClientTypes
    <3>2. unsent'[c] = Payloads(Parts) /\ Head(unsent[c]) = Wanted(c, Kind(c))
      BY <1>5, <3>1, UnsentShape
    <3>3. Parts \in 0 .. Parts /\ Parts # 0
      BY WireAssumption
    <3>4. Greeted(c) /\ Greeted(c)' /\ Owed(c) = 0 /\ Owed(c)' = Parts
      BY <3>1, <3>2, <3>3, UnsentShape DEF Greeted, Owed
    <3>5. Begun(c) = 0 /\ Begun(c)' = 1
      BY <3>1, <3>2, <3>3, UnsentShape DEF Begun
    <3>6. Asked(c) < 2 /\ Asked(c)' = Asked(c) + 1
      BY <1>1, <3>1, <3>5 DEF Asked
    <3>7. /\ UNCHANGED [d \in Conns |-> Greeted(d)]
          /\ [d \in Conns |-> Owed(d)]' = [[d \in Conns |-> Owed(d)] EXCEPT ![c] = Parts]
          /\ [d \in Conns |-> Asked(d)]' = [[d \in Conns |-> Asked(d)] EXCEPT ![c] = @ + 1]
      BY <1>2, <3>4, <3>6 DEF Greeted
    <3>8. Head(unsent[c]) \in Q!Requests(c)
      BY <3>1, <3>2, ClientTokens
    <3>9. Q!Ask(c)
      BY <1>1, <2>1, <2>3, <3>4, <3>6, <3>7, <3>8 DEF Q!Ask
    <3> QED
      BY <2>2, <3>9 DEF Q!Next
  <2>6. ASSUME NEW k \in 0 .. Parts, unsent[c] = Payloads(k)
        PROVE  Q!Next
    <3>1. /\ k # 0 /\ k - 1 \in 0 .. Parts /\ Head(unsent[c]) = Payload
          /\ Head(unsent[c]).part = "payload" /\ unsent'[c] = Payloads(k - 1)
      BY <1>1, <1>5, <2>6, UnsentShape
    <3>2. Greeted(c) /\ Greeted(c)' /\ Owed(c) = k /\ Owed(c)' = k - 1
      BY <2>6, <3>1, UnsentShape DEF Greeted, Owed
    <3>3. Begun(c) = 1 /\ Begun(c)' = 1
      BY <2>6, <3>1, UnsentShape DEF Begun
    <3>4. Asked(c)' = Asked(c)
      BY <1>1, <3>3 DEF Asked
    <3>5. /\ UNCHANGED [d \in Conns |-> Greeted(d)]
          /\ [d \in Conns |-> Owed(d)]' = [[d \in Conns |-> Owed(d)] EXCEPT ![c] = @ - 1]
          /\ UNCHANGED [d \in Conns |-> Asked(d)]
      BY <1>2, <3>2, <3>4 DEF Greeted
    <3>6. Q!Continue(c)
      <4>1. Owed(c) > 0
        BY <3>1, <3>2
      <4>2. Q!Sends(c, "client", Q!Payload)
        BY <2>1, <3>1, SameTokens
      <4> QED
        BY <1>1, <2>3, <3>5, <4>1, <4>2 DEF Q!Continue
    <3> QED
      BY <2>2, <3>6 DEF Q!Next
  <2> QED
    BY <1>1, <1>4, <2>4, <2>5, <2>6 DEF ClientInv
<1>6. CASE UNCHANGED <<net, unsent>>
  <2>1. UNCHANGED Q!peer
    BY <1>1, <1>6, BarsSame
  <2> QED
    BY <1>6, <2>1 DEF Q!vars, Q!server, server
<1> QED
  BY <1>1, <1>5, <1>6

\* A step of the client that leaves the wire and what the peer counts alone.
LEMMA StutterRefines ==
  ASSUME UNCHANGED <<net, stage, unsent, answer>>, UNCHANGED server
  PROVE  UNCHANGED Q!vars
BY BarsSame DEF Q!vars, Q!server, server

\* The end of the handshake is a read of the peer.
LEMMA ReadStatusRefines ==
  ASSUME Q!Types, ClientTypes, NEW c \in Conns, ClientInv(c), ReadStatus(c), UNCHANGED server
  PROVE  Q!Next \/ UNCHANGED Q!vars
<1>1. /\ ClientMoves(c) /\ net[c].open["client"] /\ stage[c] = "hello" /\ unsent[c] = <<>>
      /\ UNCHANGED <<unread, answer>> /\ answer[c] = NoAnswer
  BY ReadStatusEffect DEF ClientInv
<1>2. NoAnswer.part # "header" /\ \A ok : Status(ok).part # "header"
  BY DEF NoAnswer, Status
<1>3. CASE /\ Receives(c, "client", Status(TRUE))
           /\ stage'[c] = "upload" /\ unsent'[c] = Frame(Wanted(c, "UploadMatrices"))
  <2>1. Greeted(c) /\ Greeted(c)' /\ Owed(c) = 0 /\ Owed(c)' = 0
    BY <1>1, <1>3, UnsentShape DEF Greeted, Owed
  <2>2. Asked(c) = 0 /\ Asked(c)' = 0
    BY <1>1, <1>3, UnsentShape DEF Asked, Begun
  <2>3. Heard(c)' = Heard(c)
    BY <1>1, <1>2, <1>3 DEF Heard
  <2>4. Greeted(c)' = Greeted(c)
    BY <2>1 DEF Greeted
  <2> QED
    BY <1>1, <1>2, <1>3, <2>1, <2>2, <2>3, <2>4, HearsOne DEF ClientMoves
<1>4. CASE Receives(c, "client", Status(FALSE)) /\ UNCHANGED <<stage, unsent>>
  <2>1. Greeted(c)' = Greeted(c) /\ Owed(c)' = Owed(c) /\ Asked(c)' = Asked(c) /\ Heard(c)' = Heard(c)
    BY <1>1, <1>4 DEF Greeted, Owed, Asked, Begun, Heard
  <2> QED
    BY <1>1, <1>2, <1>4, <2>1, HearsOne DEF ClientMoves
<1>5. CASE UNCHANGED <<net, stage, unsent>>
  BY <1>1, <1>5, StutterRefines
<1> QED
  BY <1>3, <1>4, <1>5, ReadStatusEffect

\* The read of a header is one of the peer.
LEMMA ReadAnswerRefines ==
  ASSUME Q!Types, ClientTypes, NEW c \in Conns, ClientInv(c), ReadAnswer(c), UNCHANGED server
  PROVE  Q!Next \/ UNCHANGED Q!vars
<1>1. /\ ClientMoves(c) /\ net[c].open["client"] /\ answer[c] = NoAnswer
      /\ UNCHANGED <<stage, unsent>>
  BY ReadAnswerEffect DEF ClientInv
<1>2. NoAnswer.part # "header"
  BY DEF NoAnswer
<1>3. CASE Receives(c, "client", answer'[c])
  <2>1. Greeted(c)' = Greeted(c) /\ Owed(c)' = Owed(c) /\ Asked(c)' = Asked(c)
    BY <1>1 DEF Greeted, Owed, Asked, Begun
  <2>2. Heard(c)' = IF answer'[c].part = "header" THEN Heard(c) + 1 ELSE Heard(c)
    BY <1>1, <1>2 DEF Heard
  <2> QED
    BY <1>1, <1>3, <2>1, <2>2, HearsOne DEF ClientMoves
<1>4. CASE UNCHANGED <<net, answer>>
  BY <1>1, <1>4, StutterRefines
<1> QED
  BY <1>3, <1>4, ReadAnswerEffect

\* The read of a payload is one of the peer.
LEMMA ReadAnswerPartRefines ==
  ASSUME Q!Types, ClientTypes, NEW c \in Conns, ClientInv(c), ReadAnswerPart(c), UNCHANGED server
  PROVE  Q!Next \/ UNCHANGED Q!vars
<1>1. /\ ClientMoves(c) /\ net[c].open["client"] /\ UNCHANGED <<stage, unsent, answer>>
      /\ Receives(c, "client", Payload) \/ UNCHANGED net
  BY ReadAnswerPartEffect DEF ClientInv
<1>2. Payload.part # "header"
  BY DEF Payload
<1>3. CASE Receives(c, "client", Payload)
  <2>1. Greeted(c)' = Greeted(c) /\ Owed(c)' = Owed(c) /\ Asked(c)' = Asked(c) /\ Heard(c)' = Heard(c)
    BY <1>1 DEF Greeted, Owed, Asked, Begun, Heard
  <2> QED
    BY <1>1, <1>2, <1>3, <2>1, HearsOne DEF ClientMoves
<1>4. CASE UNCHANGED net
  BY <1>1, <1>4, StutterRefines
<1> QED
  BY <1>1, <1>3, <1>4

\* What a client makes of an answer is no step of the peer.
LEMMA UseAnswerRefines ==
  ASSUME Q!Types, ClientTypes, NEW c \in Conns, ClientInv(c), UseAnswer(c), UNCHANGED server
  PROVE  UNCHANGED Q!vars
<1>1. /\ ClientMoves(c) /\ Running(c) /\ UNCHANGED net /\ unsent[c] = <<>>
      /\ answer[c].part = "header" /\ answer[c].kind \in {Expects(c), "Error"}
  BY UseAnswerEffect DEF ClientInv
<1>2. NoAnswer.part # "header"
  BY DEF NoAnswer
<1>3. CASE UNCHANGED <<stage, unsent, answer>>
  BY <1>1, <1>3, StutterRefines
<1>4. CASE /\ answer[c].kind = "UploadAccepted"
           /\ stage'[c] = "evaluate" /\ unsent'[c] = Frame(Wanted(c, "Evaluate"))
           /\ answer'[c] = NoAnswer
  <2>1. stage[c] \in {"hello", "upload"}
    BY <1>1, <1>4 DEF Expects, ClientTypes
  <2>2. stage[c] = "upload"
    BY <1>1, <1>2, <2>1 DEF ClientInv
  <2>3. Greeted(c) /\ Greeted(c)' /\ Owed(c) = 0 /\ Owed(c)' = 0
    BY <1>1, <1>4, UnsentShape DEF Greeted, Owed
  <2>4. Asked(c) = 1 /\ Asked(c)' = 1
    BY <1>1, <1>4, <2>2, UnsentShape DEF Asked, Begun
  <2>5. Heard(c) = 1 /\ Heard(c)' = 1
    BY <1>1, <1>2, <1>4, <2>2 DEF Heard
  <2>6. Greeted(c)' = Greeted(c)
    BY <2>3 DEF Greeted
  <2>7. \A d \in Conns :
          Greeted(d)' = Greeted(d) /\ Owed(d)' = Owed(d) /\ Asked(d)' = Asked(d) /\ Heard(d)' = Heard(d)
    BY <1>1, <2>3, <2>4, <2>5, <2>6, BarsElsewhere DEF ClientMoves
  <2>8. UNCHANGED Q!peer
    BY <2>7, BarsKept
  <2> QED
    BY <1>1, <2>8 DEF Q!vars, Q!server, server
<1> QED
  BY <1>3, <1>4, UseAnswerEffect

\* A step of a client is a step of the peer, or none.
LEMMA ClientRefines ==
  ASSUME Q!Types, ClientTypes, NEW c \in Conns, ClientInv(c), ClientStep(c) \/ Crash(c),
         UNCHANGED server
  PROVE  Q!Next \/ UNCHANGED Q!vars
<1>1. CASE AllocationFails(c) \/ Crash(c)
  <2>1. UNCHANGED <<net, stage, unsent, answer>>
    BY <1>1, ReturnsEffect
  <2> QED
    BY <2>1, StutterRefines
<1>2. CASE Hangup(c)
  <2>1. UNCHANGED Q!peer
    BY <1>2, HangupEffect, BarsSame DEF client
  <2>2. Q!Leave(c)
    BY <1>2, <2>1, HangupEffect DEF Q!Leave
  <2> QED
    BY <2>2 DEF Q!Next, server, Q!server
<1> QED
  BY <1>1, <1>2, SendRefines, ReadStatusRefines, ReadAnswerRefines, ReadAnswerPartRefines,
     UseAnswerRefines DEF ClientStep

-----------------------------------------------------------------------------
(* The invariant of the client program.                                     *)

\* A thread leaves the end of its client open or closed.
LEMMA ServerKeepsOpen ==
  ASSUME Q!Types, NEW c \in Conns, ServerStep(c)
  PROVE  /\ Q!Moves(c) /\ net'[c].open["client"] = net[c].open["client"]
<1>1. Q!ServerStep(c)
  BY SameServer
<1>2. Q!Moves(c)
  BY <1>1, QAssumptions, Q!ServerMoves
<1>3. net'[c].open["client"] = net[c].open["client"]
  <2>1. CASE Q!ReadHello(c)
    BY <2>1, QAssumptions, Q!ReadHelloEffect DEF Q!Took
  <2>2. CASE Q!HelloFails(c) \/ Q!HeaderEnds(c)
    BY <2>2, QAssumptions, Q!EndsEffect
  <2>3. CASE Q!ReadHeader(c)
    BY <2>3, QAssumptions, Q!ReadHeaderEffect DEF Q!Took
  <2>4. CASE Q!ReadPart(c)
    BY <2>4, QAssumptions, Q!ReadPartEffect DEF Q!Took
  <2>5. CASE Q!ReserveFails(c) \/ Q!PayloadEnds(c) \/ Q!UploadRefused(c) \/ Q!EngineFails(c)
    BY <2>5, QAssumptions, Q!RejectsEffect
  <2>6. CASE Q!ReserveSet(c)
    BY <2>6, QAssumptions, Q!ReserveSetEffect
  <2>7. CASE Q!CommitSucceeds(c)
    BY <2>7, QAssumptions, Q!CommitSucceedsEffect
  <2>8. CASE Q!CommitFails(c)
    BY <2>8, QAssumptions, Q!CommitFailsEffect
  <2>9. CASE Q!EvaluateInvalid(c) \/ Q!EngineAnswers(c)
    BY <2>9, QAssumptions, Q!EvaluatesEffect
  <2>10. CASE Q!Write(c)
    BY <2>10, QAssumptions, Q!WriteEffect DEF Q!Wrote
  <2>11. CASE Q!WriteFails(c)
    BY <2>11, QAssumptions, Q!WriteFailsEffect
  <2>12. ASSUME NEW m \in Matrices, Q!DropMatrix(c, m)
         PROVE  net'[c].open["client"] = net[c].open["client"]
    BY <2>12, QAssumptions, Q!DropMatrixEffect
  <2>13. CASE Q!CloseStream(c)
    BY <2>13, QAssumptions, Q!CloseStreamEffect
  <2> QED
    BY <1>1, <2>1, <2>2, <2>3, <2>4, <2>5, <2>6, <2>7, <2>8, <2>9, <2>10, <2>11, <2>12, <2>13
       DEF Q!ServerStep
<1> QED
  BY <1>2, <1>3

\* Whoever else moves, what is invariant of a client stays so.
LEMMA ClientInvKept ==
  ASSUME NEW d \in Conns, ClientInv(d), net'[d].open["client"] = net[d].open["client"],
         stage'[d] = stage[d], unsent'[d] = unsent[d], unread'[d] = unread[d],
         answer'[d] = answer[d], outcome'[d] = "none" => outcome[d] = "none"
  PROVE  ClientInv(d)'
<1>1. Asks(d)' = Asks(d) /\ Expects(d)' = Expects(d)
  BY DEF Asks, Kind, Expects
<1> QED
  BY <1>1 DEF ClientInv, Running

\* A step of a client keeps what is invariant of it.
LEMMA ClientInvStep ==
  ASSUME Q!Types, ClientTypes, NEW c \in Conns, ClientInv(c), ClientStep(c) \/ Crash(c)
  PROVE  ClientInv(c)'
<1>1. CASE Send(c)
  <2>1. /\ net[c].open["client"] /\ unsent[c] # <<>> /\ UNCHANGED <<stage, unread, answer>>
        /\ Running(c)
    BY <1>1, SendEffect DEF ClientInv
  <2>2. Asks(c)' = Asks(c) /\ Expects(c)' = Expects(c)
    BY <2>1 DEF Asks, Kind, Expects
  <2>3. CASE Q!Sent(c, Head(unsent[c])) /\ unsent'[c] = Tail(unsent[c]) /\ outcome' = outcome
    <3>1. net'[c].open["client"]
      BY <2>1, <2>3 DEF Q!Sent
    <3>2. answer[c] = NoAnswer
      BY <2>1 DEF ClientInv
    <3>3. CASE stage[c] = "hello"
      <4>1. unsent'[c] = <<>>
        BY <2>1, <2>3, <3>3, UnsentShape DEF ClientInv
      <4> QED
        BY <2>1, <2>2, <2>3, <3>1, <3>2, <3>3, <4>1 DEF ClientInv, Running
    <3>4. CASE stage[c] # "hello"
      <4>1. Frame(Asks(c)) # <<>> /\ Tail(Frame(Asks(c))) = Payloads(Parts)
        BY FrameShape
      <4>2. \E k \in 0 .. Parts : unsent'[c] = Payloads(k)
        <5>1. CASE unsent[c] = Frame(Asks(c))
          BY <2>3, <4>1, <5>1, WireAssumption
        <5>2. ASSUME NEW k \in 0 .. Parts, unsent[c] = Payloads(k)
              PROVE  \E j \in 0 .. Parts : unsent'[c] = Payloads(j)
          <6>1. k - 1 \in 0 .. Parts /\ Tail(Payloads(k)) = Payloads(k - 1)
            BY <2>1, <5>2, UnsentShape
          <6> QED
            BY <2>3, <5>2, <6>1
        <5> QED
          BY <3>4, <5>1, <5>2 DEF ClientInv
      <4> QED
        BY <2>1, <2>2, <2>3, <3>1, <3>2, <3>4, <4>2 DEF ClientInv, Running
    <3> QED
      BY <3>3, <3>4
  <2>4. CASE outcome'[c] = "codec" /\ UNCHANGED <<net, unsent>>
    BY <2>1, <2>4, ClientInvKept DEF Running
  <2> QED
    BY <1>1, <2>3, <2>4, SendEffect
<1>2. CASE ReadStatus(c)
  <2>1. /\ net[c].open["client"] /\ UNCHANGED <<unread, answer>> /\ Running(c)
        /\ stage[c] = "hello" /\ answer[c] = NoAnswer /\ unread[c] = 0
    BY <1>2, ReadStatusEffect DEF ClientInv
  <2>2. CASE /\ ClientTook(c) /\ stage'[c] = "upload" /\ outcome' = outcome
             /\ unsent'[c] = Frame(Wanted(c, "UploadMatrices"))
    <3>1. unsent'[c] = Frame(Asks(c))'
      BY <2>2 DEF Asks, Kind, Wanted, Request, Frame, Entries
    <3>2. net'[c].open["client"]
      BY <2>1, <2>2 DEF ClientTook
    <3> QED
      BY <2>1, <2>2, <3>1, <3>2 DEF ClientInv
  <2>3. CASE ClientTook(c) /\ outcome'[c] = "rejected" /\ UNCHANGED <<stage, unsent>>
    BY <2>1, <2>3, ClientInvKept DEF ClientTook, Running
  <2>4. CASE outcome'[c] = "codec" /\ UNCHANGED <<net, stage, unsent>>
    BY <2>1, <2>4, ClientInvKept DEF Running
  <2> QED
    BY <1>2, <2>2, <2>3, <2>4, ReadStatusEffect
<1>3. CASE ReadAnswer(c)
  <2>1. /\ net[c].open["client"] /\ UNCHANGED <<stage, unsent>> /\ Running(c)
        /\ stage[c] # "hello" /\ unsent[c] = <<>>
    BY <1>3, ReadAnswerEffect DEF ClientInv
  <2>2. Asks(c)' = Asks(c) /\ Expects(c)' = Expects(c)
    BY <2>1 DEF Asks, Kind, Expects
  <2>3. CASE /\ ClientTook(c) /\ answer'[c].part = "header"
             /\ answer'[c].kind \in {Expects(c), "Error"} /\ outcome' = outcome
    <3>1. net'[c].open["client"]
      BY <2>1, <2>3 DEF ClientTook
    <3>2. unsent'[c] = unsent[c] /\ stage'[c] = stage[c] /\ outcome'[c] = outcome[c]
      BY <2>1, <2>3
    <3> QED
      BY <2>1, <2>2, <2>3, <3>1, <3>2 DEF ClientInv, Running
  <2>4. CASE outcome'[c] \in {"shape", "closed", "codec"}
    BY <2>1, <2>2, <2>4 DEF ClientInv, Running
  <2> QED
    BY <1>3, <2>3, <2>4, ReadAnswerEffect
<1>4. CASE ReadAnswerPart(c)
  <2>1. /\ net[c].open["client"] /\ UNCHANGED <<stage, unsent, answer>> /\ Running(c)
        /\ unread[c] \in 1 .. Parts
    BY <1>4, ReadAnswerPartEffect DEF ClientInv
  <2>2. Asks(c)' = Asks(c) /\ Expects(c)' = Expects(c)
    BY <2>1 DEF Asks, Kind, Expects
  <2>3. stage[c] # "hello"
    BY <2>1 DEF ClientInv
  <2>4. ClientTook(c) \/ UNCHANGED net
    BY <1>4, ReadAnswerPartEffect
  <2>5. net'[c].open["client"]
    BY <2>1, <2>4 DEF ClientTook
  <2> QED
    BY <2>1, <2>2, <2>3, <2>5 DEF ClientInv, Running
<1>5. CASE AllocationFails(c) \/ Crash(c)
  <2>1. Running(c) /\ UNCHANGED <<net, stage, unsent, unread, answer>>
    BY <1>5, ReturnsEffect DEF AllocationFails, Crash
  <2> QED
    BY <2>1, ClientInvKept DEF Running
<1>6. CASE UseAnswer(c)
  <2>1. /\ net[c].open["client"] /\ UNCHANGED <<net, unread>> /\ Running(c)
        /\ stage[c] # "hello" /\ unsent[c] = <<>>
    BY <1>6, UseAnswerEffect DEF ClientInv
  <2>2. CASE UNCHANGED <<stage, unsent, answer>>
    BY <2>1, <2>2, ClientInvKept DEF Running
  <2>3. CASE /\ stage'[c] = "evaluate" /\ unsent'[c] = Frame(Wanted(c, "Evaluate"))
             /\ answer'[c] = NoAnswer /\ outcome' = outcome
    <3>1. unsent'[c] = Frame(Asks(c))'
      BY <2>3 DEF Asks, Kind, Wanted, Request, Frame, Entries
    <3> QED
      BY <2>1, <2>3, <3>1 DEF ClientInv
  <2> QED
    BY <1>6, <2>2, <2>3, UseAnswerEffect
<1>7. CASE Hangup(c)
  <2>1. ~Running(c) /\ UNCHANGED client
    BY <1>7, HangupEffect
  <2>2. Asks(c)' = Asks(c) /\ Running(c)' = Running(c)
    BY <2>1 DEF Asks, Kind, Running, client
  <2> QED
    BY <2>1, <2>2 DEF ClientInv, client
<1> QED
  BY <1>1, <1>2, <1>3, <1>4, <1>5, <1>6, <1>7 DEF ClientStep

\* Initially a client is a peer that has said nothing yet.
LEMMA InitRefines ==
  ASSUME Init
  PROVE  Q!Init
<1>1. Q!NetInit /\ Q!ServerInit
  BY DEF Init, NetInit, ServerInit, Q!NetInit, Q!ServerInit, Connected, Q!Connected, Sides,
         Q!Sides, NoRequest, Q!NoRequest, Request, Q!Request, NoReply, Q!NoReply
<1>2. ASSUME NEW c \in Conns
      PROVE  Greeted(c) = FALSE /\ Owed(c) = 0 /\ Asked(c) = 0 /\ Heard(c) = 0
  <2>1. /\ unsent[c] = ClientHello /\ stage[c] = "hello" /\ answer[c] = NoAnswer
    BY DEF Init, ClientInit
  <2> QED
    BY <2>1, UnsentShape DEF Greeted, Owed, Asked, Heard, NoAnswer
<1>3. /\ [c \in Conns |-> Greeted(c)] = [c \in Conns |-> FALSE]
      /\ [c \in Conns |-> Owed(c)] = [c \in Conns |-> 0]
      /\ [c \in Conns |-> Asked(c)] = [c \in Conns |-> 0]
      /\ [c \in Conns |-> Heard(c)] = [c \in Conns |-> 0]
  BY <1>2
<1> QED
  BY <1>1, <1>3 DEF Q!Init

\* A step of a thread is one of the server beside the peers.
LEMMA ServerRefines ==
  ASSUME NEW c \in Conns, ServerStep(c), UNCHANGED client
  PROVE  Q!Next
<1>1. UNCHANGED Q!peer
  BY BarsSame DEF client
<1> QED
  BY <1>1, SameServer DEF Q!Next

\* The invariant of both programs, and of what is between them.
Base ==
  /\ Q!ControlInv
  /\ ClientTypes
  /\ \A c \in Conns : ClientInv(c)

\* It holds initially.
LEMMA BaseInit ==
  ASSUME Init
  PROVE  Base
<1>1. Q!ControlInv
  BY InitRefines, QAssumptions, Q!ControlInit
<1>2. ClientTypes
  <2>1. ClientHello \in Seq(Q!Tokens)
    <3>1. ClientHello = <<Hello("good")>>
      BY DEF ClientHello, Hello
    <3>2. \A c \in Conns : Hello("good") \in Q!Tokens
      BY ClientTokens
    <3>3. Hello("good") \in Q!Tokens
      BY DEF Q!Tokens, Q!Greetings, Hello
    <3> QED
      BY <3>1, <3>3
  <2>2. {} \in Q!Listings
    BY DEF Q!Listings
  <2> QED
    BY <2>1, <2>2, WireAssumption DEF Init, ClientInit, ClientTypes, Outcomes
<1>3. ASSUME NEW c \in Conns PROVE ClientInv(c)
  <2>1. net[c].open["client"]
    BY DEF Init, NetInit, Connected, Sides
  <2> QED
    BY <2>1 DEF Init, ClientInit, ClientInv
<1> QED
  BY <1>1, <1>2, <1>3 DEF Base

\* Every step keeps it, and is a step of the peers or none.
LEMMA BaseStep ==
  ASSUME Base, [Next]_vars
  PROVE  Base' /\ (Q!Next \/ UNCHANGED Q!vars)
<1>0. Q!Types
  BY DEF Base, Q!ControlInv
<1>1. ASSUME NEW c \in Conns, ServerStep(c), UNCHANGED client
      PROVE  Base' /\ Q!Next
  <2>1. Q!Next
    BY <1>1, ServerRefines
  <2>2. Q!ControlInv'
    BY <2>1, QAssumptions, Q!ControlStep DEF Base
  <2>3. ClientTypes'
    BY <1>1 DEF Base, ClientTypes, client
  <2>4. ASSUME NEW d \in Conns PROVE ClientInv(d)'
    <3>1. net'[d].open["client"] = net[d].open["client"]
      BY <1>0, <1>1, ServerKeepsOpen DEF Q!Moves
    <3> QED
      BY <1>1, <3>1, ClientInvKept DEF Base, client
  <2> QED
    BY <2>1, <2>2, <2>3, <2>4 DEF Base
<1>2. ASSUME NEW c \in Conns, ClientStep(c) \/ Crash(c), UNCHANGED server
      PROVE  Base' /\ (Q!Next \/ UNCHANGED Q!vars)
  <2>1. Q!Next \/ UNCHANGED Q!vars
    BY <1>0, <1>2, ClientRefines DEF Base
  <2>2. Q!ControlInv'
    BY <2>1, QAssumptions, Q!ControlStep DEF Base
  <2>3. ClientMoves(c)
    BY <1>0, <1>2, SendEffect, ReadStatusEffect, ReadAnswerEffect, ReadAnswerPartEffect,
       ReturnsEffect, UseAnswerEffect, HangupEffect DEF Base, ClientStep
  <2>4. ClientInv(c)'
    BY <1>0, <1>2, ClientInvStep DEF Base
  <2>5. ASSUME NEW d \in Conns, d # c PROVE ClientInv(d)'
    <3>1. /\ net'[d].open["client"] = net[d].open["client"]
          /\ stage'[d] = stage[d] /\ unsent'[d] = unsent[d] /\ unread'[d] = unread[d]
          /\ answer'[d] = answer[d] /\ outcome'[d] = outcome[d]
      BY <2>3, <2>5 DEF ClientMoves, ClientElsewhere
    <3> QED
      BY <3>1, ClientInvKept DEF Base
  <2> QED
    BY <2>1, <2>2, <2>3, <2>4, <2>5 DEF Base, ClientMoves
<1>3. CASE UNCHANGED vars
  <2>1. UNCHANGED Q!vars
    BY <1>3, StutterRefines DEF vars, client
  <2>2. Q!ControlInv'
    BY <2>1, QAssumptions, Q!ControlStep DEF Base
  <2>3. ClientTypes'
    BY <1>3 DEF Base, ClientTypes, vars, client
  <2>4. ASSUME NEW d \in Conns PROVE ClientInv(d)'
    BY <1>3, ClientInvKept DEF Base, vars, client
  <2> QED
    BY <2>1, <2>2, <2>3, <2>4 DEF Base
<1> QED
  BY <1>1, <1>2, <1>3 DEF Next

-----------------------------------------------------------------------------
(* What holds of the server beside any peer holds beside the clients.       *)

\* Both programs keep the invariants of a session, of its connection and of a run.
THEOREM BaseInvariance == Spec => []Base
<1>1. Init => Base
  BY BaseInit
<1>2. Base /\ [Next]_vars => Base'
  BY BaseStep
<1> QED
  BY <1>1, <1>2, PTL DEF Spec

\* The client program (client/src/session.rs, run) frames correctly: it says
\* hello once and writes whole requests, so it is one of the peers of Peers.
LEMMA PeersRefined == Spec => Q!Spec
<1>1. Init => Q!Init
  BY InitRefines
<1>2. Base /\ [Next]_vars => [Q!Next]_(Q!vars)
  BY BaseStep
<1> QED
  BY <1>1, <1>2, BaseInvariance, PTL DEF Spec, Q!Spec

\* The client program implements the peer the server is checked against.
THEOREM ImplementsPeersCorrect == Spec => ImplementsPeers
<1>1. P!Init <=> Q!Init
  BY SamePeers
<1>2. [P!Next]_(P!vars) <=> [Q!Next]_(Q!vars)
  <2>1. UNCHANGED P!vars <=> UNCHANGED Q!vars
    BY DEF P!vars, Q!vars, P!server, Q!server, P!peer, Q!peer
  <2> QED
    BY <2>1, SamePeers
<1>3. Q!Spec => P!Spec
  BY <1>1, <1>2, PTL DEF P!Spec, Q!Spec
<1> QED
  BY <1>3, PeersRefined, PTL DEF ImplementsPeers

\* The budget and the sessions agree beside any number of clients: reserve,
\* commit and drop (server/src/session.rs) keep the engine's count right.
THEOREM ClientSessionsChargedCorrect == Spec => []SessionsCharged
<1>1. Q!Spec => []Q!SessionsCharged
  BY QAssumptions, Q!SessionsChargedCorrect
<1>2. Q!SessionsCharged => SessionsCharged
  BY DEF SessionsCharged, Q!SessionsCharged, Footprint, Q!Footprint, BytesOf, Q!BytesOf,
         Cardinality, Q!Cardinality
<1> QED
  BY <1>1, <1>2, PeersRefined, PTL

\* A client that finds its stream closed finds the bytes of its session given
\* back, whatever the others do.
THEOREM ClientClosedReleasedCorrect == Spec => []ClosedReleased
<1>1. Q!Spec => []Q!ClosedReleased
  BY QAssumptions, Q!ClosedReleasedCorrect
<1>2. Q!ClosedReleased => ClosedReleased
  BY DEF ClosedReleased, Q!ClosedReleased
<1> QED
  BY <1>1, <1>2, PeersRefined, PTL

\* The session threads take bytes for a header only where a client began a
\* request (read_frame_header, server/src/session.rs).
THEOREM ClientFrameAlignedCorrect == Spec => []FrameAligned
<1>1. Q!Spec => []Q!FrameAligned
  BY QAssumptions, Q!FrameAlignedCorrect
<1>2. Q!FrameAligned => FrameAligned
  BY DEF FrameAligned, Q!FrameAligned, Unread, Q!Unread
<1> QED
  BY <1>1, <1>2, PeersRefined, PTL

\* Every request of a client is, at any time, unread, handled, answered and
\* unread, or heard: handle_frame passes over none and answers none twice.
THEOREM ClientAnsweredOnceCorrect == Spec => []Q!AnsweredOnce
<1>1. Q!Spec => []Q!AnsweredOnce
  BY QAssumptions, Q!AnsweredOnceCorrect
<1> QED
  BY <1>1, PeersRefined, PTL

\* What a session of ClientServer keeps to, type by type.
THEOREM TypeCorrect == Spec => []TypeOK
<1>1. Q!Spec => []Q!ServerTypeOK
  BY QAssumptions, Q!ServerTypeCorrect
<1>2. Q!ServerTypeOK => ServerTypeOK
  BY DEF ServerTypeOK, Q!ServerTypeOK, Kinds, Q!Kinds
<1>3. Base => ClientTypeOK
  <2> SUFFICES ASSUME Base PROVE ClientTypeOK
    OBVIOUS
  <2>1. ClientTypes
    BY DEF Base
  <2>2. ASSUME NEW c \in Conns
        PROVE  Len(unsent[c]) <= Parts + 1
    <3>1. ClientInv(c) /\ Parts \in Nat
      BY WireAssumption DEF Base
    <3>2. unsent[c] = <<>> => Len(unsent[c]) <= Parts + 1
      BY <3>1
    <3>3. unsent[c] = ClientHello => Len(unsent[c]) <= Parts + 1
      BY <3>1, UnsentShape
    <3>4. unsent[c] = Frame(Asks(c)) => Len(unsent[c]) <= Parts + 1
      BY <3>1, FrameShape
    <3>5. ASSUME NEW k \in 0 .. Parts, unsent[c] = Payloads(k)
          PROVE  Len(unsent[c]) <= Parts + 1
      <4>1. Len(unsent[c]) = k
        BY <3>5, UnsentShape
      <4> QED
        BY <3>1, <4>1
    <3> QED
      BY <3>1, <3>2, <3>3, <3>4, <3>5 DEF ClientInv
  <2>3. ASSUME NEW c \in Conns
        PROVE  answer[c].part \in {"none", "status", "header", "payload"}
    <3>1. answer[c] = NoAnswer \/ answer[c] \in Q!ServerTokens
      BY <2>1 DEF ClientTypes
    <3>2. NoAnswer.part = "none" /\ Q!Payload.part = "payload"
      BY DEF NoAnswer, Q!Payload
    <3> QED
      BY <3>1, <3>2 DEF Q!ServerTokens
  <2> QED
    BY <2>1, <2>2, <2>3 DEF ClientTypes, ClientTypeOK
<1> QED
  BY <1>1, <1>2, <1>3, BaseInvariance, PeersRefined, PTL DEF TypeOK

-----------------------------------------------------------------------------
(* What is under way between a run and its session thread.                  *)

\* Of s \o t: taking a token from behind the joint to before it, as a write
\* does, and taking the first token, as a read does.
Joint(s, t) ==
  /\ s \o t = <<>> <=> s = <<>> /\ t = <<>>
  /\ s = <<>> => s \o t = t
  /\ t # <<>> => Append(s, Head(t)) \o Tail(t) = s \o t
  /\ s # <<>> => Head(s \o t) = Head(s) /\ Tail(s \o t) = Tail(s) \o t

\* That is how sequences are.
LEMMA Joined ==
  ASSUME NEW S, NEW s \in Seq(S), NEW t \in Seq(S)
  PROVE  Joint(s, t)
<1>0. Len(s) \in Nat /\ Len(t) \in Nat
  OBVIOUS
<1>1. /\ s \o t \in Seq(S) /\ Len(s \o t) = Len(s) + Len(t)
      /\ Len(s) \in Nat /\ Len(t) \in Nat
      /\ \A i \in 1 .. Len(s) : (s \o t)[i] = s[i]
      /\ \A i \in 1 .. Len(t) : (s \o t)[Len(s) + i] = t[i]
  OBVIOUS
<1>2. s \o t = <<>> <=> s = <<>> /\ t = <<>>
  BY <1>1
<1>3. s = <<>> => s \o t = t
  BY <1>1
<1>4. ASSUME t # <<>>
      PROVE  Append(s, Head(t)) \o Tail(t) = s \o t
  <2>1. Len(t) >= 1 /\ Head(t) = t[1] /\ Tail(t) \in Seq(S) /\ Len(Tail(t)) = Len(t) - 1
        /\ \A i \in 1 .. (Len(t) - 1) : Tail(t)[i] = t[i + 1]
    BY <1>1, <1>4
  <2>2. /\ Append(s, Head(t)) \in Seq(S) /\ Len(Append(s, Head(t))) = Len(s) + 1
        /\ Append(s, Head(t))[Len(s) + 1] = t[1]
        /\ \A i \in 1 .. Len(s) : Append(s, Head(t))[i] = s[i]
    BY <1>1, <2>1
  <2> DEFINE u == Append(s, Head(t))
             v == Tail(t)
  <2>3. /\ u \o v \in Seq(S) /\ Len(u \o v) = Len(s) + Len(t)
        /\ \A i \in 1 .. (Len(s) + 1) : (u \o v)[i] = u[i]
        /\ \A i \in 1 .. (Len(t) - 1) : (u \o v)[Len(s) + 1 + i] = v[i]
    BY <1>1, <2>1, <2>2
  <2>4. ASSUME NEW i \in 1 .. (Len(s) + Len(t))
        PROVE  (u \o v)[i] = (s \o t)[i]
    <3> HIDE DEF u, v
    <3>1. CASE i \in 1 .. Len(s)
      BY <1>1, <2>2, <2>3, <3>1 DEF u
    <3>2. CASE i = Len(s) + 1
      <4>1. 1 \in 1 .. Len(t) /\ i \in 1 .. (Len(s) + 1)
        BY <1>1, <2>1, <3>2
      <4> QED
        BY <1>1, <2>2, <2>3, <3>2, <4>1 DEF u
    <3>3. CASE i > Len(s) + 1
      <4> DEFINE j == i - (Len(s) + 1)
      <4>1. /\ j \in 1 .. (Len(t) - 1) /\ i = Len(s) + 1 + j
            /\ j + 1 \in 1 .. Len(t) /\ i = Len(s) + (j + 1)
        BY <1>0, <3>3
      <4> HIDE DEF j
      <4>3. (s \o t)[i] = t[j + 1]
        BY <1>1, <4>1
      <4>4. (u \o v)[i] = v[j]
        BY <2>3, <4>1
      <4> QED
        BY <2>1, <4>1, <4>3, <4>4 DEF v
    <3>4. i \in 1 .. Len(s) \/ i = Len(s) + 1 \/ i > Len(s) + 1
      BY <1>0
    <3> QED
      BY <3>1, <3>2, <3>3, <3>4
  <2> HIDE DEF u, v
  <2>5. u \o v = s \o t
    BY <1>1, <2>3, <2>4
  <2> QED
    BY <2>5 DEF u, v
<1>5. ASSUME s # <<>>
      PROVE  Head(s \o t) = Head(s) /\ Tail(s \o t) = Tail(s) \o t
  <2>1. Len(s) >= 1 /\ Head(s) = s[1] /\ Tail(s) \in Seq(S) /\ Len(Tail(s)) = Len(s) - 1
        /\ \A i \in 1 .. (Len(s) - 1) : Tail(s)[i] = s[i + 1]
    BY <1>1, <1>5
  <2>2. s \o t # <<>> /\ Head(s \o t) = (s \o t)[1] /\ (s \o t)[1] = s[1]
    BY <1>1, <2>1
  <2> DEFINE u == s \o t
             v == Tail(s)
  <2>3. /\ Tail(u) \in Seq(S) /\ Len(Tail(u)) = Len(s) + Len(t) - 1
        /\ \A i \in 1 .. (Len(s) + Len(t) - 1) : Tail(u)[i] = u[i + 1]
    <3>1. u \in Seq(S) /\ Len(u) = Len(s) + Len(t) /\ u # <<>>
      BY <1>1, <2>2
    <3> HIDE DEF u
    <3> QED
      BY <1>1, <3>1
  <2>4. /\ v \o t \in Seq(S) /\ Len(v \o t) = Len(s) - 1 + Len(t)
        /\ \A i \in 1 .. (Len(s) - 1) : (v \o t)[i] = v[i]
        /\ \A i \in 1 .. Len(t) : (v \o t)[Len(s) - 1 + i] = t[i]
    BY <1>1, <2>1
  <2>5. ASSUME NEW i \in 1 .. (Len(s) + Len(t) - 1)
        PROVE  Tail(u)[i] = (v \o t)[i]
    <3>1. Tail(u)[i] = u[i + 1]
      BY <2>3
    <3> HIDE DEF v
    <3>2. CASE i \in 1 .. (Len(s) - 1)
      <4>1. u[i + 1] = s[i + 1]
        BY <1>1, <3>2 DEF u
      <4> QED
        BY <2>1, <2>4, <3>1, <3>2, <4>1 DEF v
    <3>3. CASE i >= Len(s)
      <4> DEFINE j == i + 1 - Len(s)
      <4>1. j \in 1 .. Len(t) /\ i + 1 = Len(s) + j /\ i = Len(s) - 1 + j
        BY <1>0, <3>3
      <4> HIDE DEF j
      <4>2. u[i + 1] = t[j]
        BY <1>1, <4>1 DEF u
      <4>3. (v \o t)[i] = t[j]
        BY <2>4, <4>1
      <4> QED
        BY <3>1, <4>2, <4>3
    <3>4. i \in 1 .. (Len(s) - 1) \/ i >= Len(s)
      BY <1>0
    <3> QED
      BY <3>2, <3>3, <3>4
  <2> HIDE DEF v
  <2>6. Tail(u) = v \o t
    <3> DEFINE a == Tail(u)
               b == v \o t
    <3>1. a \in Seq(S) /\ b \in Seq(S) /\ Len(a) = Len(s) + Len(t) - 1 /\ Len(b) = Len(a)
      BY <1>0, <2>3, <2>4
    <3>2. \A i \in 1 .. Len(a) : a[i] = b[i]
      BY <2>5, <3>1
    <3> HIDE DEF a, b
    <3>3. a = b
      BY <3>1, <3>2
    <3> QED
      BY <3>3 DEF a, b
  <2> QED
    BY <2>2, <2>6 DEF u, v
<1> QED
  BY <1>2, <1>3, <1>4, <1>5 DEF Joint

\* What is still to arrive at either end, in flight or to be written.
Going(c) == net[c].inbox["server"] \o unsent[c]
Coming(c) == net[c].inbox["client"] \o reply[c].tokens

\* Writes and reads as they show in what is to arrive.
LEMMA GoingShape ==
  ASSUME Q!Types, ClientTypes, NEW c \in Conns
  PROVE  /\ Going(c) = <<>> <=> net[c].inbox["server"] = <<>> /\ unsent[c] = <<>>
         /\ net[c].inbox["server"] = <<>> => Going(c) = unsent[c]
         /\ \A u \in Seq(Q!Tokens) :
              net[c].inbox["server"] = <<>> => net[c].inbox["server"] \o u = u
         /\ unsent[c] # <<>> =>
              Append(net[c].inbox["server"], Head(unsent[c])) \o Tail(unsent[c]) = Going(c)
         /\ net[c].inbox["server"] # <<>> =>
              /\ Head(Going(c)) = Head(net[c].inbox["server"])
              /\ Tail(Going(c)) = Tail(net[c].inbox["server"]) \o unsent[c]
<1>1. net[c].inbox["server"] \in Seq(Q!PeerTokens(c))
  BY QAssumptions, Q!LinkFields DEF Q!Types
<1>2. net[c].inbox["server"] \in Seq(Q!Tokens)
  BY <1>1, QAssumptions, Q!TokensBroader
<1>3. unsent[c] \in Seq(Q!Tokens)
  BY DEF ClientTypes
<1> DEFINE S == Q!Tokens
           s == net[c].inbox["server"]
           t == unsent[c]
<1>4. S = Q!Tokens /\ s = net[c].inbox["server"] /\ t = unsent[c] /\ Going(c) = s \o t
  BY DEF Going
<1>5. s \in Seq(S) /\ t \in Seq(S)
  BY <1>2, <1>3
<1> HIDE DEF S, s, t
<1>6. Joint(s, t)
  BY <1>5, Joined
<1>7. \A u \in Seq(S) : Joint(s, u)
  BY <1>5, Joined
<1> QED
  BY <1>4, <1>6, <1>7, Zenon DEF S, s, t, Joint

\* The same of the other direction.
LEMMA ComingShape ==
  ASSUME Q!Types, NEW c \in Conns
  PROVE  /\ Coming(c) = <<>> <=> net[c].inbox["client"] = <<>> /\ reply[c].tokens = <<>>
         /\ \A u \in Seq(Q!ServerTokens) :
              net[c].inbox["client"] = <<>> => net[c].inbox["client"] \o u = u
         /\ reply[c].tokens # <<>> =>
              Append(net[c].inbox["client"], Head(reply[c].tokens)) \o Tail(reply[c].tokens)
                = Coming(c)
         /\ net[c].inbox["client"] # <<>> =>
              /\ Head(Coming(c)) = Head(net[c].inbox["client"])
              /\ Tail(Coming(c)) = Tail(net[c].inbox["client"]) \o reply[c].tokens
<1>1. net[c].inbox["client"] \in Seq(Q!ServerTokens)
  BY QAssumptions, Q!LinkFields DEF Q!Types
<1>2. reply[c].tokens \in Seq(Q!ServerTokens)
  BY DEF Q!Types, Q!ServerTypes, Q!Written
<1> DEFINE S == Q!ServerTokens
           s == net[c].inbox["client"]
           t == reply[c].tokens
<1>4. S = Q!ServerTokens /\ s = net[c].inbox["client"] /\ t = reply[c].tokens
      /\ Coming(c) = s \o t
  BY DEF Coming
<1>5. s \in Seq(S) /\ t \in Seq(S)
  BY <1>1, <1>2
<1> HIDE DEF S, s, t
<1>6. Joint(s, t)
  BY <1>5, Joined
<1>7. \A u \in Seq(S) : Joint(s, u)
  BY <1>5, Joined
<1> QED
  BY <1>4, <1>6, <1>7, Zenon DEF S, s, t, Joint

\* The answer to the request of this stage, and the errors a server in step gives.
Answers(c) == Answer(Expects(c), Entries(Sets[c]))
Causes == {"UploadFailed", "GpuFailure", "AllocationFailed"}

\* The thread is on its way to the next header.
Turning(c) == pc[c] = "header" \/ (pc[c] = "writing" /\ reply[c].then = "header")

\* No answer is being read, or this one is written and perhaps partly read.
Awaits(c) == answer[c] = NoAnswer /\ unread[c] = 0
Held(c, header) ==
  \/ Awaits(c) /\ Coming(c) = Frame(header)
  \/ answer[c] = header /\ Coming(c) = Payloads(unread[c])

\* Before the status is read.
Greeting(c) ==
  /\ stage[c] = "hello" /\ Awaits(c) /\ ~loaded[c]
  /\ \/ pc[c] = "hello" /\ Going(c) = ClientHello /\ Coming(c) = <<>>
     \/ Turning(c) /\ Going(c) = <<>> /\ Coming(c) = <<Status(TRUE)>>

\* From the request to its answer.
Asking(c) ==
  /\ stage[c] \in {"upload", "evaluate"} /\ Awaits(c) /\ Coming(c) = <<>>
  /\ loaded[c] <=> stage[c] = "evaluate"
  /\ \/ Turning(c) /\ Going(c) = Frame(Asks(c))
     \/ pc[c] = "payload" /\ request[c] = Asks(c) /\ Going(c) = Payloads(left[c])
     \/ pc[c] \in {"decoded", "commit"} /\ request[c] = Asks(c) /\ Going(c) = <<>>

\* From the answer to its last token.
Answering(c) ==
  /\ stage[c] \in {"upload", "evaluate"} /\ loaded[c]
  /\ Turning(c) /\ Going(c) = <<>> /\ Held(c, Answers(c))

\* The session ends with an error in answer to the request.  The connection is
\* reset only if the thread ran out of memory inside the request, which leaves
\* some of it unread.
Failing(c) ==
  /\ stage[c] \in {"upload", "evaluate"} /\ Q!Doomed(c)
  /\ pc[c] = "writing" => reply[c].kind = "error"
  /\ Going(c) # <<>> \/ net[c].reset => fate[c] = "transport"
  /\ \E code \in Causes :
       /\ code = "UploadFailed" => ~loaded[c]
       /\ IF net[c].reset THEN Awaits(c) \/ answer[c] = ErrorFrame(code)
                          ELSE Held(c, ErrorFrame(code))

InStep(c) ==
  /\ ~net[c].reset
  /\ loaded[c] => stored[c] = Sets[c]
  /\ Greeting(c) \/ Asking(c) \/ Answering(c)

LockStep(c) == InStep(c) \/ Failing(c)

\* What a run can have come to.
Returned(c) ==
  /\ outcome[c] \notin {"shape", "rejected", "closed"}
  /\ outcome[c] = "server" => answer[c].code \in Causes
  /\ outcome[c] = "codec" => /\ fate[c] = "transport"
                             /\ pc[c] = "writing" => reply[c].kind = "error"
  /\ answer[c].kind = "Error" /\ answer[c].code = "UploadFailed" =>
       fate[c] # "none" /\ ~loaded[c]

\* As long as it runs, a client is in step with its session thread.
LockInv(c) == (Running(c) => LockStep(c)) /\ Returned(c)

\* Nothing a run and its thread agree on changes.
LEMMA InStepKept ==
  ASSUME NEW c \in Conns, InStep(c), Going(c)' = Going(c), Coming(c)' = Coming(c),
         net'[c].reset = net[c].reset, stage'[c] = stage[c], unread'[c] = unread[c],
         answer'[c] = answer[c], request'[c] = request[c], left'[c] = left[c],
         loaded'[c] = loaded[c], stored'[c] = stored[c],
         pc'[c] = pc[c] \/ Turning(c), Turning(c) => Turning(c)'
  PROVE  InStep(c)'
<1>1. /\ Asks(c)' = Asks(c) /\ Answers(c)' = Answers(c) /\ Awaits(c)' = Awaits(c)
  BY DEF Asks, Kind, Answers, Expects, Awaits
<1>2. Held(c, Answers(c)) => Held(c, Answers(c))'
  BY <1>1 DEF Held
<1>0. Turning(c) => pc[c] \in {"header", "writing"}
  BY DEF Turning
<1>3. Greeting(c) => Greeting(c)'
  BY <1>0, <1>1 DEF Greeting
<1>4. Asking(c) => Asking(c)'
  BY <1>0, <1>1 DEF Asking
<1>5. Answering(c) => Answering(c)'
  BY <1>2 DEF Answering
<1> QED
  BY <1>3, <1>4, <1>5 DEF InStep

\* Nor does anything of a session that fails, as far as its client sees.
LEMMA FailingKept ==
  ASSUME NEW c \in Conns, Failing(c), Q!Doomed(c)', Coming(c)' = Coming(c),
         Going(c)' # <<>> => Going(c) # <<>>, net'[c].reset = net[c].reset,
         stage'[c] = stage[c], unread'[c] = unread[c], answer'[c] = answer[c],
         loaded'[c] = loaded[c], fate'[c] = fate[c],
         pc'[c] = "writing" => pc[c] = "writing" /\ reply'[c].kind = reply[c].kind
  PROVE  Failing(c)'
<1>1. Awaits(c)' = Awaits(c)
  BY DEF Awaits
<1>2. PICK code \in Causes :
        /\ code = "UploadFailed" => ~loaded[c]
        /\ IF net[c].reset THEN Awaits(c) \/ answer[c] = ErrorFrame(code)
                           ELSE Held(c, ErrorFrame(code))
  BY DEF Failing
<1>3. Held(c, ErrorFrame(code)) => Held(c, ErrorFrame(code))'
  BY <1>1 DEF Held
<1> QED
  BY <1>1, <1>2, <1>3 DEF Failing

\* The connection of a failing session is reset.
LEMMA FailingReset ==
  ASSUME NEW c \in Conns, Failing(c), Q!Doomed(c)', Going(c) # <<>> \/ net[c].reset,
         net'[c].reset, stage'[c] = stage[c], unread'[c] = unread[c],
         answer'[c] = answer[c], loaded'[c] = loaded[c], fate'[c] = fate[c],
         pc'[c] = "writing" => pc[c] = "writing" /\ reply'[c].kind = reply[c].kind
  PROVE  Failing(c)'
<1>1. Awaits(c)' = Awaits(c)
  BY DEF Awaits
<1>2. PICK code \in Causes :
        /\ code = "UploadFailed" => ~loaded[c]
        /\ Awaits(c) \/ answer[c] = ErrorFrame(code)
  BY DEF Failing, Held
<1> QED
  BY <1>1, <1>2 DEF Failing

-----------------------------------------------------------------------------
(* The session thread keeps in step.                                        *)

\* What is known of a session and its client, beside the step they are in.
LEMMA BaseFacts ==
  ASSUME Base, NEW c \in Conns
  PROVE  /\ Q!Types /\ ClientTypes /\ Q!SessionInv(c) /\ Q!WireInv(c) /\ Q!ChargedInv(c)
         /\ ClientInv(c)
         /\ Running(c) => net[c].open["client"]
         /\ ~Q!Doomed(c) => net[c].open["server"] /\ pc[c] # "closed" /\ fate[c] = "none"
         /\ reply[c].then \in {"header", "drop"}
         /\ Turning(c) => ~Q!Doomed(c)
         /\ InStep(c) => ~Q!Doomed(c)
<1>1. /\ Q!Types /\ ClientTypes /\ Q!SessionInv(c) /\ Q!WireInv(c) /\ Q!ChargedInv(c)
      /\ ClientInv(c)
  BY DEF Base, Q!ControlInv
<1>2. reply[c].then \in {"header", "drop"}
  BY <1>1 DEF Q!Types, Q!ServerTypes, Q!Written
<1>3. Turning(c) => ~Q!Doomed(c)
  BY DEF Turning, Q!Doomed
<1>4. InStep(c) => ~Q!Doomed(c)
  BY <1>3 DEF InStep, Greeting, Asking, Answering, Q!Doomed
<1>5. ~Q!Doomed(c) => net[c].open["server"] /\ pc[c] # "closed" /\ fate[c] = "none"
  BY <1>1 DEF Q!SessionInv, Q!WireInv, Q!Doomed
<1> QED
  BY <1>1, <1>2, <1>3, <1>4, <1>5 DEF ClientInv

\* A write to a client that listens.
LEMMA WriteKeeps ==
  ASSUME Base, NEW c \in Conns, net[c].open["client"], Q!Write(c), UNCHANGED client
  PROVE  /\ Going(c)' = Going(c) /\ Coming(c)' = Coming(c) /\ net'[c].reset = net[c].reset
         /\ Turning(c) => Turning(c)'
         /\ Q!Doomed(c) => Q!Doomed(c)'
         /\ pc'[c] = "writing" => pc[c] = "writing" /\ reply'[c].kind = reply[c].kind
         /\ pc[c] = "writing"
         /\ UNCHANGED <<request, left, fate, loaded, stored>>
<1>1. /\ Q!Moves(c) /\ pc[c] = "writing" /\ UNCHANGED <<request, left, fate, loaded, stored>>
      /\ \/ /\ reply[c].tokens # <<>>
            /\ Q!Wrote(c, Head(reply[c].tokens))
            /\ reply'[c].tokens = Tail(reply[c].tokens)
            /\ reply'[c].then = reply[c].then /\ reply'[c].kind = reply[c].kind
            /\ pc' = pc
         \/ /\ reply[c].tokens = <<>> /\ reply'[c].tokens = <<>>
            /\ pc'[c] = reply[c].then /\ net' = net
  BY BaseFacts, QAssumptions, Q!WriteEffect
<1>2. CASE /\ reply[c].tokens # <<>>
           /\ Q!Wrote(c, Head(reply[c].tokens))
           /\ reply'[c].tokens = Tail(reply[c].tokens)
           /\ reply'[c].then = reply[c].then /\ reply'[c].kind = reply[c].kind
           /\ pc' = pc
  <2>1. /\ net'[c].inbox["server"] = net[c].inbox["server"]
        /\ net'[c].inbox["client"] = Append(net[c].inbox["client"], Head(reply[c].tokens))
        /\ net'[c].reset = net[c].reset
    <3>1. net[c].reset \in BOOLEAN /\ net'[c].reset \in BOOLEAN
      <4>1. Q!NetTypes /\ Q!NetTypes'
        BY <1>1, BaseFacts DEF Q!Moves, Q!Types
      <4> QED
        BY <4>1 DEF Q!NetTypes, Q!Links
    <3> QED
      BY <1>2, <3>1 DEF Q!Wrote
  <2>2. Coming(c)' = Coming(c)
    <3>1. Coming(c)' = Append(net[c].inbox["client"], Head(reply[c].tokens)) \o Tail(reply[c].tokens)
      BY <1>2, <2>1 DEF Coming
    <3> QED
      BY <1>2, <3>1, ComingShape, BaseFacts
  <2>3. Going(c)' = Going(c)
    BY <2>1 DEF Going, client
  <2> QED
    BY <1>1, <1>2, <2>1, <2>2, <2>3 DEF Turning, Q!Doomed
<1>3. CASE /\ reply[c].tokens = <<>> /\ reply'[c].tokens = <<>>
           /\ pc'[c] = reply[c].then /\ net' = net
  <2>1. Going(c)' = Going(c) /\ Coming(c)' = Coming(c) /\ net'[c].reset = net[c].reset
    BY <1>3 DEF Going, Coming, client
  <2>2. pc'[c] \in {"header", "drop"}
    BY <1>3, BaseFacts
  <2> QED
    BY <1>1, <1>3, <2>1, <2>2 DEF Turning, Q!Doomed
<1> QED
  BY <1>1, <1>2, <1>3

\* The thread of a session that ended only writes what it has to, drops its
\* matrices and closes its stream.
LEMMA DoomedSteps ==
  ASSUME NEW c \in Conns, Q!Doomed(c), ServerStep(c)
  PROVE  Q!Write(c) \/ Q!WriteFails(c) \/ (\E m \in Matrices : Q!DropMatrix(c, m)) \/ Q!CloseStream(c)
<1>1. pc[c] \in {"drop", "closed", "writing"}
  BY DEF Q!Doomed
<1> QED
  BY <1>1, SameServer DEF Q!ServerStep, Q!ReadHello, Q!HelloFails, Q!ReadHeader, Q!HeaderEnds,
     Q!ReadPart, Q!ReserveFails, Q!PayloadEnds, Q!UploadRefused, Q!ReserveSet, Q!CommitSucceeds,
     Q!CommitFails, Q!EvaluateInvalid, Q!EngineAnswers, Q!EngineFails

\* It stays ended, with the same result if it was writing an error.
LEMMA DoomedKept ==
  ASSUME Base, NEW c \in Conns, Q!Doomed(c), ServerStep(c)
  PROVE  /\ Q!Doomed(c)' /\ fate'[c] # "none" /\ loaded' = loaded
         /\ pc'[c] = "writing" => pc[c] = "writing" /\ reply'[c].kind = reply[c].kind
         /\ (pc[c] = "writing" => reply[c].kind = "error") => fate'[c] = fate[c]
<1>0. fate[c] # "none"
  BY BaseFacts DEF Q!SessionInv
<1>1. CASE Q!Write(c)
  <2>1. /\ pc[c] = "writing" /\ UNCHANGED <<fate, loaded>>
        /\ \/ /\ reply'[c].then = reply[c].then /\ reply'[c].kind = reply[c].kind
              /\ pc' = pc
           \/ pc'[c] = reply[c].then
    BY <1>1, BaseFacts, QAssumptions, Q!WriteEffect
  <2>2. reply[c].then = "drop"
    BY <2>1 DEF Q!Doomed
  <2> QED
    BY <1>0, <2>1, <2>2 DEF Q!Doomed
<1>2. CASE Q!WriteFails(c)
  <2>1. /\ pc[c] = "writing" /\ loaded' = loaded
        /\ \/ pc'[c] = reply[c].then /\ fate' = fate
           \/ reply[c].kind # "error" /\ pc'[c] = "drop" /\ fate'[c] \notin {"none", "upload"}
    BY <1>2, BaseFacts, QAssumptions, Q!WriteFailsEffect
  <2>2. reply[c].then = "drop"
    BY <2>1 DEF Q!Doomed
  <2> QED
    BY <1>0, <2>1, <2>2 DEF Q!Doomed
<1>3. ASSUME NEW m \in Matrices, Q!DropMatrix(c, m)
      PROVE  /\ Q!Doomed(c)' /\ fate'[c] # "none" /\ loaded' = loaded
             /\ pc'[c] = "writing" => pc[c] = "writing" /\ reply'[c].kind = reply[c].kind
             /\ (pc[c] = "writing" => reply[c].kind = "error") => fate'[c] = fate[c]
  <2>1. pc[c] = "drop" /\ UNCHANGED <<pc, reply, fate, loaded>>
    BY <1>3, BaseFacts, QAssumptions, Q!DropMatrixEffect
  <2> QED
    BY <1>0, <2>1 DEF Q!Doomed
<1>4. CASE Q!CloseStream(c)
  <2>1. pc'[c] = "closed" /\ UNCHANGED <<reply, fate, loaded>>
    BY <1>4, BaseFacts, QAssumptions, Q!CloseStreamEffect
  <2> QED
    BY <1>0, <2>1 DEF Q!Doomed
<1> QED
  BY <1>1, <1>2, <1>3, <1>4, DoomedSteps

\* A session that fails goes on to fail.
LEMMA FailingStep ==
  ASSUME Base, NEW c \in Conns, Running(c), Failing(c), ServerStep(c), UNCHANGED client
  PROVE  Failing(c)'
<1>1. /\ Q!Doomed(c) /\ Q!Doomed(c)' /\ loaded'[c] = loaded[c] /\ fate'[c] = fate[c]
      /\ pc'[c] = "writing" => pc[c] = "writing" /\ reply'[c].kind = reply[c].kind
  BY DoomedKept DEF Failing
<1>2. stage'[c] = stage[c] /\ unread'[c] = unread[c] /\ answer'[c] = answer[c]
      /\ unsent'[c] = unsent[c]
  BY DEF client
<1>3. net[c].open["client"]
  BY BaseFacts
<1>4. CASE Q!Write(c)
  <2>1. Going(c)' = Going(c) /\ Coming(c)' = Coming(c) /\ net'[c].reset = net[c].reset
    BY <1>3, <1>4, WriteKeeps
  <2> QED
    BY <1>1, <1>2, <2>1, FailingKept
<1>5. CASE Q!WriteFails(c)
  <2>1. net[c].reset /\ net' = net
    BY <1>5, BaseFacts, QAssumptions, Q!WriteFailsEffect
  <2> QED
    BY <1>1, <1>2, <2>1, FailingReset
<1>6. ASSUME NEW m \in Matrices, Q!DropMatrix(c, m)
      PROVE  Failing(c)'
  <2>1. net' = net /\ reply' = reply
    BY <1>6, BaseFacts, QAssumptions, Q!DropMatrixEffect
  <2>2. Going(c)' = Going(c) /\ Coming(c)' = Coming(c)
    BY <1>2, <2>1 DEF Going, Coming
  <2> QED
    BY <1>1, <1>2, <2>1, <2>2, FailingKept
<1>7. CASE Q!CloseStream(c)
  <2>1. /\ reply' = reply /\ net'[c].inbox["server"] = <<>> /\ Q!NetTypes'
        /\ \/ /\ net'[c].reset = net[c].reset
              /\ net'[c].inbox["client"] = net[c].inbox["client"]
           \/ net'[c].reset /\ net'[c].inbox["client"] = <<>>
    BY <1>7, BaseFacts, QAssumptions, Q!CloseStreamEffect DEF Q!Moves
  <2>2. CASE /\ net'[c].reset = net[c].reset
             /\ net'[c].inbox["client"] = net[c].inbox["client"]
    <3>1. Coming(c)' = Coming(c)
      BY <2>1, <2>2 DEF Coming
    <3>2. Going(c)' # <<>> => unsent[c] # <<>>
      <4>1. Going(c)' = <<>> \o unsent[c]
        BY <1>2, <2>1 DEF Going
      <4> QED
        BY <4>1
    <3>3. Going(c)' # <<>> => Going(c) # <<>>
      BY <3>2, GoingShape, BaseFacts
    <3> QED
      BY <1>1, <1>2, <2>2, <3>1, <3>3, FailingKept
  <2>3. CASE net'[c].reset
    <3>1. net[c].reset \/ Unread(c, "server") # <<>>
      <4> DEFINE closed == [net[c] EXCEPT !.open["server"] = FALSE, !.inbox["server"] = <<>>]
      <4>1. CASE net' = [net EXCEPT ![c] = closed]
        <5>1. net \in [Conns -> Q!Links]
          BY BaseFacts DEF Q!Types, Q!NetTypes
        <5>2. closed.reset = net[c].reset
          BY <5>1 DEF Q!Links
        <5> HIDE DEF closed
        <5> QED
          BY <2>3, <4>1, <5>1, <5>2
      <4> QED
        BY <1>7, <4>1 DEF Q!CloseStream, Q!Closes, Q!Unread, Unread
    <3>2. Unread(c, "server") # <<>> => Going(c) # <<>>
      BY GoingShape, BaseFacts DEF Unread
    <3> QED
      BY <1>1, <1>2, <2>3, <3>1, <3>2, FailingReset
  <2> QED
    BY <2>1, <2>2, <2>3
<1> QED
  BY <1>1, <1>4, <1>5, <1>6, <1>7, DoomedSteps

\* What a thread writes when nothing was to arrive is what is to arrive.
LEMMA RepliesComing ==
  ASSUME Base, NEW c \in Conns, Coming(c) = <<>>, NEW kind, NEW then,
         NEW tokens \in Seq(Q!ServerTokens), Replies(c, kind, tokens, then),
         net'[c].inbox["client"] = net[c].inbox["client"]
  PROVE  /\ Coming(c)' = tokens /\ pc'[c] = "writing"
         /\ reply'[c].kind = kind /\ reply'[c].then = then
<1>1. reply \in [Conns -> Q!Written] /\ pc \in [Conns -> Q!Phases]
  BY BaseFacts DEF Q!Types, Q!ServerTypes
<1>2. /\ reply'[c] = [kind |-> kind, tokens |-> tokens, then |-> then]
      /\ pc'[c] = "writing"
  BY <1>1 DEF Replies
<1>3. net[c].inbox["client"] = <<>>
  BY ComingShape, BaseFacts
<1>4. Coming(c)' = net[c].inbox["client"] \o tokens
  BY <1>2 DEF Coming
<1>5. Coming(c)' = tokens
  BY <1>3, <1>4, ComingShape, BaseFacts
<1> QED
  BY <1>2, <1>5

\* The tokens of an error the thread can give a client in step.
LEMMA CauseTokens ==
  ASSUME NEW code \in Causes
  PROVE  /\ Frame(ErrorFrame(code)) \in Seq(Q!ServerTokens)
         /\ ErrorFrame(code).part = "header" /\ ErrorFrame(code).kind = "Error"
         /\ ErrorFrame(code).code = code /\ ErrorFrame(code) # NoAnswer
<1>1. code \in Q!Codes
  BY DEF Causes, Q!Codes
<1>2. ErrorFrame(code) \in Q!ServerTokens /\ Payload \in Q!ServerTokens
  BY <1>1, QAssumptions, Q!ErrorShape, SameTokens DEF Q!ServerTokens
<1>3. Frame(ErrorFrame(code)) \in Seq(Q!ServerTokens)
  BY <1>2, FrameShape
<1>4. /\ ErrorFrame(code).part = "header" /\ ErrorFrame(code).kind = "Error"
      /\ ErrorFrame(code).code = code
  BY DEF ErrorFrame
<1>5. NoAnswer.part = "none"
  BY DEF NoAnswer
<1> QED
  BY <1>3, <1>4, <1>5

\* The tokens of the answer.
LEMMA AnswerTokens ==
  ASSUME NEW c \in Conns
  PROVE  /\ Frame(Answers(c)) \in Seq(Q!ServerTokens)
         /\ Answers(c).part = "header" /\ Answers(c).kind = Expects(c)
         /\ Answers(c).entries = Entries(Sets[c]) /\ Answers(c) # NoAnswer
         /\ Expects(c) \in {"UploadAccepted", "Products"}
<1>1. Expects(c) \in {"UploadAccepted", "Products"}
  BY DEF Expects
<1>2. Entries(Sets[c]) \in Q!Numberings /\ Entries(Sets[c]) \in Q!Listings
  BY SetsAssumption, QAssumptions, Q!EntriesType, SameTokens DEF Q!Numberings
<1>3. Answers(c) \in Q!ServerTokens /\ Payload \in Q!ServerTokens
  BY <1>1, <1>2, QAssumptions, Q!AnswerShape, SameTokens DEF Answers, Q!ServerTokens
<1>4. Frame(Answers(c)) \in Seq(Q!ServerTokens)
  BY <1>3, FrameShape
<1>5. /\ Answers(c).part = "header" /\ Answers(c).kind = Expects(c)
      /\ Answers(c).entries = Entries(Sets[c])
  BY DEF Answers, Answer
<1>6. NoAnswer.part = "none"
  BY DEF NoAnswer
<1> QED
  BY <1>1, <1>4, <1>5, <1>6

\* A request that is refused, or fails in the engine or for want of memory.
LEMMA StartsFailing ==
  ASSUME Base, NEW c \in Conns, InStep(c), Asking(c), NEW code \in Causes,
         NEW f \in Q!Fates \ {"none"}, RejectsAndCloses(c, code, f),
         UNCHANGED net, UNCHANGED client,
         Going(c) # <<>> => f = "transport", code = "UploadFailed" => ~loaded'[c]
  PROVE  Failing(c)'
<1>1. Replies(c, "error", Frame(ErrorFrame(code)), "drop") /\ fate'[c] = f
  <2>1. fate \in [Conns -> Q!Fates]
    BY BaseFacts DEF Q!Types, Q!ServerTypes
  <2> QED
    BY <2>1 DEF RejectsAndCloses
<1>2. stage[c] \in {"upload", "evaluate"} /\ Awaits(c) /\ Coming(c) = <<>> /\ ~net[c].reset
  BY DEF Asking, InStep
<1>3. Frame(ErrorFrame(code)) \in Seq(Q!ServerTokens)
  BY CauseTokens
<1>4. /\ Coming(c)' = Frame(ErrorFrame(code)) /\ pc'[c] = "writing"
      /\ reply'[c].kind = "error" /\ reply'[c].then = "drop"
  BY <1>1, <1>2, <1>3, RepliesComing
<1>5. Going(c)' = Going(c) /\ Awaits(c)' = Awaits(c) /\ stage'[c] = stage[c]
  BY DEF Going, Awaits, client
<1>6. Q!Doomed(c)'
  BY <1>4 DEF Q!Doomed
<1>7. Held(c, ErrorFrame(code))'
  BY <1>2, <1>4, <1>5 DEF Held
<1> QED
  BY <1>1, <1>2, <1>4, <1>5, <1>6, <1>7 DEF Failing

\* The handshake.
LEMMA HelloLock ==
  ASSUME Base, NEW c \in Conns, Running(c), InStep(c), UNCHANGED client,
         ReadHello(c) \/ HelloFails(c)
  PROVE  InStep(c)'
<1>1. /\ pc[c] = "hello" /\ ~Q!Doomed(c) /\ net[c].open["client"] /\ net[c].open["server"]
      /\ ~net[c].reset
  BY BaseFacts DEF ReadHello, HelloFails, InStep
<1>2. Greeting(c) /\ Going(c) = ClientHello /\ Coming(c) = <<>> /\ ~loaded[c]
  BY <1>1 DEF InStep, Greeting, Asking, Answering, Turning
<1>3. CASE HelloFails(c)
  BY <1>1, <1>3 DEF HelloFails, EndOfStream, ReadFails, Other
<1>4. CASE ReadHello(c)
  <2>1. PICK content \in {"good", "foreign", "magic"} :
          /\ Receives(c, "server", Hello(content))
          /\ \/ /\ content = "good"
                /\ Replies(c, "status", <<Status(TRUE)>>, "header")
                /\ UNCHANGED fate
             \/ content # "good"
    BY <1>4 DEF ReadHello
  <2>2. UNCHANGED <<request, left, loaded, stored, charged>>
    BY <1>4 DEF ReadHello
  <2>3. Q!Took(c) /\ Hello(content) = Head(net[c].inbox["server"])
    <3>1. Q!Receives(c, "server", Hello(content))
      BY <2>1, SameWire DEF Sides
    <3> QED
      BY <3>1, QAssumptions, Q!ServerTook, BaseFacts DEF Q!Types
  <2>4. content = "good"
    <3>1. Hello(content) = Hello("good")
      BY <1>2, <2>3, GoingShape, BaseFacts, UnsentShape DEF Q!Took
    <3> QED
      BY <3>1 DEF Hello
  <2>5. Going(c)' = <<>>
    <3>1. Going(c)' = Tail(net[c].inbox["server"]) \o unsent[c]
      BY <2>3 DEF Going, Q!Took, client
    <3>2. Going(c)' = Tail(ClientHello)
      BY <1>2, <2>3, <3>1, GoingShape, BaseFacts DEF Q!Took
    <3> QED
      BY <3>2, UnsentShape
  <2>6. Coming(c)' = <<Status(TRUE)>> /\ pc'[c] = "writing" /\ reply'[c].then = "header"
    <3>1. <<Status(TRUE)>> \in Seq(Q!ServerTokens)
      BY QAssumptions, Q!StatusShape, SameTokens
    <3>2. net'[c].inbox["client"] = net[c].inbox["client"]
      BY <2>3 DEF Q!Took
    <3> DEFINE tokens == <<Status(TRUE)>>
    <3>3. tokens \in Seq(Q!ServerTokens) /\ Replies(c, "status", tokens, "header")
      BY <2>1, <2>4, <3>1
    <3> HIDE DEF tokens
    <3>4. Coming(c)' = tokens /\ pc'[c] = "writing" /\ reply'[c].then = "header"
      BY <1>2, <3>2, <3>3, RepliesComing
    <3> QED
      BY <3>4 DEF tokens
  <2>7. net'[c].reset = net[c].reset /\ loaded'[c] = loaded[c] /\ stage'[c] = stage[c]
        /\ Awaits(c)' = Awaits(c)
    BY <2>2, <2>3 DEF Q!Took, client, Awaits
  <2>8. Greeting(c)'
    BY <1>2, <2>5, <2>6, <2>7 DEF Greeting, Turning
  <2> QED
    BY <1>1, <1>2, <2>7, <2>8 DEF InStep
<1> QED
  BY <1>3, <1>4

\* The header of the request.
LEMMA HeaderLock ==
  ASSUME Base, NEW c \in Conns, Running(c), InStep(c), UNCHANGED client,
         ReadHeader(c) \/ HeaderEnds(c)
  PROVE  InStep(c)'
<1>1. /\ pc[c] = "header" /\ ~Q!Doomed(c) /\ net[c].open["client"] /\ net[c].open["server"]
      /\ ~net[c].reset
  BY BaseFacts DEF ReadHeader, HeaderEnds, InStep
<1>2. CASE HeaderEnds(c)
  BY <1>1, <1>2 DEF HeaderEnds, EndOfStream, ReadFails, Other
<1>3. CASE ReadHeader(c)
  <2>1. /\ Q!Took(c) /\ request'[c] = Head(net[c].inbox["server"])
        /\ UNCHANGED <<loaded, stored, charged>>
        /\ \/ pc'[c] = "payload" /\ left'[c] = Parts /\ reply' = reply
           \/ Q!Fails(c)
    BY <1>3, BaseFacts, SameServer, QAssumptions, Q!ReadHeaderEffect
  <2>2. net[c].inbox["server"] # <<>>
    BY <2>1 DEF Q!Took
  <2>3. Going(c) # <<>> /\ Head(Going(c)) = Head(net[c].inbox["server"])
        /\ Tail(Going(c)) = Tail(net[c].inbox["server"]) \o unsent[c]
    BY <2>2, GoingShape, BaseFacts
  <2>4. Asking(c) /\ Going(c) = Frame(Asks(c)) /\ Coming(c) = <<>>
    BY <1>1, <2>3 DEF InStep, Greeting, Asking, Answering
  <2>5. request'[c] = Asks(c) /\ Tail(Going(c)) = Payloads(Parts)
    BY <2>1, <2>3, <2>4, FrameShape
  <2>6. TakesPayload(c, Head(net[c].inbox["server"]).kind)
    <3>1. Head(net[c].inbox["server"]).kind = Kind(c)
      BY <2>1, <2>5 DEF Asks, Wanted, Request
    <3> QED
      BY <2>4, <3>1 DEF Asking, TakesPayload, Kind
  <2>7. pc'[c] = "payload" /\ left'[c] = Parts /\ reply' = reply
    <3>1. pc \in [Conns -> Q!Phases]
      BY BaseFacts DEF Q!Types, Q!ServerTypes
    <3>2. pc'[c] = "payload"
      BY <1>3, <2>6, <3>1 DEF ReadHeader, Unread
    <3> QED
      BY <2>1, <3>2 DEF Q!Fails, Q!Writes
  <2>8. /\ Going(c)' = Payloads(Parts) /\ Coming(c)' = Coming(c)
        /\ net'[c].reset = net[c].reset
    BY <2>1, <2>3, <2>5, <2>7 DEF Going, Coming, Q!Took, client
  <2>9. Asks(c)' = Asks(c) /\ Awaits(c)' = Awaits(c) /\ stage'[c] = stage[c]
    BY DEF Asks, Kind, Awaits, client
  <2>10. Asking(c)'
    BY <2>1, <2>4, <2>5, <2>7, <2>8, <2>9 DEF Asking
  <2> QED
    BY <1>1, <2>1, <2>8, <2>10 DEF InStep
<1> QED
  BY <1>2, <1>3

\* The payload of the request.
LEMMA PayloadLock ==
  ASSUME Base, NEW c \in Conns, Running(c), InStep(c), UNCHANGED client,
         ReadPart(c) \/ ReserveFails(c) \/ PayloadEnds(c)
  PROVE  LockStep(c)'
<1>1. /\ pc[c] = "payload" /\ ~Q!Doomed(c) /\ net[c].open["client"] /\ net[c].open["server"]
      /\ ~net[c].reset
  BY BaseFacts DEF ReadPart, ReserveFails, PayloadEnds, InStep
<1>2. Asking(c) /\ Coming(c) = <<>> /\ request[c] = Asks(c) /\ Going(c) = Payloads(left[c])
  BY <1>1 DEF InStep, Greeting, Asking, Answering, Turning
<1>3. CASE PayloadEnds(c)
  BY <1>1, <1>3 DEF PayloadEnds, EndOfStream, ReadFails, Other
<1>4. CASE ReserveFails(c)
  <2>1. /\ RejectsAndCloses(c, "AllocationFailed", "transport")
        /\ UNCHANGED net
    BY <1>4 DEF ReserveFails
  <2>2. "AllocationFailed" \in Causes /\ "transport" \in Q!Fates \ {"none"}
    BY DEF Causes, Q!Fates
  <2>3. Failing(c)'
    BY <1>2, <2>1, <2>2, StartsFailing
  <2> QED
    BY <2>3 DEF LockStep
<1>5. CASE ReadPart(c)
  <2>1. /\ Q!Took(c) /\ left'[c] = left[c] - 1
        /\ UNCHANGED <<request, loaded, stored, charged>>
        /\ \/ left[c] > 1 /\ pc'[c] = "payload" /\ reply' = reply
           \/ left[c] = 1 /\ pc'[c] = "decoded" /\ reply' = reply
           \/ Q!Fails(c)
    BY <1>5, BaseFacts, SameServer, QAssumptions, Q!ReadPartEffect
  <2>2. pc'[c] # "writing"
    <3>1. request[c].content = "good"
      BY <1>2 DEF Asks, Wanted, Request
    <3>2. pc \in [Conns -> Q!Phases]
      BY BaseFacts DEF Q!Types, Q!ServerTypes
    <3> QED
      BY <1>1, <1>5, <3>1, <3>2 DEF ReadPart
  <2>3. left[c] \in 1 .. Parts
    BY <1>1, BaseFacts DEF Q!Types, Q!ServerTypes
  <2>4. /\ Going(c)' = Tail(net[c].inbox["server"]) \o unsent[c]
        /\ Coming(c)' = Coming(c) /\ net'[c].reset = net[c].reset
    BY <2>1, <2>2 DEF Going, Coming, Q!Took, client, Q!Fails, Q!Writes
  <2>5. Going(c)' = Tail(Payloads(left[c]))
    BY <1>2, <2>1, <2>4, GoingShape, BaseFacts DEF Q!Took
  <2>6. Going(c)' = Payloads(left[c] - 1) /\ (left[c] = 1 => Going(c)' = <<>>)
    <3>1. left[c] \in 0 .. Parts /\ left[c] # 0 /\ left[c] - 1 \in 0 .. Parts
      BY <2>3, WireAssumption
    <3>2. left[c] = 1 => left[c] - 1 = 0
      OBVIOUS
    <3> QED
      BY <2>5, <3>1, <3>2, UnsentShape
  <2>7. Asks(c)' = Asks(c) /\ Awaits(c)' = Awaits(c) /\ stage'[c] = stage[c]
    BY DEF Asks, Kind, Awaits, client
  <2>8. Asking(c)'
    <3>1. pc'[c] = "payload" \/ (pc'[c] = "decoded" /\ left[c] = 1)
      BY <2>1, <2>2 DEF Q!Fails, Q!Writes
    <3> QED
      BY <1>2, <2>1, <2>4, <2>6, <2>7, <3>1 DEF Asking
  <2>9. InStep(c)'
    BY <1>1, <2>1, <2>4, <2>8 DEF InStep
  <2> QED
    BY <2>9 DEF LockStep
<1> QED
  BY <1>3, <1>4, <1>5

\* Between the request and its answer.
LEMMA HandledShape ==
  ASSUME Base, NEW c \in Conns, InStep(c), pc[c] \in {"decoded", "commit"}
  PROVE  /\ Asking(c) /\ Coming(c) = <<>> /\ Going(c) = <<>> /\ Awaits(c)
         /\ request[c].kind = Kind(c) /\ request[c].content = "good"
         /\ request[c].kind = "UploadMatrices" => request[c].set = Sets[c]
         /\ request[c].kind = "Evaluate" => request[c].entries = Entries(Sets[c])
         /\ stage[c] \in {"upload", "evaluate"} /\ (loaded[c] <=> stage[c] = "evaluate")
         /\ request[c].kind = "UploadMatrices" => stage[c] = "upload"
         /\ request[c].kind = "Evaluate" => stage[c] = "evaluate"
         /\ loaded[c] => stored[c] = Sets[c]
         /\ ~net[c].reset /\ ~Q!Doomed(c)
<1>1. Asking(c) /\ request[c] = Asks(c) /\ Going(c) = <<>>
  BY DEF InStep, Greeting, Asking, Answering, Turning
<1>2. /\ request[c].kind = Kind(c) /\ request[c].content = "good"
      /\ request[c].kind = "UploadMatrices" => request[c].set = Sets[c]
      /\ request[c].kind = "Evaluate" => request[c].entries = Entries(Sets[c])
  BY <1>1 DEF Asks, Kind, Wanted, Request
<1>3. ~net[c].reset /\ (loaded[c] => stored[c] = Sets[c]) /\ ~Q!Doomed(c)
  BY BaseFacts DEF InStep
<1> QED
  BY <1>1, <1>2, <1>3 DEF Asking, Kind

\* The answer of the stage, when the thread gives it.
LEMMA StartsAnswering ==
  ASSUME Base, NEW c \in Conns, InStep(c), pc[c] \in {"decoded", "commit"},
         Replies(c, "answer", Frame(Answers(c)), "header"), UNCHANGED net, UNCHANGED client,
         loaded'[c], stored'[c] = Sets[c]
  PROVE  LockStep(c)'
<1>1. /\ Coming(c) = <<>> /\ Going(c) = <<>> /\ Awaits(c) /\ ~net[c].reset
      /\ stage[c] \in {"upload", "evaluate"}
  BY HandledShape
<1>2. Frame(Answers(c)) \in Seq(Q!ServerTokens)
  BY AnswerTokens
<1>3. Coming(c)' = Frame(Answers(c)) /\ pc'[c] = "writing" /\ reply'[c].then = "header"
  BY <1>1, <1>2, RepliesComing
<1>4. /\ Answers(c)' = Answers(c) /\ Awaits(c)' = Awaits(c) /\ stage'[c] = stage[c]
      /\ Going(c)' = Going(c)
  BY DEF Answers, Expects, Awaits, Going, client
<1>5. Held(c, Answers(c))'
  BY <1>1, <1>3, <1>4 DEF Held
<1>6. Answering(c)'
  BY <1>1, <1>3, <1>4, <1>5 DEF Answering, Turning
<1> QED
  BY <1>1, <1>6 DEF InStep, LockStep

\* The upload.
LEMMA UploadLock ==
  ASSUME Base, NEW c \in Conns, Running(c), InStep(c), UNCHANGED client,
         UploadRefused(c) \/ ReserveSet(c) \/ CommitSucceeds(c) \/ CommitFails(c)
  PROVE  LockStep(c)'
<1>1. pc[c] \in {"decoded", "commit"}
  BY DEF UploadRefused, ReserveSet, CommitSucceeds, CommitFails
<1>2. /\ Asking(c) /\ Coming(c) = <<>> /\ Going(c) = <<>> /\ request[c].content = "good"
      /\ request[c].kind = "UploadMatrices" => request[c].set = Sets[c]
      /\ (loaded[c] <=> stage[c] = "evaluate")
      /\ request[c].kind = "UploadMatrices" => stage[c] = "upload"
      /\ ~net[c].reset
  BY <1>1, HandledShape
<1>3. request[c].kind = "UploadMatrices"
  BY BaseFacts DEF UploadRefused, ReserveSet, CommitSucceeds, CommitFails, Q!SessionInv
<1>4. stage[c] = "upload" /\ ~loaded[c] /\ request[c].set = Sets[c]
  BY <1>2, <1>3
<1>5. Causes = {"UploadFailed", "GpuFailure", "AllocationFailed"}
      /\ {"transport", "ok", "upload"} \subseteq Q!Fates \ {"none"}
  BY DEF Causes, Q!Fates
<1>6. CASE UploadRefused(c)
  <2>1. RejectsAndCloses(c, "UploadFailed", "ok") /\ UNCHANGED <<net, loaded>>
    BY <1>2, <1>6 DEF UploadRefused
  <2>2. Failing(c)'
    BY <1>2, <1>4, <1>5, <2>1, StartsFailing
  <2> QED
    BY <2>2 DEF LockStep
<1>7. CASE ReserveSet(c)
  <2>1. UNCHANGED <<net, request, left, reply, loaded, stored>> /\ pc'[c] = "commit"
    <3>1. pc \in [Conns -> Q!Phases]
      BY BaseFacts DEF Q!Types, Q!ServerTypes
    <3> QED
      BY <1>7, <3>1 DEF ReserveSet
  <2>2. /\ Going(c)' = Going(c) /\ Coming(c)' = Coming(c) /\ Asks(c)' = Asks(c)
        /\ Awaits(c)' = Awaits(c) /\ stage'[c] = stage[c]
    BY <2>1 DEF Going, Coming, Asks, Kind, Awaits, client
  <2>3. request[c] = Asks(c)
    BY <1>1, <1>2 DEF Asking, Turning
  <2>4. Asking(c)'
    BY <1>2, <2>1, <2>2, <2>3 DEF Asking
  <2> QED
    BY <1>4, <1>2, <2>1, <2>4 DEF InStep, LockStep
<1>8. CASE CommitSucceeds(c)
  <2>1. /\ loaded'[c] /\ stored'[c] = Sets[c] /\ UNCHANGED net
        /\ \/ Replies(c, "answer", Frame(Answer("UploadAccepted", Entries(Sets[c]))), "header")
           \/ RejectsAndCloses(c, "AllocationFailed", "transport")
    <3>1. loaded \in [Conns -> BOOLEAN] /\ stored \in [Conns -> SUBSET Matrices]
      BY BaseFacts DEF Q!Types, Q!ServerTypes
    <3> QED
      BY <1>4, <1>8, <3>1 DEF CommitSucceeds
  <2>2. Answers(c) = Answer("UploadAccepted", Entries(Sets[c]))
    BY <1>4 DEF Answers, Expects
  <2>3. CASE RejectsAndCloses(c, "AllocationFailed", "transport")
    <3>1. Failing(c)'
      BY <1>2, <1>5, <2>1, <2>3, StartsFailing
    <3> QED
      BY <3>1 DEF LockStep
  <2> QED
    BY <1>1, <2>1, <2>2, <2>3, StartsAnswering
<1>9. CASE CommitFails(c)
  <2>1. RejectsAndCloses(c, "UploadFailed", "upload") /\ UNCHANGED <<net, loaded>>
    BY <1>9 DEF CommitFails
  <2>2. Failing(c)'
    BY <1>2, <1>4, <1>5, <2>1, StartsFailing
  <2> QED
    BY <2>2 DEF LockStep
<1> QED
  BY <1>6, <1>7, <1>8, <1>9

\* A client that names its own matrices by the identifiers they got is
\* understood, and answered about them.
LEMMA OwnEvaluation ==
  ASSUME NEW c \in Conns, request[c].content = "good", request[c].entries = Entries(Sets[c]),
         stored[c] = Sets[c]
  PROVE  Valid(c) /\ Products(c) = Entries(Sets[c])
<1>1. Sets[c] # {} /\ \A m, n \in Sets[c] : Place[m] = Place[n] => m = n
  BY ClientAssumption, SetsAssumption DEF Placed
<1>2. ASSUME NEW m \in Sets[c] PROVE Matrix(c, Place[m]) = m
  BY <1>1 DEF Matrix, Known
<1>3. ASSUME NEW e \in Entries(Sets[c])
      PROVE  /\ \E m \in Known(c) : Place[m] = e[1]
             /\ Matrix(c, e[1]) = e[2] /\ e = <<e[1], e[2]>> /\ e[2] \in Sets[c]
  <2>1. PICK m \in Sets[c] : e = <<Place[m], m>>
    BY DEF Entries
  <2> QED
    BY <1>2, <2>1 DEF Known
<1>4. \A e, f \in Entries(Sets[c]) : e[1] = f[1] => e = f
  BY <1>3
<1>5. Entries(Sets[c]) # {}
  BY <1>1, EntriesShape
<1>6. Products(c) = Entries(Sets[c])
  BY <1>3 DEF Products
<1> QED
  BY <1>3, <1>4, <1>5, <1>6 DEF Valid

\* The evaluation.
LEMMA EvaluateLock ==
  ASSUME Base, NEW c \in Conns, Running(c), InStep(c), UNCHANGED client,
         EvaluateInvalid(c) \/ EngineAnswers(c) \/ EngineFails(c)
  PROVE  LockStep(c)'
<1>1. pc[c] \in {"decoded", "commit"} /\ request[c].kind = "Evaluate"
  BY DEF EvaluateInvalid, EngineAnswers, EngineFails
<1>2. /\ Asking(c) /\ Going(c) = <<>> /\ request[c].content = "good"
      /\ request[c].entries = Entries(Sets[c]) /\ stage[c] = "evaluate"
      /\ loaded[c] /\ stored[c] = Sets[c]
  BY <1>1, HandledShape
<1>3. Valid(c) /\ Products(c) = Entries(Sets[c])
  BY <1>2, OwnEvaluation
<1>4. CASE EvaluateInvalid(c)
  BY <1>3, <1>4 DEF EvaluateInvalid
<1>5. CASE EngineAnswers(c)
  <2>1. /\ Replies(c, "answer", Frame(Answer("Products", Entries(Sets[c]))), "header")
        /\ UNCHANGED <<net, loaded, stored>>
    BY <1>3, <1>5 DEF EngineAnswers
  <2>2. Answers(c) = Answer("Products", Entries(Sets[c]))
    BY <1>2 DEF Answers, Expects
  <2> QED
    BY <1>1, <1>2, <2>1, <2>2, StartsAnswering
<1>6. CASE EngineFails(c)
  <2>1. RejectsAndCloses(c, "GpuFailure", "engine") /\ UNCHANGED net
    BY <1>6 DEF EngineFails
  <2>2. "GpuFailure" \in Causes /\ "engine" \in Q!Fates \ {"none"}
    BY DEF Causes, Q!Fates
  <2>3. Failing(c)'
    BY <1>2, <2>1, <2>2, StartsFailing
  <2> QED
    BY <2>3 DEF LockStep
<1> QED
  BY <1>4, <1>5, <1>6

\* Every step of the thread.
LEMMA ServerLock ==
  ASSUME Base, NEW c \in Conns, Running(c), LockStep(c), ServerStep(c), UNCHANGED client
  PROVE  LockStep(c)'
<1>1. CASE Failing(c)
  BY <1>1, FailingStep DEF LockStep
<1>2. CASE InStep(c)
  <2>1. ~Q!Doomed(c) /\ ~net[c].reset /\ net[c].open["client"]
    BY <1>2, BaseFacts DEF InStep
  <2>2. CASE Write(c)
    <3>1. Q!Write(c)
      BY <2>2, SameServer
    <3>2. /\ Going(c)' = Going(c) /\ Coming(c)' = Coming(c) /\ net'[c].reset = net[c].reset
          /\ pc[c] = "writing" /\ (Turning(c) => Turning(c)')
          /\ UNCHANGED <<request, left, fate, loaded, stored>>
      BY <2>1, <3>1, WriteKeeps
    <3>3. Turning(c)
      <4>1. reply[c].then \in {"header", "drop"}
        BY BaseFacts
      <4> QED
        BY <2>1, <3>2, <4>1 DEF Turning, Q!Doomed
    <3>4. InStep(c)'
      BY <1>2, <3>2, <3>3, InStepKept DEF client
    <3> QED
      BY <3>4 DEF LockStep
  <2>3. ~WriteFails(c) /\ ~CloseStream(c) /\ ~\E m \in Matrices : DropMatrix(c, m)
    BY <2>1 DEF WriteFails, SendFails, CloseStream, DropMatrix, Q!Doomed
  <2> QED
    BY <1>2, <2>2, <2>3, HelloLock, HeaderLock, PayloadLock, UploadLock, EvaluateLock
       DEF ServerStep, LockStep
<1> QED
  BY <1>1, <1>2 DEF LockStep

-----------------------------------------------------------------------------
(* The client keeps in step.                                                *)

\* A write to a thread that reads, or to one that failed.
LEMMA SendLock ==
  ASSUME Base, NEW c \in Conns, LockInv(c), Send(c), UNCHANGED server
  PROVE  LockInv(c)'
<1>1. /\ Running(c) /\ unsent[c] # <<>> /\ UNCHANGED <<stage, unread, answer>>
      /\ LockStep(c) /\ Returned(c)
      /\ \/ /\ Q!Sent(c, Head(unsent[c]))
            /\ unsent'[c] = Tail(unsent[c]) /\ outcome' = outcome
         \/ /\ net[c].reset /\ outcome'[c] = "codec" /\ UNCHANGED <<net, unsent>>
  BY SendEffect, BaseFacts DEF LockInv
<1>2. Going(c) # <<>>
  BY <1>1, GoingShape, BaseFacts
<1>3. CASE Q!Sent(c, Head(unsent[c])) /\ unsent'[c] = Tail(unsent[c]) /\ outcome' = outcome
  <2>1. Returned(c)'
    BY <1>1, <1>3 DEF Returned, server
  <2>2. ~net[c].reset
    BY <1>3 DEF Q!Sent
  <2>3. Q!Doomed(c)' = Q!Doomed(c)
    BY DEF Q!Doomed, server
  <2>4. CASE net[c].open["server"]
    <3>1. /\ ~net'[c].reset
          /\ net'[c].inbox["client"] = net[c].inbox["client"]
          /\ net'[c].inbox["server"] = Append(net[c].inbox["server"], Head(unsent[c]))
      BY <1>3, <2>4 DEF Q!Sent
    <3>2. Going(c)' = Going(c)
      <4>1. Going(c)' = Append(net[c].inbox["server"], Head(unsent[c])) \o Tail(unsent[c])
        BY <1>3, <3>1 DEF Going
      <4> QED
        BY <1>1, <4>1, GoingShape, BaseFacts
    <3>3. Coming(c)' = Coming(c)
      BY <3>1 DEF Coming, server
    <3>4. net'[c].reset = net[c].reset
      <4>1. net[c].reset \in BOOLEAN
        BY BaseFacts DEF Q!Types, Q!NetTypes, Q!Links
      <4>2. Q!NetTypes'
        BY SendEffect, BaseFacts DEF ClientMoves
      <4>3. net'[c].reset \in BOOLEAN
        BY <4>2 DEF Q!NetTypes, Q!Links
      <4> QED
        BY <2>2, <3>1, <4>1, <4>3
    <3>5. CASE InStep(c)
      <4>1. Turning(c)' = Turning(c)
        BY DEF Turning, server
      <4>2. InStep(c)'
        BY <1>1, <3>2, <3>3, <3>4, <3>5, <4>1, InStepKept DEF server
      <4> QED
        BY <2>1, <4>2 DEF LockInv, LockStep
    <3>6. CASE Failing(c)
      <4>1. Q!Doomed(c)'
        BY <2>3, <3>6 DEF Failing
      <4>2. Failing(c)'
        BY <1>1, <3>2, <3>3, <3>4, <3>6, <4>1, FailingKept DEF server
      <4> QED
        BY <2>1, <4>2 DEF LockInv, LockStep
    <3> QED
      BY <1>1, <3>5, <3>6 DEF LockStep
  <2>5. CASE ~net[c].open["server"]
    <3>1. Failing(c)
      BY <1>1, <2>5, BaseFacts DEF LockStep
    <3>2. Q!Doomed(c)'
      BY <2>3, <3>1 DEF Failing
    <3>3. CASE net'[c].reset
      <4>1. Failing(c)'
        BY <1>1, <1>2, <3>1, <3>2, <3>3, FailingReset DEF server
      <4> QED
        BY <2>1, <4>1 DEF LockInv, LockStep
    <3>4. CASE net' = net
      <4>1. Coming(c)' = Coming(c) /\ net'[c].reset = net[c].reset
        BY <3>4 DEF Coming, server
      <4>2. Failing(c)'
        BY <1>1, <1>2, <3>1, <3>2, <4>1, FailingKept DEF server
      <4> QED
        BY <2>1, <4>2 DEF LockInv, LockStep
    <3> QED
      BY <1>3, <2>5, <3>3, <3>4 DEF Q!Sent
  <2> QED
    BY <2>4, <2>5
<1>4. CASE net[c].reset /\ outcome'[c] = "codec" /\ UNCHANGED <<net, unsent>>
  <2>1. Failing(c)
    BY <1>1, <1>4 DEF LockStep, InStep
  <2>2. fate[c] = "transport" /\ (pc[c] = "writing" => reply[c].kind = "error")
    BY <1>4, <2>1 DEF Failing
  <2> QED
    BY <1>1, <1>4, <2>2 DEF LockInv, Returned, Running, server
<1> QED
  BY <1>1, <1>3, <1>4

\* A run that fails to read, because the connection is reset.
LEMMA ReadFailsLock ==
  ASSUME Base, NEW c \in Conns, Running(c), LockInv(c), ReadFails(c), outcome'[c] = "codec",
         UNCHANGED answer, UNCHANGED server
  PROVE  LockInv(c)'
<1>1. Failing(c)
  BY DEF LockInv, LockStep, InStep, ReadFails
<1>2. fate[c] = "transport" /\ (pc[c] = "writing" => reply[c].kind = "error")
  BY <1>1 DEF Failing, ReadFails
<1> QED
  BY <1>2 DEF LockInv, Returned, Running, server

\* A client that finds the end of the stream has nothing to wait for.
LEMMA NoEndOfStream ==
  ASSUME Base, NEW c \in Conns, Running(c), LockStep(c), EndOfStream(c, "client")
  PROVE  Failing(c) /\ ~net[c].reset /\ Coming(c) = <<>>
<1>1. ~net[c].open["server"] /\ net[c].inbox["client"] = <<>> /\ ~net[c].reset
  BY DEF EndOfStream, Unread, Other
<1>2. pc[c] = "closed" /\ reply[c].tokens = <<>>
  BY <1>1, BaseFacts DEF Q!WireInv, Q!SessionInv
<1>3. Coming(c) = <<>>
  BY <1>1, <1>2, ComingShape, BaseFacts
<1>4. ~InStep(c)
  BY <1>1, BaseFacts
<1> QED
  BY <1>1, <1>3, <1>4 DEF LockStep

\* The answer has tokens.
LEMMA HeldShape ==
  ASSUME NEW c \in Conns, unread \in [Conns -> 0 .. Parts], NEW header, header # NoAnswer, Held(c, header)
  PROVE  /\ answer[c] = NoAnswer => Awaits(c) /\ Coming(c) = Frame(header)
         /\ answer[c] # NoAnswer => answer[c] = header /\ Coming(c) = Payloads(unread[c])
         /\ Frame(header) # <<>>
         /\ unread[c] # 0 => Coming(c) # <<>> /\ Coming(c) = Payloads(unread[c]) /\ answer[c] = header
<1>1. unread[c] \in Nat
  BY WireAssumption
<1>2. unread[c] # 0 => Payloads(unread[c]) # <<>>
  BY <1>1, PayloadsShape
<1> QED
  BY <1>2, FrameShape DEF Held, Awaits

\* What a run came to does not change with its thread.
LEMMA ReturnedStep ==
  ASSUME Base, NEW c \in Conns, Returned(c), ServerStep(c), UNCHANGED client
  PROVE  Returned(c)'
<1>1. outcome'[c] = outcome[c] /\ answer'[c] = answer[c]
  BY DEF client
<1>2. outcome[c] = "codec" \/ (answer[c].kind = "Error" /\ answer[c].code = "UploadFailed")
        => Q!Doomed(c)
  BY BaseFacts DEF Returned, Q!SessionInv
<1>3. Q!Doomed(c) =>
        /\ fate'[c] # "none" /\ loaded' = loaded
        /\ pc'[c] = "writing" => pc[c] = "writing" /\ reply'[c].kind = reply[c].kind
        /\ (pc[c] = "writing" => reply[c].kind = "error") => fate'[c] = fate[c]
  BY DoomedKept
<1> QED
  BY <1>1, <1>2, <1>3 DEF Returned

\* What a client reads is the first of what was to arrive.
LEMMA ClientTookComing ==
  ASSUME Base, NEW c \in Conns, ClientTook(c), UNCHANGED server
  PROVE  /\ Coming(c) # <<>> /\ Head(Coming(c)) = Head(net[c].inbox["client"])
         /\ Coming(c)' = Tail(Coming(c)) /\ ~net[c].reset /\ ~net'[c].reset
         /\ net'[c].inbox["server"] = net[c].inbox["server"]
         /\ net'[c].reset = net[c].reset
<1>1. net[c].inbox["client"] # <<>>
  BY DEF ClientTook
<1>2. Coming(c) # <<>> /\ Head(Coming(c)) = Head(net[c].inbox["client"])
      /\ Tail(Coming(c)) = Tail(net[c].inbox["client"]) \o reply[c].tokens
  BY <1>1, ComingShape, BaseFacts
<1>3. Coming(c)' = Tail(net[c].inbox["client"]) \o reply[c].tokens
  BY DEF Coming, ClientTook, server
<1>4. ~net[c].reset
  BY <1>1, BaseFacts DEF Q!WireInv
<1> QED
  BY <1>2, <1>3, <1>4 DEF ClientTook

\* The end of the handshake.
LEMMA ReadStatusLock ==
  ASSUME Base, NEW c \in Conns, LockInv(c), ReadStatus(c), UNCHANGED server
  PROVE  LockInv(c)'
<1>1. /\ Running(c) /\ stage[c] = "hello" /\ unsent[c] = <<>> /\ UNCHANGED <<unread, answer>>
      /\ LockStep(c) /\ Returned(c)
  BY ReadStatusEffect, BaseFacts DEF LockInv
<1>2. Greeting(c) /\ InStep(c)
  BY <1>1 DEF LockStep, InStep, Failing, Asking, Answering
<1>3. ~EndOfStream(c, "client") /\ ~ReadFails(c)
  BY <1>1, <1>2, NoEndOfStream DEF Failing, InStep, ReadFails
<1>4. PICK ok \in BOOLEAN :
        /\ Status(ok) = Head(net[c].inbox["client"]) /\ ClientTook(c)
        /\ ok => /\ stage'[c] = "upload" /\ outcome' = outcome
                 /\ unsent'[c] = Frame(Wanted(c, "UploadMatrices"))
  BY <1>3, ReadStatusEffect, BaseFacts
<1>5. Coming(c) # <<>> /\ Head(Coming(c)) = Status(ok) /\ Coming(c)' = Tail(Coming(c))
  BY <1>4, ClientTookComing
<1>6. /\ Turning(c) /\ Going(c) = <<>> /\ Coming(c) = <<Status(TRUE)>> /\ ~loaded[c]
      /\ Awaits(c)
  BY <1>2, <1>5 DEF Greeting
<1>7. ok
  <2>1. Head(<<Status(TRUE)>>) = Status(TRUE)
    OBVIOUS
  <2>2. Status(ok) = Status(TRUE)
    BY <1>5, <1>6, <2>1
  <2> QED
    BY <2>2 DEF Status
<1>8. Coming(c)' = <<>>
  <2>1. Tail(<<Status(TRUE)>>) = <<>>
    OBVIOUS
  <2> QED
    BY <1>5, <1>6, <2>1
<1>9. Going(c)' = Frame(Asks(c))'
  <2>1. Frame(Asks(c))' = Frame(Wanted(c, "UploadMatrices"))
    BY <1>4, <1>7 DEF Asks, Kind, Wanted, Request, Frame, Entries
  <2>2. Going(c)' = net[c].inbox["server"] \o Frame(Wanted(c, "UploadMatrices"))
    BY <1>4, <1>7, ClientTookComing DEF Going
  <2>3. Frame(Wanted(c, "UploadMatrices")) \in Seq(Q!Tokens)
    BY FrameShape, ClientTokens DEF Wanted, Request
  <2> DEFINE u == Frame(Wanted(c, "UploadMatrices"))
  <2>4. u \in Seq(Q!Tokens) /\ net[c].inbox["server"] = <<>>
    BY <1>6, <2>3, GoingShape, BaseFacts
  <2> HIDE DEF u
  <2>5. net[c].inbox["server"] \o u = u
    BY <2>4, GoingShape, BaseFacts
  <2> QED
    BY <2>1, <2>2, <2>5 DEF u
<1>10. InStep(c)'
  <2>1. Awaits(c)' /\ Turning(c)' /\ ~net'[c].reset /\ loaded' = loaded
    BY <1>1, <1>4, <1>6, ClientTookComing DEF Awaits, Turning, server
  <2>2. Asking(c)'
    BY <1>4, <1>6, <1>7, <1>8, <1>9, <2>1 DEF Asking
  <2> QED
    BY <1>6, <2>1, <2>2 DEF InStep
<1>11. Returned(c)'
  BY <1>1, <1>4, <1>7 DEF Returned, server
<1> QED
  BY <1>10, <1>11 DEF LockInv, LockStep

\* After the handshake, what is to arrive is the answer or an error.
LEMMA AnswerComes ==
  ASSUME Base, NEW c \in Conns, LockStep(c), stage[c] # "hello", Coming(c) # <<>>, ~net[c].reset
  PROVE  \/ /\ InStep(c) /\ Answering(c) /\ Held(c, Answers(c))
         \/ /\ Failing(c)
            /\ \E code \in Causes :
                 (code = "UploadFailed" => ~loaded[c]) /\ Held(c, ErrorFrame(code))
<1>1. InStep(c) => Answering(c)
  BY DEF InStep, Greeting, Asking
<1> QED
  BY <1>1 DEF LockStep, Answering, Failing

\* A client that reads on in what it holds keeps in step.
LEMMA ReadsOn ==
  ASSUME Base, NEW c \in Conns, LockStep(c), ClientTook(c), stage[c] # "hello",
         UNCHANGED <<stage, unsent>>, UNCHANGED server,
         \/ InStep(c) /\ Held(c, Answers(c)) /\ Held(c, Answers(c))'
         \/ \E code \in Causes : /\ Failing(c) /\ (code = "UploadFailed" => ~loaded[c])
                                 /\ Held(c, ErrorFrame(code)) /\ Held(c, ErrorFrame(code))'
  PROVE  LockStep(c)'
<1>1. /\ Coming(c) # <<>> /\ ~net[c].reset /\ ~net'[c].reset /\ Going(c)' = Going(c)
  BY ClientTookComing DEF Going
<1>2. Asks(c)' = Asks(c) /\ Answers(c)' = Answers(c)
  BY DEF Asks, Answers, Kind, Expects
<1>3. Turning(c)' = Turning(c) /\ Q!Doomed(c)' = Q!Doomed(c)
  BY DEF Turning, Q!Doomed, server
<1>4. ASSUME InStep(c), Held(c, Answers(c)), Held(c, Answers(c))'
      PROVE  InStep(c)'
  <2>1. Answering(c)
    BY <1>1, <1>4 DEF InStep, Greeting, Asking
  <2>2. Answering(c)'
    BY <1>1, <1>3, <1>4, <2>1 DEF Answering, server
  <2> QED
    BY <1>1, <1>4, <2>2 DEF InStep, server
<1>5. ASSUME NEW code \in Causes, Held(c, ErrorFrame(code)), Held(c, ErrorFrame(code))',
             Failing(c), code = "UploadFailed" => ~loaded[c]
      PROVE  Failing(c)'
  BY <1>1, <1>3, <1>5 DEF Failing, server
<1> QED
  BY <1>4, <1>5 DEF LockStep

\* The header of an answer.
LEMMA ReadAnswerLock ==
  ASSUME Base, NEW c \in Conns, LockInv(c), ReadAnswer(c), UNCHANGED server
  PROVE  LockInv(c)'
<1>1. /\ Running(c) /\ stage[c] \in {"upload", "evaluate"} /\ unread[c] = 0
      /\ answer[c] = NoAnswer /\ UNCHANGED <<stage, unsent>>
      /\ LockStep(c) /\ Returned(c)
      /\ \/ /\ ClientTook(c) /\ answer'[c] = Head(net[c].inbox["client"])
            /\ \/ unread'[c] = Parts /\ outcome' = outcome
               \/ /\ answer'[c].part # "header" \/ answer'[c].kind \notin {Expects(c), "Error"}
                  /\ outcome'[c] = "shape"
         \/ EndOfStream(c, "client")
         \/ ReadFails(c) /\ outcome'[c] = "codec" /\ UNCHANGED answer
  BY ReadAnswerEffect, BaseFacts DEF LockInv
<1>2. CASE ReadFails(c) /\ outcome'[c] = "codec" /\ UNCHANGED answer
  BY <1>1, <1>2, ReadFailsLock
<1>3. CASE EndOfStream(c, "client")
  <2>1. Failing(c) /\ ~net[c].reset /\ Coming(c) = <<>>
    BY <1>1, <1>3, NoEndOfStream
  <2>2. PICK code \in Causes : Held(c, ErrorFrame(code))
    BY <2>1 DEF Failing
  <2>3. Frame(ErrorFrame(code)) # <<>> /\ ErrorFrame(code) # NoAnswer
    BY FrameShape, CauseTokens
  <2> QED
    BY <1>1, <2>1, <2>2, <2>3 DEF Held
<1>4. ASSUME ClientTook(c), answer'[c] = Head(net[c].inbox["client"]), NEW header,
             header # NoAnswer, header.part = "header", Held(c, header)
      PROVE  /\ answer'[c] = header
             /\ unread'[c] = Parts => Held(c, header)'
  <2>1. Coming(c) = Frame(header)
    BY <1>1, <1>4 DEF Held
  <2>2. answer'[c] = header /\ Coming(c)' = Payloads(Parts)
    BY <1>4, <2>1, ClientTookComing, FrameShape
  <2> QED
    BY <2>2 DEF Held
<1>5. ASSUME ClientTook(c), answer'[c] = Head(net[c].inbox["client"])
      PROVE  \/ InStep(c) /\ Held(c, Answers(c)) /\ answer'[c] = Answers(c)
             \/ \E code \in Causes : /\ Failing(c) /\ (code = "UploadFailed" => ~loaded[c])
                                     /\ Held(c, ErrorFrame(code)) /\ answer'[c] = ErrorFrame(code)
  <2>1. Coming(c) # <<>> /\ ~net[c].reset
    BY <1>5, ClientTookComing
  <2>2. CASE InStep(c) /\ Held(c, Answers(c))
    <3>1. Answers(c) # NoAnswer /\ Answers(c).part = "header"
      BY AnswerTokens
    <3> QED
      BY <1>4, <1>5, <2>2, <3>1
  <2>3. ASSUME NEW code \in Causes, Failing(c), code = "UploadFailed" => ~loaded[c],
               Held(c, ErrorFrame(code))
        PROVE  answer'[c] = ErrorFrame(code)
    <3>1. ErrorFrame(code) # NoAnswer /\ ErrorFrame(code).part = "header"
      BY CauseTokens
    <3> QED
      BY <1>4, <1>5, <2>3, <3>1
  <2> QED
    BY <1>1, <2>1, <2>2, <2>3, AnswerComes
<1>6. CASE /\ ClientTook(c) /\ answer'[c] = Head(net[c].inbox["client"])
           /\ \/ unread'[c] = Parts /\ outcome' = outcome
              \/ /\ answer'[c].part # "header" \/ answer'[c].kind \notin {Expects(c), "Error"}
                 /\ outcome'[c] = "shape"
  <2>1. answer'[c].part = "header" /\ answer'[c].kind \in {Expects(c), "Error"}
    BY <1>5, <1>6, AnswerTokens, CauseTokens
  <2>2. unread'[c] = Parts /\ outcome' = outcome
    BY <1>6, <2>1
  <2>3. LockStep(c)'
    <3>1. CASE InStep(c) /\ Held(c, Answers(c))
      <4>1. Answers(c) # NoAnswer /\ Answers(c).part = "header" /\ Answers(c)' = Answers(c)
        BY <1>1, AnswerTokens DEF Answers, Expects
      <4>2. \A header : header = Answers(c) => Held(c, header)'
        BY <1>4, <1>6, <2>2, <3>1, <4>1
      <4>3. Held(c, Answers(c))'
        BY <4>1, <4>2 DEF Held
      <4> QED
        BY <1>1, <1>6, <3>1, <4>3, ReadsOn
    <3>2. ASSUME NEW code \in Causes, Failing(c), code = "UploadFailed" => ~loaded[c],
                 Held(c, ErrorFrame(code))
          PROVE  LockStep(c)'
      <4>1. ErrorFrame(code) # NoAnswer /\ ErrorFrame(code).part = "header"
        BY CauseTokens
      <4>2. Held(c, ErrorFrame(code))'
        BY <1>4, <1>6, <2>2, <3>2, <4>1
      <4> QED
        BY <1>1, <1>6, <3>2, <4>2, ReadsOn
    <3> QED
      BY <1>5, <1>6, <3>1, <3>2
  <2>4. answer'[c].kind = "Error" /\ answer'[c].code = "UploadFailed" =>
          fate[c] # "none" /\ ~loaded[c]
    <3>1. Failing(c) => fate[c] # "none"
      BY BaseFacts DEF Failing, Q!SessionInv
    <3> QED
      BY <1>5, <1>6, <3>1, AnswerTokens, CauseTokens
  <2>5. Returned(c)'
    BY <1>1, <2>2, <2>4 DEF Returned, Running, server
  <2> QED
    BY <2>3, <2>5 DEF LockInv
<1> QED
  BY <1>1, <1>2, <1>3, <1>6

\* The payload of an answer.
LEMMA ReadAnswerPartLock ==
  ASSUME Base, NEW c \in Conns, LockInv(c), ReadAnswerPart(c), UNCHANGED server
  PROVE  LockInv(c)'
<1>1. /\ Running(c) /\ unread[c] \in 1 .. Parts /\ UNCHANGED <<stage, unsent, answer>>
      /\ LockStep(c) /\ Returned(c)
      /\ \/ ClientTook(c) /\ unread'[c] = unread[c] - 1 /\ outcome' = outcome
         \/ EndOfStream(c, "client") /\ outcome'[c] = "codec"
         \/ ReadFails(c) /\ outcome'[c] = "codec"
  BY ReadAnswerPartEffect, BaseFacts DEF LockInv
<1>2. stage[c] # "hello" /\ unread[c] # 0 /\ ~Awaits(c)
  <2>1. unread[c] # 0
    BY <1>1, WireAssumption
  <2> QED
    BY <2>1, BaseFacts DEF ClientInv, Awaits
<1>3. CASE ReadFails(c) /\ outcome'[c] = "codec"
  BY <1>1, <1>3, ReadFailsLock
<1>4. CASE EndOfStream(c, "client")
  <2>1. Failing(c) /\ ~net[c].reset /\ Coming(c) = <<>>
    BY <1>1, <1>4, NoEndOfStream
  <2>2. PICK code \in Causes : Held(c, ErrorFrame(code))
    BY <2>1 DEF Failing
  <2>3. Coming(c) = Payloads(unread[c])
    BY <1>2, <2>2 DEF Held
  <2>4. unread[c] \in Nat
    BY <1>1, WireAssumption
  <2> QED
    BY <1>2, <2>1, <2>3, <2>4, PayloadsShape
<1>5. CASE ClientTook(c) /\ unread'[c] = unread[c] - 1 /\ outcome' = outcome
  <2>1. ASSUME NEW header, Held(c, header)
        PROVE  Held(c, header)'
    <3>1. answer[c] = header /\ Coming(c) = Payloads(unread[c])
      BY <1>2, <2>1 DEF Held
    <3>2. unread[c] \in Nat
      BY <1>1, WireAssumption
    <3>3. Coming(c)' = Payloads(unread[c] - 1)
      BY <1>2, <1>5, <3>1, <3>2, ClientTookComing, PayloadsShape
    <3> QED
      BY <1>1, <1>5, <3>1, <3>3 DEF Held
  <2>2. Coming(c) # <<>> /\ ~net[c].reset
    BY <1>5, ClientTookComing
  <2>3. CASE InStep(c) /\ Held(c, Answers(c))
    <3>1. Answers(c)' = Answers(c)
      BY <1>1 DEF Answers, Expects
    <3>2. \A header : header = Answers(c) => Held(c, header)'
      BY <2>1, <2>3
    <3>3. Held(c, Answers(c))'
      BY <3>1, <3>2 DEF Held
    <3>4. LockStep(c)'
      BY <1>1, <1>2, <1>5, <2>3, <3>3, ReadsOn
    <3> QED
      BY <1>1, <1>5, <3>4 DEF LockInv, Returned, server
  <2>4. ASSUME NEW code \in Causes, Failing(c), code = "UploadFailed" => ~loaded[c],
               Held(c, ErrorFrame(code))
        PROVE  LockInv(c)'
    <3>1. Held(c, ErrorFrame(code))'
      BY <2>1, <2>4
    <3>2. LockStep(c)'
      BY <1>1, <1>2, <1>5, <2>4, <3>1, ReadsOn
    <3> QED
      BY <1>1, <1>5, <3>2 DEF LockInv, Returned, server
  <2> QED
    BY <1>1, <1>2, <2>2, <2>3, <2>4, AnswerComes
<1> QED
  BY <1>1, <1>3, <1>4, <1>5

\* A client accepts the identifiers its set gets.
LEMMA OwnAcknowledged ==
  ASSUME NEW c \in Conns
  PROVE  Acknowledges(c, Entries(Sets[c]))
<1>1. /\ Sets[c] \subseteq Matrices
      /\ \A m, n \in Sets[c] : Place[m] = Place[n] => m = n
      /\ \A m \in Matrices : Place[m] # 0
  BY SetsAssumption, ServerAssumption DEF Placed
<1>2. { e[2] : e \in Entries(Sets[c]) } = Sets[c]
  BY EntriesShape
<1>3. \A e \in Entries(Sets[c]) : \E m \in Sets[c] : e = <<Place[m], m>>
  BY EntriesShape
<1>4. \A e \in Entries(Sets[c]) : e[1] # 0
  BY <1>1, <1>3
<1>5. \A e, f \in Entries(Sets[c]) : e[1] = f[1] => e = f
  BY <1>1, <1>3
<1> QED
  BY <1>2, <1>4, <1>5 DEF Acknowledges

\* An answer read to its end.
LEMMA UseAnswerLock ==
  ASSUME Base, NEW c \in Conns, LockInv(c), UseAnswer(c), UNCHANGED server
  PROVE  LockInv(c)'
<1>1. /\ Running(c) /\ answer[c] # NoAnswer /\ unread[c] = 0 /\ UNCHANGED <<net, unread>>
      /\ LockStep(c) /\ Returned(c)
      /\ \/ /\ answer[c].kind = "Error" /\ outcome'[c] = "server" /\ UNCHANGED answer
         \/ /\ answer[c].kind # "Error" /\ ~AboutSet(c)
         \/ /\ answer[c].kind = "UploadAccepted"
            /\ stage'[c] = "evaluate" /\ unsent'[c] = Frame(Wanted(c, "Evaluate"))
            /\ answer'[c] = NoAnswer /\ outcome' = outcome
         \/ /\ answer[c].kind = "Products" /\ outcome'[c] = "verified" /\ UNCHANGED answer
  BY UseAnswerEffect, BaseFacts DEF LockInv
<1>2. ~Awaits(c)
  BY <1>1 DEF Awaits
<1>3. CASE Failing(c)
  <2>1. PICK code \in Causes : answer[c] = ErrorFrame(code)
    BY <1>2, <1>3 DEF Failing, Held
  <2>2. answer[c].kind = "Error" /\ answer[c].code \in Causes
    BY <2>1, CauseTokens
  <2>3. outcome'[c] = "server" /\ answer' = answer
    BY <1>1, <2>2
  <2> QED
    BY <1>1, <2>2, <2>3 DEF LockInv, Returned, Running, server
<1>4. CASE InStep(c)
  <2>1. Answering(c)
    BY <1>2, <1>4 DEF InStep, Greeting, Asking
  <2>2. answer[c] = Answers(c) /\ Coming(c) = Payloads(0)
    BY <1>1, <1>2, <2>1 DEF Answering, Held
  <2>3. answer[c].kind = Expects(c) /\ AboutSet(c) /\ Expects(c) # "Error"
    <3>1. /\ answer[c].kind = Expects(c) /\ answer[c].entries = Entries(Sets[c])
          /\ Expects(c) \in {"UploadAccepted", "Products"}
      BY <2>2, AnswerTokens
    <3>2. Acknowledges(c, Entries(Sets[c]))
      BY OwnAcknowledged
    <3>3. Expects(c) = "Products" => ids[c] = Entries(Sets[c])
      BY <2>1, BaseFacts DEF Answering, Expects, ClientTypes
    <3> QED
      BY <3>1, <3>2, <3>3 DEF AboutSet
  <2>4. CASE answer[c].kind = "Products" /\ outcome'[c] = "verified" /\ UNCHANGED answer
    BY <1>1, <2>4 DEF LockInv, Returned, Running, server
  <2>5. CASE /\ answer[c].kind = "UploadAccepted"
             /\ stage'[c] = "evaluate" /\ unsent'[c] = Frame(Wanted(c, "Evaluate"))
             /\ answer'[c] = NoAnswer /\ outcome' = outcome
    <3>1. Coming(c)' = <<>>
      <4>1. Payloads(0) = <<>>
        BY PayloadsShape
      <4> QED
        BY <1>1, <2>2, <4>1 DEF Coming, server
    <3>2. Going(c)' = Frame(Asks(c))'
      <4>1. Frame(Asks(c))' = Frame(Wanted(c, "Evaluate"))
        BY <2>5 DEF Asks, Kind, Wanted, Request, Frame, Entries
      <4>2. Going(c)' = net[c].inbox["server"] \o Frame(Wanted(c, "Evaluate"))
        BY <1>1, <2>5 DEF Going
      <4> DEFINE u == Frame(Wanted(c, "Evaluate"))
      <4>3. u \in Seq(Q!Tokens)
        BY FrameShape, ClientTokens DEF Wanted, Request
      <4> HIDE DEF u
      <4>4. net[c].inbox["server"] = <<>>
        BY <2>1, GoingShape, BaseFacts DEF Answering
      <4>5. net[c].inbox["server"] \o u = u
        BY <4>3, <4>4, GoingShape, BaseFacts
      <4> QED
        BY <4>1, <4>2, <4>5 DEF u
    <3>3. Awaits(c)' /\ Turning(c)'
      BY <1>1, <2>1, <2>5 DEF Awaits, Answering, Turning, server
    <3>4. Asking(c)'
      BY <2>1, <2>5, <3>1, <3>2, <3>3 DEF Asking, Answering, server
    <3>5. InStep(c)'
      BY <1>1, <1>4, <3>4 DEF InStep, server
    <3>6. Returned(c)'
      <4>1. NoAnswer.kind # "Error"
        BY DEF NoAnswer
      <4> QED
        BY <1>1, <2>5, <4>1 DEF Returned, Running, server
    <3> QED
      BY <3>5, <3>6 DEF LockInv, LockStep
  <2> QED
    BY <1>1, <2>3, <2>4, <2>5
<1> QED
  BY <1>1, <1>3, <1>4 DEF LockStep

\* The end of a run.
LEMMA ReturnsLock ==
  ASSUME Base, NEW c \in Conns, LockInv(c), AllocationFails(c) \/ Crash(c) \/ Hangup(c),
         UNCHANGED server
  PROVE  LockInv(c)'
<1>1. /\ ~Running(c)' /\ answer'[c] = answer[c]
      /\ outcome'[c] = outcome[c] \/ outcome'[c] \in {"memory", "crashed"}
  BY ReturnsEffect, HangupEffect, BaseFacts DEF Running, client
<1>2. Returned(c)'
  BY <1>1 DEF LockInv, Returned, server
<1> QED
  BY <1>1, <1>2 DEF LockInv

\* A step of another connection.
LEMMA LockElsewhere ==
  ASSUME NEW c \in Conns, LockInv(c), net'[c] = net[c],
         stage'[c] = stage[c], unsent'[c] = unsent[c], unread'[c] = unread[c],
         answer'[c] = answer[c], outcome'[c] = outcome[c],
         pc'[c] = pc[c], request'[c] = request[c], left'[c] = left[c], reply'[c] = reply[c],
         fate'[c] = fate[c], loaded'[c] = loaded[c], stored'[c] = stored[c]
  PROVE  LockInv(c)'
<1>1. /\ Going(c)' = Going(c) /\ Coming(c)' = Coming(c) /\ net'[c].reset = net[c].reset
      /\ Turning(c)' = Turning(c) /\ Q!Doomed(c)' = Q!Doomed(c)
  BY DEF Going, Coming, Turning, Q!Doomed
<1>2. InStep(c) => InStep(c)'
  BY <1>1, InStepKept
<1>3. Failing(c) => Failing(c)'
  <2>1. Failing(c) => Q!Doomed(c)'
    BY <1>1 DEF Failing
  <2> QED
    BY <1>1, <2>1, FailingKept
<1>4. Returned(c) => Returned(c)'
  BY DEF Returned
<1> QED
  BY <1>2, <1>3, <1>4 DEF LockInv, LockStep, Running

\* Before the hello is written.
LEMMA LockStart ==
  ASSUME Init, NEW c \in Conns
  PROVE  LockInv(c)
<1>1. /\ stage[c] = "hello" /\ answer[c] = NoAnswer /\ unread[c] = 0 /\ outcome[c] = "none"
      /\ unsent[c] = ClientHello /\ pc[c] = "hello" /\ ~loaded[c]
      /\ reply[c].tokens = <<>> /\ net[c].inbox["server"] = <<>>
      /\ net[c].inbox["client"] = <<>> /\ ~net[c].reset
  BY DEF Init, NetInit, ServerInit, ClientInit, Connected, Sides, NoReply
<1>2. Going(c) = ClientHello /\ Coming(c) = <<>>
  <2>1. Base
    BY BaseInit
  <2>2. Going(c) = unsent[c] /\ Coming(c) = <<>>
    BY <1>1, <2>1, BaseFacts, GoingShape, ComingShape
  <2> QED
    BY <1>1, <2>2
<1>3. InStep(c)
  BY <1>1, <1>2 DEF InStep, Greeting, Awaits
<1>4. Returned(c)
  BY <1>1 DEF Returned, NoAnswer
<1> QED
  BY <1>3, <1>4 DEF LockInv, LockStep

-----------------------------------------------------------------------------
(* The two programs understand each other.                                  *)

Locked == Base /\ \A c \in Conns : LockInv(c)

\* Every step of either program keeps every run and its thread in step.
LEMMA LockedStep ==
  ASSUME Locked, [Next]_vars
  PROVE  Locked'
<1>0. Base /\ Base' /\ \A c \in Conns : LockInv(c)
  BY BaseStep DEF Locked
<1>1. ASSUME NEW c \in Conns, ServerStep(c), UNCHANGED client, NEW d \in Conns
      PROVE  LockInv(d)'
  <2>1. CASE d = c
    <3>1. Returned(c)'
      BY <1>0, <1>1, ReturnedStep DEF LockInv
    <3>2. Running(c)' = Running(c)
      BY <1>1 DEF Running, client
    <3>3. Running(c) => LockStep(c)'
      BY <1>0, <1>1, ServerLock DEF LockInv
    <3> QED
      BY <2>1, <3>1, <3>2, <3>3 DEF LockInv
  <2>2. CASE d # c
    <3>1. Q!Moves(c)
      BY <1>0, <1>1, ServerKeepsOpen, BaseFacts
    <3> QED
      BY <1>0, <1>1, <2>2, <3>1, LockElsewhere DEF Q!Moves, Q!Elsewhere, client
  <2> QED
    BY <2>1, <2>2
<1>2. ASSUME NEW c \in Conns, ClientStep(c) \/ Crash(c), UNCHANGED server, NEW d \in Conns
      PROVE  LockInv(d)'
  <2>1. CASE d = c
    BY <1>0, <1>2, <2>1, SendLock, ReadStatusLock, ReadAnswerLock, ReadAnswerPartLock,
       UseAnswerLock, ReturnsLock DEF ClientStep
  <2>2. CASE d # c
    <3>1. Q!Types /\ ClientTypes /\ ClientInv(c)
      BY <1>0, BaseFacts
    <3>2. ClientMoves(c)
      BY <1>2, <3>1, SendEffect, ReadStatusEffect, ReadAnswerEffect, ReadAnswerPartEffect,
         ReturnsEffect, UseAnswerEffect, HangupEffect DEF ClientStep
    <3> QED
      BY <1>0, <1>2, <2>2, <3>2, LockElsewhere DEF ClientMoves, ClientElsewhere, server
  <2> QED
    BY <2>1, <2>2
<1>3. ASSUME UNCHANGED vars, NEW d \in Conns
      PROVE  LockInv(d)'
  BY <1>0, <1>3, LockElsewhere DEF vars, server, client
<1> QED
  BY <1>0, <1>1, <1>2, <1>3 DEF Locked, Next

\* From the hello to the last answer, run (client/src/session.rs) and
\* serve_connection (server/src/session.rs) are at the same place of the
\* exchange, and what is under way is what is left of one message.
THEOREM LockInvariance == Spec => []Locked
<1>1. Init => Locked
  BY BaseInit, LockStart DEF Locked
<1>2. Locked /\ [Next]_vars => Locked'
  BY LockedStep
<1> QED
  BY <1>1, <1>2, PTL DEF Spec

\* No run is told something it did not ask for or finds the stream closed in
\* place of an answer; it loses its connection only to a thread that ran out
\* of memory.
THEOREM UnderstoodCorrect == Spec => []Understood
<1>1. Locked => Understood
  BY DEF Locked, LockInv, Returned, Causes, Understood
<1> QED
  BY <1>1, LockInvariance, PTL

\* A client that reads UploadFailed may upload again at once: handle_upload
\* gave the bytes back before it wrote the error.
THEOREM RefusedMayRetryCorrect == Spec => []RefusedMayRetry
<1>1. ASSUME Locked, NEW c \in Conns, answer[c].kind = "Error",
             answer[c].code = "UploadFailed", fate[c] # "upload"
      PROVE  Sets[c] \cap charged = {}
  <2>1. fate[c] # "none" /\ ~loaded[c]
    BY <1>1 DEF Locked, LockInv, Returned
  <2>2. Q!SessionInv(c) /\ Q!ChargedInv(c)
    BY <1>1, BaseFacts DEF Locked
  <2>3. pc[c] # "commit" /\ stored[c] = {}
    BY <2>1, <2>2 DEF Q!SessionInv, Q!Doomed
  <2>4. charged \cap UNION {Sets[c]} = {}
    BY <1>1, <2>2, <2>3 DEF Q!ChargedInv
  <2> QED
    BY <2>4
<1>2. Locked => RefusedMayRetry
  BY <1>1 DEF RefusedMayRetry
<1> QED
  BY <1>2, LockInvariance, PTL

=============================================================================
