------------------------------ MODULE PeersProofs ------------------------------
(***************************************************************************)
(* The sessions of the server, for any number of connections, any budget,  *)
(* any frame length and any peers that frame correctly.                    *)
(*                                                                         *)
(* The argument is in three layers, each an invariant of its own:          *)
(*                                                                         *)
(*   ControlInv    the types, where a session is and what it holds, the    *)
(*                 ends of its connection, and what it has charged;        *)
(*   FramesInv     that the unread tokens of a session, together with what *)
(*                 its peer still owes, are whole frames behind the tokens *)
(*                 the server needs before the next header;                *)
(*   ExchangeInv   that answers name the session's matrices, and that the  *)
(*                 frames begun are the ones unread, handled, answered and *)
(*                 heard.                                                  *)
(*                                                                         *)
(* The middle part says once, for every action, what it does to the        *)
(* session it is about (the lemmas called Effect); the invariants rest on  *)
(* those.                                                                  *)
(***************************************************************************)
EXTENDS Peers, FiniteSetTheorems, FunctionTheorems, TLAPS

-----------------------------------------------------------------------------
(* The footprint of a set of matrices.                                      *)

\* A footprint is a number: finitely many matrices, finitely many bytes each.
LEMMA FootprintType ==
  ASSUME NEW S \in SUBSET Matrices
  PROVE  /\ IsFiniteSet(BytesOf(S))
         /\ Footprint(S) \in Nat
<1>1. IsFiniteSet(Matrices) /\ U64 \in Int
  BY FootprintAssumption
<1>2. IsFiniteSet(1 .. (U64 - 1))
  BY <1>1, FS_Interval
<1>3. IsFiniteSet(Matrices \X (1 .. (U64 - 1)))
  BY <1>1, <1>2, FS_Product
<1>4. BytesOf(S) \in SUBSET (Matrices \X (1 .. (U64 - 1)))
  <2>1. ASSUME NEW m \in S
        PROVE  {m} \X (1 .. Bytes[m]) \in SUBSET (Matrices \X (1 .. (U64 - 1)))
    BY <1>1, FootprintAssumption
  <2> QED
    BY <2>1 DEF BytesOf
<1> QED
  BY <1>3, <1>4, FS_Subset, FS_CardinalityType DEF Footprint

\* No matrices, no bytes.
LEMMA EmptyFootprint == Footprint({}) = 0
<1>1. BytesOf({}) = {}
  BY DEF BytesOf
<1> QED
  BY <1>1, FS_EmptySet DEF Footprint

\* A part of a set owns no more than the set.
LEMMA SubsetFootprint ==
  ASSUME NEW T \in SUBSET Matrices, NEW S \in SUBSET T
  PROVE  Footprint(S) <= Footprint(T)
<1>1. IsFiniteSet(BytesOf(T))
  BY FootprintType
<1>2. BytesOf(S) \in SUBSET BytesOf(T)
  BY DEF BytesOf
<1> QED
  BY <1>1, <1>2, FS_Subset DEF Footprint

-----------------------------------------------------------------------------
(* The connections.                                                         *)

\* What an evaluation or its answers may name, and what an upload's may.
Listings == SUBSET ((Nat \ {0}) \X Matrices)
Numberings == { Entries(set) : set \in SUBSET Matrices }

Frames ==
  [part : {"header"}, kind : Kinds, content : {"good", "malformed", "invalid"},
   set : SUBSET Matrices, entries : Listings]

Greetings == [part : {"hello"}, content : {"good", "foreign", "magic"}]

\* What the peer of c writes.
PeerTokens(c) == Greetings \cup Requests(c) \cup {Payload}

\* The error codes the session threads answer with.
Codes ==
  {"AlreadyLoaded", "NotLoaded", "UnknownFrameKind", "UnexpectedFrame", "Codec",
   "AllocationFailed", "TruncatedFrame", "Internal", "InvalidRequest", "UploadFailed",
   "GpuFailure"}

ServerTokens ==
  [part : {"status"}, ok : BOOLEAN]
  \cup [part : {"header"}, kind : {"UploadAccepted"}, entries : Numberings]
  \cup [part : {"header"}, kind : {"Products"}, entries : Listings]
  \cup [part : {"header"}, kind : {"Error"}, code : Codes]
  \cup {Payload}

Tokens == Greetings \cup Frames \cup ServerTokens

Links ==
  [open : [Sides -> BOOLEAN], inbox : [Sides -> Seq(Tokens)],
   reset : BOOLEAN]

NetTypes ==
  /\ net \in [Conns -> Links]
  /\ \A c \in Conns : Unread(c, "server") \in Seq(PeerTokens(c))
  /\ \A c \in Conns : Unread(c, "client") \in Seq(ServerTokens)

\* One connection changes, the others do not.
LEMMA LinkStep ==
  ASSUME NetTypes, NEW c \in Conns, NEW link \in Links,
         link.inbox["server"] \in Seq(PeerTokens(c)), link.inbox["client"] \in Seq(ServerTokens),
         net' = [net EXCEPT ![c] = link]
  PROVE  /\ NetTypes'
         /\ net'[c] = link
         /\ \A d \in Conns : d # c => net'[d] = net[d]
<1>1. /\ net' \in [Conns -> Links] /\ net'[c] = link
      /\ \A d \in Conns : d # c => net'[d] = net[d]
  BY DEF NetTypes
<1>2. \A d \in Conns : Unread(d, "server")' \in Seq(PeerTokens(d))
  BY <1>1 DEF NetTypes, Unread
<1>3. \A d \in Conns : Unread(d, "client")' \in Seq(ServerTokens)
  BY <1>1 DEF NetTypes, Unread
<1> QED
  BY <1>1, <1>2, <1>3 DEF NetTypes

\* What a connection is made of.
LEMMA LinkFields ==
  ASSUME NetTypes, NEW c \in Conns
  PROVE  /\ net[c] \in Links
         /\ net[c].open \in [Sides -> BOOLEAN]
         /\ net[c].inbox \in [Sides -> Seq(Tokens)]
         /\ net[c].reset \in BOOLEAN
         /\ net[c].inbox["server"] \in Seq(PeerTokens(c))
         /\ net[c].inbox["client"] \in Seq(ServerTokens)
         /\ Unread(c, "server") = net[c].inbox["server"]
         /\ Unread(c, "client") = net[c].inbox["client"]
         /\ "client" \in Sides /\ "server" \in Sides
BY DEF NetTypes, Links, Unread, Sides

\* The entries of matrices.
LEMMA EntriesType ==
  ASSUME NEW set \in SUBSET Matrices
  PROVE  Entries(set) \in Listings
BY ServerAssumption DEF Entries, Listings

\* What a peer may upload are sets of matrices.
LEMMA OffersType ==
  ASSUME NEW c \in Conns
  PROVE  Offers[c] \in SUBSET (SUBSET Matrices)
BY PeersAssumption

\* The peers' headers are frames, and their sets are of matrices.
LEMMA RequestsType ==
  ASSUME NEW c \in Conns
  PROVE  Requests(c) \subseteq Frames
<1>1. SUFFICES ASSUME NEW r \in Requests(c) PROVE r \in Frames
  OBVIOUS
<1>2. PICK kind, content, set, entries :
        /\ r = Request(kind, content, set, entries)
        /\ kind \in Kinds /\ content \in {"good", "malformed", "invalid"}
        /\ set \in SUBSET Matrices /\ entries \in Listings
  <2>1. CASE \E content \in Contents, set \in Offers[c] :
               r = Request("UploadMatrices", content, set, {})
    BY <2>1, OffersType, PeersAssumption DEF Kinds, Listings
  <2>2. CASE \E content \in Contents, entries \in Evaluations :
               r = Request("Evaluate", content, {}, entries)
    BY <2>2, PeersAssumption DEF Kinds, Listings
  <2>3. CASE \E kind \in Misfits : r = Request(kind, "good", {}, {})
    BY <2>3, PeersAssumption DEF Kinds, Listings
  <2> QED
    BY <2>1, <2>2, <2>3 DEF Requests
<1> QED
  BY <1>2 DEF Request, Frames

\* What either end writes is a sequence of tokens.
LEMMA TokensBroader ==
  ASSUME NEW c \in Conns
  PROVE  /\ \A s \in Seq(PeerTokens(c)) : s \in Seq(Tokens)
         /\ \A s \in Seq(ServerTokens) : s \in Seq(Tokens)
<1>1. PeerTokens(c) \subseteq Tokens /\ ServerTokens \subseteq Tokens
  BY RequestsType DEF PeerTokens, Tokens, ServerTokens
<1> QED
  BY <1>1

\* A connection that is reset has nothing left to read.
LEMMA DiscardedLink ==
  ASSUME NEW c \in Conns, NEW link \in Links
  PROVE  /\ Discarded(link) \in Links
         /\ Discarded(link).open = link.open /\ Discarded(link).reset
         /\ Discarded(link).inbox["client"] = <<>> /\ Discarded(link).inbox["server"] = <<>>
         /\ Discarded(link).inbox["client"] \in Seq(ServerTokens)
         /\ Discarded(link).inbox["server"] \in Seq(PeerTokens(c))
<1> DEFINE none == [s \in Sides |-> <<>>]
<1>1. none \in [Sides -> Seq(Tokens)]
  OBVIOUS
<1>2. none["client"] = <<>> /\ none["server"] = <<>>
  BY DEF Sides
<1>3. Discarded(link) = [link EXCEPT !.reset = TRUE, !.inbox = none]
  BY DEF Discarded
<1> HIDE DEF none
<1>4. /\ Discarded(link) \in Links
      /\ Discarded(link).open = link.open /\ Discarded(link).reset
      /\ Discarded(link).inbox = none
  BY <1>1, <1>3 DEF Links
<1>5. <<>> \in Seq(ServerTokens) /\ <<>> \in Seq(PeerTokens(c))
  OBVIOUS
<1> QED
  BY <1>2, <1>4, <1>5

\* A write of the server reaches a peer that is there, and may reset one that is not.
LEMMA ServerSends ==
  ASSUME NetTypes, NEW c \in Conns, NEW token \in ServerTokens, Sends(c, "server", token)
  PROVE  /\ NetTypes'
         /\ \A d \in Conns : d # c => net'[d] = net[d]
         /\ net'[c].open = net[c].open
         /\ ~net[c].reset
         /\ \/ /\ net[c].open["client"] /\ ~net'[c].reset
               /\ net'[c].inbox["server"] = net[c].inbox["server"]
               /\ net'[c].inbox["client"] = Append(net[c].inbox["client"], token)
            \/ ~net[c].open["client"] /\ net' = net
            \/ /\ ~net[c].open["client"] /\ net'[c].reset
               /\ net'[c].inbox["server"] = <<>> /\ net'[c].inbox["client"] = <<>>
<1>0. ~net[c].reset
  BY DEF Sends
<1>1. CASE net[c].open["client"]
  <2> DEFINE box == Append(net[c].inbox["client"], token)
             link == [net[c] EXCEPT !.inbox = [net[c].inbox EXCEPT !["client"] = box]]
  <2>1. net' = [net EXCEPT ![c] = link]
    BY <1>1, LinkFields DEF Sends, Other
  <2>2. box \in Seq(ServerTokens) /\ box \in Seq(Tokens)
    <3>1. box \in Seq(ServerTokens)
      BY LinkFields
    <3> HIDE DEF box
    <3> QED
      BY <3>1, TokensBroader
  <2>3. /\ link \in Links /\ link.open = net[c].open /\ link.reset = net[c].reset
        /\ link.inbox["client"] = box /\ link.inbox["server"] = net[c].inbox["server"]
    <3> HIDE DEF box
    <3> QED
      BY <2>2, LinkFields DEF Links
  <2> HIDE DEF link
  <2>4. NetTypes' /\ net'[c] = link /\ \A d \in Conns : d # c => net'[d] = net[d]
    BY <2>1, <2>2, <2>3, LinkFields, LinkStep
  <2> QED
    BY <1>0, <1>1, <2>3, <2>4
<1>2. CASE ~net[c].open["client"] /\ net' = net
  BY <1>0, <1>2 DEF NetTypes, Unread
<1>3. CASE ~net[c].open["client"] /\ net' = [net EXCEPT ![c] = Discarded(@)]
  <2> DEFINE link == Discarded(net[c])
  <2>1. /\ link \in Links /\ link.open = net[c].open /\ link.reset
        /\ link.inbox["client"] = <<>> /\ link.inbox["server"] = <<>>
        /\ link.inbox["client"] \in Seq(ServerTokens) /\ link.inbox["server"] \in Seq(PeerTokens(c))
    BY LinkFields, DiscardedLink
  <2>2. net' = [net EXCEPT ![c] = link]
    BY <1>3
  <2> HIDE DEF link
  <2>3. NetTypes' /\ net'[c] = link /\ \A d \in Conns : d # c => net'[d] = net[d]
    BY <2>1, <2>2, LinkStep
  <2> QED
    BY <1>0, <1>3, <2>1, <2>3
<1> QED
  BY <1>1, <1>2, <1>3 DEF Sends, Other

\* A write of a peer reaches the server while its end is open.
LEMMA PeerSends ==
  ASSUME NetTypes, NEW c \in Conns, NEW token \in PeerTokens(c), Sends(c, "client", token)
  PROVE  /\ NetTypes'
         /\ \A d \in Conns : d # c => net'[d] = net[d]
         /\ net'[c].open = net[c].open
         /\ ~net[c].reset
         /\ \/ /\ net[c].open["server"] /\ ~net'[c].reset
               /\ net'[c].inbox["client"] = net[c].inbox["client"]
               /\ net'[c].inbox["server"] = Append(net[c].inbox["server"], token)
            \/ ~net[c].open["server"] /\ net' = net
            \/ /\ ~net[c].open["server"] /\ net'[c].reset
               /\ net'[c].inbox["server"] = <<>> /\ net'[c].inbox["client"] = <<>>
<1>0. ~net[c].reset
  BY DEF Sends
<1>1. CASE net[c].open["server"]
  <2> DEFINE box == Append(net[c].inbox["server"], token)
             link == [net[c] EXCEPT !.inbox = [net[c].inbox EXCEPT !["server"] = box]]
  <2>1. net' = [net EXCEPT ![c] = link]
    BY <1>1, LinkFields DEF Sends, Other
  <2>2. box \in Seq(PeerTokens(c)) /\ box \in Seq(Tokens)
    <3>1. box \in Seq(PeerTokens(c))
      BY LinkFields
    <3> HIDE DEF box
    <3> QED
      BY <3>1, TokensBroader
  <2>3. /\ link \in Links /\ link.open = net[c].open /\ link.reset = net[c].reset
        /\ link.inbox["server"] = box /\ link.inbox["client"] = net[c].inbox["client"]
    <3> HIDE DEF box
    <3> QED
      BY <2>2, LinkFields DEF Links
  <2> HIDE DEF link
  <2>4. NetTypes' /\ net'[c] = link /\ \A d \in Conns : d # c => net'[d] = net[d]
    BY <2>1, <2>2, <2>3, LinkFields, LinkStep
  <2> QED
    BY <1>0, <1>1, <2>3, <2>4
<1>2. CASE ~net[c].open["server"] /\ net' = net
  BY <1>0, <1>2 DEF NetTypes, Unread
<1>3. CASE ~net[c].open["server"] /\ net' = [net EXCEPT ![c] = Discarded(@)]
  <2> DEFINE link == Discarded(net[c])
  <2>1. /\ link \in Links /\ link.open = net[c].open /\ link.reset
        /\ link.inbox["client"] = <<>> /\ link.inbox["server"] = <<>>
        /\ link.inbox["client"] \in Seq(ServerTokens) /\ link.inbox["server"] \in Seq(PeerTokens(c))
    BY LinkFields, DiscardedLink
  <2>2. net' = [net EXCEPT ![c] = link]
    BY <1>3
  <2> HIDE DEF link
  <2>3. NetTypes' /\ net'[c] = link /\ \A d \in Conns : d # c => net'[d] = net[d]
    BY <2>1, <2>2, LinkStep
  <2> QED
    BY <1>0, <1>3, <2>1, <2>3
<1> QED
  BY <1>1, <1>2, <1>3 DEF Sends, Other

\* A read takes the first token of what is unread, and nothing else.
LEMMA EndReceives ==
  ASSUME NetTypes, NEW c \in Conns, NEW s \in Sides, NEW token, Receives(c, s, token)
  PROVE  /\ NetTypes'
         /\ \A d \in Conns : d # c => net'[d] = net[d]
         /\ net'[c].open = net[c].open /\ net'[c].reset = net[c].reset
         /\ net[c].inbox[s] # <<>> /\ token = Head(net[c].inbox[s])
         /\ net'[c].inbox[s] = Tail(net[c].inbox[s])
         /\ net'[c].inbox[Other(s)] = net[c].inbox[Other(s)]
<1> DEFINE box == Tail(net[c].inbox[s])
           link == [net[c] EXCEPT !.inbox = [net[c].inbox EXCEPT ![s] = box]]
<1>1. net[c].inbox[s] # <<>> /\ token = Head(net[c].inbox[s])
  BY DEF Receives, Unread
<1>2. net' = [net EXCEPT ![c] = link]
  BY LinkFields DEF Receives
<1>3. /\ s = "server" => box \in Seq(PeerTokens(c))
      /\ s = "client" => box \in Seq(ServerTokens)
      /\ box \in Seq(Tokens)
  BY <1>1, LinkFields
<1>4. /\ link \in Links /\ link.open = net[c].open /\ link.reset = net[c].reset
      /\ link.inbox[s] = box /\ link.inbox[Other(s)] = net[c].inbox[Other(s)]
  <2> HIDE DEF box
  <2> QED
    BY <1>3, LinkFields DEF Links, Other, Sides
<1> HIDE DEF box, link
<1>5. link.inbox["server"] \in Seq(PeerTokens(c)) /\ link.inbox["client"] \in Seq(ServerTokens)
  BY <1>3, <1>4, LinkFields DEF Other, Sides
<1>6. NetTypes' /\ net'[c] = link /\ \A d \in Conns : d # c => net'[d] = net[d]
  BY <1>2, <1>4, <1>5, LinkStep
<1> QED
  BY <1>1, <1>4, <1>6 DEF box

\* A close ends one side, and discards what that side had not read.
LEMMA EndCloses ==
  ASSUME NetTypes, NEW c \in Conns, NEW s \in Sides, Closes(c, s)
  PROVE  /\ NetTypes'
         /\ \A d \in Conns : d # c => net'[d] = net[d]
         /\ ~net'[c].open[s] /\ net'[c].open[Other(s)] = net[c].open[Other(s)]
         /\ net'[c].inbox[s] = <<>>
         /\ \/ /\ net'[c].reset = net[c].reset
               /\ net'[c].inbox[Other(s)] = net[c].inbox[Other(s)]
            \/ /\ net'[c].reset
               /\ net'[c].inbox[Other(s)] = <<>>
<1> DEFINE open == [net[c].open EXCEPT ![s] = FALSE]
           inbox == [net[c].inbox EXCEPT ![s] = <<>>]
           link == [net[c] EXCEPT !.open = open, !.inbox = inbox]
<1>1. /\ open \in [Sides -> BOOLEAN] /\ ~open[s] /\ open[Other(s)] = net[c].open[Other(s)]
      /\ inbox \in [Sides -> Seq(Tokens)]
      /\ inbox[s] = <<>> /\ inbox[Other(s)] = net[c].inbox[Other(s)]
  <2>1. /\ net[c].open \in [Sides -> BOOLEAN]
        /\ net[c].inbox \in [Sides -> Seq(Tokens)]
        /\ Other(s) \in Sides /\ Other(s) # s
    BY LinkFields DEF Other, Sides
  <2>2. open \in [Sides -> BOOLEAN] /\ ~open[s] /\ open[Other(s)] = net[c].open[Other(s)]
    BY <2>1
  <2>3. \A e : e = <<>> => e \in Seq(Tokens)
    OBVIOUS
  <2>4. inbox \in [Sides -> Seq(Tokens)]
    <3> HIDE DEF Tokens
    <3> QED
      BY <2>1, <2>3
  <2>5. inbox[s] = <<>> /\ inbox[Other(s)] = net[c].inbox[Other(s)]
    BY <2>1
  <2> QED
    BY <2>2, <2>4, <2>5
<1>2. \/ net' = [net EXCEPT ![c] = link]
      \/ net' = [net EXCEPT ![c] = Discarded(link)]
  BY LinkFields DEF Closes
<1> HIDE DEF open, inbox
<1>3. /\ link \in Links /\ link.open = open /\ link.reset = net[c].reset
      /\ link.inbox = inbox
  BY <1>1, LinkFields DEF Links
<1> HIDE DEF link
<1>4. inbox["server"] \in Seq(PeerTokens(c)) /\ inbox["client"] \in Seq(ServerTokens)
  BY <1>1, LinkFields DEF Other, Sides
<1>5. CASE net' = [net EXCEPT ![c] = link]
  <2>1. NetTypes' /\ net'[c] = link /\ \A d \in Conns : d # c => net'[d] = net[d]
    BY <1>3, <1>4, <1>5, LinkStep
  <2> QED
    BY <1>1, <1>3, <2>1
<1>6. CASE net' = [net EXCEPT ![c] = Discarded(link)]
  <2> DEFINE gone == Discarded(link)
  <2>1. /\ gone \in Links /\ gone.open = open /\ gone.reset
        /\ gone.inbox["client"] = <<>> /\ gone.inbox["server"] = <<>>
        /\ gone.inbox["client"] \in Seq(ServerTokens) /\ gone.inbox["server"] \in Seq(PeerTokens(c))
    BY <1>3, DiscardedLink
  <2> HIDE DEF gone
  <2>2. net' = [net EXCEPT ![c] = gone]
    BY <1>6 DEF gone
  <2>3. NetTypes' /\ net'[c] = gone /\ \A d \in Conns : d # c => net'[d] = net[d]
    BY <2>1, <2>2, LinkStep
  <2> QED
    BY <1>1, <2>1, <2>3 DEF Other, Sides
<1> QED
  BY <1>2, <1>5, <1>6

-----------------------------------------------------------------------------
(* Counting headers.                                                        *)

At(tokens) == {i \in DOMAIN tokens : tokens[i].part = "header"}
One(token) == IF token.part = "header" THEN 1 ELSE 0

\* The count of the headers of a stream is a number.
LEMMA HeadersType ==
  ASSUME NEW S, NEW tokens \in Seq(S)
  PROVE  IsFiniteSet(At(tokens)) /\ Headers(tokens) \in Nat /\ Headers(tokens) = Cardinality(At(tokens))
<1>1. DOMAIN tokens = 1 .. Len(tokens) /\ Len(tokens) \in Int
  OBVIOUS
<1>2. IsFiniteSet(1 .. Len(tokens))
  BY <1>1, FS_Interval
<1>3. At(tokens) \in SUBSET (1 .. Len(tokens))
  BY <1>1 DEF At
<1> QED
  BY <1>2, <1>3, FS_Subset, FS_CardinalityType DEF Headers, At

\* Nothing holds no header.
LEMMA HeadersEmpty == Headers(<<>>) = 0
<1>1. {i \in DOMAIN <<>> : <<>>[i].part = "header"} = {}
  OBVIOUS
<1> QED
  BY <1>1, FS_EmptySet DEF Headers

\* A token written counts if it is a header.
LEMMA HeadersAppend ==
  ASSUME NEW S, NEW tokens \in Seq(S), NEW token \in S
  PROVE  Headers(Append(tokens, token)) = Headers(tokens) + One(token)
<1> DEFINE n == Len(tokens)
           longer == Append(tokens, token)
<1>1. /\ n \in Nat /\ DOMAIN tokens = 1 .. n /\ DOMAIN longer = 1 .. (n + 1)
      /\ longer \in Seq(S)
      /\ longer[n + 1] = token /\ \A i \in 1 .. n : longer[i] = tokens[i]
  OBVIOUS
<1>2. IsFiniteSet(At(tokens)) /\ Headers(tokens) = Cardinality(At(tokens))
      /\ Headers(longer) = Cardinality(At(longer)) /\ Headers(tokens) \in Nat
  BY <1>1, HeadersType
<1> HIDE DEF longer
<1>3. CASE token.part = "header"
  <2>1. At(longer) = At(tokens) \cup {n + 1} /\ n + 1 \notin At(tokens)
    BY <1>1, <1>3 DEF At
  <2> QED
    BY <1>2, <1>3, <2>1, FS_AddElement DEF One, longer
<1>4. CASE token.part # "header"
  <2>1. At(longer) = At(tokens)
    BY <1>1, <1>4 DEF At
  <2> QED
    BY <1>2, <1>4, <2>1 DEF One, longer
<1> QED
  BY <1>3, <1>4

\* So does a token read.
LEMMA HeadersTail ==
  ASSUME NEW S, NEW tokens \in Seq(S), tokens # <<>>
  PROVE  Headers(tokens) = One(Head(tokens)) + Headers(Tail(tokens))
<1> DEFINE n == Len(tokens)
           rest == Tail(tokens)
           later == {i \in At(tokens) : i # 1}
<1>1. /\ n \in Nat /\ n >= 1 /\ DOMAIN tokens = 1 .. n /\ DOMAIN rest = 1 .. (n - 1)
      /\ rest \in Seq(S)
      /\ Head(tokens) = tokens[1] /\ \A i \in 1 .. (n - 1) : rest[i] = tokens[i + 1]
  OBVIOUS
<1>2. IsFiniteSet(At(tokens)) /\ Headers(tokens) = Cardinality(At(tokens))
      /\ IsFiniteSet(At(rest)) /\ Headers(rest) = Cardinality(At(rest)) /\ Headers(rest) \in Nat
  BY <1>1, HeadersType
<1> HIDE DEF rest
<1>3. Cardinality(later) = Cardinality(At(rest)) /\ IsFiniteSet(later)
  <2> DEFINE f == [i \in At(rest) |-> i + 1]
  <2>1. f \in [At(rest) -> later]
    BY <1>1 DEF At
  <2>2. \A i, j \in At(rest) : i # j => f[i] # f[j]
    BY <1>1 DEF At
  <2>3. \A k \in later : \E i \in At(rest) : f[i] = k
    <3> SUFFICES ASSUME NEW k \in later PROVE \E i \in At(rest) : f[i] = k
      OBVIOUS
    <3>1. k \in 2 .. n /\ tokens[k].part = "header"
      BY <1>1 DEF At
    <3>2. k - 1 \in At(rest) /\ (k - 1) + 1 = k
      BY <1>1, <3>1 DEF At
    <3> QED
      BY <3>2
  <2> HIDE DEF f, later
  <2>4. f \in Bijection(At(rest), later)
    BY <2>1, <2>2, <2>3, Fun_IsBij
  <2>5. ExistsBijection(At(rest), later)
    BY <2>4 DEF ExistsBijection
  <2> QED
    BY <1>2, <2>5, FS_Bijection
<1>4. CASE Head(tokens).part = "header"
  <2>1. At(tokens) = later \cup {1} /\ 1 \notin later
    BY <1>1, <1>4 DEF At
  <2> HIDE DEF later
  <2>2. Cardinality(At(tokens)) = Cardinality(later) + 1
    BY <1>3, <2>1, FS_AddElement
  <2> QED
    BY <1>2, <1>3, <1>4, <2>2 DEF One, rest
<1>5. CASE Head(tokens).part # "header"
  <2>1. At(tokens) = later
    BY <1>1, <1>5 DEF At
  <2> HIDE DEF later
  <2>2. Headers(tokens) = Headers(rest)
    BY <1>2, <1>3, <2>1
  <2> QED
    BY <1>2, <1>5, <2>2 DEF One, rest
<1> QED
  BY <1>4, <1>5

\* A frame is one header, and payload.
LEMMA FrameShape ==
  ASSUME NEW header \in ServerTokens, header.part = "header"
  PROVE  /\ Frame(header) \in Seq(ServerTokens)
         /\ Frame(header) # <<>>
         /\ Headers(Frame(header)) = 1
         /\ \A i \in DOMAIN Frame(header) : Frame(header)[i] = header \/ Frame(header)[i] = Payload
<1> DEFINE body == [i \in 1 .. Parts |-> Payload]
           frame == <<header>> \o body
<1>1. Parts \in Nat /\ Payload \in ServerTokens /\ Payload.part = "payload"
  BY WireAssumption DEF Payload, ServerTokens
<1> HIDE DEF ServerTokens, Payload
<1>2. body \in Seq(ServerTokens) /\ Len(body) = Parts /\ \A i \in 1 .. Parts : body[i] = Payload
  BY <1>1
<1>3. <<header>> \in Seq(ServerTokens) /\ Len(<<header>>) = 1 /\ <<header>>[1] = header
  OBVIOUS
<1> HIDE DEF body
<1>4. /\ frame \in Seq(ServerTokens) /\ Len(frame) = 1 + Parts
      /\ frame[1] = header
      /\ \A i \in 2 .. (1 + Parts) : frame[i] = Payload
  BY <1>1, <1>2, <1>3
<1>5. DOMAIN frame = 1 .. (1 + Parts) /\ frame # <<>>
  BY <1>1, <1>4
<1>6. Frame(header) = frame
  BY DEF Frame, body
<1> HIDE DEF frame
<1>7. At(frame) = {1}
  BY <1>1, <1>4, <1>5 DEF At
<1>8. Headers(frame) = 1
  BY <1>4, <1>7, HeadersType, FS_Singleton
<1> QED
  BY <1>1, <1>4, <1>5, <1>6, <1>8

-----------------------------------------------------------------------------
(* Places in the stream, modulo the length of a frame.                      *)

\* A place in the stream has a frame and an offset in it.
LEMMA Places ==
  ASSUME NEW x \in Nat, NEW m \in Nat, m >= 1
  PROVE  \E q \in Nat, r \in 0 .. (m - 1) : x = q * m + r /\ r = x % m
<1>1. x \div m \in Nat /\ x % m \in 0 .. (m - 1) /\ x = (x \div m) * m + (x % m)
  OBVIOUS
<1> QED
  BY <1>1

\* The offset is what modulo computes.
LEMMA PlaceIn ==
  ASSUME NEW q \in Nat, NEW m \in Nat, NEW r \in 0 .. (m - 1)
  PROVE  (q * m + r) % m = r
OBVIOUS

\* A frame further is the same place in the next one.
LEMMA NextFrame ==
  ASSUME NEW x \in Nat
  PROVE  (x + (Parts + 1)) % (Parts + 1) = x % (Parts + 1)
<1> DEFINE m == Parts + 1
<1>1. m \in Nat /\ m >= 1
  BY WireAssumption
<1> HIDE DEF m
<1>2. PICK q \in Nat, r \in 0 .. (m - 1) : x = q * m + r /\ r = x % m
  BY <1>1, Places
<1>3. x + m = (q + 1) * m + r /\ q + 1 \in Nat
  BY <1>1, <1>2
<1>4. (x + m) % m = r
  <2>1. ((q + 1) * m + r) % m = r
    BY <1>1, <1>3, PlaceIn
  <2> QED
    BY <1>3, <2>1
<1> QED
  BY <1>2, <1>4 DEF m

\* Offsets are below the length of a frame, which is a boundary.
LEMMA InFrame ==
  ASSUME NEW x \in 1 .. Parts
  PROVE  x % (Parts + 1) = x /\ (Parts + 1) % (Parts + 1) = 0
BY WireAssumption

\* What is less than a frame away from a boundary is not on one.
LEMMA BeforeBoundary ==
  ASSUME NEW x \in Nat, NEW k \in 1 .. Parts, (x + k) % (Parts + 1) = 0
  PROVE  x % (Parts + 1) # 0
<1> DEFINE m == Parts + 1
<1>1. m \in Nat /\ m >= 1 /\ k \in 0 .. (m - 1) /\ k # 0 /\ (x + k) % m = 0
  BY WireAssumption
<1> HIDE DEF m
<1>2. PICK q \in Nat, r \in 0 .. (m - 1) : x = q * m + r /\ r = x % m
  BY <1>1, Places
<1>3. SUFFICES ASSUME r = 0 PROVE FALSE
  BY <1>2 DEF m
<1>4. x + k = q * m + k
  BY <1>1, <1>2, <1>3
<1>5. (q * m + k) % m = k
  BY <1>1, PlaceIn
<1> QED
  BY <1>1, <1>4, <1>5

-----------------------------------------------------------------------------
(* The types of the state.                                                  *)

Phases == {"hello", "header", "payload", "decoded", "commit", "writing", "drop", "closed"}
Fates == {"none", "ok", "handshake", "transport", "upload", "engine"}

Written ==
  [kind : {"none", "status", "error", "answer"}, tokens : Seq(ServerTokens),
   then : {"header", "drop"}]

ServerTypes ==
  /\ pc \in [Conns -> Phases]
  /\ request \in [Conns -> Frames]
  /\ left \in [Conns -> 0 .. Parts]
  /\ reply \in [Conns -> Written]
  /\ fate \in [Conns -> Fates]
  /\ loaded \in [Conns -> BOOLEAN]
  /\ stored \in [Conns -> SUBSET Matrices]
  /\ charged \in SUBSET Matrices
  /\ \A c \in Conns : pc[c] = "payload" => left[c] \in 1 .. Parts

PeerTypes ==
  /\ greeted \in [Conns -> BOOLEAN]
  /\ owed \in [Conns -> 0 .. Parts]
  /\ asked \in [Conns -> Nat]
  /\ heard \in [Conns -> Nat]

Types == NetTypes /\ ServerTypes /\ PeerTypes

\* What a session thread may change of the other sessions: nothing.
Elsewhere(c) ==
  \A d \in Conns : d # c =>
    /\ pc'[d] = pc[d] /\ request'[d] = request[d] /\ left'[d] = left[d]
    /\ reply'[d] = reply[d] /\ fate'[d] = fate[d]
    /\ loaded'[d] = loaded[d] /\ stored'[d] = stored[d]

\* What an error frame starts with.
LEMMA ErrorShape ==
  ASSUME NEW code \in Codes
  PROVE  ErrorFrame(code) \in ServerTokens /\ ErrorFrame(code).part = "header"
         /\ ErrorFrame(code).kind = "Error"
BY DEF ErrorFrame, ServerTokens

\* What an answer starts with.
LEMMA AnswerShape ==
  ASSUME NEW kind, NEW entries,
         \/ kind = "UploadAccepted" /\ entries \in Numberings
         \/ kind = "Products" /\ entries \in Listings
  PROVE  Answer(kind, entries) \in ServerTokens /\ Answer(kind, entries).part = "header"
         /\ Answer(kind, entries).entries = entries
BY DEF Answer, ServerTokens

\* The handshake's status byte is no header.
LEMMA StatusShape ==
  ASSUME NEW ok \in BOOLEAN
  PROVE  /\ <<Status(ok)>> \in Seq(ServerTokens)
         /\ Headers(<<Status(ok)>>) = 0
         /\ \A i \in DOMAIN <<Status(ok)>> : <<Status(ok)>>[i].part = "status"
<1>1. Status(ok) \in ServerTokens /\ Status(ok).part = "status"
  BY DEF Status, ServerTokens
<1> HIDE DEF Status
<1>2. /\ <<Status(ok)>> \in Seq(ServerTokens)
      /\ \A i \in DOMAIN <<Status(ok)>> : <<Status(ok)>>[i].part = "status"
  BY <1>1
<1>3. At(<<Status(ok)>>) = {}
  BY <1>2 DEF At
<1> QED
  BY <1>2, <1>3, HeadersType, FS_EmptySet

\* What it is to write a reply.
LEMMA Replied ==
  ASSUME ServerTypes, NEW c \in Conns, NEW kind \in {"status", "error", "answer"},
         NEW tokens \in Seq(ServerTokens), NEW then \in {"header", "drop"},
         Replies(c, kind, tokens, then)
  PROVE  /\ reply' \in [Conns -> Written] /\ pc' \in [Conns -> Phases]
         /\ pc'[c] = "writing"
         /\ reply'[c].kind = kind /\ reply'[c].tokens = tokens /\ reply'[c].then = then
         /\ \A d \in Conns : d # c => reply'[d] = reply[d] /\ pc'[d] = pc[d]
<1> DEFINE written == [kind |-> kind, tokens |-> tokens, then |-> then]
<1>1. written \in Written /\ written.kind = kind /\ written.tokens = tokens /\ written.then = then
  BY DEF Written
<1>2. reply' = [reply EXCEPT ![c] = written] /\ pc' = [pc EXCEPT ![c] = "writing"]
  BY DEF Replies
<1>3. "writing" \in Phases
  BY DEF Phases
<1> HIDE DEF written
<1> QED
  BY <1>1, <1>2, <1>3 DEF ServerTypes

\* send_error and on to the next header.
LEMMA Rejected ==
  ASSUME ServerTypes, NEW c \in Conns, NEW code \in Codes, Rejects(c, code)
  PROVE  /\ reply' \in [Conns -> Written] /\ pc' \in [Conns -> Phases] /\ fate' = fate
         /\ pc'[c] = "writing"
         /\ reply'[c].kind = "error" /\ reply'[c].then = "header"
         /\ reply'[c].tokens = Frame(ErrorFrame(code))
         /\ \A d \in Conns : d # c => reply'[d] = reply[d] /\ pc'[d] = pc[d]
BY ErrorShape, FrameShape, Replied DEF Rejects

\* send_error and the end of the session.
LEMMA RejectedAndClosed ==
  ASSUME ServerTypes, NEW c \in Conns, NEW code \in Codes, NEW f \in Fates \ {"none"},
         RejectsAndCloses(c, code, f)
  PROVE  /\ reply' \in [Conns -> Written] /\ pc' \in [Conns -> Phases]
         /\ fate' \in [Conns -> Fates]
         /\ pc'[c] = "writing" /\ fate'[c] = f /\ fate'[c] # "none"
         /\ reply'[c].kind = "error" /\ reply'[c].then = "drop"
         /\ reply'[c].tokens = Frame(ErrorFrame(code))
         /\ \A d \in Conns : d # c =>
              reply'[d] = reply[d] /\ pc'[d] = pc[d] /\ fate'[d] = fate[d]
<1>1. /\ reply' \in [Conns -> Written] /\ pc' \in [Conns -> Phases]
      /\ pc'[c] = "writing"
      /\ reply'[c].kind = "error" /\ reply'[c].then = "drop"
      /\ reply'[c].tokens = Frame(ErrorFrame(code))
      /\ \A d \in Conns : d # c => reply'[d] = reply[d] /\ pc'[d] = pc[d]
  BY ErrorShape, FrameShape, Replied DEF RejectsAndCloses
<1>2. fate' \in [Conns -> Fates] /\ fate'[c] = f /\ \A d \in Conns : d # c => fate'[d] = fate[d]
  BY DEF RejectsAndCloses, ServerTypes
<1> QED
  BY <1>1, <1>2

\* The end of the session without an answer.
LEMMA Ended ==
  ASSUME ServerTypes, NEW c \in Conns, NEW f \in Fates \ {"none"}, Ends(c, f)
  PROVE  /\ reply' = reply /\ pc' \in [Conns -> Phases] /\ fate' \in [Conns -> Fates]
         /\ pc'[c] = "drop" /\ fate'[c] = f /\ fate'[c] # "none"
         /\ \A d \in Conns : d # c => pc'[d] = pc[d] /\ fate'[d] = fate[d]
BY DEF Ends, ServerTypes, Phases

\* Nothing sent, nothing read.
LEMMA NetKept ==
  ASSUME NetTypes, net' = net
  PROVE  NetTypes'
BY DEF NetTypes, Unread

-----------------------------------------------------------------------------
(* What each action of a session thread does to the session it is about.    *)

\* The step is well-typed and is about the connection c only.
Moves(c) ==
  /\ NetTypes' /\ ServerTypes' /\ Elsewhere(c)
  /\ \A d \in Conns : d # c => net'[d] = net[d]

\* The server took the first of what was unread.
Took(c) ==
  /\ net'[c].open = net[c].open /\ net'[c].reset = net[c].reset
  /\ net[c].inbox["server"] # <<>>
  /\ net'[c].inbox["server"] = Tail(net[c].inbox["server"])
  /\ net'[c].inbox["client"] = net[c].inbox["client"]

\* An answer of one header and its payload is written next.
Writes(c, header, then) ==
  /\ pc'[c] = "writing"
  /\ reply'[c].tokens = Frame(header) /\ reply'[c].then = then
  /\ header \in ServerTokens /\ header.part = "header"

\* An error is written and the session ends.
Fails(c) ==
  /\ fate'[c] # "none" /\ reply'[c].kind = "error"
  /\ \E code \in Codes : Writes(c, ErrorFrame(code), "drop")

\* A read of the server.
LEMMA ServerTook ==
  ASSUME NetTypes, NEW c \in Conns, NEW token, Receives(c, "server", token)
  PROVE  /\ NetTypes' /\ Took(c) /\ token = Head(net[c].inbox["server"])
         /\ \A d \in Conns : d # c => net'[d] = net[d]
<1>1. "server" \in Sides /\ Other("server") = "client"
  BY DEF Sides, Other
<1> QED
  BY <1>1, EndReceives DEF Took

\* A rejection that closes writes an error.
LEMMA RejectedFails ==
  ASSUME ServerTypes, NEW c \in Conns, NEW code \in Codes, NEW f \in Fates \ {"none"},
         RejectsAndCloses(c, code, f)
  PROVE  Fails(c)
BY RejectedAndClosed, ErrorShape DEF Fails, Writes

\* A hello is answered with a status byte, or not at all.
LEMMA ReadHelloEffect ==
  ASSUME Types, NEW c \in Conns, ReadHello(c)
  PROVE  /\ Moves(c) /\ Took(c) /\ pc[c] = "hello" /\ Head(net[c].inbox["server"]).part = "hello"
         /\ UNCHANGED <<request, left, loaded, stored, charged>>
         /\ \/ /\ pc'[c] = "writing" /\ fate' = fate /\ reply'[c].then = "header"
               /\ \E ok \in BOOLEAN : reply'[c].tokens = <<Status(ok)>>
            \/ /\ pc'[c] = "writing" /\ fate'[c] = "handshake" /\ reply'[c].then = "drop"
               /\ \E ok \in BOOLEAN : reply'[c].tokens = <<Status(ok)>>
            \/ pc'[c] = "drop" /\ fate'[c] = "handshake" /\ reply' = reply
<1>1. PICK content \in {"good", "foreign", "magic"} :
         /\ Receives(c, "server", Hello(content))
         /\ \/ /\ Replies(c, "status", <<Status(TRUE)>>, "header")
               /\ UNCHANGED fate
            \/ /\ Replies(c, "status", <<Status(FALSE)>>, "drop")
               /\ fate' = [fate EXCEPT ![c] = "handshake"]
            \/ Ends(c, "handshake")
  BY DEF ReadHello
<1>2. pc[c] = "hello" /\ UNCHANGED <<request, left, loaded, stored, charged>>
  BY DEF ReadHello
<1>3. /\ NetTypes' /\ Took(c) /\ \A d \in Conns : d # c => net'[d] = net[d]
      /\ Head(net[c].inbox["server"]).part = "hello"
  BY <1>1, ServerTook DEF Types, Hello
<1>4. /\ <<Status(TRUE)>> \in Seq(ServerTokens) /\ <<Status(FALSE)>> \in Seq(ServerTokens)
      /\ "handshake" \in Fates \ {"none"}
  BY StatusShape DEF Fates
<1> HIDE DEF Status
<1>5. CASE Replies(c, "status", <<Status(TRUE)>>, "header") /\ UNCHANGED fate
  <2>1. /\ reply' \in [Conns -> Written] /\ pc' \in [Conns -> Phases]
        /\ pc'[c] = "writing"
        /\ reply'[c].tokens = <<Status(TRUE)>> /\ reply'[c].then = "header"
        /\ \A d \in Conns : d # c => reply'[d] = reply[d] /\ pc'[d] = pc[d]
    BY <1>4, <1>5, Replied DEF Types
  <2>2. ServerTypes' /\ Elsewhere(c)
    BY <1>2, <1>5, <2>1 DEF Types, ServerTypes, Elsewhere
  <2> QED
    BY <1>2, <1>3, <1>5, <2>1, <2>2 DEF Moves
<1>6. CASE /\ Replies(c, "status", <<Status(FALSE)>>, "drop")
           /\ fate' = [fate EXCEPT ![c] = "handshake"]
  <2>1. /\ reply' \in [Conns -> Written] /\ pc' \in [Conns -> Phases]
        /\ pc'[c] = "writing"
        /\ reply'[c].tokens = <<Status(FALSE)>> /\ reply'[c].then = "drop"
        /\ \A d \in Conns : d # c => reply'[d] = reply[d] /\ pc'[d] = pc[d]
    BY <1>4, <1>6, Replied DEF Types
  <2>2. ServerTypes' /\ Elsewhere(c) /\ fate'[c] = "handshake"
    BY <1>2, <1>4, <1>6, <2>1 DEF Types, ServerTypes, Elsewhere
  <2> QED
    BY <1>2, <1>3, <2>1, <2>2 DEF Moves
<1>7. CASE Ends(c, "handshake")
  <2>1. ServerTypes' /\ Elsewhere(c) /\ pc'[c] = "drop" /\ fate'[c] = "handshake" /\ reply' = reply
    BY <1>2, <1>4, <1>7, Ended DEF Types, ServerTypes, Elsewhere
  <2> QED
    BY <1>2, <1>3, <2>1 DEF Moves
<1> QED
  BY <1>1, <1>5, <1>6, <1>7

\* The actions that read nothing, and end the session without an answer.
LEMMA EndsEffect ==
  ASSUME Types, NEW c \in Conns, HelloFails(c) \/ HeaderEnds(c)
  PROVE  /\ Moves(c) /\ pc[c] \in {"hello", "header"} /\ pc'[c] = "drop"
         /\ fate'[c] \notin {"none", "upload"}
         /\ UNCHANGED <<net, request, left, reply, loaded, stored, charged>>
<1>1. PICK f \in {"handshake", "ok", "transport"} : Ends(c, f)
  BY DEF HelloFails, HeaderEnds
<1>2. /\ pc[c] \in {"hello", "header"}
      /\ UNCHANGED <<net, request, left, loaded, stored, charged>>
  BY DEF HelloFails, HeaderEnds
<1>3. f \in Fates \ {"none"} /\ f # "upload"
  BY DEF Fates
<1>4. /\ reply' = reply /\ pc' \in [Conns -> Phases] /\ fate' \in [Conns -> Fates]
      /\ pc'[c] = "drop" /\ fate'[c] = f
      /\ \A d \in Conns : d # c => pc'[d] = pc[d] /\ fate'[d] = fate[d]
  BY <1>1, <1>3, Ended DEF Types
<1>5. ServerTypes' /\ Elsewhere(c) /\ NetTypes'
  BY <1>2, <1>4, NetKept DEF Types, ServerTypes, Elsewhere
<1> QED
  BY <1>2, <1>3, <1>4, <1>5 DEF Moves

\* A header refused is answered with a code and ends the session.
LEMMA RefusalType ==
  ASSUME NEW kind \in Kinds
  PROVE  Refusal(kind)[1] \in Codes /\ Refusal(kind)[2] \in {"ok", "transport"}
<1>1. PICK code, f :
        /\ code \in {"AlreadyLoaded", "NotLoaded", "UnknownFrameKind", "UnexpectedFrame"}
        /\ f \in {"ok", "transport"}
        /\ Refusal(kind) = <<code, f>>
  <2>1. kind = "UploadMatrices" => Refusal(kind) = <<"AlreadyLoaded", "ok">>
    BY DEF Refusal
  <2>2. kind = "Evaluate" => Refusal(kind) = <<"NotLoaded", "ok">>
    BY DEF Refusal
  <2>3. kind = "unknown" => Refusal(kind) = <<"UnknownFrameKind", "transport">>
    BY DEF Refusal
  <2>4. kind \notin {"UploadMatrices", "Evaluate", "unknown"}
          => Refusal(kind) = <<"UnexpectedFrame", "transport">>
    BY DEF Refusal
  <2> QED
    BY <2>1, <2>2, <2>3, <2>4
<1>2. code \in Codes
  BY <1>1 DEF Codes
<1> QED
  BY <1>1, <1>2

\* A header in the stream is one of the requests of the peer.
LEMMA HeaderToken ==
  ASSUME NEW c \in Conns, NEW token \in PeerTokens(c), token.part = "header"
  PROVE  token \in Requests(c) /\ token \in Frames
BY RequestsType DEF PeerTokens, Greetings, Payload

\* A header is taken, and either its payload is needed or the session ends.
LEMMA ReadHeaderEffect ==
  ASSUME Types, NEW c \in Conns, ReadHeader(c)
  PROVE  /\ Moves(c) /\ Took(c) /\ pc[c] = "header"
         /\ Head(net[c].inbox["server"]).part = "header"
         /\ request'[c] = Head(net[c].inbox["server"]) /\ request'[c] \in Requests(c)
         /\ UNCHANGED <<loaded, stored, charged>>
         /\ \/ /\ TakesPayload(c, request'[c].kind)
               /\ pc'[c] = "payload" /\ left'[c] = Parts /\ reply' = reply /\ fate' = fate
            \/ Fails(c) /\ fate'[c] # "upload"
<1> DEFINE header == Head(Unread(c, "server"))
<1>1. /\ pc[c] = "header" /\ header.part = "header" /\ Receives(c, "server", header)
      /\ request' = [request EXCEPT ![c] = header]
      /\ UNCHANGED <<loaded, stored, charged>>
  BY DEF ReadHeader
<1>2. /\ NetTypes' /\ Took(c) /\ \A d \in Conns : d # c => net'[d] = net[d]
      /\ header = Head(net[c].inbox["server"])
  BY <1>1, ServerTook DEF Types
<1>3. header \in PeerTokens(c)
  <2>1. net[c].inbox["server"] \in Seq(PeerTokens(c)) /\ net[c].inbox["server"] # <<>>
    BY <1>2, LinkFields DEF Types, Took
  <2> QED
    BY <1>2, <2>1
<1>4. \/ /\ TakesPayload(c, header.kind)
         /\ left' = [left EXCEPT ![c] = Parts]
         /\ pc' = [pc EXCEPT ![c] = "payload"]
         /\ UNCHANGED <<reply, fate>>
      \/ /\ RejectsAndCloses(c, Refusal(header.kind)[1], Refusal(header.kind)[2])
         /\ UNCHANGED left
  BY DEF ReadHeader
<1> HIDE DEF header
<1>5. header \in Requests(c) /\ header \in Frames
  BY <1>1, <1>3, HeaderToken
<1>6. request' \in [Conns -> Frames] /\ request'[c] = header
      /\ \A d \in Conns : d # c => request'[d] = request[d]
  BY <1>1, <1>5 DEF Types, ServerTypes
<1>7. CASE /\ TakesPayload(c, header.kind)
           /\ left' = [left EXCEPT ![c] = Parts]
           /\ pc' = [pc EXCEPT ![c] = "payload"]
           /\ UNCHANGED <<reply, fate>>
  <2>1. /\ left' \in [Conns -> 0 .. Parts] /\ left'[c] = Parts /\ Parts \in 1 .. Parts
        /\ pc' \in [Conns -> Phases] /\ pc'[c] = "payload"
        /\ \A d \in Conns : d # c => left'[d] = left[d] /\ pc'[d] = pc[d]
    BY <1>7, WireAssumption DEF Types, ServerTypes, Phases
  <2>2. ServerTypes' /\ Elsewhere(c)
    BY <1>1, <1>6, <1>7, <2>1 DEF Types, ServerTypes, Elsewhere
  <2> QED
    BY <1>1, <1>2, <1>5, <1>6, <1>7, <2>1, <2>2 DEF Moves
<1>8. CASE /\ RejectsAndCloses(c, Refusal(header.kind)[1], Refusal(header.kind)[2])
           /\ UNCHANGED left
  <2>1. /\ Refusal(header.kind)[1] \in Codes /\ Refusal(header.kind)[2] \in Fates \ {"none"}
        /\ Refusal(header.kind)[2] # "upload"
    BY <1>5, RefusalType DEF Frames, Fates
  <2>2. PICK code \in Codes, f \in Fates \ {"none"} : RejectsAndCloses(c, code, f) /\ f # "upload"
    BY <1>8, <2>1
  <2>3. /\ reply' \in [Conns -> Written] /\ pc' \in [Conns -> Phases]
        /\ fate' \in [Conns -> Fates] /\ pc'[c] = "writing" /\ fate'[c] = f
        /\ \A d \in Conns : d # c =>
             reply'[d] = reply[d] /\ pc'[d] = pc[d] /\ fate'[d] = fate[d]
    BY <2>2, RejectedAndClosed DEF Types
  <2>4. Fails(c)
    BY <2>2, RejectedFails DEF Types
  <2>5. ServerTypes' /\ Elsewhere(c)
    BY <1>1, <1>6, <1>8, <2>3 DEF Types, ServerTypes, Elsewhere
  <2> QED
    BY <1>1, <1>2, <1>5, <1>6, <2>2, <2>3, <2>4, <2>5 DEF Moves
<1> QED
  BY <1>4, <1>7, <1>8

\* A rejection that closes, where nothing else of the server changes.
LEMMA OnlyRejects ==
  ASSUME ServerTypes, NEW c \in Conns, NEW code \in Codes, NEW f \in Fates \ {"none"},
         RejectsAndCloses(c, code, f), UNCHANGED <<request, left, loaded, stored>>,
         charged' \in SUBSET Matrices
  PROVE  ServerTypes' /\ Elsewhere(c) /\ Fails(c) /\ fate'[c] = f
<1>1. /\ reply' \in [Conns -> Written] /\ pc' \in [Conns -> Phases]
      /\ fate' \in [Conns -> Fates] /\ pc'[c] = "writing" /\ fate'[c] = f
      /\ \A d \in Conns : d # c =>
           reply'[d] = reply[d] /\ pc'[d] = pc[d] /\ fate'[d] = fate[d]
  BY RejectedAndClosed
<1>2. ServerTypes' /\ Elsewhere(c)
  BY <1>1 DEF ServerTypes, Elsewhere
<1> QED
  BY <1>1, <1>2, RejectedFails

\* A part of a payload is taken, the last one decodes the frame.
LEMMA ReadPartEffect ==
  ASSUME Types, NEW c \in Conns, ReadPart(c)
  PROVE  /\ Moves(c) /\ Took(c) /\ pc[c] = "payload"
         /\ Head(net[c].inbox["server"]).part = "payload"
         /\ left'[c] = left[c] - 1
         /\ UNCHANGED <<request, loaded, stored, charged>>
         /\ \/ left[c] > 1 /\ pc'[c] = "payload" /\ reply' = reply /\ fate' = fate
            \/ left[c] = 1 /\ pc'[c] = "decoded" /\ reply' = reply /\ fate' = fate
            \/ Fails(c) /\ fate'[c] # "upload"
<1>1. /\ pc[c] = "payload" /\ Receives(c, "server", Payload)
      /\ left' = [left EXCEPT ![c] = @ - 1]
      /\ UNCHANGED <<request, loaded, stored, charged>>
      /\ \/ /\ left[c] > 1
            /\ UNCHANGED <<pc, reply, fate>>
         \/ /\ left[c] = 1
            /\ pc' = [pc EXCEPT ![c] = "decoded"]
            /\ UNCHANGED <<reply, fate>>
         \/ RejectsAndCloses(c, "Codec", "transport")
  BY DEF ReadPart
<1>2. /\ NetTypes' /\ Took(c) /\ \A d \in Conns : d # c => net'[d] = net[d]
      /\ Head(net[c].inbox["server"]).part = "payload"
  BY <1>1, ServerTook DEF Types, Payload
<1>3. /\ left[c] \in 1 .. Parts /\ left' \in [Conns -> 0 .. Parts] /\ left'[c] = left[c] - 1
      /\ \A d \in Conns : d # c => left'[d] = left[d]
  BY <1>1, WireAssumption DEF Types, ServerTypes
<1>4. CASE left[c] > 1 /\ UNCHANGED <<pc, reply, fate>>
  <2>1. ServerTypes' /\ Elsewhere(c)
    BY <1>1, <1>3, <1>4, WireAssumption DEF Types, ServerTypes, Elsewhere
  <2> QED
    BY <1>1, <1>2, <1>3, <1>4, <2>1 DEF Moves
<1>5. CASE left[c] = 1 /\ pc' = [pc EXCEPT ![c] = "decoded"] /\ UNCHANGED <<reply, fate>>
  <2>1. pc' \in [Conns -> Phases] /\ pc'[c] = "decoded"
        /\ \A d \in Conns : d # c => pc'[d] = pc[d]
    BY <1>5 DEF Types, ServerTypes, Phases
  <2>2. ServerTypes' /\ Elsewhere(c)
    BY <1>1, <1>3, <1>5, <2>1 DEF Types, ServerTypes, Elsewhere
  <2> QED
    BY <1>1, <1>2, <1>3, <1>5, <2>1, <2>2 DEF Moves
<1>6. CASE RejectsAndCloses(c, "Codec", "transport")
  <2>1. "Codec" \in Codes /\ "transport" \in Fates \ {"none"}
    BY DEF Codes, Fates
  <2>2. /\ reply' \in [Conns -> Written] /\ pc' \in [Conns -> Phases]
        /\ fate' \in [Conns -> Fates] /\ pc'[c] = "writing" /\ fate'[c] = "transport"
        /\ \A d \in Conns : d # c =>
             reply'[d] = reply[d] /\ pc'[d] = pc[d] /\ fate'[d] = fate[d]
    BY <1>6, <2>1, RejectedAndClosed DEF Types
  <2>3. ServerTypes' /\ Elsewhere(c)
    BY <1>1, <1>3, <2>2 DEF Types, ServerTypes, Elsewhere
  <2>4. Fails(c)
    BY <1>6, <2>1, RejectedFails DEF Types
  <2> QED
    BY <1>1, <1>2, <1>3, <2>2, <2>3, <2>4 DEF Moves
<1> QED
  BY <1>1, <1>4, <1>5, <1>6

\* The failures that are answered, and leave everything else as it is.
LEMMA RejectsEffect ==
  ASSUME Types, NEW c \in Conns,
         ReserveFails(c) \/ PayloadEnds(c) \/ UploadRefused(c) \/ EngineFails(c)
  PROVE  /\ Moves(c) /\ pc[c] \in {"payload", "decoded"} /\ Fails(c) /\ fate'[c] # "upload"
         /\ UNCHANGED <<net, request, left, loaded, stored, charged>>
<1>1. /\ pc[c] \in {"payload", "decoded"}
      /\ UNCHANGED <<net, request, left, loaded, stored, charged>>
  BY DEF ReserveFails, PayloadEnds, UploadRefused, EngineFails
<1>2. \/ RejectsAndCloses(c, "AllocationFailed", "transport")
      \/ RejectsAndCloses(c, "TruncatedFrame", "transport")
      \/ RejectsAndCloses(c, "Internal", "transport")
      \/ RejectsAndCloses(c, "InvalidRequest", "ok")
      \/ RejectsAndCloses(c, "UploadFailed", "ok")
      \/ RejectsAndCloses(c, "GpuFailure", "engine")
  BY DEF ReserveFails, PayloadEnds, UploadRefused, EngineFails
<1>3. PICK code \in Codes, f \in Fates \ {"none"} : RejectsAndCloses(c, code, f) /\ f # "upload"
  BY <1>2 DEF Codes, Fates
<1>4. charged' \in SUBSET Matrices
  BY <1>1 DEF Types, ServerTypes
<1>5. ServerTypes' /\ Elsewhere(c) /\ Fails(c) /\ fate'[c] = f
  BY <1>1, <1>3, <1>4, OnlyRejects DEF Types
<1>6. NetTypes'
  BY <1>1, NetKept DEF Types
<1> QED
  BY <1>1, <1>3, <1>5, <1>6 DEF Moves

\* A set is charged if it fits beside what is charged.
LEMMA ReserveSetEffect ==
  ASSUME Types, NEW c \in Conns, ReserveSet(c)
  PROVE  /\ Moves(c) /\ pc[c] = "decoded" /\ request[c].kind = "UploadMatrices"
         /\ Footprint(charged \cup request[c].set) <= MaxBytes
         /\ charged' = charged \cup request[c].set /\ pc'[c] = "commit"
         /\ UNCHANGED <<net, request, left, reply, fate, loaded, stored>>
<1>1. request[c].set \in SUBSET Matrices
  BY DEF Types, ServerTypes, Frames
<1>2. ServerTypes' /\ Elsewhere(c) /\ NetTypes' /\ pc'[c] = "commit"
  BY <1>1, NetKept DEF ReserveSet, Types, ServerTypes, Elsewhere, Phases
<1> QED
  BY <1>2 DEF ReserveSet, Admits, Moves

\* A set charged becomes the session's, even where the answer cannot be built.
LEMMA CommitSucceedsEffect ==
  ASSUME Types, NEW c \in Conns, CommitSucceeds(c)
  PROVE  /\ Moves(c) /\ pc[c] = "commit" /\ loaded'[c] /\ stored'[c] = request[c].set
         /\ UNCHANGED <<net, request, left, charged>>
         /\ \/ /\ Writes(c, Answer("UploadAccepted", Entries(request[c].set)), "header")
               /\ fate' = fate
            \/ Fails(c) /\ fate'[c] # "upload"
<1>1. /\ pc[c] = "commit"
      /\ loaded' = [loaded EXCEPT ![c] = TRUE]
      /\ stored' = [stored EXCEPT ![c] = request[c].set]
      /\ UNCHANGED <<net, request, left, charged>>
  BY DEF CommitSucceeds
<1>2. request[c].set \in SUBSET Matrices
  BY DEF Types, ServerTypes, Frames
<1>3. /\ loaded' \in [Conns -> BOOLEAN] /\ stored' \in [Conns -> SUBSET Matrices]
      /\ loaded'[c] /\ stored'[c] = request[c].set
      /\ \A d \in Conns : d # c => loaded'[d] = loaded[d] /\ stored'[d] = stored[d]
  BY <1>1, <1>2 DEF Types, ServerTypes
<1>4. NetTypes'
  BY <1>1, NetKept DEF Types
<1> DEFINE answer == Answer("UploadAccepted", Entries(request[c].set))
<1>5. answer \in ServerTokens /\ answer.part = "header"
  <2>1. Entries(request[c].set) \in Numberings
    BY <1>2 DEF Numberings
  <2> QED
    BY <2>1, AnswerShape
<1> HIDE DEF answer
<1>6. CASE Replies(c, "answer", Frame(answer), "header") /\ UNCHANGED fate
  <2>1. Frame(answer) \in Seq(ServerTokens)
    BY <1>5, FrameShape
  <2>2. /\ reply' \in [Conns -> Written] /\ pc' \in [Conns -> Phases]
        /\ pc'[c] = "writing"
        /\ reply'[c].tokens = Frame(answer) /\ reply'[c].then = "header"
        /\ \A d \in Conns : d # c => reply'[d] = reply[d] /\ pc'[d] = pc[d]
    BY <1>6, <2>1, Replied DEF Types
  <2>3. ServerTypes' /\ Elsewhere(c)
    BY <1>1, <1>3, <1>6, <2>2 DEF Types, ServerTypes, Elsewhere
  <2>4. Writes(c, answer, "header")
    BY <1>5, <2>2 DEF Writes
  <2> QED
    BY <1>1, <1>3, <1>4, <1>6, <2>3, <2>4 DEF Moves, answer
<1>7. CASE RejectsAndCloses(c, "AllocationFailed", "transport")
  <2>1. "AllocationFailed" \in Codes /\ "transport" \in Fates \ {"none"}
    BY DEF Codes, Fates
  <2>2. /\ reply' \in [Conns -> Written] /\ pc' \in [Conns -> Phases]
        /\ fate' \in [Conns -> Fates] /\ pc'[c] = "writing" /\ fate'[c] = "transport"
        /\ \A d \in Conns : d # c =>
             reply'[d] = reply[d] /\ pc'[d] = pc[d] /\ fate'[d] = fate[d]
    BY <1>7, <2>1, RejectedAndClosed DEF Types
  <2>3. ServerTypes' /\ Elsewhere(c)
    BY <1>1, <1>3, <2>2 DEF Types, ServerTypes, Elsewhere
  <2>4. Fails(c)
    BY <1>7, <2>1, RejectedFails DEF Types
  <2> QED
    BY <1>1, <1>3, <1>4, <2>2, <2>3, <2>4 DEF Moves
<1> QED
  BY <1>6, <1>7 DEF CommitSucceeds, answer

\* A failed commit gives back at most what the set was charged.
LEMMA CommitFailsEffect ==
  ASSUME Types, NEW c \in Conns, CommitFails(c)
  PROVE  /\ Moves(c) /\ pc[c] = "commit" /\ Fails(c) /\ fate'[c] = "upload"
         /\ charged' \subseteq charged /\ charged \ request[c].set \subseteq charged'
         /\ UNCHANGED <<net, request, left, loaded, stored>>
<1>1. PICK behind \in SUBSET request[c].set : charged' = charged \ (request[c].set \ behind)
  BY DEF CommitFails
<1>2. /\ pc[c] = "commit" /\ RejectsAndCloses(c, "UploadFailed", "upload")
      /\ UNCHANGED <<net, request, left, loaded, stored>>
  BY DEF CommitFails
<1>3. "UploadFailed" \in Codes /\ "upload" \in Fates \ {"none"}
  BY DEF Codes, Fates
<1>4. charged' \in SUBSET Matrices
  BY <1>1 DEF Types, ServerTypes
<1>5. ServerTypes' /\ Elsewhere(c) /\ Fails(c) /\ fate'[c] = "upload"
  BY <1>2, <1>3, <1>4, OnlyRejects DEF Types
<1>6. NetTypes'
  BY <1>2, NetKept DEF Types
<1> QED
  BY <1>1, <1>2, <1>5, <1>6 DEF Moves

\* What a valid evaluation is answered with is stored under what it named.
LEMMA ProductsStored ==
  ASSUME NEW c \in Conns, Valid(c)
  PROVE  Products(c) \subseteq Entries(stored[c])
<1>1. SUFFICES ASSUME NEW e \in request[c].entries
               PROVE  <<e[1], Matrix(c, e[1])>> \in Entries(stored[c])
  BY DEF Products
<1>2. \E m \in stored[c] : Place[m] = e[1]
  BY DEF Valid, Known
<1>3. Matrix(c, e[1]) \in stored[c] /\ Place[Matrix(c, e[1])] = e[1]
  BY <1>2 DEF Matrix, Known
<1> QED
  BY <1>3 DEF Entries

\* An answer to an evaluation is an error, or names what the session stores.
LEMMA EvaluatesEffect ==
  ASSUME Types, NEW c \in Conns, EvaluateInvalid(c) \/ EngineAnswers(c)
  PROVE  /\ Moves(c) /\ pc[c] = "decoded" /\ pc'[c] = "writing"
         /\ \/ \E code \in Codes : Writes(c, ErrorFrame(code), "header")
            \/ /\ Writes(c, Answer("Products", Products(c)), "header")
               /\ Products(c) \subseteq Entries(stored[c])
         /\ UNCHANGED <<net, request, left, fate, loaded, stored, charged>>
<1>1. /\ pc[c] = "decoded"
      /\ UNCHANGED <<net, request, left, fate, loaded, stored, charged>>
  BY DEF EvaluateInvalid, EngineAnswers, Rejects
<1>2. NetTypes'
  BY <1>1, NetKept DEF Types
<1>3. CASE EvaluateInvalid(c)
  <2>1. Rejects(c, "InvalidRequest") /\ "InvalidRequest" \in Codes
    BY <1>3 DEF EvaluateInvalid, Codes
  <2>2. /\ reply' \in [Conns -> Written] /\ pc' \in [Conns -> Phases]
        /\ pc'[c] = "writing" /\ reply'[c].then = "header"
        /\ reply'[c].tokens = Frame(ErrorFrame("InvalidRequest"))
        /\ \A d \in Conns : d # c => reply'[d] = reply[d] /\ pc'[d] = pc[d]
    BY <2>1, Rejected DEF Types
  <2>3. ServerTypes' /\ Elsewhere(c)
    BY <1>1, <2>2 DEF Types, ServerTypes, Elsewhere
  <2>4. Writes(c, ErrorFrame("InvalidRequest"), "header")
    BY <2>1, <2>2, ErrorShape DEF Writes
  <2> QED
    BY <1>1, <1>2, <2>1, <2>2, <2>3, <2>4 DEF Moves
<1>4. CASE EngineAnswers(c)
  <2> DEFINE answer == Answer("Products", Products(c))
  <2>1. Products(c) \in Listings /\ Products(c) \subseteq Entries(stored[c])
    <3>1. Products(c) \subseteq Entries(stored[c])
      BY <1>4, ProductsStored DEF EngineAnswers
    <3>2. Entries(stored[c]) \in Listings
      BY EntriesType DEF Types, ServerTypes
    <3> QED
      BY <3>1, <3>2 DEF Listings
  <2>2. answer \in ServerTokens /\ answer.part = "header"
    BY <2>1, AnswerShape
  <2>3. Replies(c, "answer", Frame(answer), "header")
    BY <1>4 DEF EngineAnswers
  <2> HIDE DEF answer
  <2>4. Frame(answer) \in Seq(ServerTokens)
    BY <2>2, FrameShape
  <2>5. /\ reply' \in [Conns -> Written] /\ pc' \in [Conns -> Phases]
        /\ pc'[c] = "writing"
        /\ reply'[c].tokens = Frame(answer) /\ reply'[c].then = "header"
        /\ \A d \in Conns : d # c => reply'[d] = reply[d] /\ pc'[d] = pc[d]
    BY <2>3, <2>4, Replied DEF Types
  <2>6. ServerTypes' /\ Elsewhere(c)
    BY <1>1, <2>5 DEF Types, ServerTypes, Elsewhere
  <2>7. Writes(c, answer, "header")
    BY <2>2, <2>5 DEF Writes
  <2> QED
    BY <1>1, <1>2, <2>1, <2>5, <2>6, <2>7 DEF Moves, answer
<1> QED
  BY <1>3, <1>4

\* Nothing to write.
LEMMA NoReplyShape ==
  NoReply \in Written /\ NoReply.tokens = <<>> /\ NoReply.then = "header"
<1>1. <<>> \in Seq(ServerTokens)
  OBVIOUS
<1> QED
  BY <1>1 DEF NoReply, Written

\* The server wrote a token, to a peer that is there or that is gone.
Wrote(c, token) ==
  /\ net'[c].open = net[c].open /\ ~net[c].reset
  /\ \/ /\ net[c].open["client"] /\ ~net'[c].reset
        /\ net'[c].inbox["server"] = net[c].inbox["server"]
        /\ net'[c].inbox["client"] = Append(net[c].inbox["client"], token)
     \/ ~net[c].open["client"] /\ net' = net
     \/ /\ ~net[c].open["client"] /\ net'[c].reset
        /\ net'[c].inbox["server"] = <<>> /\ net'[c].inbox["client"] = <<>>

\* One token of the reply is written, or the reply is done.
LEMMA WriteEffect ==
  ASSUME Types, NEW c \in Conns, Write(c)
  PROVE  /\ Moves(c) /\ pc[c] = "writing"
         /\ UNCHANGED <<request, left, fate, loaded, stored, charged>>
         /\ \/ /\ reply[c].tokens # <<>>
               /\ Wrote(c, Head(reply[c].tokens))
               /\ reply'[c].tokens = Tail(reply[c].tokens)
               /\ reply'[c].then = reply[c].then /\ reply'[c].kind = reply[c].kind
               /\ pc' = pc
            \/ /\ reply[c].tokens = <<>> /\ reply'[c].tokens = <<>>
               /\ pc'[c] = reply[c].then /\ net' = net
<1>1. pc[c] = "writing" /\ UNCHANGED <<request, left, fate, loaded, stored, charged>>
  BY DEF Write
<1>2. reply[c] \in Written /\ reply[c].tokens \in Seq(ServerTokens)
      /\ reply[c].then \in {"header", "drop"}
  BY DEF Types, ServerTypes, Written
<1>3. CASE /\ reply[c].tokens # <<>>
           /\ Sends(c, "server", Head(reply[c].tokens))
           /\ reply' = [reply EXCEPT ![c].tokens = Tail(@)]
           /\ UNCHANGED pc
  <2> DEFINE rest == Tail(reply[c].tokens)
             token == Head(reply[c].tokens)
             next == [reply[c] EXCEPT !.tokens = rest]
  <2>1. rest \in Seq(ServerTokens) /\ token \in ServerTokens
    BY <1>2, <1>3
  <2>2. NetTypes' /\ Wrote(c, token) /\ \A d \in Conns : d # c => net'[d] = net[d]
    <3> HIDE DEF token
    <3>1. Sends(c, "server", token)
      BY <1>3 DEF token
    <3> QED
      BY <2>1, <3>1, ServerSends DEF Types, Wrote
  <2>3. reply' = [reply EXCEPT ![c] = next]
    BY <1>3 DEF Types, ServerTypes, Written
  <2>4. /\ next \in Written /\ next.tokens = rest
        /\ next.then = reply[c].then /\ next.kind = reply[c].kind
    <3> HIDE DEF rest
    <3> QED
      BY <1>2, <2>1 DEF Written
  <2> HIDE DEF next, rest
  <2>5. /\ reply' \in [Conns -> Written] /\ reply'[c] = next
        /\ \A d \in Conns : d # c => reply'[d] = reply[d]
    BY <2>3, <2>4 DEF Types, ServerTypes
  <2>6. ServerTypes' /\ Elsewhere(c)
    BY <1>1, <1>3, <2>5 DEF Types, ServerTypes, Elsewhere
  <2> QED
    BY <1>1, <1>3, <2>2, <2>4, <2>5, <2>6 DEF Moves, rest
<1>4. CASE /\ reply[c].tokens = <<>>
           /\ pc' = [pc EXCEPT ![c] = reply[c].then]
           /\ reply' = [reply EXCEPT ![c] = NoReply]
           /\ UNCHANGED net
  <2>1. /\ reply' \in [Conns -> Written] /\ reply'[c] = NoReply
        /\ \A d \in Conns : d # c => reply'[d] = reply[d]
    BY <1>4, NoReplyShape DEF Types, ServerTypes
  <2>2. /\ pc' \in [Conns -> Phases] /\ pc'[c] = reply[c].then
        /\ \A d \in Conns : d # c => pc'[d] = pc[d]
    BY <1>2, <1>4 DEF Types, ServerTypes, Phases
  <2>3. ServerTypes' /\ Elsewhere(c)
    BY <1>1, <1>2, <2>1, <2>2 DEF Types, ServerTypes, Elsewhere
  <2>4. NetTypes'
    BY <1>4, NetKept DEF Types
  <2> QED
    BY <1>1, <1>4, <2>1, <2>2, <2>3, <2>4, NoReplyShape DEF Moves
<1> QED
  BY <1>3, <1>4 DEF Write

\* On a reset connection the reply is given up.
LEMMA WriteFailsEffect ==
  ASSUME Types, NEW c \in Conns, WriteFails(c)
  PROVE  /\ Moves(c) /\ pc[c] = "writing" /\ net[c].reset
         /\ UNCHANGED <<net, request, left, loaded, stored, charged>>
         /\ reply'[c].tokens = <<>>
         /\ \/ pc'[c] = reply[c].then /\ fate' = fate
            \/ /\ reply[c].kind # "error"
               /\ pc'[c] = "drop" /\ fate'[c] \notin {"none", "upload"}
<1>1. /\ pc[c] = "writing" /\ net[c].reset
      /\ UNCHANGED <<net, request, left, loaded, stored, charged>>
      /\ reply' = [reply EXCEPT ![c] = NoReply]
  BY DEF WriteFails, SendFails
<1>2. /\ reply' \in [Conns -> Written] /\ reply'[c] = NoReply
      /\ \A d \in Conns : d # c => reply'[d] = reply[d]
  BY <1>1, NoReplyShape DEF Types, ServerTypes
<1>3. NetTypes' /\ reply[c].then \in {"header", "drop"}
  BY <1>1, NetKept DEF Types, ServerTypes, Written
<1>4. CASE pc' = [pc EXCEPT ![c] = reply[c].then] /\ UNCHANGED fate
  <2>1. /\ pc' \in [Conns -> Phases] /\ pc'[c] = reply[c].then
        /\ \A d \in Conns : d # c => pc'[d] = pc[d]
    BY <1>3, <1>4 DEF Types, ServerTypes, Phases
  <2>2. ServerTypes' /\ Elsewhere(c)
    BY <1>1, <1>2, <1>3, <1>4, <2>1 DEF Types, ServerTypes, Elsewhere
  <2> QED
    BY <1>1, <1>2, <1>3, <1>4, <2>1, <2>2, NoReplyShape DEF Moves
<1>5. CASE /\ reply[c].kind # "error"
           /\ pc' = [pc EXCEPT ![c] = "drop"]
           /\ fate' = [fate EXCEPT ![c] = IF reply[c].kind = "status" THEN "handshake"
                                                                      ELSE "transport"]
  <2>1. PICK f \in {"handshake", "transport"} : fate' = [fate EXCEPT ![c] = f]
    BY <1>5
  <2>2. /\ pc' \in [Conns -> Phases] /\ pc'[c] = "drop"
        /\ \A d \in Conns : d # c => pc'[d] = pc[d]
    BY <1>5 DEF Types, ServerTypes, Phases
  <2>3. /\ fate' \in [Conns -> Fates] /\ fate'[c] = f
        /\ \A d \in Conns : d # c => fate'[d] = fate[d]
    BY <2>1 DEF Types, ServerTypes, Fates
  <2>4. ServerTypes' /\ Elsewhere(c)
    BY <1>1, <1>2, <2>2, <2>3 DEF Types, ServerTypes, Elsewhere
  <2> QED
    BY <1>1, <1>2, <1>3, <1>5, <2>1, <2>2, <2>3, <2>4, NoReplyShape DEF Moves
<1> QED
  BY <1>4, <1>5 DEF WriteFails

\* A dropped handle gives back its bytes.
LEMMA DropMatrixEffect ==
  ASSUME Types, NEW c \in Conns, NEW m \in Matrices, DropMatrix(c, m)
  PROVE  /\ Moves(c) /\ pc[c] = "drop" /\ m \in stored[c]
         /\ stored'[c] = stored[c] \ {m} /\ charged' = charged \ {m}
         /\ UNCHANGED <<net, pc, request, left, reply, fate, loaded>>
<1>1. /\ pc[c] = "drop" /\ m \in stored[c] /\ charged' = charged \ {m}
      /\ stored' = [stored EXCEPT ![c] = stored[c] \ {m}]
      /\ UNCHANGED <<net, pc, request, left, reply, fate, loaded>>
  BY DEF DropMatrix
<1>2. /\ stored' \in [Conns -> SUBSET Matrices] /\ stored'[c] = stored[c] \ {m}
      /\ \A d \in Conns : d # c => stored'[d] = stored[d]
  BY <1>1 DEF Types, ServerTypes
<1>3. ServerTypes' /\ Elsewhere(c) /\ NetTypes'
  BY <1>1, <1>2, NetKept DEF Types, ServerTypes, Elsewhere
<1> QED
  BY <1>1, <1>2, <1>3 DEF Moves

\* The stream goes last.
LEMMA CloseStreamEffect ==
  ASSUME Types, NEW c \in Conns, CloseStream(c)
  PROVE  /\ Moves(c) /\ pc[c] = "drop" /\ pc'[c] = "closed" /\ stored[c] = {}
         /\ UNCHANGED <<request, left, reply, fate, loaded, stored, charged>>
         /\ ~net'[c].open["server"] /\ net'[c].open["client"] = net[c].open["client"]
         /\ net'[c].inbox["server"] = <<>>
         /\ \/ /\ net'[c].reset = net[c].reset
               /\ net'[c].inbox["client"] = net[c].inbox["client"]
            \/ net'[c].reset /\ net'[c].inbox["client"] = <<>>
<1>1. /\ pc[c] = "drop" /\ stored[c] = {} /\ Closes(c, "server")
      /\ pc' = [pc EXCEPT ![c] = "closed"]
      /\ UNCHANGED <<request, left, reply, fate, loaded, stored, charged>>
  BY DEF CloseStream
<1>2. /\ NetTypes' /\ \A d \in Conns : d # c => net'[d] = net[d]
      /\ ~net'[c].open["server"] /\ net'[c].open["client"] = net[c].open["client"]
      /\ net'[c].inbox["server"] = <<>>
      /\ \/ /\ net'[c].reset = net[c].reset
            /\ net'[c].inbox["client"] = net[c].inbox["client"]
         \/ net'[c].reset /\ net'[c].inbox["client"] = <<>>
  <2>1. "server" \in Sides /\ Other("server") = "client"
    BY DEF Sides, Other
  <2> QED
    BY <1>1, <2>1, EndCloses DEF Types
<1>3. /\ pc' \in [Conns -> Phases] /\ pc'[c] = "closed"
      /\ \A d \in Conns : d # c => pc'[d] = pc[d]
  BY <1>1 DEF Types, ServerTypes, Phases
<1>4. ServerTypes' /\ Elsewhere(c)
  BY <1>1, <1>3 DEF Types, ServerTypes, Elsewhere
<1> QED
  BY <1>1, <1>2, <1>3, <1>4 DEF Moves

-----------------------------------------------------------------------------
(* What each action of a peer does.                                         *)

PeerMoves(c) ==
  /\ NetTypes' /\ PeerTypes'
  /\ \A d \in Conns : d # c =>
       /\ net'[d] = net[d] /\ greeted'[d] = greeted[d] /\ owed'[d] = owed[d]
       /\ asked'[d] = asked[d] /\ heard'[d] = heard[d]

\* The peer wrote a token, to a server that is there or that is gone.
Sent(c, token) ==
  /\ net'[c].open = net[c].open /\ ~net[c].reset
  /\ \/ /\ net[c].open["server"] /\ ~net'[c].reset
        /\ net'[c].inbox["client"] = net[c].inbox["client"]
        /\ net'[c].inbox["server"] = Append(net[c].inbox["server"], token)
     \/ ~net[c].open["server"] /\ net' = net
     \/ /\ ~net[c].open["server"] /\ net'[c].reset
        /\ net'[c].inbox["server"] = <<>> /\ net'[c].inbox["client"] = <<>>

\* A write of a peer, in the terms of Sent.
LEMMA PeerSent ==
  ASSUME NetTypes, NEW c \in Conns, NEW token \in PeerTokens(c), Sends(c, "client", token)
  PROVE  NetTypes' /\ Sent(c, token) /\ \A d \in Conns : d # c => net'[d] = net[d]
BY PeerSends DEF Sent

\* A peer says hello once.
LEMMA GreetEffect ==
  ASSUME Types, NEW c \in Conns, Greet(c)
  PROVE  /\ PeerMoves(c) /\ ~greeted[c] /\ greeted'[c] /\ UNCHANGED <<owed, asked, heard>>
         /\ \E token \in Greetings : token.part = "hello" /\ Sent(c, token)
<1>1. /\ ~greeted[c] /\ greeted' = [greeted EXCEPT ![c] = TRUE]
      /\ UNCHANGED <<owed, asked, heard>>
  BY DEF Greet
<1>2. PICK content \in Hellos : Sends(c, "client", Hello(content))
  BY DEF Greet
<1>3. /\ Hello(content) \in Greetings /\ Hello(content) \in PeerTokens(c)
      /\ Hello(content).part = "hello"
  BY PeersAssumption DEF Hello, Greetings, PeerTokens
<1> HIDE DEF Hello
<1>4. NetTypes' /\ Sent(c, Hello(content)) /\ \A d \in Conns : d # c => net'[d] = net[d]
  BY <1>2, <1>3, PeerSent DEF Types
<1>5. /\ greeted' \in [Conns -> BOOLEAN] /\ greeted'[c]
      /\ \A d \in Conns : d # c => greeted'[d] = greeted[d]
  BY <1>1 DEF Types, PeerTypes
<1>6. PeerMoves(c)
  BY <1>1, <1>4, <1>5 DEF Types, PeerTypes, PeerMoves
<1> QED
  BY <1>1, <1>3, <1>4, <1>5, <1>6

\* A peer begins a frame behind a whole one.
LEMMA AskEffect ==
  ASSUME Types, NEW c \in Conns, Ask(c)
  PROVE  /\ PeerMoves(c) /\ greeted[c] /\ owed[c] = 0 /\ owed'[c] = Parts
         /\ asked'[c] = asked[c] + 1 /\ UNCHANGED <<greeted, heard>>
         /\ \E token \in Requests(c) :
              token.part = "header" /\ token \in PeerTokens(c) /\ Sent(c, token)
<1>1. /\ greeted[c] /\ owed[c] = 0
      /\ owed' = [owed EXCEPT ![c] = Parts]
      /\ asked' = [asked EXCEPT ![c] = @ + 1]
      /\ UNCHANGED <<greeted, heard>>
  BY DEF Ask
<1>2. PICK token \in Requests(c) : Sends(c, "client", token)
  BY DEF Ask
<1>3. token \in PeerTokens(c) /\ token.part = "header"
  BY RequestsType DEF PeerTokens, Frames
<1>4. NetTypes' /\ Sent(c, token) /\ \A d \in Conns : d # c => net'[d] = net[d]
  BY <1>2, <1>3, PeerSent DEF Types
<1>5. /\ owed' \in [Conns -> 0 .. Parts] /\ owed'[c] = Parts
      /\ asked' \in [Conns -> Nat] /\ asked'[c] = asked[c] + 1
      /\ \A d \in Conns : d # c => owed'[d] = owed[d] /\ asked'[d] = asked[d]
  BY <1>1, WireAssumption DEF Types, PeerTypes
<1>6. PeerMoves(c)
  BY <1>1, <1>4, <1>5 DEF Types, PeerTypes, PeerMoves
<1> QED
  BY <1>1, <1>3, <1>4, <1>5, <1>6

\* A peer goes on with its frame.
LEMMA ContinueEffect ==
  ASSUME Types, NEW c \in Conns, Continue(c)
  PROVE  /\ PeerMoves(c) /\ owed[c] \in 1 .. Parts /\ owed'[c] = owed[c] - 1
         /\ UNCHANGED <<greeted, asked, heard>>
         /\ Sent(c, Payload) /\ Payload \in PeerTokens(c) /\ Payload.part = "payload"
<1>1. /\ owed[c] > 0 /\ owed' = [owed EXCEPT ![c] = @ - 1]
      /\ UNCHANGED <<greeted, asked, heard>> /\ Sends(c, "client", Payload)
  BY DEF Continue
<1>2. Payload \in PeerTokens(c) /\ Payload.part = "payload"
  BY DEF PeerTokens, Payload
<1>3. NetTypes' /\ Sent(c, Payload) /\ \A d \in Conns : d # c => net'[d] = net[d]
  BY <1>1, <1>2, PeerSent DEF Types
<1>4. /\ owed[c] \in 1 .. Parts /\ owed' \in [Conns -> 0 .. Parts] /\ owed'[c] = owed[c] - 1
      /\ \A d \in Conns : d # c => owed'[d] = owed[d]
  BY <1>1, WireAssumption DEF Types, PeerTypes
<1>5. PeerMoves(c)
  BY <1>1, <1>3, <1>4 DEF Types, PeerTypes, PeerMoves
<1> QED
  BY <1>1, <1>2, <1>3, <1>4, <1>5

\* A peer reads a token, and counts the headers.
LEMMA HearEffect ==
  ASSUME Types, NEW c \in Conns, Hear(c)
  PROVE  /\ PeerMoves(c) /\ UNCHANGED <<greeted, owed, asked>>
         /\ net'[c].open = net[c].open /\ net'[c].reset = net[c].reset
         /\ net'[c].inbox["server"] = net[c].inbox["server"]
         /\ net[c].inbox["client"] # <<>>
         /\ net'[c].inbox["client"] = Tail(net[c].inbox["client"])
         /\ heard'[c] = heard[c] + One(Head(net[c].inbox["client"]))
<1> DEFINE token == Head(Unread(c, "client"))
<1>1. /\ Receives(c, "client", token)
      /\ heard' = IF token.part = "header" THEN [heard EXCEPT ![c] = @ + 1] ELSE heard
      /\ UNCHANGED <<greeted, owed, asked>>
  BY DEF Hear
<1> HIDE DEF token
<1>2. "client" \in Sides /\ Other("client") = "server"
  BY DEF Sides, Other
<1>3. /\ NetTypes' /\ \A d \in Conns : d # c => net'[d] = net[d]
      /\ net'[c].open = net[c].open /\ net'[c].reset = net[c].reset
      /\ net[c].inbox["client"] # <<>> /\ token = Head(net[c].inbox["client"])
      /\ net'[c].inbox["client"] = Tail(net[c].inbox["client"])
      /\ net'[c].inbox["server"] = net[c].inbox["server"]
  BY <1>1, <1>2, EndReceives DEF Types
<1>4. /\ heard' \in [Conns -> Nat] /\ heard'[c] = heard[c] + One(token)
      /\ \A d \in Conns : d # c => heard'[d] = heard[d]
  BY <1>1 DEF Types, PeerTypes, One
<1>5. PeerMoves(c)
  BY <1>1, <1>3, <1>4 DEF Types, PeerTypes, PeerMoves
<1> QED
  BY <1>1, <1>3, <1>4, <1>5

\* A peer closes its end.
LEMMA LeaveEffect ==
  ASSUME Types, NEW c \in Conns, Leave(c)
  PROVE  /\ PeerMoves(c) /\ UNCHANGED peer
         /\ ~net'[c].open["client"] /\ net'[c].open["server"] = net[c].open["server"]
         /\ net'[c].inbox["client"] = <<>>
         /\ \/ /\ net'[c].reset = net[c].reset
               /\ net'[c].inbox["server"] = net[c].inbox["server"]
            \/ net'[c].reset /\ net'[c].inbox["server"] = <<>>
<1>1. Closes(c, "client") /\ UNCHANGED <<greeted, owed, asked, heard>>
  BY DEF Leave, peer
<1>2. "client" \in Sides /\ Other("client") = "server"
  BY DEF Sides, Other
<1>3. /\ NetTypes' /\ \A d \in Conns : d # c => net'[d] = net[d]
      /\ ~net'[c].open["client"] /\ net'[c].open["server"] = net[c].open["server"]
      /\ net'[c].inbox["client"] = <<>>
      /\ \/ /\ net'[c].reset = net[c].reset
            /\ net'[c].inbox["server"] = net[c].inbox["server"]
         \/ net'[c].reset /\ net'[c].inbox["server"] = <<>>
  BY <1>1, <1>2, EndCloses DEF Types
<1>4. PeerMoves(c)
  BY <1>1, <1>3 DEF Types, PeerTypes, PeerMoves
<1> QED
  BY <1>1, <1>3, <1>4 DEF peer

-----------------------------------------------------------------------------
(* The types are invariant.                                                 *)

\* A step of a session thread is well-typed and about its connection only.
LEMMA ServerMoves ==
  ASSUME Types, NEW c \in Conns, ServerStep(c)
  PROVE  Moves(c)
BY ReadHelloEffect, EndsEffect, ReadHeaderEffect, ReadPartEffect, RejectsEffect,
   ReserveSetEffect, CommitSucceedsEffect, CommitFailsEffect, EvaluatesEffect,
   WriteEffect, WriteFailsEffect, DropMatrixEffect, CloseStreamEffect
   DEF ServerStep

PeerStep(c) == Greet(c) \/ Ask(c) \/ Continue(c) \/ Hear(c) \/ Leave(c)

\* A step of a peer is well-typed and about its connection only.
LEMMA PeersMove ==
  ASSUME Types, NEW c \in Conns, PeerStep(c)
  PROVE  PeerMoves(c)
BY GreetEffect, AskEffect, ContinueEffect, HearEffect, LeaveEffect DEF PeerStep

\* The initial state is well-typed.
LEMMA TypesInit ==
  ASSUME Init
  PROVE  Types
<1> DEFINE none == [s \in Sides |-> <<>>]
<1>1. /\ none \in [Sides -> Seq(Tokens)]
      /\ none["server"] = <<>> /\ none["client"] = <<>>
  BY DEF Sides
<1>2. /\ \A c \in Conns : <<>> \in Seq(PeerTokens(c))
      /\ <<>> \in Seq(ServerTokens)
  OBVIOUS
<1>3. Connected = [open |-> [s \in Sides |-> TRUE], inbox |-> none, reset |-> FALSE]
  BY DEF Connected
<1> HIDE DEF none
<1>4. Connected \in Links /\ Connected.inbox = none
  BY <1>1, <1>3 DEF Links
<1>5. NetTypes
  <2>1. net = [c \in Conns |-> Connected]
    BY DEF Init, NetInit
  <2>2. net \in [Conns -> Links]
    BY <1>4, <2>1
  <2>3. \A c \in Conns : Unread(c, "server") = <<>> /\ Unread(c, "client") = <<>>
    BY <1>1, <1>4, <2>1 DEF Unread
  <2> QED
    BY <1>2, <2>2, <2>3 DEF NetTypes
<1>6. NoRequest \in Frames
  BY DEF NoRequest, Request, Frames, Kinds, Listings
<1>7. ServerTypes
  BY <1>6, NoReplyShape, WireAssumption DEF Init, ServerInit, ServerTypes, Phases, Fates
<1>8. PeerTypes
  BY WireAssumption DEF Init, PeerTypes
<1> QED
  BY <1>5, <1>7, <1>8 DEF Types

\* A step of Next is one of a session thread or one of a peer.
LEMMA NextCases ==
  ASSUME Next
  PROVE  \E c \in Conns : \/ ServerStep(c) /\ UNCHANGED peer
                          \/ PeerStep(c) /\ UNCHANGED server
BY DEF Next, PeerStep

\* Every step keeps the types.
LEMMA TypesStep ==
  ASSUME Types, [Next]_vars
  PROVE  Types'
<1>1. ASSUME NEW c \in Conns, ServerStep(c), UNCHANGED peer
      PROVE  Types'
  BY <1>1, ServerMoves DEF Types, Moves, PeerTypes, peer
<1>2. ASSUME NEW c \in Conns, PeerStep(c), UNCHANGED server
      PROVE  Types'
  <2>1. NetTypes' /\ PeerTypes'
    BY <1>2, PeersMove DEF PeerMoves
  <2>2. ServerTypes'
    BY <1>2 DEF Types, ServerTypes, server
  <2> QED
    BY <2>1, <2>2 DEF Types
<1>3. CASE UNCHANGED vars
  <2>1. NetTypes'
    BY <1>3, NetKept DEF Types, vars
  <2>2. ServerTypes' /\ PeerTypes'
    BY <1>3 DEF Types, ServerTypes, PeerTypes, vars, server, peer
  <2> QED
    BY <2>1, <2>2 DEF Types
<1> QED
  BY <1>1, <1>2, <1>3, NextCases

-----------------------------------------------------------------------------
(* The sessions and their connections.                                      *)

\* An ended session has a result, and no other has.
Doomed(c) == pc[c] \in {"drop", "closed"} \/ (pc[c] = "writing" /\ reply[c].then = "drop")

SessionInv(c) ==
  /\ pc[c] # "writing" => reply[c].tokens = <<>>
  /\ Doomed(c) <=> fate[c] # "none"
  /\ pc[c] \in {"payload", "decoded", "commit"} => TakesPayload(c, request[c].kind)
  /\ pc[c] = "commit" => request[c].kind = "UploadMatrices"
  /\ request[c].kind = "UploadMatrices" => request[c].set \in Offers[c]
  /\ ~loaded[c] => stored[c] = {}
  /\ fate[c] = "upload" => stored[c] = {}
  /\ fate[c] = "upload" /\ pc[c] = "writing" => reply[c].kind = "error"
  /\ pc[c] = "closed" => stored[c] = {}
  /\ stored[c] \subseteq UNION Offers[c]

WireInv(c) ==
  /\ net[c].open["server"] <=> pc[c] # "closed"
  /\ ~net[c].open["server"] => net[c].inbox["server"] = <<>>
  /\ ~net[c].open["client"] => net[c].inbox["client"] = <<>>
  /\ net[c].reset => net[c].inbox["server"] = <<>> /\ net[c].inbox["client"] = <<>>

\* The peer of a connection uploads only sets it offers.
LEMMA UploadOffered ==
  ASSUME NEW c \in Conns, NEW r \in Requests(c), r.kind = "UploadMatrices"
  PROVE  r.set \in Offers[c]
<1>1. CASE \E content \in Contents, set \in Offers[c] :
             r = Request("UploadMatrices", content, set, {})
  BY <1>1 DEF Request
<1>2. CASE \E content \in Contents, entries \in Evaluations :
             r = Request("Evaluate", content, {}, entries)
  BY <1>2 DEF Request
<1>3. CASE \E kind \in Misfits : r = Request(kind, "good", {}, {})
  BY <1>3, PeersAssumption DEF Request
<1> QED
  BY <1>1, <1>2, <1>3 DEF Requests

\* A step of its thread keeps what is invariant of a session.
LEMMA SessionStep ==
  ASSUME Types, NEW c \in Conns, SessionInv(c), ServerStep(c)
  PROVE  SessionInv(c)'
<1>1. CASE ReadHello(c)
  BY <1>1, ReadHelloEffect DEF SessionInv, Doomed, TakesPayload
<1>2. CASE HelloFails(c) \/ HeaderEnds(c)
  BY <1>2, EndsEffect DEF SessionInv, Doomed, TakesPayload
<1>3. CASE ReadHeader(c)
  BY <1>3, ReadHeaderEffect, UploadOffered
     DEF SessionInv, Doomed, TakesPayload, Fails, Writes
<1>4. CASE ReadPart(c)
  BY <1>4, ReadPartEffect DEF SessionInv, Doomed, TakesPayload, Fails, Writes
<1>5. CASE ReserveFails(c) \/ PayloadEnds(c) \/ UploadRefused(c) \/ EngineFails(c)
  BY <1>5, RejectsEffect DEF SessionInv, Doomed, TakesPayload, Fails, Writes
<1>6. CASE ReserveSet(c)
  BY <1>6, ReserveSetEffect DEF SessionInv, Doomed, TakesPayload
<1>7. CASE CommitSucceeds(c)
  BY <1>7, CommitSucceedsEffect DEF SessionInv, Doomed, TakesPayload, Fails, Writes
<1>8. CASE CommitFails(c)
  BY <1>8, CommitFailsEffect DEF SessionInv, Doomed, TakesPayload, Fails, Writes
<1>9. CASE EvaluateInvalid(c) \/ EngineAnswers(c)
  BY <1>9, EvaluatesEffect DEF SessionInv, Doomed, TakesPayload, Writes
<1>10. CASE Write(c)
  BY <1>10, WriteEffect DEF SessionInv, Doomed, TakesPayload, Types, ServerTypes, Written
<1>11. CASE WriteFails(c)
  BY <1>11, WriteFailsEffect DEF SessionInv, Doomed, TakesPayload, Types, ServerTypes, Written
<1>12. CASE \E m \in Matrices : DropMatrix(c, m)
  BY <1>12, DropMatrixEffect DEF SessionInv, Doomed, TakesPayload
<1>13. CASE CloseStream(c)
  BY <1>13, CloseStreamEffect DEF SessionInv, Doomed, TakesPayload
<1> QED
  BY <1>1, <1>2, <1>3, <1>4, <1>5, <1>6, <1>7, <1>8, <1>9, <1>10, <1>11, <1>12, <1>13
     DEF ServerStep

\* A step of its thread keeps what is invariant of a connection.
LEMMA WireStep ==
  ASSUME Types, NEW c \in Conns, WireInv(c), ServerStep(c)
  PROVE  WireInv(c)'
<1>1. CASE ReadHello(c)
  BY <1>1, ReadHelloEffect DEF WireInv, Took
<1>2. CASE HelloFails(c) \/ HeaderEnds(c)
  BY <1>2, EndsEffect DEF WireInv
<1>3. CASE ReadHeader(c)
  BY <1>3, ReadHeaderEffect DEF WireInv, Took, Fails, Writes
<1>4. CASE ReadPart(c)
  BY <1>4, ReadPartEffect DEF WireInv, Took, Fails, Writes
<1>5. CASE ReserveFails(c) \/ PayloadEnds(c) \/ UploadRefused(c) \/ EngineFails(c)
  BY <1>5, RejectsEffect DEF WireInv, Fails, Writes
<1>6. CASE ReserveSet(c)
  BY <1>6, ReserveSetEffect DEF WireInv
<1>7. CASE CommitSucceeds(c)
  BY <1>7, CommitSucceedsEffect DEF WireInv, Fails, Writes
<1>8. CASE CommitFails(c)
  BY <1>8, CommitFailsEffect DEF WireInv, Fails, Writes
<1>9. CASE EvaluateInvalid(c) \/ EngineAnswers(c)
  BY <1>9, EvaluatesEffect DEF WireInv
<1>10. CASE Write(c)
  BY <1>10, WriteEffect DEF WireInv, Wrote, Types, ServerTypes, Written
<1>11. CASE WriteFails(c)
  BY <1>11, WriteFailsEffect DEF WireInv, Types, ServerTypes, Written
<1>12. CASE \E m \in Matrices : DropMatrix(c, m)
  BY <1>12, DropMatrixEffect DEF WireInv
<1>13. CASE CloseStream(c)
  BY <1>13, CloseStreamEffect DEF WireInv
<1> QED
  BY <1>1, <1>2, <1>3, <1>4, <1>5, <1>6, <1>7, <1>8, <1>9, <1>10, <1>11, <1>12, <1>13
     DEF ServerStep

-----------------------------------------------------------------------------
(* The budget.                                                              *)

\* Of the matrices its peer may upload, a session has charged the ones it
\* owns, or is about to, and no others.
ChargedInv(c) ==
  fate[c] # "upload" =>
    charged \cap UNION Offers[c] = IF pc[c] = "commit" THEN request[c].set ELSE stored[c]

\* A session charges and gives back matrices of its own peer only.
LEMMA OthersCharged ==
  ASSUME Types, NEW c \in Conns, SessionInv(c), ServerStep(c)
  PROVE  charged' \ UNION Offers[c] = charged \ UNION Offers[c]
<1>1. CASE UNCHANGED charged
  BY <1>1
<1>2. CASE ReserveSet(c)
  <2>1. request[c].set \subseteq UNION Offers[c]
    BY <1>2, ReserveSetEffect DEF SessionInv
  <2> QED
    BY <1>2, <2>1, ReserveSetEffect
<1>3. CASE CommitFails(c)
  <2>1. request[c].set \subseteq UNION Offers[c]
    BY <1>3, CommitFailsEffect DEF SessionInv
  <2> QED
    BY <1>3, <2>1, CommitFailsEffect
<1>4. CASE \E m \in Matrices : DropMatrix(c, m)
  BY <1>4, DropMatrixEffect DEF SessionInv
<1> QED
  BY <1>1, <1>2, <1>3, <1>4, ReadHelloEffect, EndsEffect, ReadHeaderEffect, ReadPartEffect,
     RejectsEffect, CommitSucceedsEffect, EvaluatesEffect, WriteEffect, WriteFailsEffect,
     CloseStreamEffect DEF ServerStep

\* A step of its thread keeps what a session has charged.
LEMMA ChargedStep ==
  ASSUME Types, NEW c \in Conns, SessionInv(c), ChargedInv(c), ServerStep(c)
  PROVE  ChargedInv(c)'
<1>1. CASE ReadHello(c)
  BY <1>1, ReadHelloEffect DEF SessionInv, Doomed, ChargedInv
<1>2. CASE HelloFails(c) \/ HeaderEnds(c)
  BY <1>2, EndsEffect DEF SessionInv, Doomed, ChargedInv
<1>3. CASE ReadHeader(c)
  BY <1>3, ReadHeaderEffect DEF SessionInv, Doomed, ChargedInv, Fails, Writes
<1>4. CASE ReadPart(c)
  BY <1>4, ReadPartEffect DEF SessionInv, Doomed, ChargedInv, Fails, Writes
<1>5. CASE ReserveFails(c) \/ PayloadEnds(c) \/ UploadRefused(c) \/ EngineFails(c)
  BY <1>5, RejectsEffect DEF SessionInv, Doomed, ChargedInv, Fails, Writes
<1>6. CASE ReserveSet(c)
  <2>1. /\ request[c].set \subseteq UNION Offers[c] /\ stored[c] = {}
        /\ fate[c] # "upload"
    BY <1>6, ReserveSetEffect DEF SessionInv, Doomed, TakesPayload
  <2>2. charged \cap UNION Offers[c] = {}
    BY <1>6, <2>1, ReserveSetEffect DEF ChargedInv
  <2> QED
    BY <1>6, <2>1, <2>2, ReserveSetEffect DEF ChargedInv
<1>7. CASE CommitSucceeds(c)
  BY <1>7, CommitSucceedsEffect DEF SessionInv, Doomed, ChargedInv, Fails, Writes
<1>8. CASE CommitFails(c)
  BY <1>8, CommitFailsEffect DEF ChargedInv
<1>9. CASE EvaluateInvalid(c) \/ EngineAnswers(c)
  BY <1>9, EvaluatesEffect DEF SessionInv, Doomed, ChargedInv
<1>10. CASE Write(c)
  BY <1>10, WriteEffect DEF ChargedInv, Types, ServerTypes, Written
<1>11. CASE WriteFails(c)
  BY <1>11, WriteFailsEffect DEF SessionInv, ChargedInv, Types, ServerTypes, Written
<1>12. CASE \E m \in Matrices : DropMatrix(c, m)
  BY <1>12, DropMatrixEffect DEF SessionInv, ChargedInv
<1>13. CASE CloseStream(c)
  BY <1>13, CloseStreamEffect DEF ChargedInv
<1> QED
  BY <1>1, <1>2, <1>3, <1>4, <1>5, <1>6, <1>7, <1>8, <1>9, <1>10, <1>11, <1>12, <1>13
     DEF ServerStep

\* No step charges more than the budget.
LEMMA BudgetStep ==
  ASSUME Types, NEW c \in Conns, ServerStep(c), Footprint(charged) <= MaxBytes
  PROVE  Footprint(charged)' <= MaxBytes
<1>1. CASE ReserveSet(c)
  BY <1>1, ReserveSetEffect
<1>2. CASE charged' \subseteq charged
  <2>1. charged \in SUBSET Matrices /\ charged' \in SUBSET Matrices
    BY <1>2 DEF Types, ServerTypes
  <2>2. PICK less \in SUBSET charged : less = charged'
    BY <1>2
  <2>3. Footprint(less) <= Footprint(charged) /\ Footprint(less) \in Nat /\ Footprint(charged) \in Nat
    BY <2>1, <2>2, SubsetFootprint, FootprintType
  <2>4. Footprint(less) <= MaxBytes
    BY <2>3, ServerAssumption, FootprintAssumption
  <2> QED
    BY <2>2, <2>4
<1> QED
  BY <1>1, <1>2, ReadHelloEffect, EndsEffect, ReadHeaderEffect, ReadPartEffect,
     RejectsEffect, CommitSucceedsEffect, CommitFailsEffect, EvaluatesEffect, WriteEffect,
     WriteFailsEffect, DropMatrixEffect, CloseStreamEffect DEF ServerStep

\* A step of its peer keeps what is invariant of a connection.
LEMMA PeerWireStep ==
  ASSUME Types, NEW c \in Conns, WireInv(c), PeerStep(c), UNCHANGED server
  PROVE  WireInv(c)'
<1>0. pc' = pc
  BY DEF server
<1>1. CASE Greet(c)
  BY <1>0, <1>1, GreetEffect DEF WireInv, Sent
<1>2. CASE Ask(c)
  BY <1>0, <1>2, AskEffect DEF WireInv, Sent
<1>3. CASE Continue(c)
  BY <1>0, <1>3, ContinueEffect DEF WireInv, Sent
<1>4. CASE Hear(c)
  BY <1>0, <1>4, HearEffect DEF WireInv
<1>5. CASE Leave(c)
  BY <1>0, <1>5, LeaveEffect DEF WireInv
<1> QED
  BY <1>1, <1>2, <1>3, <1>4, <1>5 DEF PeerStep

-----------------------------------------------------------------------------
ControlInv ==
  /\ Types
  /\ \A c \in Conns : SessionInv(c) /\ WireInv(c) /\ ChargedInv(c)
  /\ Footprint(charged) <= MaxBytes

\* The sessions, the connections and the budget at the start.
LEMMA ControlInit ==
  ASSUME Init
  PROVE  ControlInv
<1>1. Types
  BY TypesInit
<1>2. ASSUME NEW c \in Conns
      PROVE  SessionInv(c) /\ WireInv(c) /\ ChargedInv(c)
  <2>1. SessionInv(c)
    BY DEF Init, ServerInit, SessionInv, Doomed, NoReply, NoRequest, Request
  <2>2. WireInv(c)
    BY DEF Init, NetInit, ServerInit, Connected, Sides, WireInv
  <2>3. ChargedInv(c)
    BY DEF Init, ServerInit, ChargedInv
  <2> QED
    BY <2>1, <2>2, <2>3
<1>3. Footprint(charged) <= MaxBytes
  BY EmptyFootprint, ServerAssumption, FootprintAssumption DEF Init, ServerInit
<1> QED
  BY <1>1, <1>2, <1>3 DEF ControlInv

\* A session that does not move keeps what is invariant of it.
LEMMA ControlElsewhere ==
  ASSUME ControlInv, NEW c \in Conns, ServerStep(c), NEW d \in Conns, d # c
  PROVE  SessionInv(d)' /\ WireInv(d)' /\ ChargedInv(d)'
<1>1. Elsewhere(c) /\ net'[d] = net[d]
  BY ServerMoves DEF Moves, ControlInv
<1>2. SessionInv(d)'
  BY <1>1 DEF ControlInv, SessionInv, Doomed, TakesPayload, Elsewhere
<1>3. WireInv(d)'
  BY <1>1 DEF ControlInv, WireInv, Elsewhere
<1>4. charged' \cap UNION Offers[d] = charged \cap UNION Offers[d]
  <2> DEFINE own == UNION Offers[c]
             other == UNION Offers[d]
  <2>1. charged' \ own = charged \ own
    BY OthersCharged DEF ControlInv
  <2>2. own \cap other = {}
    BY PeersAssumption
  <2> HIDE DEF own, other
  <2>3. charged' \cap other = charged \cap other
    BY <2>1, <2>2
  <2> QED
    BY <2>3 DEF other
<1>5. ChargedInv(d)'
  BY <1>1, <1>4 DEF ControlInv, ChargedInv, Elsewhere
<1> QED
  BY <1>2, <1>3, <1>5

\* Every step keeps them.
LEMMA ControlStep ==
  ASSUME ControlInv, [Next]_vars
  PROVE  ControlInv'
<1>1. Types /\ Types'
  BY TypesStep DEF ControlInv
<1>2. ASSUME NEW c \in Conns, ServerStep(c)
      PROVE  ControlInv'
  <2>1. SessionInv(c)' /\ WireInv(c)' /\ ChargedInv(c)'
    BY <1>2, SessionStep, WireStep, ChargedStep DEF ControlInv
  <2>2. \A d \in Conns : d # c => SessionInv(d)' /\ WireInv(d)' /\ ChargedInv(d)'
    BY <1>2, ControlElsewhere
  <2>3. Footprint(charged)' <= MaxBytes
    BY <1>2, BudgetStep DEF ControlInv
  <2> QED
    BY <1>1, <2>1, <2>2, <2>3 DEF ControlInv
<1>3. ASSUME NEW c \in Conns, PeerStep(c), UNCHANGED server
      PROVE  ControlInv'
  <2>1. ASSUME NEW d \in Conns PROVE SessionInv(d)' /\ ChargedInv(d)'
    BY <1>3 DEF ControlInv, SessionInv, Doomed, TakesPayload, ChargedInv, server
  <2>2. WireInv(c)'
    BY <1>3, PeerWireStep DEF ControlInv
  <2>3. ASSUME NEW d \in Conns, d # c PROVE WireInv(d)'
    BY <1>3, <2>3, PeersMove DEF ControlInv, PeerMoves, WireInv, server
  <2>4. Footprint(charged)' <= MaxBytes
    BY <1>3 DEF ControlInv, server
  <2> QED
    BY <1>1, <2>1, <2>2, <2>3, <2>4 DEF ControlInv
<1>4. CASE UNCHANGED vars
  <2>1. ASSUME NEW d \in Conns PROVE SessionInv(d)' /\ ChargedInv(d)' /\ WireInv(d)'
    BY <1>4 DEF ControlInv, SessionInv, Doomed, TakesPayload, ChargedInv, WireInv, vars, server
  <2>2. Footprint(charged)' <= MaxBytes
    BY <1>4 DEF ControlInv, vars, server
  <2> QED
    BY <1>1, <2>1, <2>2 DEF ControlInv
<1> QED
  BY <1>2, <1>3, <1>4, NextCases

-----------------------------------------------------------------------------
(* The theorems about the sessions and the budget.                          *)

\* The invariant of the sessions, their connections and the budget.
THEOREM ControlInvariance == Spec => []ControlInv
<1>1. Init => ControlInv
  BY ControlInit
<1>2. ControlInv /\ [Next]_vars => ControlInv'
  BY ControlStep
<1> QED
  BY <1>1, <1>2, PTL DEF Spec

\* The state of the session threads (server/src/session.rs) has its type.
THEOREM ServerTypeCorrect == Spec => []ServerTypeOK
<1>1. ControlInv => ServerTypeOK
  <2> SUFFICES ASSUME ControlInv PROVE ServerTypeOK
    OBVIOUS
  <2>1. \A c \in Conns :
          /\ request[c].kind \in Kinds
          /\ reply[c].kind \in {"none", "status", "error", "answer"}
          /\ reply[c].then \in {"header", "drop"}
    BY DEF ControlInv, Types, ServerTypes, Frames, Written
  <2> QED
    BY <2>1 DEF ControlInv, Types, ServerTypes, ServerTypeOK, Phases, Fates
<1> QED
  BY <1>1, ControlInvariance, PTL

\* What a session may evaluate on is charged, for that session alone, and all
\* that is charged fits the budget: reserve_budget, commit and the drop of the
\* handles keep the shared engine's count right for any peers at once.
THEOREM SessionsChargedCorrect == Spec => []SessionsCharged
<1>1. ControlInv => SessionsCharged
  <2> SUFFICES ASSUME ControlInv PROVE SessionsCharged
    OBVIOUS
  <2>1. ASSUME NEW c \in Conns
        PROVE  /\ stored[c] \subseteq charged
               /\ pc[c] = "commit" => request[c].set \subseteq charged
               /\ stored[c] \subseteq UNION Offers[c]
    BY DEF ControlInv, SessionInv, ChargedInv, Doomed, TakesPayload
  <2>2. ASSUME NEW c \in Conns, NEW d \in Conns, c # d
        PROVE  stored[c] \cap stored[d] = {}
    <3> DEFINE own == UNION Offers[c]
               other == UNION Offers[d]
    <3>1. own \cap other = {}
      BY <2>2, PeersAssumption
    <3>2. stored[c] \subseteq own /\ stored[d] \subseteq other
      BY <2>1
    <3> HIDE DEF own, other
    <3> QED
      BY <3>1, <3>2
  <2> QED
    BY <2>1, <2>2 DEF SessionsCharged, ControlInv
<1> QED
  BY <1>1, ControlInvariance, PTL

\* When a peer sees its stream closed, the bytes of its session are given back:
\* serve_connection drops the session before its caller drops the stream.
THEOREM ClosedReleasedCorrect == Spec => []ClosedReleased
<1>1. ControlInv => ClosedReleased
  <2> SUFFICES ASSUME ControlInv, NEW c \in Conns, ~net[c].open["server"]
               PROVE  /\ stored[c] = {}
                      /\ request[c].kind = "UploadMatrices" /\ fate[c] # "upload" =>
                           request[c].set \cap charged = {}
    BY DEF ClosedReleased
  <2>1. pc[c] = "closed" /\ stored[c] = {}
    BY DEF ControlInv, WireInv, SessionInv
  <2>2. ASSUME request[c].kind = "UploadMatrices", fate[c] # "upload"
        PROVE  request[c].set \cap charged = {}
    <3>1. request[c].set \in Offers[c]
      BY <2>2 DEF ControlInv, SessionInv
    <3>2. charged \cap UNION Offers[c] = {}
      BY <2>1, <2>2 DEF ControlInv, ChargedInv
    <3> QED
      BY <3>1, <3>2
  <2> QED
    BY <2>1, <2>2
<1> QED
  BY <1>1, ControlInvariance, PTL

\* A session's matrices arrive in one step, when it is empty, and leave one by
\* one when it is dropped.
Loads(c) ==
  /\ stored'[c] # stored[c] =>
       \/ ~loaded[c] /\ loaded'[c] /\ stored[c] = {}
       \/ pc[c] = "drop" /\ stored'[c] \subseteq stored[c]
  /\ loaded[c] => loaded'[c]

\* A step of a session thread is one of the load-once machine.
LEMMA LoadsStep ==
  ASSUME ControlInv, NEW c \in Conns, ServerStep(c)
  PROVE  \A d \in Conns : Loads(d)
<1>1. Types /\ SessionInv(c)
  BY DEF ControlInv
<1>2. Loads(c)
  <2>1. CASE CommitSucceeds(c)
    BY <1>1, <2>1, CommitSucceedsEffect DEF Loads, SessionInv, TakesPayload
  <2>2. CASE \E m \in Matrices : DropMatrix(c, m)
    BY <1>1, <2>2, DropMatrixEffect DEF Loads
  <2>3. CASE UNCHANGED <<loaded, stored>>
    BY <2>3 DEF Loads
  <2> QED
    BY <1>1, <2>1, <2>2, <2>3, ReadHelloEffect, EndsEffect, ReadHeaderEffect, ReadPartEffect,
       RejectsEffect, ReserveSetEffect, CommitFailsEffect, EvaluatesEffect, WriteEffect,
       WriteFailsEffect, CloseStreamEffect DEF ServerStep
<1>3. \A d \in Conns : d # c => Loads(d)
  BY <1>1, ServerMoves DEF Moves, Elsewhere, Loads
<1> QED
  BY <1>2, <1>3

\* The load-once machine of Session::phase, in every interleaving.
THEOREM LoadOnceCorrect == Spec => LoadOnce
<1>1. ControlInv /\ [Next]_vars => [\A c \in Conns : Loads(c)]_<<net, server>>
  <2> SUFFICES ASSUME ControlInv, [Next]_vars
               PROVE  (\A c \in Conns : Loads(c)) \/ UNCHANGED <<net, server>>
    OBVIOUS
  <2>1. ASSUME NEW c \in Conns, PeerStep(c), UNCHANGED server
        PROVE  \A d \in Conns : Loads(d)
    BY <2>1 DEF Loads, server
  <2>2. CASE UNCHANGED vars
    BY <2>2 DEF vars
  <2> QED
    BY <2>1, <2>2, LoadsStep, NextCases
<1> QED
  BY <1>1, ControlInvariance, PTL DEF Spec, LoadOnce, Loads

-----------------------------------------------------------------------------
(* The server and its peer agree where in the stream they are.              *)

\* The tokens the server takes before it looks for a header again.
Need(c) == IF pc[c] = "hello" THEN 1 ELSE IF pc[c] = "payload" THEN left[c] ELSE 0

\* What the i-th unread token is: after those, headers come a frame apart.
PartAt(c, i) ==
  IF pc[c] = "hello" /\ i = 1 THEN "hello"
  ELSE IF (i + Parts - Need(c)) % (Parts + 1) = 0 THEN "header" ELSE "payload"

\* The unread tokens of a session that goes on, and what the peer owes, are
\* whole frames behind what the server still needs.
FramedInv(c) ==
  ~net[c].reset /\ fate[c] = "none" =>
    /\ \A i \in 1 .. Len(net[c].inbox["server"]) : net[c].inbox["server"][i].part = PartAt(c, i)
    /\ greeted[c] =>
         (Len(net[c].inbox["server"]) + owed[c] + (Parts + 1) - Need(c)) % (Parts + 1) = 0
    /\ ~greeted[c] => pc[c] = "hello" /\ net[c].inbox["server"] = <<>> /\ owed[c] = 0
    /\ greeted[c] /\ pc[c] = "hello" => net[c].inbox["server"] # <<>>

\* What is needed, owed and unread are numbers.
LEMMA NeedType ==
  ASSUME Types, NEW c \in Conns
  PROVE  /\ Need(c) \in 0 .. Parts /\ owed[c] \in 0 .. Parts /\ Parts \in Nat /\ Parts >= 1
         /\ net[c].inbox["server"] \in Seq(PeerTokens(c))
         /\ Len(net[c].inbox["server"]) \in Nat
<1>1. Parts \in Nat /\ Parts >= 1
  BY WireAssumption
<1>2. Need(c) \in 0 .. Parts /\ owed[c] \in 0 .. Parts
  BY <1>1 DEF Need, Types, ServerTypes, PeerTypes
<1>3. net[c].inbox["server"] \in Seq(PeerTokens(c))
  BY LinkFields DEF Types
<1> QED
  BY <1>1, <1>2, <1>3

\* Nothing read, and as much needed as before.
LEMMA FramedSame ==
  ASSUME NEW c \in Conns, FramedInv(c),
         net'[c].inbox["server"] = net[c].inbox["server"], net[c].reset => net'[c].reset,
         fate'[c] = "none" => fate[c] = "none",
         greeted'[c] = greeted[c], owed'[c] = owed[c],
         Need(c)' = Need(c), pc'[c] = "hello" <=> pc[c] = "hello"
  PROVE  FramedInv(c)'
BY DEF FramedInv, PartAt

\* A read shifts the stream by one.
LEMMA TookOne ==
  ASSUME Types, NEW c \in Conns, Took(c)
  PROVE  /\ Len(net[c].inbox["server"]) \in Nat /\ Len(net[c].inbox["server"]) >= 1
         /\ Len(net'[c].inbox["server"]) = Len(net[c].inbox["server"]) - 1
         /\ \A i \in 1 .. Len(net'[c].inbox["server"]) :
              net'[c].inbox["server"][i] = net[c].inbox["server"][i + 1]
<1>1. /\ net[c].inbox["server"] \in Seq(PeerTokens(c)) /\ net[c].inbox["server"] # <<>>
      /\ net'[c].inbox["server"] = Tail(net[c].inbox["server"])
  BY NeedType DEF Took
<1> QED
  BY <1>1

\* A token the server needed is read.
LEMMA FramedTook ==
  ASSUME Types, Types', NEW c \in Conns, FramedInv(c), Took(c),
         fate'[c] = "none" => fate[c] = "none",
         greeted'[c] = greeted[c], owed'[c] = owed[c],
         Need(c)' = Need(c) - 1, pc'[c] # "hello"
  PROVE  FramedInv(c)'
<1> SUFFICES ASSUME ~net'[c].reset, fate'[c] = "none"
             PROVE  /\ \A i \in 1 .. Len(net'[c].inbox["server"]) :
                         net'[c].inbox["server"][i].part = PartAt(c, i)'
                    /\ greeted'[c] =>
                         (Len(net'[c].inbox["server"]) + owed'[c] + (Parts + 1) - Need(c)')
                           % (Parts + 1) = 0
                    /\ greeted'[c]
  BY DEF FramedInv
<1> DEFINE n == Len(net[c].inbox["server"])
           m == Len(net'[c].inbox["server"])
           need == Need(c)
<1>1. /\ n \in Nat /\ n >= 1 /\ m = n - 1
      /\ \A i \in 1 .. m : net'[c].inbox["server"][i] = net[c].inbox["server"][i + 1]
  BY TookOne
<1>2. need \in 0 .. Parts /\ owed[c] \in 0 .. Parts /\ Parts \in Nat /\ Need(c)' = need - 1
  BY NeedType
<1>3. ~net[c].reset /\ fate[c] = "none"
  BY DEF Took
<1>4. greeted[c]
  BY <1>3 DEF FramedInv, Took
<1> HIDE DEF n, m, need
<1>5. ASSUME NEW i \in 1 .. m
      PROVE  net'[c].inbox["server"][i].part = PartAt(c, i)'
  <2>1. i + 1 \in 1 .. n /\ i + 1 # 1 /\ i \in Nat
    BY <1>1
  <2>2. net[c].inbox["server"][i + 1].part = PartAt(c, i + 1)
    BY <1>3, <2>1 DEF FramedInv, n
  <2>3. (i + 1) + Parts - need = i + Parts - (need - 1)
    BY <1>2, <2>1
  <2>4. PartAt(c, i + 1) = PartAt(c, i)'
    BY <1>2, <2>1, <2>3 DEF PartAt, need
  <2> QED
    BY <1>1, <2>2, <2>4
<1>6. (m + owed'[c] + (Parts + 1) - Need(c)') % (Parts + 1) = 0
  <2>1. m + owed[c] + (Parts + 1) - (need - 1) = n + owed[c] + (Parts + 1) - need
    BY <1>1, <1>2
  <2>2. (n + owed[c] + (Parts + 1) - need) % (Parts + 1) = 0
    BY <1>3, <1>4 DEF FramedInv, n, need
  <2> QED
    BY <1>2, <2>1, <2>2
<1> QED
  BY <1>4, <1>5, <1>6 DEF m

\* A header is read, and its payload is needed.
LEMMA FramedHeader ==
  ASSUME Types, Types', NEW c \in Conns, FramedInv(c), Took(c),
         fate'[c] = "none" => fate[c] = "none",
         greeted'[c] = greeted[c], owed'[c] = owed[c],
         pc[c] = "header", pc'[c] = "payload", left'[c] = Parts
  PROVE  FramedInv(c)'
<1> SUFFICES ASSUME ~net'[c].reset, fate'[c] = "none"
             PROVE  /\ \A i \in 1 .. Len(net'[c].inbox["server"]) :
                         net'[c].inbox["server"][i].part = PartAt(c, i)'
                    /\ greeted'[c] =>
                         (Len(net'[c].inbox["server"]) + owed'[c] + (Parts + 1) - Need(c)')
                           % (Parts + 1) = 0
                    /\ greeted'[c]
  BY DEF FramedInv
<1> DEFINE n == Len(net[c].inbox["server"])
           m == Len(net'[c].inbox["server"])
<1>1. /\ n \in Nat /\ n >= 1 /\ m = n - 1
      /\ \A i \in 1 .. m : net'[c].inbox["server"][i] = net[c].inbox["server"][i + 1]
  BY TookOne
<1>2. Need(c) = 0 /\ owed[c] \in 0 .. Parts /\ Parts \in Nat /\ Need(c)' = Parts
  BY NeedType DEF Need
<1>3. ~net[c].reset /\ fate[c] = "none"
  BY DEF Took
<1>4. greeted[c]
  BY <1>3 DEF FramedInv, Took
<1> HIDE DEF n, m
<1>5. ASSUME NEW i \in 1 .. m
      PROVE  net'[c].inbox["server"][i].part = PartAt(c, i)'
  <2>1. i + 1 \in 1 .. n /\ i \in Nat
    BY <1>1
  <2>2. net[c].inbox["server"][i + 1].part = PartAt(c, i + 1)
    BY <1>3, <2>1 DEF FramedInv, n
  <2>3. (i + 1) + Parts - 0 = i + (Parts + 1) /\ i + Parts - Parts = i
    BY <1>2, <2>1
  <2>4. (i + (Parts + 1)) % (Parts + 1) = i % (Parts + 1)
    BY <2>1, NextFrame
  <2>5. PartAt(c, i + 1) = PartAt(c, i)'
    BY <1>2, <2>3, <2>4 DEF PartAt
  <2> QED
    BY <1>1, <2>2, <2>5
<1>6. (m + owed'[c] + (Parts + 1) - Need(c)') % (Parts + 1) = 0
  <2>1. PICK x \in Nat : x = n + owed[c]
    BY <1>1, <1>2
  <2>2. n + owed[c] + (Parts + 1) - 0 = x + (Parts + 1) /\ m + owed[c] + (Parts + 1) - Parts = x
    BY <1>1, <1>2, <2>1
  <2>3. (x + (Parts + 1)) % (Parts + 1) = 0
    BY <1>2, <1>3, <1>4, <2>2 DEF FramedInv, n
  <2> QED
    BY <1>2, <2>2, <2>3, NextFrame
<1> QED
  BY <1>4, <1>5, <1>6 DEF m

\* A step of the session thread keeps the two in step.
LEMMA FramedStep ==
  ASSUME Types, NEW c \in Conns, SessionInv(c), WireInv(c), FramedInv(c), ServerStep(c),
         UNCHANGED peer
  PROVE  FramedInv(c)'
<1>0. Types' /\ greeted'[c] = greeted[c] /\ owed'[c] = owed[c]
  <2>1. Moves(c)
    BY ServerMoves
  <2> QED
    BY <2>1 DEF Moves, Types, PeerTypes, peer
<1>1. CASE fate'[c] # "none"
  BY <1>1 DEF FramedInv
<1>2. CASE ReadHello(c) /\ fate'[c] = "none"
  <2>1. Took(c) /\ pc[c] = "hello" /\ pc'[c] = "writing" /\ fate' = fate
    BY <1>2, ReadHelloEffect DEF Types
  <2>2. Need(c)' = Need(c) - 1
    BY <2>1 DEF Need
  <2> QED
    BY <1>0, <2>1, <2>2, FramedTook
<1>3. CASE ReadHeader(c) /\ fate'[c] = "none"
  <2>1. /\ Took(c) /\ pc[c] = "header" /\ pc'[c] = "payload" /\ left'[c] = Parts
        /\ fate' = fate
    BY <1>3, ReadHeaderEffect DEF Fails
  <2> QED
    BY <1>0, <2>1, FramedHeader
<1>4. CASE ReadPart(c) /\ fate'[c] = "none"
  <2>1. /\ Took(c) /\ pc[c] = "payload" /\ left'[c] = left[c] - 1 /\ fate' = fate
        /\ \/ pc'[c] = "payload"
           \/ pc'[c] = "decoded" /\ left[c] = 1
    BY <1>4, ReadPartEffect DEF Fails
  <2>2. Need(c)' = Need(c) - 1
    BY <2>1 DEF Need
  <2> QED
    BY <1>0, <2>1, <2>2, FramedTook
<1>5. CASE /\ ReserveSet(c) \/ CommitSucceeds(c) \/ EvaluateInvalid(c) \/ EngineAnswers(c)
           /\ fate'[c] = "none"
  <2>1. net' = net /\ pc[c] \in {"decoded", "commit"} /\ pc'[c] \in {"commit", "writing"}
        /\ fate' = fate
    BY <1>5, ReserveSetEffect, CommitSucceedsEffect, EvaluatesEffect DEF Fails, Writes
  <2>2. Need(c)' = Need(c)
    BY <2>1 DEF Need
  <2> QED
    BY <1>0, <2>1, <2>2, FramedSame
<1>6. CASE (Write(c) \/ WriteFails(c)) /\ fate'[c] = "none"
  <2> SUFFICES ASSUME ~net'[c].reset PROVE FramedInv(c)'
    BY DEF FramedInv
  <2>1. fate' = fate /\ pc[c] = "writing" /\ pc'[c] \in {"writing", "header", "drop"}
    BY <1>6, WriteEffect, WriteFailsEffect DEF Types, ServerTypes, Written
  <2>2. /\ net[c].reset => net'[c].reset
        /\ net'[c].inbox["server"] = net[c].inbox["server"]
    <3>3. CASE WriteFails(c)
      BY <3>3, WriteFailsEffect
    <3>4. CASE Write(c)
      BY <3>4, WriteEffect DEF Wrote
    <3> QED
      BY <1>6, <3>3, <3>4
  <2>3. Need(c)' = Need(c)
    BY <2>1 DEF Need
  <2> QED
    BY <1>0, <2>1, <2>2, <2>3, FramedSame
<1>7. ASSUME fate'[c] = "none"
      PROVE  \/ ReadHello(c) \/ ReadHeader(c) \/ ReadPart(c) \/ ReserveSet(c)
             \/ CommitSucceeds(c) \/ EvaluateInvalid(c) \/ EngineAnswers(c)
             \/ Write(c) \/ WriteFails(c)
  BY <1>7, EndsEffect, RejectsEffect, CommitFailsEffect, DropMatrixEffect, CloseStreamEffect
     DEF ServerStep, Fails, SessionInv, Doomed
<1> QED
  BY <1>1, <1>2, <1>3, <1>4, <1>5, <1>6, <1>7

\* A token is written behind the others.
LEMMA SentOne ==
  ASSUME Types, NEW c \in Conns, NEW token \in PeerTokens(c), Sent(c, token),
         SessionInv(c), WireInv(c), fate[c] = "none", ~net'[c].reset
  PROVE  /\ Len(net'[c].inbox["server"]) = Len(net[c].inbox["server"]) + 1
         /\ Len(net[c].inbox["server"]) \in Nat
         /\ ~net[c].reset
         /\ net'[c].inbox["server"] # <<>>
         /\ net'[c].inbox["server"][Len(net[c].inbox["server"]) + 1] = token
         /\ \A i \in 1 .. Len(net[c].inbox["server"]) :
              net'[c].inbox["server"][i] = net[c].inbox["server"][i]
<1>1. net[c].open["server"]
  BY DEF SessionInv, WireInv, Doomed
<1>2. /\ net'[c].inbox["server"] = Append(net[c].inbox["server"], token) /\ ~net[c].reset
      /\ net[c].inbox["server"] \in Seq(PeerTokens(c))
  BY <1>1, NeedType DEF Sent
<1> QED
  BY <1>2

\* So does a header where a frame was whole, and payload where one was not.
LEMMA FramedSent ==
  ASSUME Types, Types', NEW c \in Conns, NEW token \in PeerTokens(c), Sent(c, token),
         SessionInv(c), WireInv(c), FramedInv(c), UNCHANGED server,
         greeted[c], greeted'[c],
         \/ token.part = "header" /\ owed[c] = 0 /\ owed'[c] = Parts
         \/ token.part = "payload" /\ owed[c] \in 1 .. Parts /\ owed'[c] = owed[c] - 1
  PROVE  FramedInv(c)'
<1> SUFFICES ASSUME ~net'[c].reset, fate[c] = "none"
             PROVE  FramedInv(c)'
  BY DEF FramedInv, server
<1> DEFINE n == Len(net[c].inbox["server"])
           m == Len(net'[c].inbox["server"])
           need == Need(c)
<1>1. /\ n \in Nat /\ m = n + 1 /\ ~net[c].reset /\ net'[c].inbox["server"] # <<>>
      /\ net'[c].inbox["server"][n + 1] = token
      /\ \A i \in 1 .. n : net'[c].inbox["server"][i] = net[c].inbox["server"][i]
  BY SentOne
<1>2. /\ need \in 0 .. Parts /\ owed[c] \in 0 .. Parts /\ Parts \in Nat /\ Parts >= 1
      /\ Need(c)' = need
  BY NeedType DEF Need, server
<1>3. pc'[c] = pc[c] /\ fate'[c] = fate[c]
  BY DEF server
<1>4. /\ (n + owed[c] + (Parts + 1) - need) % (Parts + 1) = 0
      /\ \A i \in 1 .. n : net[c].inbox["server"][i].part = PartAt(c, i)
      /\ pc[c] = "hello" => n >= 1
  <2>1. pc[c] = "hello" => net[c].inbox["server"] # <<>>
    BY <1>1 DEF FramedInv
  <2>2. pc[c] = "hello" => n >= 1
    BY <2>1, NeedType
  <2> QED
    BY <1>1, <2>2 DEF FramedInv
<1> HIDE DEF n, m, need
<1>5. PICK x \in Nat : x = n + (Parts + 1) - need
  BY <1>1, <1>2
<1>6. (x + owed[c]) % (Parts + 1) = 0
  <2>1. n + owed[c] + (Parts + 1) - need = x + owed[c]
    BY <1>1, <1>2, <1>5
  <2> QED
    BY <1>4, <2>1
<1>7. token.part = PartAt(c, n + 1)
  <2>1. (n + 1) + Parts - need = x /\ (pc[c] = "hello" => n + 1 # 1)
    BY <1>1, <1>2, <1>4, <1>5
  <2>2. CASE token.part = "header" /\ owed[c] = 0
    <3>1. x % (Parts + 1) = 0
      BY <1>5, <1>6, <2>2
    <3> QED
      BY <2>1, <2>2, <3>1 DEF PartAt, need
  <2>3. CASE token.part = "payload" /\ owed[c] \in 1 .. Parts
    <3>1. x % (Parts + 1) # 0
      BY <1>6, <2>3, BeforeBoundary
    <3> QED
      BY <2>1, <2>3, <3>1 DEF PartAt, need
  <2> QED
    BY <2>2, <2>3
<1>8. ASSUME NEW i \in 1 .. m
      PROVE  net'[c].inbox["server"][i].part = PartAt(c, i)'
  <2>1. PartAt(c, i)' = PartAt(c, i)
    BY <1>2, <1>3 DEF PartAt, need
  <2>2. i \in 1 .. n \/ i = n + 1
    BY <1>1
  <2> QED
    BY <1>1, <1>4, <1>7, <2>1, <2>2
<1>9. (m + owed'[c] + (Parts + 1) - need) % (Parts + 1) = 0
  <2>1. CASE owed[c] = 0 /\ owed'[c] = Parts
    <3>1. m + owed'[c] + (Parts + 1) - need = x + (Parts + 1)
      BY <1>1, <1>2, <1>5, <2>1
    <3>2. x % (Parts + 1) = 0
      BY <1>5, <1>6, <2>1
    <3> QED
      BY <3>1, <3>2, NextFrame
  <2>2. CASE owed'[c] = owed[c] - 1
    <3>1. PICK k \in Nat : k = owed[c]
      BY <1>2
    <3>2. m + (k - 1) + (Parts + 1) - need = x + k
      BY <1>1, <1>2, <1>5
    <3> QED
      BY <1>6, <2>2, <3>1, <3>2
  <2> QED
    BY <2>1, <2>2
<1> QED
  BY <1>1, <1>2, <1>8, <1>9 DEF FramedInv, m

\* The hello is the first token.
LEMMA FramedGreet ==
  ASSUME Types, Types', NEW c \in Conns, Greet(c), SessionInv(c), WireInv(c), FramedInv(c),
         UNCHANGED server
  PROVE  FramedInv(c)'
<1> SUFFICES ASSUME ~net'[c].reset, fate[c] = "none"
             PROVE  FramedInv(c)'
  BY DEF FramedInv, server
<1>1. PICK token \in Greetings : token.part = "hello" /\ Sent(c, token)
  BY GreetEffect
<1>2. ~greeted[c] /\ greeted'[c] /\ owed' = owed
  BY GreetEffect
<1>3. token \in PeerTokens(c)
  BY DEF PeerTokens
<1>4. /\ Len(net'[c].inbox["server"]) = Len(net[c].inbox["server"]) + 1
      /\ ~net[c].reset
      /\ net'[c].inbox["server"] # <<>>
      /\ net'[c].inbox["server"][Len(net[c].inbox["server"]) + 1] = token
  BY <1>1, <1>3, SentOne
<1>5. pc[c] = "hello" /\ net[c].inbox["server"] = <<>> /\ owed[c] = 0
  BY <1>2, <1>4 DEF FramedInv
<1>6. Len(net'[c].inbox["server"]) = 1 /\ net'[c].inbox["server"][1].part = "hello"
  BY <1>1, <1>4, <1>5
<1>7. pc'[c] = "hello" /\ owed'[c] = 0 /\ Need(c)' = 1 /\ \A i \in 1 .. 1 : PartAt(c, i)' = "hello"
  BY <1>2, <1>5 DEF server, Need, PartAt
<1>8. (1 + 0 + (Parts + 1) - 1) % (Parts + 1) = 0
  <2>1. Parts \in Nat /\ 1 \in 1 .. Parts /\ 1 + 0 + (Parts + 1) - 1 = Parts + 1
    BY WireAssumption
  <2> QED
    BY <2>1, InFrame
<1> QED
  BY <1>2, <1>4, <1>6, <1>7, <1>8 DEF FramedInv

\* So does every step of the peer.
LEMMA FramedPeerStep ==
  ASSUME Types, Types', NEW c \in Conns, PeerStep(c), SessionInv(c), WireInv(c), FramedInv(c),
         UNCHANGED server
  PROVE  FramedInv(c)'
<1>0. pc' = pc /\ fate' = fate /\ Need(c)' = Need(c)
  BY DEF server, Need
<1>1. CASE Greet(c)
  BY <1>1, FramedGreet
<1>2. CASE Ask(c)
  <2>1. greeted[c] /\ greeted'[c] /\ owed[c] = 0 /\ owed'[c] = Parts
    BY <1>2, AskEffect DEF Types, PeerTypes
  <2>2. PICK token \in PeerTokens(c) : token.part = "header" /\ Sent(c, token)
    BY <1>2, AskEffect
  <2> QED
    BY <2>1, <2>2, FramedSent
<1>3. CASE Continue(c)
  <2>1. greeted' = greeted /\ owed[c] \in 1 .. Parts /\ owed'[c] = owed[c] - 1
        /\ Sent(c, Payload) /\ Payload \in PeerTokens(c) /\ Payload.part = "payload"
    BY <1>3, ContinueEffect
  <2>2. CASE ~greeted[c]
    <3>1. net[c].reset \/ fate[c] # "none"
      BY <2>1, <2>2 DEF FramedInv
    <3>2. ~net[c].reset
      BY <2>1 DEF Sent
    <3> QED
      BY <1>0, <3>1, <3>2 DEF FramedInv
  <2>3. CASE greeted[c]
    BY <2>1, <2>3, FramedSent
  <2> QED
    BY <2>2, <2>3
<1>4. CASE Hear(c)
  BY <1>0, <1>4, HearEffect, FramedSame
<1>5. CASE Leave(c)
  <2>1. CASE net'[c].reset
    BY <2>1 DEF FramedInv
  <2>2. CASE ~net'[c].reset
    <3>1. /\ net'[c].reset = net[c].reset /\ net'[c].inbox["server"] = net[c].inbox["server"]
          /\ greeted' = greeted /\ owed' = owed
      BY <1>5, <2>2, LeaveEffect DEF peer
    <3> QED
      BY <1>0, <3>1, FramedSame
  <2> QED
    BY <2>1, <2>2
<1> QED
  BY <1>1, <1>2, <1>3, <1>4, <1>5 DEF PeerStep

FramesInv == ControlInv /\ \A c \in Conns : FramedInv(c)

\* Nothing is unread and nothing owed at the start.
LEMMA FramesInit ==
  ASSUME Init
  PROVE  FramesInv
<1>1. ControlInv
  BY ControlInit
<1>2. ASSUME NEW c \in Conns PROVE FramedInv(c)
  <2>1. net[c].inbox["server"] = <<>> /\ ~greeted[c] /\ pc[c] = "hello" /\ owed[c] = 0
    BY DEF Init, NetInit, ServerInit, Connected, Sides
  <2>2. 1 .. Len(net[c].inbox["server"]) = {}
    BY <2>1
  <2> QED
    BY <2>1, <2>2 DEF FramedInv
<1> QED
  BY <1>1, <1>2 DEF FramesInv

\* Every step keeps every stream framed.
LEMMA FramesStep ==
  ASSUME FramesInv, [Next]_vars
  PROVE  FramesInv'
<1>1. ControlInv /\ ControlInv' /\ Types /\ Types'
  BY ControlStep DEF FramesInv, ControlInv
<1>2. ASSUME NEW c \in Conns, ServerStep(c), UNCHANGED peer, NEW d \in Conns
      PROVE  FramedInv(d)'
  <2>1. CASE d = c
    BY <1>1, <1>2, <2>1, FramedStep DEF FramesInv, ControlInv
  <2>2. CASE d # c
    <3>1. Elsewhere(c) /\ net'[d] = net[d]
      BY <1>1, <1>2, <2>2, ServerMoves DEF Moves
    <3>2. pc'[d] = pc[d] /\ Need(d)' = Need(d) /\ fate'[d] = fate[d]
          /\ greeted' = greeted /\ owed' = owed
      BY <1>2, <2>2, <3>1 DEF Elsewhere, Need, peer
    <3> QED
      BY <3>1, <3>2, FramedSame DEF FramesInv
  <2> QED
    BY <2>1, <2>2
<1>3. ASSUME NEW c \in Conns, PeerStep(c), UNCHANGED server, NEW d \in Conns
      PROVE  FramedInv(d)'
  <2>1. CASE d = c
    BY <1>1, <1>3, <2>1, FramedPeerStep DEF FramesInv, ControlInv
  <2>2. CASE d # c
    <3>1. net'[d] = net[d] /\ greeted'[d] = greeted[d] /\ owed'[d] = owed[d]
      BY <1>1, <1>3, <2>2, PeersMove DEF PeerMoves
    <3>2. pc' = pc /\ Need(d)' = Need(d) /\ fate' = fate
      BY <1>3 DEF server, Need
    <3> QED
      BY <3>1, <3>2, FramedSame DEF FramesInv
  <2> QED
    BY <2>1, <2>2
<1>4. ASSUME UNCHANGED vars, NEW d \in Conns
      PROVE  FramedInv(d)'
  BY <1>4, FramedSame DEF FramesInv, vars, server, peer, Need
<1> QED
  BY <1>1, <1>2, <1>3, <1>4, NextCases DEF FramesInv

\* The stream of every session that goes on is whole frames behind what the
\* server needs (FrameReader::remaining and the handshake).
THEOREM FramesInvariance == Spec => []FramesInv
<1>1. Init => FramesInv
  BY FramesInit
<1>2. FramesInv /\ [Next]_vars => FramesInv'
  BY FramesStep
<1> QED
  BY <1>1, <1>2, PTL DEF Spec

\* Whatever a peer sends and whenever it sends it, read_frame_header and the
\* frame readers of a session are never out of step with its frames.
THEOREM FrameAlignedCorrect == Spec => []FrameAligned
<1>1. FramesInv => FrameAligned
  <2> SUFFICES ASSUME FramesInv, NEW c \in Conns, net[c].inbox["server"] # <<>>
               PROVE  /\ pc[c] = "header"  => Head(net[c].inbox["server"]).part = "header"
                      /\ pc[c] = "payload" => Head(net[c].inbox["server"]).part = "payload"
    BY DEF FrameAligned, Unread
  <2>1. Types /\ SessionInv(c) /\ WireInv(c) /\ FramedInv(c)
    BY DEF FramesInv, ControlInv
  <2>2. /\ 1 \in 1 .. Len(net[c].inbox["server"])
        /\ Head(net[c].inbox["server"]) = net[c].inbox["server"][1]
    BY <2>1, NeedType
  <2>3. Parts \in Nat /\ Parts >= 1 /\ ~net[c].reset
    BY <2>1, WireAssumption DEF WireInv
  <2>4. CASE pc[c] = "header"
    <3>1. fate[c] = "none"
      BY <2>1, <2>4 DEF SessionInv, Doomed
    <3>2. (1 + Parts - 0) % (Parts + 1) = 0
      <4>1. 1 \in 1 .. Parts /\ 1 + Parts - 0 = Parts + 1
        BY <2>3
      <4> QED
        BY <4>1, InFrame
    <3>3. PartAt(c, 1) = "header"
      BY <2>4, <3>2 DEF PartAt, Need
    <3> QED
      BY <2>1, <2>2, <2>3, <2>4, <3>1, <3>3 DEF FramedInv
  <2>5. CASE pc[c] = "payload"
    <3>1. fate[c] = "none"
      BY <2>1, <2>5 DEF SessionInv, Doomed
    <3>2. left[c] \in 1 .. Parts
      BY <2>1, <2>5 DEF Types, ServerTypes
    <3>3. 1 + Parts - left[c] \in 1 .. Parts
      BY <2>3, <3>2
    <3>4. (1 + Parts - left[c]) % (Parts + 1) # 0
      BY <3>3, InFrame
    <3>5. PartAt(c, 1) = "payload"
      BY <2>5, <3>4 DEF PartAt, Need
    <3> QED
      BY <2>1, <2>2, <2>3, <2>5, <3>1, <3>5 DEF FramedInv
  <2> QED
    BY <2>4, <2>5
<1> QED
  BY <1>1, FramesInvariance, PTL

-----------------------------------------------------------------------------
(* What the answers name.                                                   *)

Names(token, set) ==
  token.part = "header" /\ token.kind \in {"UploadAccepted", "Products"}
    => token.entries \subseteq Entries(set)

AllName(tokens, set) == \A i \in DOMAIN tokens : Names(tokens[i], set)

\* The answers of a session that goes on, written or not, name its matrices.
AnswersInv(c) ==
  fate[c] = "none" =>
    AllName(reply[c].tokens, stored[c]) /\ AllName(net[c].inbox["client"], stored[c])

\* Nothing names nothing.
LEMMA AllNameEmpty ==
  ASSUME NEW set
  PROVE  AllName(<<>>, set)
BY DEF AllName

\* A part of the tokens names no more.
LEMMA AllNameTail ==
  ASSUME NEW S, NEW tokens \in Seq(S), tokens # <<>>, NEW set, AllName(tokens, set)
  PROVE  Names(Head(tokens), set) /\ AllName(Tail(tokens), set)
<1>1. /\ Head(tokens) = tokens[1] /\ 1 \in DOMAIN tokens
      /\ \A i \in DOMAIN Tail(tokens) : i + 1 \in DOMAIN tokens /\ Tail(tokens)[i] = tokens[i + 1]
  OBVIOUS
<1> QED
  BY <1>1 DEF AllName

\* One more token, which names them too.
LEMMA AllNameAppend ==
  ASSUME NEW S, NEW tokens \in Seq(S), NEW token \in S, NEW set,
         AllName(tokens, set), Names(token, set)
  PROVE  AllName(Append(tokens, token), set)
<1>1. \A i \in DOMAIN Append(tokens, token) :
        \/ i \in DOMAIN tokens /\ Append(tokens, token)[i] = tokens[i]
        \/ Append(tokens, token)[i] = token
  OBVIOUS
<1> QED
  BY <1>1 DEF AllName

\* Of a frame, the header names matrices.
LEMMA AllNameFrame ==
  ASSUME NEW header \in ServerTokens, header.part = "header", NEW set, Names(header, set)
  PROVE  AllName(Frame(header), set)
<1>1. Payload.part = "payload"
  BY DEF Payload
<1> QED
  BY <1>1, FrameShape DEF AllName, Names

\* What is named stays named.
LEMMA AllNameWider ==
  ASSUME NEW tokens, NEW set, NEW wider, set \subseteq wider, AllName(tokens, set)
  PROVE  AllName(tokens, wider)
BY DEF AllName, Names, Entries

\* A status byte names no matrices.
LEMMA AllNameStatus ==
  ASSUME NEW ok \in BOOLEAN, NEW set
  PROVE  AllName(<<Status(ok)>>, set)
BY StatusShape DEF AllName, Names

\* An error names no matrices.
LEMMA ErrorNames ==
  ASSUME NEW code \in Codes, NEW set
  PROVE  Names(ErrorFrame(code), set)
BY ErrorShape DEF Names

\* A step after which a session goes on leaves it with answers of its own.
LEMMA AnswersStep ==
  ASSUME Types, NEW c \in Conns, SessionInv(c), AnswersInv(c), ServerStep(c)
  PROVE  AnswersInv(c)'
<1> SUFFICES ASSUME fate'[c] = "none"
             PROVE  /\ AllName(reply'[c].tokens, stored'[c])
                    /\ AllName(net'[c].inbox["client"], stored'[c])
  BY DEF AnswersInv
<1>0. /\ reply[c].tokens \in Seq(ServerTokens)
      /\ net[c].inbox["client"] \in Seq(ServerTokens)
  BY LinkFields DEF Types, ServerTypes, Written
<1>1. CASE ReadHello(c)
  <2>1. /\ fate' = fate /\ stored' = stored /\ net'[c].inbox["client"] = net[c].inbox["client"]
        /\ \E ok \in BOOLEAN : reply'[c].tokens = <<Status(ok)>>
    BY <1>1, ReadHelloEffect DEF Took
  <2> QED
    BY <2>1, AllNameStatus DEF AnswersInv
<1>2. CASE ReadHeader(c) \/ ReadPart(c)
  <2>1. /\ fate' = fate /\ stored' = stored /\ net'[c].inbox["client"] = net[c].inbox["client"]
        /\ reply' = reply
    BY <1>2, ReadHeaderEffect, ReadPartEffect DEF Took, Fails
  <2> QED
    BY <2>1 DEF AnswersInv
<1>3. CASE ReserveSet(c)
  BY <1>3, ReserveSetEffect DEF AnswersInv
<1>4. CASE CommitSucceeds(c)
  <2>1. /\ net' = net /\ fate' = fate /\ stored'[c] = request[c].set
        /\ Writes(c, Answer("UploadAccepted", Entries(request[c].set)), "header")
    BY <1>4, CommitSucceedsEffect DEF Fails
  <2>2. stored[c] = {}
    BY <1>4, CommitSucceedsEffect DEF SessionInv, TakesPayload
  <2>3. Names(Answer("UploadAccepted", Entries(request[c].set)), request[c].set)
    BY DEF Names, Answer
  <2>4. AllName(reply'[c].tokens, stored'[c])
    BY <2>1, <2>3, AllNameFrame DEF Writes
  <2>5. AllName(net[c].inbox["client"], stored'[c])
    BY <2>1, <2>2, AllNameWider DEF AnswersInv
  <2> QED
    BY <2>1, <2>4, <2>5
<1>5. CASE EvaluateInvalid(c) \/ EngineAnswers(c)
  <2>1. net' = net /\ fate' = fate /\ stored' = stored
    BY <1>5, EvaluatesEffect
  <2>2. PICK header : Writes(c, header, "header") /\ Names(header, stored[c])
    <3>1. CASE \E code \in Codes : Writes(c, ErrorFrame(code), "header")
      BY <3>1, ErrorNames
    <3>2. CASE /\ Writes(c, Answer("Products", Products(c)), "header")
               /\ Products(c) \subseteq Entries(stored[c])
      <4>1. Names(Answer("Products", Products(c)), stored[c])
        BY <3>2 DEF Names, Answer
      <4> QED
        BY <3>2, <4>1
    <3> QED
      BY <1>5, <3>1, <3>2, EvaluatesEffect
  <2>3. AllName(reply'[c].tokens, stored[c])
    BY <2>2, AllNameFrame DEF Writes
  <2> QED
    BY <2>1, <2>3 DEF AnswersInv
<1>6. CASE Write(c)
  <2>1. fate' = fate /\ stored' = stored
    BY <1>6, WriteEffect
  <2>2. CASE /\ reply[c].tokens # <<>> /\ Wrote(c, Head(reply[c].tokens))
             /\ reply'[c].tokens = Tail(reply[c].tokens)
    <3>1. /\ Names(Head(reply[c].tokens), stored[c]) /\ AllName(Tail(reply[c].tokens), stored[c])
          /\ Head(reply[c].tokens) \in ServerTokens
      <4>1. AllName(reply[c].tokens, stored[c])
        BY <2>1 DEF AnswersInv
      <4> QED
        BY <1>0, <2>2, <4>1, AllNameTail
    <3>2. PICK token \in ServerTokens : token = Head(reply[c].tokens)
      BY <3>1
    <3>3. \/ net'[c].inbox["client"] = Append(net[c].inbox["client"], token)
          \/ net' = net
          \/ net'[c].inbox["client"] = <<>>
      BY <2>2, <3>2 DEF Wrote
    <3>4. AllName(net'[c].inbox["client"], stored[c])
      <4>1. AllName(net[c].inbox["client"], stored[c]) /\ Names(token, stored[c])
        BY <2>1, <3>1, <3>2 DEF AnswersInv
      <4>2. AllName(Append(net[c].inbox["client"], token), stored[c])
        BY <1>0, <4>1, AllNameAppend
      <4> QED
        BY <3>3, <4>1, <4>2, AllNameEmpty
    <3> QED
      BY <2>1, <2>2, <3>1, <3>4
  <2>3. CASE reply'[c].tokens = <<>> /\ net' = net
    BY <2>1, <2>3, AllNameEmpty DEF AnswersInv
  <2> QED
    BY <1>6, <2>2, <2>3, WriteEffect
<1>7. CASE WriteFails(c)
  <2>1. fate' = fate /\ stored' = stored /\ net' = net /\ reply'[c].tokens = <<>>
    BY <1>7, WriteFailsEffect
  <2> QED
    BY <2>1, AllNameEmpty DEF AnswersInv
<1> QED
  BY <1>1, <1>2, <1>3, <1>4, <1>5, <1>6, <1>7, EndsEffect, RejectsEffect, CommitFailsEffect,
     DropMatrixEffect, CloseStreamEffect DEF ServerStep, Fails, SessionInv, Doomed

\* A step of the peer adds no answers.
LEMMA AnswersPeerStep ==
  ASSUME Types, NEW c \in Conns, AnswersInv(c), PeerStep(c), UNCHANGED server
  PROVE  AnswersInv(c)'
<1>1. \/ net'[c].inbox["client"] = net[c].inbox["client"]
      \/ net'[c].inbox["client"] = <<>>
      \/ net[c].inbox["client"] # <<>> /\ net'[c].inbox["client"] = Tail(net[c].inbox["client"])
  BY GreetEffect, AskEffect, ContinueEffect, HearEffect, LeaveEffect DEF PeerStep, Sent
<1>2. net[c].inbox["client"] \in Seq(ServerTokens)
  BY LinkFields DEF Types
<1>3. fate[c] = "none" => AllName(net'[c].inbox["client"], stored[c])
  BY <1>1, <1>2, AllNameEmpty, AllNameTail DEF AnswersInv
<1> QED
  BY <1>3 DEF AnswersInv, server

-----------------------------------------------------------------------------
(* Every frame is answered once.                                            *)

Handling(c) == IF pc[c] \in {"payload", "decoded", "commit"} THEN 1 ELSE 0

CountedInv(c) ==
  net[c].open["client"] /\ net[c].open["server"] /\ ~net[c].reset
  => asked[c] = Headers(net[c].inbox["server"]) + Handling(c) + Headers(reply[c].tokens)
                + Headers(net[c].inbox["client"]) + heard[c]

\* All that is counted are numbers.
LEMMA CountTypes ==
  ASSUME Types, NEW c \in Conns
  PROVE  /\ Headers(net[c].inbox["server"]) \in Nat
         /\ Headers(net[c].inbox["client"]) \in Nat
         /\ Headers(reply[c].tokens) \in Nat
         /\ asked[c] \in Nat /\ heard[c] \in Nat
         /\ net[c].inbox["server"] \in Seq(PeerTokens(c))
         /\ net[c].inbox["client"] \in Seq(ServerTokens)
         /\ reply[c].tokens \in Seq(ServerTokens)
<1>1. /\ net[c].inbox["server"] \in Seq(PeerTokens(c))
      /\ net[c].inbox["client"] \in Seq(ServerTokens)
      /\ reply[c].tokens \in Seq(ServerTokens)
  BY LinkFields DEF Types, ServerTypes, Written
<1>2. asked[c] \in Nat /\ heard[c] \in Nat
  BY DEF Types, PeerTypes
<1> QED
  BY <1>1, <1>2, HeadersType

\* The same after a step.
LEMMA CountTypesNext ==
  ASSUME Types', NEW c \in Conns
  PROVE  /\ Headers(net'[c].inbox["server"]) \in Nat
         /\ Headers(net'[c].inbox["client"]) \in Nat
         /\ Headers(reply'[c].tokens) \in Nat
<1>1. /\ net'[c].inbox["server"] \in Seq(PeerTokens(c))
      /\ net'[c].inbox["client"] \in Seq(ServerTokens)
  BY DEF Types, NetTypes, Unread
<1>2. reply'[c].tokens \in Seq(ServerTokens)
  BY DEF Types, ServerTypes, Written
<1> QED
  BY <1>1, <1>2, HeadersType

\* A token is taken off a count or off a stream, and One says which.
LEMMA TookCounts ==
  ASSUME Types, NEW c \in Conns, Took(c)
  PROVE  Headers(net[c].inbox["server"])
           = One(Head(net[c].inbox["server"])) + Headers(net'[c].inbox["server"])
BY CountTypes, HeadersTail DEF Took

\* A reply holds one header.
LEMMA WritesCounts ==
  ASSUME NEW c \in Conns, \/ Fails(c)
                          \/ \E header, then : Writes(c, header, then)
  PROVE  pc'[c] = "writing" /\ Headers(reply'[c].tokens) = 1
BY FrameShape DEF Fails, Writes

\* A step of the session thread moves a frame on, and counts none twice.
LEMMA CountedStep ==
  ASSUME Types, NEW c \in Conns, SessionInv(c), CountedInv(c), ServerStep(c), UNCHANGED peer
  PROVE  CountedInv(c)'
<1> SUFFICES ASSUME net'[c].open["client"], net'[c].open["server"], ~net'[c].reset
             PROVE  asked[c] = Headers(net'[c].inbox["server"]) + Handling(c)'
                               + Headers(reply'[c].tokens)
                               + Headers(net'[c].inbox["client"]) + heard[c]
  BY DEF CountedInv, peer
<1>0. Types'
  BY ServerMoves DEF Moves, Types, PeerTypes, peer
<1>t. /\ Headers(net[c].inbox["server"]) \in Nat /\ Headers(net[c].inbox["client"]) \in Nat
      /\ Headers(reply[c].tokens) \in Nat /\ asked[c] \in Nat /\ heard[c] \in Nat
      /\ Headers(net'[c].inbox["server"]) \in Nat /\ Headers(net'[c].inbox["client"]) \in Nat
      /\ Headers(reply'[c].tokens) \in Nat
  BY <1>0, CountTypes, CountTypesNext
<1>e. pc[c] # "writing" => Headers(reply[c].tokens) = 0
  BY HeadersEmpty DEF SessionInv
<1>1. CASE ReadHello(c)
  <2>1. /\ Took(c) /\ pc[c] = "hello" /\ Head(net[c].inbox["server"]).part = "hello"
        /\ pc'[c] \in {"writing", "drop"}
        /\ \/ \E ok \in BOOLEAN : reply'[c].tokens = <<Status(ok)>>
           \/ reply' = reply
    BY <1>1, ReadHelloEffect
  <2>2. Headers(reply'[c].tokens) = 0
    BY <1>e, <2>1, StatusShape
  <2>3. Headers(net[c].inbox["server"]) = Headers(net'[c].inbox["server"])
    BY <1>t, <2>1, TookCounts DEF One
  <2> QED
    BY <1>t, <1>e, <2>1, <2>2, <2>3 DEF CountedInv, Took, Handling
<1>2. CASE HelloFails(c) \/ HeaderEnds(c)
  BY <1>2, EndsEffect DEF CountedInv, Handling
<1>3. CASE ReadHeader(c)
  <2>1. /\ Took(c) /\ pc[c] = "header" /\ Head(net[c].inbox["server"]).part = "header"
        /\ (pc'[c] = "payload" /\ reply' = reply) \/ Fails(c)
    BY <1>3, ReadHeaderEffect
  <2>2. Headers(net[c].inbox["server"]) = 1 + Headers(net'[c].inbox["server"])
    BY <2>1, TookCounts DEF One
  <2>3. Handling(c)' + Headers(reply'[c].tokens) = 1
    <3>1. CASE pc'[c] = "payload" /\ reply' = reply
      BY <1>e, <2>1, <3>1 DEF Handling
    <3>2. CASE Fails(c)
      BY <3>2, WritesCounts DEF Handling
    <3> QED
      BY <2>1, <3>1, <3>2
  <2>4. Handling(c) = 0 /\ Handling(c)' \in Nat
    BY <2>1 DEF Handling
  <2> QED
    BY <1>t, <1>e, <2>1, <2>2, <2>3, <2>4 DEF CountedInv, Took
<1>4. CASE ReadPart(c)
  <2>1. /\ Took(c) /\ pc[c] = "payload" /\ Head(net[c].inbox["server"]).part = "payload"
        /\ (pc'[c] \in {"payload", "decoded"} /\ reply' = reply) \/ Fails(c)
    BY <1>4, ReadPartEffect
  <2>2. Headers(net[c].inbox["server"]) = Headers(net'[c].inbox["server"])
    BY <1>t, <2>1, TookCounts DEF One
  <2>3. Handling(c)' + Headers(reply'[c].tokens) = 1
    <3>1. CASE pc'[c] \in {"payload", "decoded"} /\ reply' = reply
      BY <1>e, <2>1, <3>1 DEF Handling
    <3>2. CASE Fails(c)
      BY <3>2, WritesCounts DEF Handling
    <3> QED
      BY <2>1, <3>1, <3>2
  <2>4. Handling(c) = 1 /\ Handling(c)' \in Nat
    BY <2>1 DEF Handling
  <2> QED
    BY <1>t, <1>e, <2>1, <2>2, <2>3, <2>4 DEF CountedInv, Took
<1>5. CASE \/ ReserveFails(c) \/ PayloadEnds(c) \/ UploadRefused(c) \/ EngineFails(c)
           \/ CommitSucceeds(c) \/ CommitFails(c) \/ EvaluateInvalid(c) \/ EngineAnswers(c)
  <2>1. /\ net' = net /\ pc[c] \in {"payload", "decoded", "commit"}
        /\ \/ Fails(c)
           \/ \E header, then : Writes(c, header, then)
    BY <1>5, RejectsEffect, CommitSucceedsEffect, CommitFailsEffect, EvaluatesEffect
  <2>2. pc'[c] = "writing" /\ Headers(reply'[c].tokens) = 1
    BY <2>1, WritesCounts
  <2>3. Handling(c) = 1 /\ Handling(c)' = 0
    BY <2>1, <2>2 DEF Handling
  <2> QED
    BY <1>t, <1>e, <2>1, <2>2, <2>3 DEF CountedInv
<1>6. CASE ReserveSet(c)
  BY <1>6, ReserveSetEffect DEF CountedInv, Handling
<1>7. CASE Write(c)
  <2>1. CASE /\ reply[c].tokens # <<>> /\ Wrote(c, Head(reply[c].tokens))
             /\ reply'[c].tokens = Tail(reply[c].tokens) /\ pc' = pc
    <3>1. reply[c].tokens \in Seq(ServerTokens) /\ net[c].inbox["client"] \in Seq(ServerTokens)
      BY CountTypes
    <3>2. PICK token \in ServerTokens : token = Head(reply[c].tokens)
      BY <2>1, <3>1
    <3>3. Headers(reply[c].tokens) = One(token) + Headers(reply'[c].tokens)
      BY <2>1, <3>1, <3>2, HeadersTail
    <3>4. /\ net[c].open["client"] /\ net[c].open["server"] /\ ~net[c].reset
          /\ net'[c].inbox["server"] = net[c].inbox["server"]
          /\ net'[c].inbox["client"] = Append(net[c].inbox["client"], token)
      BY <2>1, <3>2 DEF Wrote
    <3>5. Headers(net'[c].inbox["client"]) = Headers(net[c].inbox["client"]) + One(token)
      BY <3>1, <3>4, HeadersAppend
    <3>6. Handling(c)' = Handling(c) /\ Handling(c) \in Nat /\ One(token) \in Nat
      BY <2>1 DEF Handling, One
    <3> QED
      BY <1>t, <3>3, <3>4, <3>5, <3>6 DEF CountedInv
  <2>2. CASE /\ reply[c].tokens = <<>> /\ reply'[c].tokens = <<>>
             /\ pc'[c] = reply[c].then /\ net' = net
    <3>1. Handling(c) = 0 /\ Handling(c)' = 0
      BY <1>7, <2>2, WriteEffect DEF Handling, Types, ServerTypes, Written
    <3> QED
      BY <1>t, <2>2, <3>1 DEF CountedInv
  <2> QED
    BY <1>7, <2>1, <2>2, WriteEffect
<1>8. CASE WriteFails(c)
  BY <1>8, WriteFailsEffect
<1>9. CASE \E m \in Matrices : DropMatrix(c, m)
  BY <1>9, DropMatrixEffect DEF CountedInv, Handling
<1>10. CASE CloseStream(c)
  BY <1>10, CloseStreamEffect
<1> QED
  BY <1>1, <1>2, <1>3, <1>4, <1>5, <1>6, <1>7, <1>8, <1>9, <1>10 DEF ServerStep

\* A step of the peer begins a frame or hears an answer, and counts it.
LEMMA CountedPeerStep ==
  ASSUME Types, Types', NEW c \in Conns, CountedInv(c), PeerStep(c), UNCHANGED server
  PROVE  CountedInv(c)'
<1> SUFFICES ASSUME net'[c].open["client"], net'[c].open["server"], ~net'[c].reset
             PROVE  asked'[c] = Headers(net'[c].inbox["server"]) + Handling(c)
                                + Headers(reply[c].tokens)
                                + Headers(net'[c].inbox["client"]) + heard'[c]
  BY DEF CountedInv, server, Handling
<1>t. /\ Headers(net[c].inbox["server"]) \in Nat /\ Headers(net[c].inbox["client"]) \in Nat
      /\ Headers(reply[c].tokens) \in Nat /\ asked[c] \in Nat /\ heard[c] \in Nat
      /\ Headers(net'[c].inbox["server"]) \in Nat /\ Headers(net'[c].inbox["client"]) \in Nat
      /\ Handling(c) \in Nat
      /\ net[c].inbox["server"] \in Seq(PeerTokens(c))
      /\ net[c].inbox["client"] \in Seq(ServerTokens)
  BY CountTypes, CountTypesNext DEF Handling
<1>1. ASSUME NEW token \in PeerTokens(c), Sent(c, token)
      PROVE  /\ net[c].open["client"] /\ net[c].open["server"] /\ ~net[c].reset
             /\ net'[c].inbox["client"] = net[c].inbox["client"]
             /\ Headers(net'[c].inbox["server"]) = Headers(net[c].inbox["server"]) + One(token)
  <2>1. /\ net[c].open["client"] /\ net[c].open["server"] /\ ~net[c].reset
        /\ net'[c].inbox["client"] = net[c].inbox["client"]
        /\ net'[c].inbox["server"] = Append(net[c].inbox["server"], token)
    BY <1>1 DEF Sent
  <2> QED
    BY <1>t, <2>1, HeadersAppend
<1>2. CASE Greet(c)
  <2>1. PICK token \in PeerTokens(c) : token.part = "hello" /\ Sent(c, token)
    BY <1>2, GreetEffect DEF PeerTokens
  <2>2. One(token) = 0 /\ asked' = asked /\ heard' = heard
    BY <1>2, <2>1, GreetEffect DEF One
  <2> QED
    BY <1>t, <1>1, <2>1, <2>2 DEF CountedInv
<1>3. CASE Ask(c)
  <2>1. PICK token \in PeerTokens(c) : token.part = "header" /\ Sent(c, token)
    BY <1>3, AskEffect
  <2>2. One(token) = 1 /\ asked'[c] = asked[c] + 1 /\ heard' = heard
    BY <1>3, <2>1, AskEffect DEF One
  <2>3. /\ net'[c].inbox["client"] = net[c].inbox["client"]
        /\ Headers(net'[c].inbox["server"]) = Headers(net[c].inbox["server"]) + 1
    BY <1>1, <2>1, <2>2
  <2>4. asked[c] = Headers(net[c].inbox["server"]) + Handling(c) + Headers(reply[c].tokens)
                   + Headers(net[c].inbox["client"]) + heard[c]
    BY <1>1, <2>1 DEF CountedInv
  <2> DEFINE unread == Headers(net[c].inbox["server"])
             next == Headers(net'[c].inbox["server"])
             told == Headers(net[c].inbox["client"])
             replied == Headers(reply[c].tokens)
             busy == Handling(c)
             was == asked[c]
             is == asked'[c]
             got == heard[c]
  <2>5. /\ next = unread + 1 /\ is = was + 1 /\ was = unread + busy + replied + told + got
        /\ unread \in Nat /\ busy \in Nat /\ replied \in Nat /\ told \in Nat /\ got \in Nat
    BY <1>t, <2>2, <2>3, <2>4
  <2>6. heard'[c] = got /\ Headers(net'[c].inbox["client"]) = told
    BY <2>2, <2>3
  <2> HIDE DEF unread, next, told, replied, busy, was, is, got
  <2>7. is = next + busy + replied + told + got
    BY <2>5
  <2> QED
    BY <2>6, <2>7 DEF unread, next, told, replied, busy, is, got
<1>4. CASE Continue(c)
  <2>1. Payload \in PeerTokens(c) /\ Sent(c, Payload) /\ One(Payload) = 0
        /\ asked' = asked /\ heard' = heard
    BY <1>4, ContinueEffect DEF One
  <2> QED
    BY <1>t, <1>1, <2>1 DEF CountedInv
<1>5. CASE Hear(c)
  <2>1. /\ net'[c].open = net[c].open /\ net'[c].reset = net[c].reset
        /\ net'[c].inbox["server"] = net[c].inbox["server"]
        /\ net[c].inbox["client"] # <<>>
        /\ net'[c].inbox["client"] = Tail(net[c].inbox["client"])
        /\ heard'[c] = heard[c] + One(Head(net[c].inbox["client"]))
        /\ asked' = asked
    BY <1>5, HearEffect
  <2>2. Headers(net[c].inbox["client"])
          = One(Head(net[c].inbox["client"])) + Headers(net'[c].inbox["client"])
    BY <1>t, <2>1, HeadersTail
  <2> DEFINE unread == Headers(net[c].inbox["server"])
             told == Headers(net[c].inbox["client"])
             later == Headers(net'[c].inbox["client"])
             replied == Headers(reply[c].tokens)
             busy == Handling(c)
             one == One(Head(net[c].inbox["client"]))
             was == asked[c]
             got == heard[c]
  <2>3. one \in Nat
    BY DEF One
  <2>4. was = unread + busy + replied + told + got
    BY <2>1 DEF CountedInv
  <2>5. /\ told = one + later /\ later \in Nat /\ unread \in Nat /\ busy \in Nat
        /\ replied \in Nat /\ got \in Nat
    BY <1>t, <2>2
  <2> HIDE DEF unread, told, later, replied, busy, one, was, got
  <2>6. was = unread + busy + replied + later + (got + one)
    BY <2>3, <2>4, <2>5
  <2> QED
    BY <2>1, <2>6 DEF unread, later, replied, busy, one, was, got
<1>6. CASE Leave(c)
  BY <1>6, LeaveEffect
<1> QED
  BY <1>2, <1>3, <1>4, <1>5, <1>6 DEF PeerStep

-----------------------------------------------------------------------------
ExchangeInv == ControlInv /\ \A c \in Conns : AnswersInv(c) /\ CountedInv(c)

\* Nothing is asked and nothing answered at the start.
LEMMA ExchangeInit ==
  ASSUME Init
  PROVE  ExchangeInv
<1>1. ControlInv
  BY ControlInit
<1>2. ASSUME NEW c \in Conns PROVE AnswersInv(c) /\ CountedInv(c)
  <2>1. /\ net[c].inbox["server"] = <<>> /\ net[c].inbox["client"] = <<>>
        /\ reply[c].tokens = <<>> /\ pc[c] = "hello" /\ asked[c] = 0 /\ heard[c] = 0
    BY DEF Init, NetInit, ServerInit, Connected, Sides, NoReply
  <2> QED
    BY <2>1, AllNameEmpty, HeadersEmpty DEF AnswersInv, CountedInv, Handling
<1> QED
  BY <1>1, <1>2 DEF ExchangeInv

\* Every step keeps the answers and the counts.
LEMMA ExchangeStep ==
  ASSUME ExchangeInv, [Next]_vars
  PROVE  ExchangeInv'
<1>1. ControlInv /\ ControlInv' /\ Types /\ Types'
  BY ControlStep DEF ExchangeInv, ControlInv
<1>2. ASSUME NEW c \in Conns, ServerStep(c), UNCHANGED peer, NEW d \in Conns
      PROVE  AnswersInv(d)' /\ CountedInv(d)'
  <2>1. CASE d = c
    BY <1>1, <1>2, <2>1, AnswersStep, CountedStep DEF ExchangeInv, ControlInv
  <2>2. CASE d # c
    <3>1. Elsewhere(c) /\ net'[d] = net[d]
      BY <1>1, <1>2, <2>2, ServerMoves DEF Moves
    <3> QED
      BY <1>2, <2>2, <3>1 DEF ExchangeInv, Elsewhere, AnswersInv, CountedInv, Handling, peer
  <2> QED
    BY <2>1, <2>2
<1>3. ASSUME NEW c \in Conns, PeerStep(c), UNCHANGED server, NEW d \in Conns
      PROVE  AnswersInv(d)' /\ CountedInv(d)'
  <2>1. CASE d = c
    BY <1>1, <1>3, <2>1, AnswersPeerStep, CountedPeerStep DEF ExchangeInv
  <2>2. CASE d # c
    <3>1. net'[d] = net[d] /\ asked'[d] = asked[d] /\ heard'[d] = heard[d]
      BY <1>1, <1>3, <2>2, PeersMove DEF PeerMoves
    <3> QED
      BY <1>3, <3>1 DEF ExchangeInv, AnswersInv, CountedInv, Handling, server
  <2> QED
    BY <2>1, <2>2
<1>4. ASSUME UNCHANGED vars, NEW d \in Conns
      PROVE  AnswersInv(d)' /\ CountedInv(d)'
  BY <1>4 DEF ExchangeInv, AnswersInv, CountedInv, Handling, vars, server, peer
<1> QED
  BY <1>1, <1>2, <1>3, <1>4, NextCases DEF ExchangeInv

\* The answers of a session are its own, one for each frame (handle_frame).
THEOREM ExchangeInvariance == Spec => []ExchangeInv
<1>1. Init => ExchangeInv
  BY ExchangeInit
<1>2. ExchangeInv /\ [Next]_vars => ExchangeInv'
  BY ExchangeStep
<1> QED
  BY <1>1, <1>2, PTL DEF Spec

\* No frame is answered twice and none is passed over, whatever the peer's
\* frames hold and whenever it reads the answers.
THEOREM AnsweredOnceCorrect == Spec => []AnsweredOnce
<1>1. ExchangeInv => AnsweredOnce
  BY DEF ExchangeInv, CountedInv, Handling, AnsweredOnce, Unread
<1> QED
  BY <1>1, ExchangeInvariance, PTL

\* An answer of send_products or handle_upload names matrices of its session.
THEOREM AnswersOwnSetCorrect == Spec => []AnswersOwnSet
<1>1. ExchangeInv => AnswersOwnSet
  BY DEF ExchangeInv, AnswersInv, AllName, Names, AnswersOwnSet, Unread
<1> QED
  BY <1>1, ExchangeInvariance, PTL

=============================================================================
