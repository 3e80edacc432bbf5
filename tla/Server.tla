------------------------------- MODULE Server -------------------------------
(***************************************************************************)
(* The session threads of the server: server/src/session.rs, one           *)
(* serve_connection per connection over one shared AnswerEngine, with the  *)
(* handshake (emvp-network/src/handshake.rs) and the frame reader under    *)
(* them.  Who is at the other end is left to the modules that extend this  *)
(* one: ClientServer has the client program there, Peers anyone who frames *)
(* correctly.                                                              *)
(*                                                                         *)
(* The engine's budget is taken and given back in single steps: Residency  *)
(* shows the retry loop to implement that.  An upload carries a set of     *)
(* matrices, and each gets its place in the upload for an identifier: small *)
(* numbers, the same in every session.  An evaluation is a set of entries, *)
(* each an identifier with the matrix its queries were encrypted for.  The *)
(* error paths the code itself calls unreachable after validation          *)
(* (ErrorCode::Internal in handle_evaluate and send_products, the view and *)
(* copy mismatches of handle_upload) are left out.                         *)
(***************************************************************************)
EXTENDS Wire, Footprint

CONSTANTS
  MaxBytes,   \* --max-gpu-bytes
  Place       \* Place[m]: the place of m, from 1, in the uploads that carry it

ASSUME ServerAssumption ==
  /\ MaxBytes \in 0 .. (U64 - 1)
  /\ Place \in [Matrices -> Nat \ {0}]

\* What an upload can be: its matrices take the places from 1 on.
Placed(set) ==
  /\ \A m \in set : Place[m] \in 1 .. Cardinality(set)
  /\ \A m, n \in set : Place[m] = Place[n] => m = n

\* A set of matrices, each with the identifier it gets.
Entries(set) == { <<Place[m], m>> : m \in set }

VARIABLES
  pc,        \* pc[c]: where the session thread is
  request,   \* request[c]: the frame being handled
  left,      \* left[c]: FrameReader::remaining, in payload tokens
  reply,     \* reply[c]: what is being written, and where the thread goes then
  fate,      \* fate[c]: the result of serve_connection, once decided
  loaded,    \* loaded[c]: Session::phase is Loaded
  stored,    \* stored[c]: the handles the session owns
  charged    \* the matrices whose bytes count against the budget

server == <<pc, request, left, reply, fate, loaded, stored, charged>>

Kinds == {"UploadMatrices", "Evaluate", "UploadAccepted", "Products", "Error", "unknown"}

\* A request header.  "malformed" is a payload the codec rejects, "invalid" one
\* that decodes and fails validation; set is the matrices an upload carries,
\* entries what an evaluation asks.
Request(kind, content, set, entries) ==
  [part |-> "header", kind |-> kind, content |-> content, set |-> set, entries |-> entries]

Hello(content) == [part |-> "hello", content |-> content]
Status(ok) == [part |-> "status", ok |-> ok]
Answer(kind, entries) == [part |-> "header", kind |-> kind, entries |-> entries]
ErrorFrame(code) == [part |-> "header", kind |-> "Error", code |-> code]

NoRequest == Request("unknown", "good", {}, {})
NoReply == [kind |-> "none", tokens |-> <<>>, then |-> "header"]

ServerInit ==
  /\ pc = [c \in Conns |-> "hello"]
  /\ request = [c \in Conns |-> NoRequest]
  /\ left = [c \in Conns |-> 0]
  /\ reply = [c \in Conns |-> NoReply]
  /\ fate = [c \in Conns |-> "none"]
  /\ loaded = [c \in Conns |-> FALSE]
  /\ stored = [c \in Conns |-> {}]
  /\ charged = {}

-----------------------------------------------------------------------------
(* How a handler ends: it writes something and goes on, or ends the session *)
(* with the result f.  The session's matrices are dropped before the stream *)
(* is, which belongs to the caller of serve_connection.                     *)

Replies(c, kind, tokens, then) ==
  /\ reply' = [reply EXCEPT ![c] = [kind |-> kind, tokens |-> tokens, then |-> then]]
  /\ pc' = [pc EXCEPT ![c] = "writing"]

\* send_error, and Outcome::Continue.
Rejects(c, code) ==
  /\ Replies(c, "error", Frame(ErrorFrame(code)), "header")
  /\ UNCHANGED fate

\* send_error, and Outcome::Close or the return of serve_connection.
RejectsAndCloses(c, code, f) ==
  /\ Replies(c, "error", Frame(ErrorFrame(code)), "drop")
  /\ fate' = [fate EXCEPT ![c] = f]

Ends(c, f) ==
  /\ pc' = [pc EXCEPT ![c] = "drop"]
  /\ fate' = [fate EXCEPT ![c] = f]
  /\ UNCHANGED reply

-----------------------------------------------------------------------------
(* server_handshake *)

ReadHello(c) ==
  /\ pc[c] = "hello"
  /\ \E content \in {"good", "foreign", "magic"} :
       /\ Receives(c, "server", Hello(content))
       /\ \/ /\ content = "good"
             /\ Replies(c, "status", <<Status(TRUE)>>, "header")
             /\ UNCHANGED fate
          \/ /\ content = "foreign"   \* a version or a modulus it does not speak
             /\ Replies(c, "status", <<Status(FALSE)>>, "drop")
             /\ fate' = [fate EXCEPT ![c] = "handshake"]
          \/ /\ content = "magic"     \* no status byte for a foreign magic
             /\ Ends(c, "handshake")
  /\ UNCHANGED <<request, left, loaded, stored, charged>>

HelloFails(c) ==
  /\ pc[c] = "hello"
  /\ EndOfStream(c, "server") \/ ReadFails(c)
  /\ Ends(c, "handshake")
  /\ UNCHANGED <<net, request, left, loaded, stored, charged>>

-----------------------------------------------------------------------------
(* read_frame_header and handle_frame *)

\* Mutant of TakesPayload: the phase is not looked at.
TakesPayloadAnyPhase(c, kind) == kind \in {"UploadMatrices", "Evaluate"}

\* The one upload of an empty session, or an evaluation of a loaded one.
TakesPayload(c, kind) ==
  \/ kind = "UploadMatrices" /\ ~loaded[c]
  \/ kind = "Evaluate" /\ loaded[c]

\* The answer to a header whose payload is not read.
Refusal(kind) ==
  CASE kind = "UploadMatrices" -> <<"AlreadyLoaded", "ok">>
    [] kind = "Evaluate"       -> <<"NotLoaded", "ok">>
    [] kind = "unknown"        -> <<"UnknownFrameKind", "transport">>
    [] OTHER                   -> <<"UnexpectedFrame", "transport">>

ReadHeader(c) ==
  /\ pc[c] = "header"
  /\ Unread(c, "server") # <<>>
  /\ LET header == Head(Unread(c, "server"))
     IN  /\ header.part = "header"
         /\ Receives(c, "server", header)
         /\ request' = [request EXCEPT ![c] = header]
         /\ \/ /\ TakesPayload(c, header.kind)
               /\ left' = [left EXCEPT ![c] = Parts]
               /\ pc' = [pc EXCEPT ![c] = "payload"]
               /\ UNCHANGED <<reply, fate>>
            \/ /\ ~TakesPayload(c, header.kind)
               /\ LET refusal == Refusal(header.kind)
                  IN  RejectsAndCloses(c, refusal[1], refusal[2])
               /\ UNCHANGED left
  /\ UNCHANGED <<loaded, stored, charged>>

\* Mutant of HeaderEnds: a clean end of stream is not noticed.
HeaderEndsOnReset(c) ==
  /\ pc[c] = "header"
  /\ ReadFails(c)
  /\ Ends(c, "transport")
  /\ UNCHANGED <<net, request, left, loaded, stored, charged>>

\* A clean end of stream is Ok, a transport failure is not answered.
HeaderEnds(c) ==
  /\ pc[c] = "header"
  /\ \/ EndOfStream(c, "server") /\ Ends(c, "ok")
     \/ ReadFails(c) /\ Ends(c, "transport")
  /\ UNCHANGED <<net, request, left, loaded, stored, charged>>

-----------------------------------------------------------------------------
(* read_upload and read_evaluate: plan, reserve, decode, finish *)

\* Mutant of ReadPart: a decoded frame is not checked to be finished.
ReadPartUnfinished(c) ==
  /\ pc[c] = "payload"
  /\ Receives(c, "server", Payload)
  /\ left' = [left EXCEPT ![c] = @ - 1]
  /\ pc' = [pc EXCEPT ![c] = "decoded"]
  /\ UNCHANGED <<request, reply, fate, loaded, stored, charged>>

ReadPart(c) ==
  /\ pc[c] = "payload"
  /\ Receives(c, "server", Payload)
  /\ left' = [left EXCEPT ![c] = @ - 1]
  /\ \/ /\ left[c] > 1
        /\ UNCHANGED <<pc, reply, fate>>
     \/ /\ left[c] = 1
        /\ request[c].content # "malformed"
        /\ pc' = [pc EXCEPT ![c] = "decoded"]
        /\ UNCHANGED <<reply, fate>>
     \/ /\ request[c].content = "malformed"
        /\ RejectsAndCloses(c, "Codec", "transport")
  /\ UNCHANGED <<request, loaded, stored, charged>>

\* A workspace refuses to grow to the plan, which the first part carried.
ReserveFails(c) ==
  /\ pc[c] = "payload"
  /\ left[c] \in 1 .. (Parts - 1)
  /\ RejectsAndCloses(c, "AllocationFailed", "transport")
  /\ UNCHANGED <<net, request, left, loaded, stored, charged>>

\* The stream ends or fails inside the payload: both are answered.
PayloadEnds(c) ==
  /\ pc[c] = "payload"
  /\ \/ EndOfStream(c, "server") /\ RejectsAndCloses(c, "TruncatedFrame", "transport")
     \/ ReadFails(c) /\ RejectsAndCloses(c, "Internal", "transport")
  /\ UNCHANGED <<net, request, left, loaded, stored, charged>>

-----------------------------------------------------------------------------
(* handle_upload, after the frame is decoded *)

\* Mutant of Admits: the set is held against an empty budget.
AdmitsAlone(set) == Footprint(set) <= MaxBytes

\* The set fits beside everything charged: reserve_budget succeeds.
Admits(set) == Footprint(charged \cup set) <= MaxBytes

\* Mutant of UploadRefused: the bytes are taken before the staging that fails
\* and are left to the session's end.
UploadRefusedLate(c) ==
  /\ pc[c] = "decoded"
  /\ request[c].kind = "UploadMatrices"
  /\ Admits(request[c].set)
  /\ charged' = charged \cup request[c].set
  /\ stored' = [stored EXCEPT ![c] = request[c].set]
  /\ RejectsAndCloses(c, "UploadFailed", "ok")
  /\ UNCHANGED <<net, request, left, loaded>>

UploadRefused(c) ==
  /\ pc[c] = "decoded"
  /\ request[c].kind = "UploadMatrices"
  /\ \/ request[c].content = "invalid" /\ RejectsAndCloses(c, "InvalidRequest", "ok")
     \/ /\ request[c].content = "good"   \* a staging slot allocation is refused
        /\ RejectsAndCloses(c, "UploadFailed", "ok")
     \/ /\ request[c].content = "good"
        /\ ~Admits(request[c].set)
        /\ RejectsAndCloses(c, "UploadFailed", "ok")
  /\ UNCHANGED <<net, request, left, loaded, stored, charged>>

ReserveSet(c) ==
  /\ pc[c] = "decoded"
  /\ request[c].kind = "UploadMatrices"
  /\ request[c].content = "good"
  /\ Admits(request[c].set)
  /\ charged' = charged \cup request[c].set
  /\ pc' = [pc EXCEPT ![c] = "commit"]
  /\ UNCHANGED <<net, request, left, reply, fate, loaded, stored>>

\* Mutant of CommitSucceeds: the set is loaded and the answer forgotten.
CommitSucceedsSilently(c) ==
  /\ pc[c] = "commit"
  /\ loaded' = [loaded EXCEPT ![c] = TRUE]
  /\ stored' = [stored EXCEPT ![c] = request[c].set]
  /\ pc' = [pc EXCEPT ![c] = "header"]
  /\ UNCHANGED <<net, request, left, reply, fate, charged>>

\* load_matrices_and_reply: the identifiers are counted from one, and the phase
\* is Loaded before the answer is written.
CommitSucceeds(c) ==
  /\ pc[c] = "commit"
  /\ loaded' = [loaded EXCEPT ![c] = TRUE]
  /\ stored' = [stored EXCEPT ![c] = request[c].set]
  /\ \/ /\ Replies(c, "answer", Frame(Answer("UploadAccepted", Entries(request[c].set))), "header")
        /\ UNCHANGED fate
     \/ RejectsAndCloses(c, "AllocationFailed", "transport")
  /\ UNCHANGED <<net, request, left, charged>>

\* Mutant of CommitFails: the stream is closed without the error.
CommitFailsSilently(c) ==
  /\ pc[c] = "commit"
  /\ charged' = charged \ request[c].set
  /\ Ends(c, "upload")
  /\ UNCHANGED <<net, request, left, loaded, stored>>

\* A device upload fails inside prepare_committed.  Everything is dropped
\* before the error is written, except what Residency shows to leak: the
\* bytes of the matrices behind the one that failed.
CommitFails(c) ==
  /\ pc[c] = "commit"
  /\ \E behind \in SUBSET request[c].set :
       /\ behind # request[c].set
       /\ charged' = charged \ (request[c].set \ behind)
  /\ RejectsAndCloses(c, "UploadFailed", "upload")
  /\ UNCHANGED <<net, request, left, loaded, stored>>

-----------------------------------------------------------------------------
(* handle_evaluate, after the frame is decoded *)

\* Mutant of Known: one map of identifiers for all sessions.
KnownToAny(c) == charged

\* The matrices of the session's own phase.
Known(c) == stored[c]

\* Phase::info and Phase::matrix: what an identifier stands for.
Matrix(c, id) == CHOOSE m \in Known(c) : Place[m] = id

\* prepare_evaluate: every entry names a known matrix of its own, and its
\* queries are well-formed and were encrypted for that matrix.
Valid(c) ==
  /\ request[c].content = "good"
  /\ request[c].entries # {}
  /\ \A e, f \in request[c].entries : e[1] = f[1] => e = f
  /\ \A e \in request[c].entries :
       /\ \E m \in Known(c) : Place[m] = e[1]
       /\ Matrix(c, e[1]) = e[2]

\* The answers carry the identifier asked and the matrix it was looked up to.
Products(c) == { <<e[1], Matrix(c, e[1])>> : e \in request[c].entries }

\* Mutant of EvaluateInvalid: the session goes on without an answer.
EvaluateInvalidSilently(c) ==
  /\ pc[c] = "decoded"
  /\ request[c].kind = "Evaluate"
  /\ ~Valid(c)
  /\ pc' = [pc EXCEPT ![c] = "header"]
  /\ UNCHANGED <<net, request, left, reply, fate, loaded, stored, charged>>

EvaluateInvalid(c) ==
  /\ pc[c] = "decoded"
  /\ request[c].kind = "Evaluate"
  /\ ~Valid(c)
  /\ Rejects(c, "InvalidRequest")
  /\ UNCHANGED <<net, request, left, loaded, stored, charged>>

EngineAnswers(c) ==
  /\ pc[c] = "decoded"
  /\ request[c].kind = "Evaluate"
  /\ Valid(c)
  /\ Replies(c, "answer", Frame(Answer("Products", Products(c))), "header")
  /\ UNCHANGED <<net, request, left, fate, loaded, stored, charged>>

\* plan, reserve or execute fails.
EngineFails(c) ==
  /\ pc[c] = "decoded"
  /\ request[c].kind = "Evaluate"
  /\ Valid(c)
  /\ RejectsAndCloses(c, "GpuFailure", "engine")
  /\ UNCHANGED <<net, request, left, loaded, stored, charged>>

-----------------------------------------------------------------------------
(* Writing, and the end of the session. *)

Write(c) ==
  /\ pc[c] = "writing"
  /\ \/ /\ reply[c].tokens # <<>>
        /\ Sends(c, "server", Head(reply[c].tokens))
        /\ reply' = [reply EXCEPT ![c].tokens = Tail(@)]
        /\ UNCHANGED pc
     \/ /\ reply[c].tokens = <<>>
        /\ pc' = [pc EXCEPT ![c] = reply[c].then]
        /\ reply' = [reply EXCEPT ![c] = NoReply]
        /\ UNCHANGED net
  /\ UNCHANGED <<request, left, fate, loaded, stored, charged>>

\* A failed send_error is ignored; any other failed write ends the session.
WriteFails(c) ==
  /\ pc[c] = "writing"
  /\ reply[c].tokens # <<>>
  /\ SendFails(c)
  /\ reply' = [reply EXCEPT ![c] = NoReply]
  /\ \/ /\ reply[c].kind = "error"
        /\ pc' = [pc EXCEPT ![c] = reply[c].then]
        /\ UNCHANGED fate
     \/ /\ reply[c].kind # "error"
        /\ pc' = [pc EXCEPT ![c] = "drop"]
        /\ fate' = [fate EXCEPT ![c] = IF reply[c].kind = "status" THEN "handshake"
                                                                   ELSE "transport"]
  /\ UNCHANGED <<net, request, left, loaded, stored, charged>>

\* The session is dropped, and with it its handles, one after the other.
DropMatrix(c, m) ==
  /\ pc[c] = "drop"
  /\ m \in stored[c]
  /\ stored' = [stored EXCEPT ![c] = @ \ {m}]
  /\ charged' = charged \ {m}
  /\ UNCHANGED <<net, pc, request, left, reply, fate, loaded>>

\* Mutant of CloseStream: the stream is closed before the session is dropped.
CloseStreamFirst(c) ==
  /\ pc[c] = "drop"
  /\ net[c].open["server"]
  /\ Closes(c, "server")
  /\ pc' = [pc EXCEPT ![c] = IF stored[c] = {} THEN "closed" ELSE "drop"]
  /\ UNCHANGED <<request, left, reply, fate, loaded, stored, charged>>

CloseStream(c) ==
  /\ pc[c] = "drop"
  /\ stored[c] = {}
  /\ Closes(c, "server")
  /\ pc' = [pc EXCEPT ![c] = "closed"]
  /\ UNCHANGED <<request, left, reply, fate, loaded, stored, charged>>

ServerStep(c) ==
  \/ ReadHello(c) \/ HelloFails(c)
  \/ ReadHeader(c) \/ HeaderEnds(c)
  \/ ReadPart(c) \/ ReserveFails(c) \/ PayloadEnds(c)
  \/ UploadRefused(c) \/ ReserveSet(c) \/ CommitSucceeds(c) \/ CommitFails(c)
  \/ EvaluateInvalid(c) \/ EngineAnswers(c) \/ EngineFails(c)
  \/ Write(c) \/ WriteFails(c)
  \/ \E m \in Matrices : DropMatrix(c, m)
  \/ CloseStream(c)

-----------------------------------------------------------------------------
(* Properties of the server, whoever is at the other end. *)

ServerTypeOK ==
  /\ pc \in [Conns -> {"hello", "header", "payload", "decoded", "commit",
                       "writing", "drop", "closed"}]
  /\ left \in [Conns -> 0 .. Parts]
  /\ fate \in [Conns -> {"none", "ok", "handshake", "transport", "upload", "engine"}]
  /\ loaded \in [Conns -> BOOLEAN]
  /\ stored \in [Conns -> SUBSET Matrices]
  /\ charged \subseteq Matrices
  /\ \A c \in Conns :
       /\ request[c].kind \in Kinds
       /\ reply[c].kind \in {"none", "status", "error", "answer"}
       /\ reply[c].then \in {"header", "drop"}

\* The server takes bytes for a header only where its peer began a frame:
\* every path that goes on to the next header has read the payload of the
\* last one to its end, and every path that leaves payload unread closes.
FrameAligned ==
  \A c \in Conns :
    Unread(c, "server") # <<>> =>
      LET next == Head(Unread(c, "server"))
      IN  /\ pc[c] = "header"  => next.part = "header"
          /\ pc[c] = "payload" => next.part = "payload"

\* The bytes of a set are charged for one session at a time, for as long as
\* it may evaluate on the set; together they stay within the budget.
SessionsCharged ==
  /\ \A c \in Conns : stored[c] \subseteq charged
  /\ \A c \in Conns : pc[c] = "commit" => request[c].set \subseteq charged
  /\ \A c, d \in Conns : c # d => stored[c] \cap stored[d] = {}
  /\ Footprint(charged) <= MaxBytes

\* When a peer sees the stream end, the matrices of its session are gone from
\* the budget ("in both cases every resource the session held has been
\* released"), unless the device failed during their upload.
ClosedReleased ==
  \A c \in Conns :
    ~net[c].open["server"] =>
      /\ stored[c] = {}
      /\ request[c].kind = "UploadMatrices" /\ fate[c] # "upload" =>
           request[c].set \cap charged = {}

\* The load-once machine: a session gets its matrices in one step, keeps
\* exactly those until it is dropped, and never goes back to Empty.
LoadOnce ==
  [][ \A c \in Conns :
        /\ stored'[c] # stored[c] =>
             \/ ~loaded[c] /\ loaded'[c] /\ stored[c] = {}
             \/ pc[c] = "drop" /\ stored'[c] \subseteq stored[c]
        /\ loaded[c] => loaded'[c] ]_<<net, server>>

=============================================================================
