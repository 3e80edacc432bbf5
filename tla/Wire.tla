-------------------------------- MODULE Wire --------------------------------
(***************************************************************************)
(* The connections between clients and the server: one TCP stream each,    *)
(* used through Read and Write (emvp-network).  The socket itself is the   *)
(* operating system's; it is modelled from how the code uses it:           *)
(*                                                                         *)
(*   - a write blocks while the receiver's buffer is full, so a frame      *)
(*     longer than the buffer is only ever partly in flight;               *)
(*   - a read blocks while the buffer is empty and returns end of stream   *)
(*     once the other end closed and everything sent was read;             *)
(*   - closing an end that still has unread bytes, or writing to a closed  *)
(*     end, may reset the connection: both buffers are discarded, reads    *)
(*     and writes fail from then on.                                       *)
(*                                                                         *)
(* A frame is a header token and the Parts tokens of its payload.          *)
(***************************************************************************)
EXTENDS Naturals, Sequences

CONSTANTS
  Conns,    \* the connections, one session thread and one client each
  Window,   \* bound: the tokens a receive buffer holds
  Parts     \* bound: the payload tokens of every frame

ASSUME WireAssumption == Window \in Nat \ {0} /\ Parts \in Nat \ {0}

VARIABLE net   \* net[c]: which ends are open, what each has to read, the reset

Sides == {"client", "server"}

Other(s) == IF s = "client" THEN "server" ELSE "client"

Connected == [open  |-> [s \in Sides |-> TRUE],
              inbox |-> [s \in Sides |-> <<>>],
              reset |-> FALSE]

NetInit == net = [c \in Conns |-> Connected]

Discarded(n) == [n EXCEPT !.reset = TRUE, !.inbox = [s \in Sides |-> <<>>]]

Payload == [part |-> "payload"]

\* A frame as it is written: the header, then the payload.
Frame(header) == <<header>> \o [i \in 1 .. Parts |-> Payload]

-----------------------------------------------------------------------------
Unread(c, s) == net[c].inbox[s]

Sends(c, s, token) ==
  /\ ~net[c].reset
  /\ \/ /\ net[c].open[Other(s)]
        /\ Len(Unread(c, Other(s))) < Window
        /\ net' = [net EXCEPT ![c].inbox[Other(s)] = Append(@, token)]
     \/ /\ ~net[c].open[Other(s)]
        /\ net' \in {net, [net EXCEPT ![c] = Discarded(@)]}

SendFails(c) == net[c].reset

Receives(c, s, token) ==
  /\ Unread(c, s) # <<>>
  /\ token = Head(Unread(c, s))
  /\ net' = [net EXCEPT ![c].inbox[s] = Tail(@)]

EndOfStream(c, s) ==
  /\ Unread(c, s) = <<>>
  /\ ~net[c].open[Other(s)]
  /\ ~net[c].reset

ReadFails(c) == net[c].reset

Closes(c, s) ==
  LET closed == [net[c] EXCEPT !.open[s] = FALSE, !.inbox[s] = <<>>]
  IN  \/ net' = [net EXCEPT ![c] = closed]
      \/ /\ Unread(c, s) # <<>>
         /\ net' = [net EXCEPT ![c] = Discarded(closed)]

=============================================================================
