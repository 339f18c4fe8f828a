--------------------------- MODULE TcpStateMachine ---------------------------
(***************************************************************************)
(* The user-space TCP state machine: the frames that                       *)
(* include/usn/protocol/tcp_protocol.hpp builds and the transitions that   *)
(* include/usn/protocol/tcp_state_machine.hpp makes when one comes in.     *)
(* Both are pure functions of a connection record; the modules that extend *)
(* this one hold the connections.                                          *)
(*                                                                         *)
(* Window fields are left out.  Every connection starts with a window of   *)
(* 65535, on_window_update copies whatever the peer put on the wire, and   *)
(* the checksum that create_data stores at byte 16 replaces the low byte   *)
(* of the window only: a window never falls below 65280, and can_send      *)
(* never refuses the payloads of this system.                              *)
(***************************************************************************)
EXTENDS Integers

CONSTANT SeqMod     \* sequence numbers are uint32_t: 2^32 in the code

ASSUME SeqModAssumption == SeqMod \in Nat \ {0, 1}

TcpStates ==
    {"CLOSED", "LISTEN", "SYN_SENT", "SYN_RECEIVED", "ESTABLISHED",
     "FIN_WAIT_1", "FIN_WAIT_2", "CLOSE_WAIT", "CLOSING", "LAST_ACK",
     "TIME_WAIT"}

SeqNums == 0..(SeqMod - 1)

\* seq + n in uint32_t
Advance(seq, n) == (seq + n) % SeqMod

TcpConnections ==
    [state : TcpStates, send_seq : SeqNums, recv_seq : SeqNums,
     send_ack : SeqNums, recv_ack : SeqNums]

\* TcpConnection(), with the sequence numbers both applications then set.
NewConnection ==
    [state |-> "CLOSED", send_seq |-> 1, recv_seq |-> 1,
     send_ack |-> 0, recv_ack |-> 0]

-----------------------------------------------------------------------------
(***************************************************************************)
(* Frames.  A frame is its header fields, the length of its payload and    *)
(* the payload itself.                                                     *)
(***************************************************************************)

NoPayload == [empty |-> TRUE]

Frame(seq, ack, syn, has_ack, fin, len, payload) ==
    [seq |-> seq, ack |-> ack, syn |-> syn, has_ack |-> has_ack, fin |-> fin,
     len |-> len, payload |-> payload]

\* create_syn: no acknowledgement.
SynFrame(seq) == Frame(seq, 0, TRUE, FALSE, FALSE, 0, NoPayload)

\* create_syn_ack
SynAckFrame(seq, ack) == Frame(seq, ack, TRUE, TRUE, FALSE, 0, NoPayload)

\* An acknowledgement that is one ahead.
DataFrameAhead(conn, len, payload) ==
    Frame(conn.send_seq, conn.recv_seq + 1, FALSE, TRUE, FALSE, len, payload)

\* create_data: ACK | PSH, acknowledging recv_seq.
DataFrame(conn, len, payload) ==
    Frame(conn.send_seq, conn.recv_seq, FALSE, TRUE, FALSE, len, payload)

\* create_ack
AckFrame(conn, ack) ==
    Frame(conn.send_seq, ack, FALSE, TRUE, FALSE, 0, NoPayload)

\* create_keepalive: an ACK of send_ack.
KeepaliveFrame(conn) == AckFrame(conn, conn.send_ack)

\* create_fin
FinFrame(conn) ==
    Frame(conn.send_seq, conn.recv_seq, FALSE, TRUE, TRUE, 0, NoPayload)

-----------------------------------------------------------------------------
\* can_transition
Successors(state) ==
    CASE state = "CLOSED"       -> {"LISTEN", "SYN_SENT"}
      [] state = "LISTEN"       -> {"SYN_RECEIVED", "CLOSED"}
      [] state = "SYN_SENT"     -> {"ESTABLISHED", "CLOSED"}
      [] state = "SYN_RECEIVED" -> {"ESTABLISHED", "CLOSED"}
      [] state = "ESTABLISHED"  -> {"FIN_WAIT_1", "CLOSE_WAIT"}
      [] state = "FIN_WAIT_1"   -> {"FIN_WAIT_2", "CLOSING", "TIME_WAIT"}
      [] state = "FIN_WAIT_2"   -> {"TIME_WAIT"}
      [] state = "CLOSE_WAIT"   -> {"LAST_ACK"}
      [] state = "CLOSING"      -> {"TIME_WAIT"}
      [] state = "LAST_ACK"     -> {"CLOSED"}
      [] state = "TIME_WAIT"    -> {"CLOSED"}

\* transition_state: nothing changes when the table does not allow it.
Transition(conn, to) ==
    IF to \in Successors(conn.state) THEN [conn EXCEPT !.state = to] ELSE conn

\* initiate_close, and whether it returns true.
InitiateClose(conn) ==
    CASE conn.state = "ESTABLISHED" -> Transition(conn, "FIN_WAIT_1")
      [] conn.state = "CLOSE_WAIT"  -> Transition(conn, "LAST_ACK")
      [] OTHER                      -> conn

ClosesActively(conn) == InitiateClose(conn) # conn

-----------------------------------------------------------------------------
(***************************************************************************)
(* handle_incoming(conn, header, payload_len), last part first: each part  *)
(* hands on to the next one unless it returns.                             *)
(***************************************************************************)

\* A FIN that moves recv_seq and not what is acknowledged.
HandleFinQuiet(conn, h, len) ==
    LET c == [conn EXCEPT !.recv_seq = Advance(h.seq, len + 1)]
    IN  CASE ~h.fin                           -> conn
          [] h.fin /\ c.state = "ESTABLISHED" -> Transition(c, "CLOSE_WAIT")
          [] h.fin /\ c.state = "FIN_WAIT_1"  -> Transition(c, "CLOSING")
          [] h.fin /\ c.state = "FIN_WAIT_2"  -> Transition(c, "TIME_WAIT")
          [] OTHER                            -> c

\* The FIN part: recv_seq moves past the FIN wherever it was.
HandleFin(conn, h, len) ==
    LET end == Advance(h.seq, len)
        past == Advance(IF len > 0 /\ end = conn.recv_seq
                        THEN conn.recv_seq ELSE end, 1)
        c == [conn EXCEPT !.recv_seq = past, !.send_ack = past]
    IN  CASE ~h.fin                    -> conn
          [] h.fin /\ c.state = "ESTABLISHED" -> Transition(c, "CLOSE_WAIT")
          [] h.fin /\ c.state = "FIN_WAIT_1"  -> Transition(c, "CLOSING")
          [] h.fin /\ c.state = "FIN_WAIT_2"  -> Transition(c, "TIME_WAIT")
          [] OTHER                            -> c

\* Payload is taken although there is a hole before it.
HandlePayloadAhead(conn, h, len) ==
    LET next == Advance(h.seq, len)
    IN  CASE len > 0 /\ h.seq >= conn.recv_seq ->
               HandleFin([conn EXCEPT !.recv_seq = next, !.send_ack = next], h, len)
          [] len > 0 /\ h.seq < conn.recv_seq -> conn
          [] OTHER                            -> HandleFin(conn, h, len)

\* The payload part: in-order payload is taken, a duplicate ends the handler.
HandlePayload(conn, h, len) ==
    LET next == Advance(conn.recv_seq, len)
    IN  CASE len > 0 /\ h.seq = conn.recv_seq ->
               HandleFin([conn EXCEPT !.recv_seq = next, !.send_ack = next], h, len)
          [] len > 0 /\ h.seq < conn.recv_seq -> conn
          [] OTHER                            -> HandleFin(conn, h, len)

\* An ACK of what has been acknowledged already is not a duplicate.
HandleAckAgain(conn, h, len) ==
    LET c == [conn EXCEPT !.recv_ack = h.ack]
    IN  CASE ~h.has_ack                              -> HandlePayload(conn, h, len)
          [] h.has_ack /\ h.ack < conn.recv_ack /\ ~h.fin -> conn
          [] OTHER ->
               CASE c.state = "SYN_RECEIVED" -> Transition(c, "ESTABLISHED")
                 [] c.state = "FIN_WAIT_1" ->
                      Transition(c, IF h.fin THEN "TIME_WAIT" ELSE "FIN_WAIT_2")
                 [] c.state = "CLOSING"      -> Transition(c, "TIME_WAIT")
                 [] c.state = "LAST_ACK"     -> Transition(c, "CLOSED")
                 [] OTHER                    -> HandlePayload(c, h, len)

\* The ACK part: a duplicate ACK ends the handler unless it carries a FIN, and
\* so does every ACK that moves the state.
HandleAck(conn, h, len) ==
    LET c == [conn EXCEPT !.recv_ack = h.ack]
    IN  CASE ~h.has_ack                              -> HandlePayload(conn, h, len)
          [] h.has_ack /\ h.ack <= conn.recv_ack /\ ~h.fin -> conn
          [] OTHER ->
               CASE c.state = "SYN_RECEIVED" -> Transition(c, "ESTABLISHED")
                 [] c.state = "FIN_WAIT_1" ->
                      Transition(c, IF h.fin THEN "TIME_WAIT" ELSE "FIN_WAIT_2")
                 [] c.state = "CLOSING"      -> Transition(c, "TIME_WAIT")
                 [] c.state = "LAST_ACK"     -> Transition(c, "CLOSED")
                 [] OTHER                    -> HandlePayload(c, h, len)

\* The SYN part: recv_seq is set in every state, the handshake moves on in two.
HandleIncoming(conn, h, len) ==
    LET c == IF h.syn THEN [conn EXCEPT !.recv_seq = Advance(h.seq, 1)] ELSE conn
    IN  CASE h.syn /\ c.state = "LISTEN" ->
               Transition([c EXCEPT !.send_ack = c.recv_seq], "SYN_RECEIVED")
          [] h.syn /\ c.state = "SYN_SENT" /\ h.has_ack ->
               Transition([c EXCEPT !.send_ack = h.ack], "ESTABLISHED")
          [] OTHER -> HandleAck(c, h, len)
=============================================================================
