---------------------------- MODULE TcpEndpoints ----------------------------
(***************************************************************************)
(* Two connections of the user-space TCP against each other: handshake,    *)
(* data, keepalives and close, every frame handled by handle_incoming.     *)
(* The close is that of order_client.cpp and order_gateway.cpp.  No        *)
(* program of the repository runs the handshake: the program that does is  *)
(* external, and its ACK is built as every ACK of the repository is, with  *)
(* create_ack(conn, conn.send_ack).                                        *)
(*                                                                         *)
(* The network (external) is either a pair of lines that keep the order    *)
(* and lose nothing, or a soup from which a frame may be taken in any      *)
(* order, many times, or never.                                            *)
(***************************************************************************)
EXTENDS TcpStateMachine, Sequences

CONSTANTS
    Isn,            \* the first sequence number of each side
    Settings        \* the settings considered, as records: the network, whether
                    \* the sides send keepalives, and how many data frames of
                    \* one byte each of them sends at most

Ends == {"opener", "listener"}
Peer(e) == IF e = "opener" THEN "listener" ELSE "opener"

ASSUME SettingsAssumption ==
    /\ Settings \subseteq [network : {"fifo", "soup"}, idles : BOOLEAN, data : Nat]
    /\ Isn \in [Ends -> SeqNums]
    \* nothing wraps: a SYN, the data and a FIN fit above the first number
    /\ \A s \in Settings, e \in Ends : Isn[e] + s.data + 2 < SeqMod

VARIABLES
    setting,            \* the setting of this behaviour
    conn,               \* the TcpConnection of each side
    line,               \* fifo: the frames on their way to each side
    soup,               \* soup: every frame ever sent to each side
    sent,               \* how many data frames each side has sent
    taken,              \* history: the payloads each side has taken, up to a
                        \* SYN that sets its recv_seq back
    finned,             \* history: the side has sent its FIN
    resyn,              \* history: a SYN reached the side after its handshake
    refin               \* history: a FIN reached the side a second time

history == <<taken, finned, resyn, refin>>
vars == <<setting, conn, line, soup, sent, history>>

Init ==
    /\ setting \in Settings
    /\ conn = [e \in Ends |->
                 [state |-> IF e = "opener" THEN "CLOSED" ELSE "LISTEN",
                  send_seq |-> Isn[e], recv_seq |-> 0, send_ack |-> 0,
                  recv_ack |-> 0]]
    /\ line = [e \in Ends |-> <<>>] /\ soup = [e \in Ends |-> {}]
    /\ sent = [e \in Ends |-> 0] /\ taken = [e \in Ends |-> <<>>]
    /\ finned = [e \in Ends |-> FALSE]
    /\ resyn = [e \in Ends |-> FALSE] /\ refin = [e \in Ends |-> FALSE]

\* The frames fs go from e to its peer; rest is what stays on e's own line.
Transmit(e, fs, rest) ==
    IF setting.network = "fifo"
    THEN /\ line' = [line EXCEPT ![Peer(e)] = @ \o fs, ![e] = rest]
         /\ UNCHANGED soup
    ELSE /\ soup' = [soup EXCEPT ![Peer(e)] = @ \cup {fs[i] : i \in 1..Len(fs)}]
         /\ UNCHANGED line

\* conn after a frame that takes n sequence numbers has been built from it
Sent(c, n) == [c EXCEPT !.send_seq = Advance(@, n)]

-----------------------------------------------------------------------------
\* A program opens the connection: create_syn, SYN_SENT, send_seq += 1.
Open ==
    LET e == "opener"
        c == Transition(conn[e], "SYN_SENT")
    IN  /\ conn[e].state = "CLOSED" /\ conn[e].send_seq = Isn[e]
        /\ Transmit(e, <<SynFrame(c.send_seq)>>, line[e])
        /\ conn' = [conn EXCEPT ![e] = Sent(c, 1)]
        /\ UNCHANGED <<setting, sent, history>>

SendData(e) ==
    /\ conn[e].state = "ESTABLISHED" /\ sent[e] < setting.data
    /\ Transmit(e, <<DataFrame(conn[e], 1, sent[e] + 1)>>, line[e])
    /\ conn' = [conn EXCEPT ![e] = Sent(@, 1)]
    /\ sent' = [sent EXCEPT ![e] = @ + 1]
    /\ UNCHANGED <<setting, history>>

\* At most one keepalive waits on a line.
SendKeepalive(e) ==
    LET f == KeepaliveFrame(conn[e])
    IN  /\ setting.idles /\ conn[e].state = "ESTABLISHED"
        /\ \A i \in 1..Len(line[Peer(e)]) : line[Peer(e)][i] # f
        /\ Transmit(e, <<f>>, line[e])
        /\ UNCHANGED <<setting, conn, sent, history>>

\* initiate_close, create_fin, send_seq += 1
Close(e) ==
    LET c == InitiateClose(conn[e])
    IN  /\ ClosesActively(conn[e])
        /\ Transmit(e, <<FinFrame(c)>>, line[e])
        /\ conn' = [conn EXCEPT ![e] = Sent(c, 1)]
        /\ finned' = [finned EXCEPT ![e] = TRUE]
        /\ UNCHANGED <<setting, sent, taken, resyn, refin>>

-----------------------------------------------------------------------------
\* The handshake was completed by this frame.
Shakes(was, c) == was.state \in {"LISTEN", "SYN_SENT"} /\ c.state # was.state

\* The handshake goes on: a SYN is answered by a SYN-ACK, and that by an ACK.
ShakeAnswers(was, c) ==
    IF was.state = "LISTEN" THEN <<SynAckFrame(c.send_seq, c.send_ack)>>
                            ELSE <<AckFrame(c, c.send_ack)>>

\* A FIN is answered by an ACK and, in CLOSE_WAIT, by the side's own FIN.
CloseAnswers(c) ==
    IF c.state = "CLOSE_WAIT"
    THEN <<AckFrame(c, c.send_ack), FinFrame(InitiateClose(c))>>
    ELSE <<AckFrame(c, c.send_ack)>>

\* The frames sent in answer to h, which took the connection from was to c.
Answers(was, c, h) ==
    IF h.syn /\ Shakes(was, c) THEN ShakeAnswers(was, c)
    ELSE IF h.fin THEN CloseAnswers(c) ELSE <<>>

\* A side that sees the other close closes as well.
Follows(c, h) == h.fin /\ c.state = "CLOSE_WAIT"

\* The states in which the peer's FIN has been received
HasFin(c) == c.state \in {"CLOSE_WAIT", "LAST_ACK", "CLOSING", "TIME_WAIT", "CLOSED"}

Handle(e, h, rest) ==
    LET was == conn[e]
        c == HandleIncoming(was, h, h.len)
        final == CASE h.syn /\ Shakes(was, c) /\ was.state = "LISTEN" -> Sent(c, 1)
                   [] Follows(c, h) -> Sent(InitiateClose(c), 1)
                   [] OTHER -> c
    IN  /\ conn' = [conn EXCEPT ![e] = final]
        /\ Transmit(e, Answers(was, c, h), rest)
        /\ taken' = [taken EXCEPT ![e] =
                        IF h.len > 0 /\ c.recv_seq # was.recv_seq /\ ~resyn[e]
                        THEN Append(@, h.payload) ELSE @]
        /\ finned' = [finned EXCEPT ![e] = @ \/ Follows(c, h)]
        /\ resyn' = [resyn EXCEPT ![e] =
                        @ \/ (h.syn /\ was.state \notin {"LISTEN", "SYN_SENT"})]
        /\ refin' = [refin EXCEPT ![e] = @ \/ (h.fin /\ HasFin(was))]
        /\ UNCHANGED <<setting, sent>>

Receive(e) ==
    \/ line[e] # <<>> /\ Handle(e, Head(line[e]), Tail(line[e]))
    \/ \E h \in soup[e] : Handle(e, h, line[e])

Next ==
    \/ Open
    \/ \E e \in Ends : \/ SendData(e) \/ SendKeepalive(e) \/ Close(e) \/ Receive(e)

\* A line that keeps the order delivers what is on it; the other network owes
\* nobody a delivery.
Deliver(e) == line[e] # <<>> /\ Receive(e)

Spec == Init /\ [][Next]_vars /\ \A e \in Ends : WF_vars(Deliver(e))

-----------------------------------------------------------------------------
(* Properties                                                              *)

\* No SYN has set a recv_seq back.
NoLateSyn == \A e \in Ends : ~resyn[e]

\* Whatever the network loses, repeats or reorders, a side takes the payloads
\* in order and each once - a FIN that overtakes data ends the sequence and does
\* not tear it - unless a late SYN sets recv_seq back (tcp_state_machine.hpp
\* handle_incoming).
TakenInOrder ==
    \A e \in Ends : ~resyn[e] => \A i \in 1..Len(taken[e]) : taken[e][i] = i

\* What the opener acknowledges before it has taken anything is its own number
\* (handle_incoming, SYN_SENT: send_ack = ack_num).  To the listener it is an old
\* acknowledgement unless the opener's numbers are ahead of the listener's.
OwnNumberIsOld(e) == e = "listener" => Isn["opener"] <= Isn["listener"]

\* Before it sends its FIN, a side has been told of no more payloads than its
\* peer has taken.
ToldWhatIsTaken(e) ==
    (~finned[e] /\ NoLateSyn) => conn[e].recv_ack - Isn[e] - 1 <= Len(taken[Peer(e)])

\* No acknowledgement runs ahead of the data, whatever is lost, repeated or
\* overtaken, keepalives or not, where the opener's own number is an old one
\* (handle_incoming, create_ack, create_data).
AckedIsTaken == \A e \in Ends : OwnNumberIsOld(e) => ToldWhatIsTaken(e)

\* A side that closed after LAST_ACK closed because its peer has its FIN: no
\* delayed frame of data, no old ACK and no keepalive is taken for the last one.
\* A second FIN is (handle_incoming, the exception for FIN in the test for
\* duplicates), and so is the opener's own number where it is not an old one.
ClosedIsHeard ==
    \A e \in Ends :
        (/\ conn[e].state = "CLOSED" /\ finned[e]
         /\ OwnNumberIsOld(e) /\ ~refin[e] /\ NoLateSyn)
            => HasFin(conn[Peer(e)])

Over(e) == conn[e].state \in {"TIME_WAIT", "CLOSED"}

\* On lines that keep the order, a close by either side or by both ends both
\* connections, data and keepalives on their way or not, where the opener's own
\* number is an old one (handle_incoming, initiate_close).
EndsTogether ==
    \A e \in Ends :
        (setting.network = "fifo" /\ OwnNumberIsOld("listener") /\ finned[e])
            ~> \A f \in Ends : Over(f)
=============================================================================
