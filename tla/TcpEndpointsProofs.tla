------------------------- MODULE TcpEndpointsProofs -------------------------
(***************************************************************************)
(* Proofs about TcpEndpoints: payloads are taken in order and each once,   *)
(* no acknowledgement runs ahead of the data, and a side that closes after *)
(* LAST_ACK is heard, for every network, every first sequence number and   *)
(* every amount of data that does not wrap.                                *)
(***************************************************************************)
EXTENDS TcpEndpoints, SequenceTheorems, TLAPS

-----------------------------------------------------------------------------
(* The inductive invariant                                                 *)

FrameRecords ==
    [seq : SeqNums, ack : SeqNums, syn : BOOLEAN, has_ack : BOOLEAN,
     fin : BOOLEAN, len : {0, 1}, payload : Nat \cup {NoPayload}]

TypeOK ==
    /\ setting \in Settings
    /\ conn \in [Ends -> TcpConnections]
    /\ line \in [Ends -> Seq(FrameRecords)]
    /\ soup \in [Ends -> SUBSET FrameRecords]
    /\ sent \in [Ends -> Nat]
    /\ taken \in [Ends -> Seq(Nat)]
    /\ finned \in [Ends -> BOOLEAN]
    /\ resyn \in [Ends -> BOOLEAN]
    /\ refin \in [Ends -> BOOLEAN]

\* The frames that may still reach e
Frames(e) == soup[e] \cup {line[e][i] : i \in 1..Len(line[e])}

\* e has sent nothing yet; e has seen the SYN of its peer.
Fresh(e) == conn[e].state \in {"CLOSED", "LISTEN"} /\ ~finned[e]
Shaken(e) == ~Fresh(e) /\ conn[e].state # "SYN_SENT"

\* The states after the FIN of the side itself
Closing == {"FIN_WAIT_1", "FIN_WAIT_2", "CLOSING", "LAST_ACK", "TIME_WAIT"}

\* The state of a side against what it has sent
EndInv(e) ==
    /\ conn[e].state \in Closing => finned[e]
    /\ finned[e] => conn[e].state \in Closing \cup {"CLOSED"}
    /\ conn[e].state # "CLOSE_WAIT"
    /\ e = "opener" => conn[e].state \notin {"LISTEN", "SYN_RECEIVED"}
    /\ e = "listener" => /\ conn[e].state # "SYN_SENT"
                         /\ conn[e].state = "CLOSED" => finned[e]
    /\ sent[e] <= setting.data
    /\ ~Shaken(e) => sent[e] = 0 /\ taken[e] = <<>>
    /\ conn[e].send_seq = Isn[e] + (IF Fresh(e) THEN 0 ELSE 1) + sent[e]
                          + (IF finned[e] THEN 1 ELSE 0)

\* A frame on its way to e against what its peer has sent
FrameOf(e, h) ==
    /\ h.syn => /\ h.seq = Isn[Peer(e)] /\ h.len = 0 /\ ~h.fin
                /\ IF e = "opener" THEN h.has_ack /\ h.ack = Isn[e] + 1
                                   ELSE ~h.has_ack /\ h.ack = 0
    /\ ~h.syn => h.has_ack /\ Shaken(Peer(e))
    /\ h.fin => /\ h.len = 0 /\ finned[Peer(e)]
                /\ h.seq = Isn[Peer(e)] + 1 + sent[Peer(e)]
    /\ h.len = 1 => /\ h.payload \in 1..sent[Peer(e)]
                    /\ h.seq = Isn[Peer(e)] + h.payload

WireInv(e) == \A h \in Frames(e) : FrameOf(e, h)

\* Nothing but SYNs is on the wire before the opener has seen the listener's.
ShakeInv ==
    /\ Fresh("opener") => Frames("listener") = {} /\ Fresh("listener")
    /\ Fresh("listener") => ~Shaken("opener") /\ Frames("opener") = {}
    /\ ~Shaken("opener") =>
         /\ conn["listener"].state \in {"LISTEN", "SYN_RECEIVED"}
         /\ \A e \in Ends : \A h \in Frames(e) : h.syn

\* recv_seq is one past what was taken, or past the FIN, and send_ack is recv_seq
\* or the opener's own number.
RecvInv(e) ==
    /\ \A i \in 1..Len(taken[e]) : taken[e][i] = i
    /\ Len(taken[e]) <= sent[Peer(e)]
    /\ (Shaken(e) /\ ~resyn[e]) =>
         /\ \/ conn[e].recv_seq = Isn[Peer(e)] + 1 + Len(taken[e])
            \/ /\ finned[Peer(e)]
               /\ conn[e].recv_seq = Isn[Peer(e)] + 2 + sent[Peer(e)]
         /\ \/ conn[e].send_ack = conn[e].recv_seq
            \/ e = "opener" /\ conn[e].send_ack = Isn[e] + 1

\* Nothing on the wire acknowledges what was not taken.
AckInv(e) ==
    (~finned[e] /\ NoLateSyn /\ OwnNumberIsOld(e)) =>
        /\ conn[e].recv_ack <= Isn[e] + 1 + Len(taken[Peer(e)])
        /\ \A h \in Frames(e) : h.ack <= Isn[e] + 1 + Len(taken[Peer(e)])

\* The FIN of the first side to close acknowledges at least what any other frame
\* of that side does.
FinInv(e) ==
    (~finned[e] /\ NoLateSyn /\ OwnNumberIsOld(e)) =>
        \A f \in Frames(e) : f.fin => \A h \in Frames(e) : h.ack <= f.ack

\* A side in LAST_ACK has nothing to close on until its peer has its FIN.
HeardInv(e) ==
    (/\ conn[e].state \in {"LAST_ACK", "CLOSED"} /\ finned[e]
     /\ OwnNumberIsOld(e) /\ ~refin[e] /\ NoLateSyn) =>
        /\ finned[Peer(e)]
        /\ \/ HasFin(conn[Peer(e)])
           \/ /\ conn[e].state = "LAST_ACK"
              /\ \A h \in Frames(e) : h.ack <= conn[e].recv_ack

IndInv ==
    /\ TypeOK
    /\ ShakeInv
    /\ \A e \in Ends :
         EndInv(e) /\ WireInv(e) /\ RecvInv(e) /\ AckInv(e) /\ FinInv(e) /\ HeardInv(e)

-----------------------------------------------------------------------------
(* Sequence numbers and frames                                             *)

\* Below the modulus, seq + n is an ordinary sum.
LEMMA AdvanceSum ==
    ASSUME NEW seq \in Nat, NEW n \in Nat, seq + n < SeqMod
    PROVE  Advance(seq, n) = seq + n
  BY SeqModAssumption DEF Advance

\* An advanced sequence number is one.
LEMMA AdvanceType ==
    ASSUME NEW seq \in Nat, NEW n \in Nat
    PROVE  Advance(seq, n) \in SeqNums
  BY SeqModAssumption DEF Advance, SeqNums

\* Sequence numbers are naturals.
LEMMA SeqNumsNat == SeqNums \subseteq Nat
  BY SeqModAssumption DEF SeqNums

\* The fields of a frame
LEMMA FrameFields ==
    ASSUME NEW h \in FrameRecords
    PROVE  /\ h.seq \in SeqNums /\ h.ack \in SeqNums /\ h.syn \in BOOLEAN
           /\ h.has_ack \in BOOLEAN /\ h.fin \in BOOLEAN /\ h.len \in {0, 1}
  BY DEF FrameRecords

\* The fields of a connection
LEMMA ConnFields ==
    ASSUME NEW w \in TcpConnections
    PROVE  /\ w.state \in TcpStates /\ w.send_seq \in SeqNums
           /\ w.recv_seq \in SeqNums /\ w.send_ack \in SeqNums
           /\ w.recv_ack \in SeqNums
  BY DEF TcpConnections

\* The frames the code builds
LEMMA SynType ==
    ASSUME NEW seq \in SeqNums, NEW f, f = SynFrame(seq)
    PROVE  /\ f \in FrameRecords /\ f.seq = seq /\ f.ack = 0 /\ f.syn
           /\ ~f.has_ack /\ ~f.fin /\ f.len = 0
<1>1. 0 \in SeqNums
  BY SeqModAssumption DEF SeqNums
<1> QED
  BY <1>1, Zenon DEF SynFrame, Frame, FrameRecords

\* create_syn_ack: SYN and ACK, no FIN and no payload
LEMMA SynAckType ==
    ASSUME NEW seq \in SeqNums, NEW ack \in SeqNums, NEW f, f = SynAckFrame(seq, ack)
    PROVE  /\ f \in FrameRecords /\ f.seq = seq /\ f.ack = ack /\ f.syn
           /\ f.has_ack /\ ~f.fin /\ f.len = 0
  BY Zenon DEF SynAckFrame, Frame, FrameRecords

\* create_ack: the send_seq of its connection and the given acknowledgement
LEMMA AckType ==
    ASSUME NEW c \in TcpConnections, NEW ack \in SeqNums, NEW f, f = AckFrame(c, ack)
    PROVE  /\ f \in FrameRecords /\ f.seq = c.send_seq /\ f.ack = ack /\ ~f.syn
           /\ f.has_ack /\ ~f.fin /\ f.len = 0
  BY ConnFields, Zenon DEF AckFrame, Frame, FrameRecords

\* create_fin: it acknowledges recv_seq.
LEMMA FinType ==
    ASSUME NEW c \in TcpConnections, NEW f, f = FinFrame(c)
    PROVE  /\ f \in FrameRecords /\ f.seq = c.send_seq /\ f.ack = c.recv_seq /\ ~f.syn
           /\ f.has_ack /\ f.fin /\ f.len = 0
  BY ConnFields, Zenon DEF FinFrame, Frame, FrameRecords

\* create_data with one byte of payload: it acknowledges recv_seq too.
LEMMA DataType ==
    ASSUME NEW c \in TcpConnections, NEW n \in Nat, NEW f, f = DataFrame(c, 1, n)
    PROVE  /\ f \in FrameRecords /\ f.seq = c.send_seq /\ f.ack = c.recv_seq /\ ~f.syn
           /\ f.has_ack /\ ~f.fin /\ f.len = 1 /\ f.payload = n
  BY ConnFields, Zenon DEF DataFrame, Frame, FrameRecords

\* A connection with one of its fields replaced
LEMMA ConnWithState ==
    ASSUME NEW w \in TcpConnections, NEW to \in TcpStates,
           NEW c, c = [w EXCEPT !.state = to]
    PROVE  /\ c \in TcpConnections /\ c.state = to
           /\ c.send_seq = w.send_seq /\ c.recv_seq = w.recv_seq
           /\ c.send_ack = w.send_ack /\ c.recv_ack = w.recv_ack
  BY DEF TcpConnections

\* ... recv_seq, ...
LEMMA ConnWithRecvSeq ==
    ASSUME NEW w \in TcpConnections, NEW r \in SeqNums,
           NEW c, c = [w EXCEPT !.recv_seq = r]
    PROVE  /\ c \in TcpConnections /\ c.state = w.state
           /\ c.send_seq = w.send_seq /\ c.recv_seq = r
           /\ c.send_ack = w.send_ack /\ c.recv_ack = w.recv_ack
  BY DEF TcpConnections

\* ... recv_ack, ...
LEMMA ConnWithAck ==
    ASSUME NEW w \in TcpConnections, NEW a \in SeqNums,
           NEW c, c = [w EXCEPT !.recv_ack = a]
    PROVE  /\ c \in TcpConnections /\ c.state = w.state
           /\ c.send_seq = w.send_seq /\ c.recv_seq = w.recv_seq
           /\ c.send_ack = w.send_ack /\ c.recv_ack = a
  BY DEF TcpConnections

\* ... and send_seq moved on by the one byte, SYN or FIN that was sent
LEMMA ConnSent ==
    ASSUME NEW w \in TcpConnections
    PROVE  /\ Sent(w, 1) \in TcpConnections /\ Sent(w, 1).state = w.state
           /\ Sent(w, 1).send_seq = Advance(w.send_seq, 1)
           /\ Sent(w, 1).recv_seq = w.recv_seq
           /\ Sent(w, 1).send_ack = w.send_ack /\ Sent(w, 1).recv_ack = w.recv_ack
<1>1. w.send_seq \in Nat
  BY ConnFields, SeqNumsNat
<1>2. Advance(w.send_seq, 1) \in SeqNums
  BY <1>1, AdvanceType
<1> QED
  BY <1>2 DEF TcpConnections, Sent

-----------------------------------------------------------------------------
(* handle_incoming, part by part                                           *)

\* initiate_close moves two states and leaves the rest of the record alone.
LEMMA CloseMoves ==
    ASSUME NEW w \in TcpConnections
    PROVE  /\ w.state = "ESTABLISHED" =>
                InitiateClose(w) = [w EXCEPT !.state = "FIN_WAIT_1"]
           /\ w.state = "CLOSE_WAIT" =>
                InitiateClose(w) = [w EXCEPT !.state = "LAST_ACK"]
           /\ w.state \notin {"ESTABLISHED", "CLOSE_WAIT"} => InitiateClose(w) = w
  BY DEF InitiateClose, Transition, Successors

\* The FIN part leaves everything alone without a FIN; with one, recv_seq and
\* send_ack move past it.
LEMMA HandleFinCases ==
    ASSUME NEW w \in TcpConnections, w.state # "CLOSE_WAIT",
           NEW h \in FrameRecords, NEW past, h.fin => past = h.seq + 1,
           h.fin => past < SeqMod, h.fin => h.len = 0
    PROVE  LET c == HandleFin(w, h, h.len)
           IN  /\ ~h.fin => c = w
               /\ h.fin => /\ c \in TcpConnections /\ c.send_seq = w.send_seq
                           /\ c.recv_ack = w.recv_ack
                           /\ c.recv_seq = past /\ c.send_ack = past
                           /\ c.state = CASE w.state = "ESTABLISHED" -> "CLOSE_WAIT"
                                         [] w.state = "FIN_WAIT_1" -> "CLOSING"
                                         [] w.state = "FIN_WAIT_2" -> "TIME_WAIT"
                                         [] OTHER -> w.state
<1>1. CASE ~h.fin
  BY <1>1, Zenon DEF HandleFin
<1>2. CASE h.fin
  <2> DEFINE d == [w EXCEPT !.recv_seq = past, !.send_ack = past]
  <2>0. d = [w EXCEPT !.recv_seq = past, !.send_ack = past]
    OBVIOUS
  <2> HIDE DEF d
  <2>1. h.seq \in Nat /\ past \in SeqNums /\ past \in Nat
    BY <1>2, FrameFields, SeqModAssumption DEF SeqNums
  <2>2. Advance(h.seq, h.len) = h.seq /\ Advance(h.seq, 1) = past
    <3>1. h.len = 0 /\ h.seq + 0 = h.seq /\ h.seq < SeqMod /\ h.seq + 1 = past
      BY <1>2, <2>1, SeqModAssumption
    <3>2. Advance(h.seq, 0) = h.seq + 0
      BY <2>1, <3>1, AdvanceSum
    <3>3. Advance(h.seq, 1) = h.seq + 1
      BY <1>2, <2>1, <3>1, AdvanceSum
    <3> QED
      BY <3>1, <3>2, <3>3
  <2>3. HandleFin(w, h, h.len) =
          CASE d.state = "ESTABLISHED" -> Transition(d, "CLOSE_WAIT")
            [] d.state = "FIN_WAIT_1"  -> Transition(d, "CLOSING")
            [] d.state = "FIN_WAIT_2"  -> Transition(d, "TIME_WAIT")
            [] OTHER                   -> d
    BY <1>2, <2>0, <2>2 DEF HandleFin
  <2>4. /\ d \in TcpConnections /\ d.state = w.state
        /\ d.send_seq = w.send_seq /\ d.recv_seq = past
        /\ d.send_ack = past /\ d.recv_ack = w.recv_ack
    BY <2>0, <2>1 DEF TcpConnections
  <2>5. HandleFin(w, h, h.len) =
          CASE w.state = "ESTABLISHED" -> [d EXCEPT !.state = "CLOSE_WAIT"]
            [] w.state = "FIN_WAIT_1"  -> [d EXCEPT !.state = "CLOSING"]
            [] w.state = "FIN_WAIT_2"  -> [d EXCEPT !.state = "TIME_WAIT"]
            [] OTHER                   -> d
    BY <2>3, <2>4 DEF Transition, Successors
  <2>6. \A to \in {"CLOSE_WAIT", "CLOSING", "TIME_WAIT"} : to \in TcpStates
    BY DEF TcpStates
  <2>7. CASE w.state = "ESTABLISHED"
    <3>1. HandleFin(w, h, h.len) = [d EXCEPT !.state = "CLOSE_WAIT"]
      BY <2>5, <2>7
    <3> QED
      BY <1>2, <2>4, <2>7, <2>6, <3>1, ConnWithState
  <2>8. CASE w.state = "FIN_WAIT_1"
    <3>1. HandleFin(w, h, h.len) = [d EXCEPT !.state = "CLOSING"]
      BY <2>5, <2>8
    <3> QED
      BY <1>2, <2>4, <2>8, <2>6, <3>1, ConnWithState
  <2>9. CASE w.state = "FIN_WAIT_2"
    <3>1. HandleFin(w, h, h.len) = [d EXCEPT !.state = "TIME_WAIT"]
      BY <2>5, <2>9
    <3> QED
      BY <1>2, <2>4, <2>9, <2>6, <3>1, ConnWithState
  <2>10. CASE w.state \notin {"ESTABLISHED", "FIN_WAIT_1", "FIN_WAIT_2"}
    BY <1>2, <2>4, <2>5, <2>10
  <2> QED
    BY <2>7, <2>8, <2>9, <2>10
<1> QED
  BY <1>1, <1>2

\* The payload part: payload in order is taken, a FIN is passed on.
LEMMA HandlePayloadCases ==
    ASSUME NEW w \in TcpConnections, w.state # "CLOSE_WAIT",
           NEW h \in FrameRecords, h.fin => h.len = 0, h.fin => h.seq + 1 < SeqMod
    PROVE  LET c == HandlePayload(w, h, h.len)
           IN  /\ h.len = 0 => c = HandleFin(w, h, h.len)
               /\ (h.len = 1 /\ h.seq # w.recv_seq) => c = w
               /\ (h.len = 1 /\ h.seq = w.recv_seq) =>
                    /\ c \in TcpConnections /\ c.state = w.state
                    /\ c.send_seq = w.send_seq /\ c.recv_ack = w.recv_ack
                    /\ c.recv_seq = Advance(w.recv_seq, 1)
                    /\ c.send_ack = c.recv_seq
<1>1. h.len \in {0, 1} /\ (h.len = 1 => ~h.fin)
  BY FrameFields
<1>2. CASE h.len = 0
  BY <1>2 DEF HandlePayload
<1>3. CASE h.len = 1 /\ h.seq # w.recv_seq
  <2>1. HandleFin(w, h, h.len) = w
    BY <1>1, <1>3 DEF HandleFin
  <2> QED
    BY <1>3, <2>1 DEF HandlePayload
<1>4. CASE h.len = 1 /\ h.seq = w.recv_seq
  <2> DEFINE next == Advance(w.recv_seq, 1)
             d == [w EXCEPT !.recv_seq = next, !.send_ack = next]
  <2>1. w.recv_seq \in Nat /\ next \in SeqNums
    BY ConnFields, SeqNumsNat, AdvanceType
  <2>2. d = [w EXCEPT !.recv_seq = next, !.send_ack = next]
    OBVIOUS
  <2>3. /\ h.len > 0 /\ Advance(w.recv_seq, h.len) = next
        /\ ~(h.seq < w.recv_seq)
    BY <1>4, <2>1
  <2> HIDE DEF d, next
  <2>4. HandlePayload(w, h, h.len) = HandleFin(d, h, h.len)
    BY <1>4, <2>2, <2>3, Zenon DEF HandlePayload
  <2>5. /\ d \in TcpConnections /\ d.state = w.state
        /\ d.send_seq = w.send_seq /\ d.recv_seq = next
        /\ d.send_ack = next /\ d.recv_ack = w.recv_ack
    BY <2>1, <2>2 DEF TcpConnections
  <2>6. HandleFin(d, h, h.len) = d
    BY <1>1, <1>4, Zenon DEF HandleFin
  <2> QED
    BY <1>4, <2>4, <2>5, <2>6 DEF next
<1> QED
  BY <1>1, <1>2, <1>3, <1>4

\* What the handler makes of a connection w, the handshake apart: the state, ...
Moved(w, h, c) ==
    /\ c \in TcpConnections /\ c.send_seq = w.send_seq
    /\ c.recv_ack \in {w.recv_ack, h.ack}
    /\ \/ c.state = w.state
       \/ w.state = "SYN_RECEIVED" /\ c.state = "ESTABLISHED" /\ h.has_ack
       \/ w.state = "ESTABLISHED" /\ c.state = "CLOSE_WAIT" /\ h.fin
       \/ w.state \in Closing /\ c.state \in Closing \ {"LAST_ACK"}
       \/ w.state = "LAST_ACK" /\ c.state = "CLOSED"
    /\ HasFin(w) => HasFin(c)
    /\ (w.state = "ESTABLISHED" /\ h.fin) => c.state = "CLOSE_WAIT" /\ c.recv_ack = h.ack
    /\ (w.state \in {"FIN_WAIT_1", "FIN_WAIT_2"} /\ h.fin) => c.state = "TIME_WAIT"
    /\ (w.state = "LAST_ACK" /\ c.state = w.state) => c.recv_ack = w.recv_ack
    /\ (w.state = "LAST_ACK" /\ c.state # w.state) => h.fin \/ ~(h.ack <= w.recv_ack)

\* ... and what has been received.
Received(w, h, c) ==
    \/ c.recv_seq = w.recv_seq /\ c.send_ack = w.send_ack
    \/ /\ h.len = 1 /\ h.seq = w.recv_seq
       /\ c.recv_seq = Advance(w.recv_seq, 1) /\ c.send_ack = c.recv_seq
    \/ h.fin /\ c.recv_seq = h.seq + 1 /\ c.send_ack = c.recv_seq

Handled(w, h, c) == Moved(w, h, c) /\ Received(w, h, c)

\* Payload and FIN, when the ACK part has set recv_ack and not moved the state.
LEMMA PayloadHandled ==
    ASSUME NEW w \in TcpConnections, NEW h \in FrameRecords,
           w.state # "CLOSE_WAIT",
           h.fin => w.state \notin {"LAST_ACK", "FIN_WAIT_1"},
           h.fin => h.len = 0, h.fin => w.recv_ack = h.ack, h.fin => h.seq + 1 < SeqMod
    PROVE  LET c == HandlePayload(w, h, h.len)
           IN  /\ Handled(w, h, c) /\ c.recv_ack = w.recv_ack
               /\ c.state # w.state => h.fin /\ w.state \in {"ESTABLISHED", "FIN_WAIT_2"}
<1> DEFINE c == HandlePayload(w, h, h.len)
<1>1. h.len \in {0, 1}
  BY FrameFields
<1>2. CASE h.len = 1
  <2>1. /\ c \in TcpConnections /\ c.state = w.state /\ ~h.fin
        /\ c.send_seq = w.send_seq /\ c.recv_ack = w.recv_ack
        /\ \/ c.recv_seq = w.recv_seq /\ c.send_ack = w.send_ack
           \/ /\ h.seq = w.recv_seq /\ c.recv_seq = Advance(w.recv_seq, 1)
              /\ c.send_ack = c.recv_seq
    BY <1>2, HandlePayloadCases
  <2> HIDE DEF c
  <2>2. Handled(w, h, c)
    BY <1>2, <2>1 DEF Handled, Moved, Received, HasFin
  <2> QED
    BY <2>1, <2>2 DEF c
<1>3. CASE h.len = 0
  <2>1. c = HandleFin(w, h, h.len)
    BY <1>3, HandlePayloadCases
  <2>2. CASE ~h.fin
    <3>1. c = w
      BY <2>1, <2>2 DEF HandleFin
    <3>2. Handled(w, h, c)
      BY <2>2, <3>1 DEF Handled, Moved, Received, HasFin
    <3> QED
      BY <3>1, <3>2
  <2>3. CASE h.fin
    <3>1. /\ c \in TcpConnections /\ c.send_seq = w.send_seq
          /\ c.recv_ack = w.recv_ack
          /\ c.recv_seq = h.seq + 1 /\ c.send_ack = h.seq + 1
          /\ c.state = CASE w.state = "ESTABLISHED" -> "CLOSE_WAIT"
                       [] w.state = "FIN_WAIT_1" -> "CLOSING"
                       [] w.state = "FIN_WAIT_2" -> "TIME_WAIT"
                       [] OTHER -> w.state
      BY <2>1, <2>3, HandleFinCases
    <3> HIDE DEF c
    <3>2. /\ w.state = "ESTABLISHED" => c.state = "CLOSE_WAIT"
          /\ w.state = "FIN_WAIT_2" => c.state = "TIME_WAIT"
          /\ w.state \notin {"ESTABLISHED", "FIN_WAIT_2"} => c.state = w.state
      BY <2>3, <3>1
    <3>3. Handled(w, h, c)
      <4>1. w.state \notin {"LAST_ACK", "FIN_WAIT_1"}
        BY <2>3
      <4>2. CASE w.state = "ESTABLISHED"
        BY <2>3, <3>1, <3>2, <4>2 DEF Handled, Moved, Received, HasFin
      <4>3. CASE w.state = "FIN_WAIT_2"
        BY <2>3, <3>1, <3>2, <4>3 DEF Handled, Moved, Received, HasFin, Closing
      <4>4. CASE w.state \notin {"ESTABLISHED", "FIN_WAIT_2"}
        BY <2>3, <3>1, <3>2, <4>1, <4>4 DEF Handled, Moved, Received, HasFin
      <4> QED
        BY <4>2, <4>3, <4>4
    <3> QED
      BY <2>3, <3>1, <3>2, <3>3 DEF c
  <2> QED
    BY <2>2, <2>3
<1> QED
  BY <1>1, <1>2, <1>3

\* The ACK part
LEMMA AckHandled ==
    ASSUME NEW w \in TcpConnections, w.state # "CLOSE_WAIT", NEW h \in FrameRecords,
           h.fin => h.len = 0 /\ h.has_ack, h.fin => h.seq + 1 < SeqMod
    PROVE  Handled(w, h, HandleAck(w, h, h.len))
<1> DEFINE c == HandleAck(w, h, h.len)
           d == [w EXCEPT !.recv_ack = h.ack]
<1>1. h.ack \in SeqNums /\ h.has_ack \in BOOLEAN /\ h.fin \in BOOLEAN
  BY FrameFields
<1>2. CASE ~h.has_ack
  <2>1. c = HandlePayload(w, h, h.len)
    BY <1>2, Zenon DEF HandleAck
  <2> QED
    BY <1>2, <2>1, PayloadHandled
<1>3. CASE h.has_ack /\ h.ack <= w.recv_ack /\ ~h.fin
  <2>1. c = w
    BY <1>3, Zenon DEF HandleAck
  <2> QED
    BY <1>3, <2>1 DEF Handled, Moved, Received
<1>4. CASE h.has_ack /\ ~(h.ack <= w.recv_ack /\ ~h.fin)
  <2>1. d = [w EXCEPT !.recv_ack = h.ack]
    OBVIOUS
  <2>2. /\ d \in TcpConnections /\ d.state = w.state
        /\ d.send_seq = w.send_seq /\ d.recv_seq = w.recv_seq
        /\ d.send_ack = w.send_ack /\ d.recv_ack = h.ack
    BY <1>1, ConnWithAck
  <2>3. c = CASE d.state = "SYN_RECEIVED" -> Transition(d, "ESTABLISHED")
              [] d.state = "FIN_WAIT_1" ->
                   Transition(d, IF h.fin THEN "TIME_WAIT" ELSE "FIN_WAIT_2")
              [] d.state = "CLOSING"      -> Transition(d, "TIME_WAIT")
              [] d.state = "LAST_ACK"     -> Transition(d, "CLOSED")
              [] OTHER                    -> HandlePayload(d, h, h.len)
    BY <1>4 DEF HandleAck
  <2> HIDE DEF d, c
  <2>4. /\ w.state = "SYN_RECEIVED" => c = [d EXCEPT !.state = "ESTABLISHED"]
        /\ (w.state = "FIN_WAIT_1" /\ h.fin) => c = [d EXCEPT !.state = "TIME_WAIT"]
        /\ (w.state = "FIN_WAIT_1" /\ ~h.fin) => c = [d EXCEPT !.state = "FIN_WAIT_2"]
        /\ w.state = "CLOSING" => c = [d EXCEPT !.state = "TIME_WAIT"]
        /\ w.state = "LAST_ACK" => c = [d EXCEPT !.state = "CLOSED"]
    BY <2>2, <2>3 DEF Transition, Successors
  <2>5. ASSUME NEW to \in {"ESTABLISHED", "TIME_WAIT", "FIN_WAIT_2", "CLOSED"},
               c = [d EXCEPT !.state = to]
        PROVE  /\ c \in TcpConnections /\ c.state = to
               /\ c.send_seq = w.send_seq /\ c.recv_seq = w.recv_seq
               /\ c.send_ack = w.send_ack /\ c.recv_ack = h.ack
    <3>1. to \in TcpStates
      BY DEF TcpStates
    <3> QED
      BY <2>2, <2>5, <3>1, ConnWithState
  <2>6. CASE w.state = "SYN_RECEIVED"
    BY <1>4, <2>4, <2>5, <2>6 DEF Handled, Moved, Received, HasFin, c
  <2>7. CASE w.state = "FIN_WAIT_1" /\ h.fin
    BY <1>4, <2>4, <2>5, <2>7 DEF Handled, Moved, Received, HasFin, Closing, c
  <2>8. CASE w.state = "FIN_WAIT_1" /\ ~h.fin
    BY <1>4, <2>4, <2>5, <2>8 DEF Handled, Moved, Received, HasFin, Closing, c
  <2>9. CASE w.state = "CLOSING"
    BY <1>4, <2>4, <2>5, <2>9 DEF Handled, Moved, Received, HasFin, Closing, c
  <2>10. CASE w.state = "LAST_ACK"
    BY <1>4, <2>4, <2>5, <2>10 DEF Handled, Moved, Received, HasFin, c
  <2>11. CASE w.state \notin {"SYN_RECEIVED", "FIN_WAIT_1", "CLOSING", "LAST_ACK"}
    <3>1. c = HandlePayload(d, h, h.len)
      BY <2>2, <2>3, <2>11
    <3>2. /\ Handled(d, h, c) /\ c.recv_ack = h.ack
      BY <2>2, <2>11, <3>1, PayloadHandled
    <3> QED
      BY <2>2, <2>11, <3>2 DEF Handled, Moved, Received, HasFin, c
  <2> QED
    BY <2>6, <2>7, <2>8, <2>9, <2>10, <2>11
<1> QED
  BY <1>1, <1>2, <1>3, <1>4

\* The handshake: the SYN a listener waits for, and the answer to the opener's.
LEMMA SynHandled ==
    ASSUME NEW w \in TcpConnections, NEW h \in FrameRecords, h.syn,
           h.seq + 1 < SeqMod,
           w.state = "LISTEN" \/ (w.state = "SYN_SENT" /\ h.has_ack)
    PROVE  LET c == HandleIncoming(w, h, h.len)
           IN  /\ c \in TcpConnections
               /\ c.send_seq = w.send_seq /\ c.recv_ack = w.recv_ack
               /\ c.recv_seq = h.seq + 1
               /\ w.state = "LISTEN" =>
                    c.state = "SYN_RECEIVED" /\ c.send_ack = h.seq + 1
               /\ w.state = "SYN_SENT" =>
                    c.state = "ESTABLISHED" /\ c.send_ack = h.ack
<1> DEFINE c == HandleIncoming(w, h, h.len)
           u == [w EXCEPT !.recv_seq = h.seq + 1]
<1>1. h.seq \in Nat /\ h.seq + 1 \in SeqNums /\ h.ack \in SeqNums
  BY FrameFields, SeqModAssumption DEF SeqNums
<1>2. Advance(h.seq, 1) = h.seq + 1
  BY <1>1, AdvanceSum
<1>3. u = [w EXCEPT !.recv_seq = h.seq + 1]
  OBVIOUS
<1>4. c = CASE u.state = "LISTEN" ->
                 Transition([u EXCEPT !.send_ack = u.recv_seq], "SYN_RECEIVED")
            [] u.state = "SYN_SENT" /\ h.has_ack ->
                 Transition([u EXCEPT !.send_ack = h.ack], "ESTABLISHED")
            [] OTHER -> HandleAck(u, h, h.len)
  BY <1>2 DEF HandleIncoming
<1> HIDE DEF c, u
<1>5. /\ u \in TcpConnections /\ u.state = w.state
      /\ u.send_seq = w.send_seq /\ u.recv_seq = h.seq + 1
      /\ u.send_ack = w.send_ack /\ u.recv_ack = w.recv_ack
  BY <1>1, <1>3, ConnWithRecvSeq
<1>6. \A a \in SeqNums : /\ [u EXCEPT !.send_ack = a] \in TcpConnections
                         /\ [u EXCEPT !.send_ack = a].state = w.state
                         /\ [u EXCEPT !.send_ack = a].send_seq = w.send_seq
                         /\ [u EXCEPT !.send_ack = a].recv_seq = h.seq + 1
                         /\ [u EXCEPT !.send_ack = a].send_ack = a
                         /\ [u EXCEPT !.send_ack = a].recv_ack = w.recv_ack
  BY <1>5 DEF TcpConnections
<1>7. CASE w.state = "LISTEN"
  <2>1. PICK v : v = [u EXCEPT !.send_ack = h.seq + 1]
    OBVIOUS
  <2>2. /\ v \in TcpConnections /\ v.state = "LISTEN"
        /\ v.send_seq = w.send_seq /\ v.recv_seq = h.seq + 1
        /\ v.send_ack = h.seq + 1 /\ v.recv_ack = w.recv_ack
    BY <1>1, <1>6, <1>7, <2>1
  <2>3. c = Transition(v, "SYN_RECEIVED")
    BY <1>4, <1>5, <1>7, <2>1
  <2>4. c = [v EXCEPT !.state = "SYN_RECEIVED"] /\ "SYN_RECEIVED" \in TcpStates
    BY <2>2, <2>3 DEF Transition, Successors, TcpStates
  <2> QED
    BY <1>7, <2>2, <2>4, ConnWithState DEF c
<1>8. CASE w.state = "SYN_SENT" /\ h.has_ack
  <2>1. PICK v : v = [u EXCEPT !.send_ack = h.ack]
    OBVIOUS
  <2>2. /\ v \in TcpConnections /\ v.state = "SYN_SENT"
        /\ v.send_seq = w.send_seq /\ v.recv_seq = h.seq + 1
        /\ v.send_ack = h.ack /\ v.recv_ack = w.recv_ack
    BY <1>1, <1>6, <1>8, <2>1
  <2>3. c = Transition(v, "ESTABLISHED")
    BY <1>4, <1>5, <1>8, <2>1
  <2>4. c = [v EXCEPT !.state = "ESTABLISHED"] /\ "ESTABLISHED" \in TcpStates
    BY <2>2, <2>3 DEF Transition, Successors, TcpStates
  <2> QED
    BY <1>8, <2>2, <2>4, ConnWithState DEF c
<1> QED
  BY <1>7, <1>8

\* Every other frame, a late SYN included, which sets recv_seq back.
LEMMA FrameHandled ==
    ASSUME NEW w \in TcpConnections, w.state # "CLOSE_WAIT", NEW h \in FrameRecords,
           h.fin => h.len = 0 /\ h.has_ack, h.fin => h.seq + 1 < SeqMod,
           h.syn => w.state \notin {"LISTEN", "SYN_SENT"}
    PROVE  LET c == HandleIncoming(w, h, h.len)
           IN  Moved(w, h, c) /\ (~h.syn => Received(w, h, c))
<1>1. CASE ~h.syn
  <2>1. HandleIncoming(w, h, h.len) = HandleAck(w, h, h.len)
    BY <1>1, Zenon DEF HandleIncoming
  <2> QED
    BY <2>1, AckHandled DEF Handled
<1>2. CASE h.syn
  <2> DEFINE u == [w EXCEPT !.recv_seq = Advance(h.seq, 1)]
  <2>1. Advance(h.seq, 1) \in SeqNums
    BY FrameFields, SeqNumsNat, AdvanceType
  <2>2. u = [w EXCEPT !.recv_seq = Advance(h.seq, 1)]
    OBVIOUS
  <2>3. HandleIncoming(w, h, h.len) =
          CASE u.state = "LISTEN" ->
                 Transition([u EXCEPT !.send_ack = u.recv_seq], "SYN_RECEIVED")
            [] u.state = "SYN_SENT" /\ h.has_ack ->
                 Transition([u EXCEPT !.send_ack = h.ack], "ESTABLISHED")
            [] OTHER -> HandleAck(u, h, h.len)
    BY <1>2 DEF HandleIncoming
  <2> HIDE DEF u
  <2>4. /\ u \in TcpConnections /\ u.state = w.state
        /\ u.send_seq = w.send_seq /\ u.recv_ack = w.recv_ack
    BY <2>1, <2>2, ConnWithRecvSeq
  <2>5. HandleIncoming(w, h, h.len) = HandleAck(u, h, h.len)
    BY <1>2, <2>3, <2>4
  <2>6. Moved(u, h, HandleIncoming(w, h, h.len))
    BY <2>4, <2>5, AckHandled DEF Handled
  <2> QED
    BY <1>2, <2>4, <2>6 DEF Moved, HasFin
<1> QED
  BY <1>1, <1>2

-----------------------------------------------------------------------------
(* What one side does leaves the rest of the invariant alone               *)

\* There are two sides, and each is the peer of the other.
LEMMA PeerFacts ==
    ASSUME NEW e \in Ends
    PROVE  /\ Peer(e) \in Ends /\ Peer(e) # e /\ Peer(Peer(e)) = e
           /\ \A x \in Ends : x = e \/ x = Peer(e)
           /\ e = "opener" => Peer(e) = "listener"
           /\ e = "listener" => Peer(e) = "opener"
  BY DEF Ends, Peer

\* Whatever is on the wire is a frame.
LEMMA FramesType ==
    ASSUME TypeOK, NEW e \in Ends
    PROVE  Frames(e) \subseteq FrameRecords
<1>1. line[e] \in Seq(FrameRecords) /\ soup[e] \subseteq FrameRecords
  BY DEF TypeOK
<1>2. \A i \in 1..Len(line[e]) : line[e][i] \in FrameRecords
  BY <1>1, ElementOfSeq
<1> QED
  BY <1>1, <1>2 DEF Frames

\* What is sent reaches the peer's side of the wire, and no other frame appears.
LEMMA TransmitFrames ==
    ASSUME TypeOK, NEW e \in Ends, NEW fs \in Seq(FrameRecords),
           NEW rest \in Seq(FrameRecords),
           \A i \in 1..Len(rest) : rest[i] \in Frames(e),
           Transmit(e, fs, rest)
    PROVE  /\ line' \in [Ends -> Seq(FrameRecords)]
           /\ soup' \in [Ends -> SUBSET FrameRecords]
           /\ Frames(e)' \subseteq Frames(e)
           /\ \A h \in Frames(Peer(e))' :
                h \in Frames(Peer(e)) \/ h \in {fs[i] : i \in 1..Len(fs)}
<1> DEFINE p == Peer(e)
<1>1. p \in Ends /\ p # e
  BY PeerFacts
<1>2. /\ line \in [Ends -> Seq(FrameRecords)]
      /\ soup \in [Ends -> SUBSET FrameRecords]
  BY DEF TypeOK
<1>3. \A i \in 1..Len(fs) : fs[i] \in FrameRecords
  BY ElementOfSeq
<1> HIDE DEF p
<1>4. CASE setting.network = "fifo"
  <2>1. line' = [line EXCEPT ![p] = @ \o fs, ![e] = rest] /\ soup' = soup
    BY <1>4 DEF Transmit, p
  <2>2. line[p] \o fs \in Seq(FrameRecords)
    BY <1>1, <1>2, ConcatProperties
  <2>3. /\ line' \in [Ends -> Seq(FrameRecords)]
        /\ line'[e] = rest /\ line'[p] = line[p] \o fs
    BY <1>1, <1>2, <2>1, <2>2
  <2>4. Frames(e)' \subseteq Frames(e)
    <3>1. Frames(e)' = soup[e] \cup {rest[i] : i \in 1..Len(rest)}
      BY <2>1, <2>3 DEF Frames
    <3>2. soup[e] \subseteq Frames(e)
      BY DEF Frames
    <3> QED
      BY <3>1, <3>2
  <2>5. ASSUME NEW h \in Frames(p)'
        PROVE  h \in Frames(p) \/ h \in {fs[i] : i \in 1..Len(fs)}
    <3>1. CASE h \in soup[p]
      BY <3>1 DEF Frames
    <3>2. CASE h \notin soup[p]
      <4>1. PICK j \in 1..Len(line[p] \o fs) : h = (line[p] \o fs)[j]
        BY <2>1, <2>3, <2>5, <3>2 DEF Frames
      <4>2. /\ Len(line[p]) \in Nat /\ Len(fs) \in Nat
            /\ Len(line[p] \o fs) = Len(line[p]) + Len(fs)
            /\ \A i \in 1..(Len(line[p]) + Len(fs)) :
                 (line[p] \o fs)[i] = IF i <= Len(line[p]) THEN line[p][i]
                                      ELSE fs[i - Len(line[p])]
        BY <1>1, <1>2, ConcatProperties, LenProperties
      <4>3. CASE j <= Len(line[p])
        <5>1. j \in 1..Len(line[p]) /\ h = line[p][j]
          BY <4>1, <4>2, <4>3
        <5> QED
          BY <5>1 DEF Frames
      <4>4. CASE ~(j <= Len(line[p]))
        <5>1. j - Len(line[p]) \in 1..Len(fs) /\ h = fs[j - Len(line[p])]
          BY <4>1, <4>2, <4>4
        <5> QED
          BY <5>1
      <4> QED
        BY <4>3, <4>4
    <3> QED
      BY <3>1, <3>2
  <2> QED
    BY <1>2, <2>1, <2>3, <2>4, <2>5 DEF p
<1>5. CASE setting.network # "fifo"
  <2>1. /\ soup' = [soup EXCEPT ![p] = @ \cup {fs[i] : i \in 1..Len(fs)}]
        /\ line' = line
    BY <1>5 DEF Transmit, p
  <2>2. /\ soup' \in [Ends -> SUBSET FrameRecords]
        /\ soup'[e] = soup[e]
        /\ soup'[p] = soup[p] \cup {fs[i] : i \in 1..Len(fs)}
    BY <1>1, <1>2, <1>3, <2>1
  <2>3. /\ Frames(e)' \subseteq Frames(e)
        /\ \A h \in Frames(p)' : h \in Frames(p) \/ h \in {fs[i] : i \in 1..Len(fs)}
    BY <2>1, <2>2 DEF Frames
  <2> QED
    BY <1>2, <2>1, <2>2, <2>3 DEF p
<1> QED
  BY <1>4, <1>5

\* A step of e, whose new frames are in N, as its peer's part of the invariant
\* sees it
Evolves(e, N) ==
    LET p == Peer(e)
    IN  /\ setting' = setting
        /\ conn'[p] = conn[p] /\ sent'[p] = sent[p] /\ taken'[p] = taken[p]
        /\ finned'[p] = finned[p] /\ resyn'[p] = resyn[p] /\ refin'[p] = refin[p]
        /\ finned[e] => finned'[e] /\ sent'[e] = sent[e]
        /\ sent[e] <= sent'[e] /\ Len(taken[e]) <= Len(taken'[e])
        /\ resyn[e] => resyn'[e]
        /\ Shaken(e) => Shaken(e)'
        /\ (finned[e] /\ HasFin(conn[e])) => HasFin(conn'[e])
        /\ \/ conn'[e].recv_ack = conn[e].recv_ack
           \/ \E h \in Frames(e) : conn'[e].recv_ack = h.ack
        /\ Frames(e)' \subseteq Frames(e)
        /\ \A h \in Frames(p)' : h \in Frames(p) \/ h \in N

\* What the new frames are to be
NewFrames(e, N) ==
    LET p == Peer(e)
        bound == Isn[p] + 1 + Len(taken'[e])
    IN  /\ N \subseteq FrameRecords
        /\ \A h \in N : FrameOf(p, h)'
        /\ (~finned[p] /\ NoLateSyn' /\ OwnNumberIsOld(p)) =>
             \A h \in N : h.ack <= bound /\ (h.fin => h.ack = bound)
        /\ (~finned[p] /\ finned[e]) => N = {}
        /\ (finned[e] /\ ~HasFin(conn[e]) /\ N # {}) => HasFin(conn'[e])

\* The numbers of the model are numbers.
LEMMA Numbers ==
    ASSUME TypeOK, NEW e \in Ends
    PROVE  /\ Isn[e] \in Nat /\ sent[e] \in Nat /\ Len(taken[e]) \in Nat
           /\ conn[e] \in TcpConnections
           /\ conn[e].recv_ack \in Nat /\ conn[e].recv_seq \in Nat
           /\ conn[e].send_seq \in Nat /\ conn[e].send_ack \in Nat
           /\ finned[e] \in BOOLEAN /\ resyn[e] \in BOOLEAN /\ refin[e] \in BOOLEAN
           /\ setting.data \in Nat /\ setting.idles \in BOOLEAN
           /\ Isn[e] + setting.data + 2 < SeqMod
           /\ \A h \in Frames(e) : h.ack \in Nat /\ h.seq \in Nat
<1>1. /\ Isn \in [Ends -> SeqNums]
      /\ setting \in [network : {"fifo", "soup"}, idles : BOOLEAN, data : Nat]
      /\ Isn[e] + setting.data + 2 < SeqMod
  BY SettingsAssumption DEF TypeOK
<1>2. Isn[e] \in Nat /\ setting.data \in Nat /\ setting.idles \in BOOLEAN
  BY <1>1, SeqNumsNat
<1>3. taken[e] \in Seq(Nat) /\ conn[e] \in TcpConnections /\ sent[e] \in Nat
  BY DEF TypeOK
<1>4. Len(taken[e]) \in Nat
  BY <1>3, LenProperties
<1>5. /\ conn[e].recv_ack \in Nat /\ conn[e].recv_seq \in Nat
      /\ conn[e].send_seq \in Nat /\ conn[e].send_ack \in Nat
  BY <1>3, ConnFields, SeqNumsNat
<1>6. finned[e] \in BOOLEAN /\ resyn[e] \in BOOLEAN /\ refin[e] \in BOOLEAN
  BY DEF TypeOK
<1>7. \A h \in Frames(e) : h.ack \in Nat /\ h.seq \in Nat
  BY FramesType, FrameFields, SeqNumsNat
<1> QED
  BY <1>1, <1>2, <1>3, <1>4, <1>5, <1>6, <1>7

\* The step leaves the frames already sent in order, ...
LEMMA WireKept ==
    ASSUME IndInv, TypeOK', NEW e \in Ends, NEW N, Evolves(e, N), NewFrames(e, N)
    PROVE  \A x \in Ends : WireInv(x)'
<1> DEFINE p == Peer(e)
<1>1. p \in Ends /\ p # e /\ Peer(p) = e /\ \A x \in Ends : x = e \/ x = p
  BY PeerFacts
<1>2. WireInv(e)'
  <2>1. \A h \in Frames(e)' : FrameOf(e, h)
    BY DEF IndInv, WireInv, Evolves
  <2>2. /\ Shaken(p)' <=> Shaken(p)
        /\ finned'[p] = finned[p] /\ sent'[p] = sent[p]
    BY DEF Evolves, Shaken, Fresh
  <2> QED
    BY <2>1, <2>2 DEF WireInv, FrameOf
<1>3. WireInv(p)'
  <2>1. /\ Shaken(e) => Shaken(e)'
        /\ finned[e] => finned'[e] /\ sent'[e] = sent[e]
        /\ sent[e] \in Nat /\ sent'[e] \in Nat /\ sent[e] <= sent'[e]
    BY DEF Evolves, TypeOK, IndInv
  <2>2. ASSUME NEW h \in Frames(p)
        PROVE  FrameOf(p, h)'
    <3>1. FrameOf(p, h)
      BY <1>1 DEF IndInv, WireInv
    <3>2. h.payload \in 1..sent[e] => h.payload \in 1..sent'[e]
      BY <2>1
    <3> QED
      BY <1>1, <2>1, <3>1, <3>2 DEF FrameOf
  <2>3. \A h \in N : FrameOf(p, h)'
    BY DEF NewFrames
  <2>4. \A h \in Frames(p)' : h \in Frames(p) \/ h \in N
    BY DEF Evolves
  <2> QED
    BY <2>2, <2>3, <2>4 DEF WireInv
<1> QED
  BY <1>1, <1>2, <1>3

\* ... what the peer is and has received, ...
LEMMA PeerKept ==
    ASSUME IndInv, TypeOK', NEW e \in Ends, NEW N, Evolves(e, N)
    PROVE  EndInv(Peer(e))' /\ RecvInv(Peer(e))'
<1> DEFINE p == Peer(e)
<1>1. p \in Ends /\ p # e /\ Peer(p) = e /\ EndInv(p) /\ RecvInv(p)
  BY PeerFacts DEF IndInv
<1>2. /\ setting' = setting
      /\ conn'[p] = conn[p] /\ sent'[p] = sent[p] /\ taken'[p] = taken[p]
      /\ finned'[p] = finned[p] /\ resyn'[p] = resyn[p]
      /\ finned[e] => finned'[e] /\ sent'[e] = sent[e]
      /\ sent[e] <= sent'[e]
  BY DEF Evolves
<1>3. sent[e] \in Nat /\ sent'[e] \in Nat /\ Len(taken[p]) \in Nat
  BY <1>1, LenProperties DEF TypeOK, IndInv
<1> HIDE DEF p
<1>4. (Shaken(p)' <=> Shaken(p)) /\ (Fresh(p)' <=> Fresh(p))
  BY <1>2 DEF Shaken, Fresh
<1>5. EndInv(p)'
  BY <1>1, <1>2, <1>4 DEF EndInv
<1>6. RecvInv(p)'
  <2>1. Len(taken[p]) <= sent'[e]
    BY <1>1, <1>2, <1>3 DEF RecvInv
  <2> QED
    BY <1>1, <1>2, <1>4, <2>1 DEF RecvInv
<1> QED
  BY <1>5, <1>6 DEF p

\* ... the acknowledgements, ...
LEMMA AcksKept ==
    ASSUME IndInv, TypeOK', NEW e \in Ends, NEW N, Evolves(e, N), NewFrames(e, N)
    PROVE  \A x \in Ends : AckInv(x)'
<1> DEFINE p == Peer(e)
<1>1. /\ p \in Ends /\ p # e /\ Peer(p) = e /\ \A x \in Ends : x = e \/ x = p
      /\ AckInv(e) /\ AckInv(p) /\ TypeOK
  BY PeerFacts DEF IndInv
<1>2. /\ setting' = setting
      /\ conn'[p] = conn[p] /\ taken'[p] = taken[p]
      /\ finned'[p] = finned[p] /\ resyn'[p] = resyn[p]
      /\ finned[e] => finned'[e]
      /\ Len(taken[e]) <= Len(taken'[e])
      /\ resyn[e] => resyn'[e]
      /\ \/ conn'[e].recv_ack = conn[e].recv_ack
         \/ \E h \in Frames(e) : conn'[e].recv_ack = h.ack
      /\ Frames(e)' \subseteq Frames(e)
      /\ \A h \in Frames(p)' : h \in Frames(p) \/ h \in N
  BY DEF Evolves
<1>3. /\ Isn[p] \in Nat /\ Len(taken[e]) \in Nat /\ conn[p].recv_ack \in Nat
      /\ \A h \in Frames(p) : h.ack \in Nat
      /\ Len(taken'[e]) \in Nat
  <2>1. Len(taken'[e]) \in Nat
    BY LenProperties DEF TypeOK
  <2> QED
    BY <1>1, <2>1, Numbers
<1>4. (~finned[p] /\ NoLateSyn' /\ OwnNumberIsOld(p)) =>
        \A h \in N : h.ack <= Isn[p] + 1 + Len(taken'[e])
  BY DEF NewFrames
<1> HIDE DEF p
<1>5. NoLateSyn' => NoLateSyn
  BY <1>1, <1>2 DEF NoLateSyn
<1>6. AckInv(e)'
  <2> SUFFICES ASSUME ~finned'[e], NoLateSyn', OwnNumberIsOld(e)
               PROVE  /\ conn'[e].recv_ack <= Isn[e] + 1 + Len(taken'[p])
                      /\ \A h \in Frames(e)' : h.ack <= Isn[e] + 1 + Len(taken'[p])
    BY DEF AckInv, p, OwnNumberIsOld
  <2>1. /\ conn[e].recv_ack <= Isn[e] + 1 + Len(taken[p])
        /\ \A h \in Frames(e) : h.ack <= Isn[e] + 1 + Len(taken[p])
    BY <1>1, <1>2, <1>5 DEF AckInv, p
  <2> QED
    BY <1>2, <2>1
<1>7. AckInv(p)'
  <2> SUFFICES ASSUME ~finned'[p], NoLateSyn', OwnNumberIsOld(p)
               PROVE  /\ conn'[p].recv_ack <= Isn[p] + 1 + Len(taken'[e])
                      /\ \A h \in Frames(p)' : h.ack <= Isn[p] + 1 + Len(taken'[e])
    BY <1>1 DEF AckInv, OwnNumberIsOld
  <2>1. /\ conn[p].recv_ack <= Isn[p] + 1 + Len(taken[e])
        /\ \A h \in Frames(p) : h.ack <= Isn[p] + 1 + Len(taken[e])
    BY <1>1, <1>2, <1>5 DEF AckInv
  <2>2. /\ conn[p].recv_ack <= Isn[p] + 1 + Len(taken'[e])
        /\ \A h \in Frames(p) : h.ack <= Isn[p] + 1 + Len(taken'[e])
    <3>1. Len(taken[e]) <= Len(taken'[e])
      BY <1>2
    <3>2. ASSUME NEW a \in Nat, a <= Isn[p] + 1 + Len(taken[e])
          PROVE  a <= Isn[p] + 1 + Len(taken'[e])
      BY <1>3, <3>1, <3>2
    <3> QED
      BY <1>3, <2>1, <3>2
  <2>3. \A h \in N : h.ack <= Isn[p] + 1 + Len(taken'[e])
    BY <1>2, <1>4
  <2> QED
    BY <1>2, <2>2, <2>3
<1> QED
  BY <1>1, <1>6, <1>7

\* ... the FIN on the wire, ...
LEMMA FinsKept ==
    ASSUME IndInv, TypeOK', NEW e \in Ends, NEW N, Evolves(e, N), NewFrames(e, N)
    PROVE  \A x \in Ends : FinInv(x)'
<1> DEFINE p == Peer(e)
<1>1. /\ p \in Ends /\ p # e /\ Peer(p) = e /\ \A x \in Ends : x = e \/ x = p
      /\ FinInv(e) /\ FinInv(p) /\ AckInv(p) /\ WireInv(p) /\ TypeOK
  BY PeerFacts DEF IndInv
<1>2. /\ setting' = setting
      /\ finned'[p] = finned[p] /\ resyn'[p] = resyn[p]
      /\ finned[e] => finned'[e]
      /\ resyn[e] => resyn'[e]
      /\ Len(taken[e]) <= Len(taken'[e])
      /\ Frames(e)' \subseteq Frames(e)
      /\ \A h \in Frames(p)' : h \in Frames(p) \/ h \in N
  BY DEF Evolves
<1>3. /\ (~finned[p] /\ NoLateSyn' /\ OwnNumberIsOld(p)) =>
           \A h \in N : /\ h.ack <= Isn[p] + 1 + Len(taken'[e])
                        /\ h.fin => h.ack = Isn[p] + 1 + Len(taken'[e])
      /\ (~finned[p] /\ finned[e]) => N = {}
  BY DEF NewFrames
<1>4. /\ Isn[p] \in Nat /\ Len(taken[e]) \in Nat /\ Len(taken'[e]) \in Nat
      /\ \A h \in Frames(p) : h.ack \in Nat
  <2>1. Len(taken'[e]) \in Nat
    BY LenProperties DEF TypeOK
  <2> QED
    BY <1>1, <2>1, Numbers
<1> HIDE DEF p
<1>5. NoLateSyn' => NoLateSyn
  BY <1>1, <1>2 DEF NoLateSyn
<1>6. FinInv(e)'
  BY <1>1, <1>2, <1>5 DEF FinInv, OwnNumberIsOld
<1>7. FinInv(p)'
  <2> SUFFICES ASSUME ~finned'[p], NoLateSyn', OwnNumberIsOld(p),
                      NEW f \in Frames(p)', f.fin, NEW h \in Frames(p)'
               PROVE  h.ack <= f.ack
    BY DEF FinInv, OwnNumberIsOld
  <2>1. ~finned[p] /\ NoLateSyn /\ OwnNumberIsOld(p)
    BY <1>2, <1>5
  <2>2. CASE finned[e]
    <3>1. f \in Frames(p) /\ h \in Frames(p)
      BY <1>2, <1>3, <2>1, <2>2
    <3> QED
      BY <1>1, <2>1, <3>1 DEF FinInv
  <2>3. CASE ~finned[e]
    <3>1. f \notin Frames(p)
      BY <1>1, <2>3 DEF WireInv, FrameOf
    <3>2. f.ack = Isn[p] + 1 + Len(taken'[e])
      BY <1>2, <1>3, <2>1, <3>1
    <3>3. h \in Frames(p) => h.ack <= Isn[p] + 1 + Len(taken[e])
      BY <1>1, <2>1 DEF AckInv
    <3>4. h \in N => h.ack <= Isn[p] + 1 + Len(taken'[e])
      BY <1>3, <2>1
    <3> QED
      <4>1. CASE h \in N
        BY <3>2, <3>4, <4>1
      <4>2. CASE h \in Frames(p)
        <5>1. /\ h.ack \in Nat /\ h.ack <= Isn[p] + 1 + Len(taken[e])
              /\ Len(taken[e]) <= Len(taken'[e])
          BY <1>2, <1>4, <3>3, <4>2
        <5>2. h.ack <= Isn[p] + 1 + Len(taken'[e])
          BY <1>4, <5>1
        <5> QED
          BY <3>2, <5>2
      <4> QED
        BY <1>2, <4>1, <4>2
  <2> QED
    BY <2>2, <2>3
<1> QED
  BY <1>1, <1>6, <1>7

\* ... and the peer's last ACK.
LEMMA HeardKept ==
    ASSUME IndInv, TypeOK', NEW e \in Ends, NEW N, Evolves(e, N), NewFrames(e, N)
    PROVE  HeardInv(Peer(e))'
<1> DEFINE p == Peer(e)
<1>1. /\ p \in Ends /\ p # e /\ Peer(p) = e /\ \A x \in Ends : x = e \/ x = p
      /\ HeardInv(p)
  BY PeerFacts DEF IndInv
<1>2. /\ setting' = setting /\ conn'[p] = conn[p]
      /\ finned'[p] = finned[p] /\ resyn'[p] = resyn[p] /\ refin'[p] = refin[p]
      /\ finned[e] => finned'[e]
      /\ resyn[e] => resyn'[e]
      /\ (finned[e] /\ HasFin(conn[e])) => HasFin(conn'[e])
      /\ \A h \in Frames(p)' : h \in Frames(p) \/ h \in N
  BY DEF Evolves
<1>3. (finned[e] /\ ~HasFin(conn[e]) /\ N # {}) => HasFin(conn'[e])
  BY DEF NewFrames
<1> HIDE DEF p
<1>4. NoLateSyn' => NoLateSyn
  BY <1>1, <1>2 DEF NoLateSyn
<1>5. HeardInv(p)'
  <2> SUFFICES ASSUME conn'[p].state \in {"LAST_ACK", "CLOSED"}, finned'[p],
                      OwnNumberIsOld(p), ~refin'[p], NoLateSyn'
               PROVE  /\ finned'[e]
                      /\ \/ HasFin(conn'[e])
                         \/ /\ conn'[p].state = "LAST_ACK"
                            /\ \A h \in Frames(p)' : h.ack <= conn'[p].recv_ack
    BY <1>1 DEF HeardInv, HasFin, OwnNumberIsOld
  <2>1. /\ finned[e]
        /\ \/ HasFin(conn[e])
           \/ /\ conn[p].state = "LAST_ACK"
              /\ \A h \in Frames(p) : h.ack <= conn[p].recv_ack
    BY <1>1, <1>2, <1>4 DEF HeardInv
  <2>2. CASE HasFin(conn[e]) \/ N # {}
    BY <1>2, <1>3, <2>1, <2>2
  <2>3. CASE ~HasFin(conn[e]) /\ N = {}
    BY <1>2, <2>1, <2>3
  <2> QED
    BY <2>2, <2>3
<1> QED
  BY <1>5 DEF p

\* What is left to show of a step of e
LEMMA StepKept ==
    ASSUME IndInv, TypeOK', NEW e \in Ends, NEW N, Evolves(e, N), NewFrames(e, N),
           ShakeInv', EndInv(e)', RecvInv(e)', HeardInv(e)'
    PROVE  IndInv'
<1>1. \A x \in Ends : x = e \/ x = Peer(e)
  BY PeerFacts
<1>2. \A x \in Ends : EndInv(x)' /\ RecvInv(x)' /\ HeardInv(x)'
  BY <1>1, PeerKept, HeardKept
<1>3. \A x \in Ends : WireInv(x)' /\ AckInv(x)' /\ FinInv(x)'
  BY WireKept, AcksKept, FinsKept
<1> QED
  BY <1>2, <1>3 DEF IndInv

\* One frame is sent and nothing is taken from the wire.
LEMMA TransmitOne ==
    ASSUME TypeOK, NEW e \in Ends, NEW f \in FrameRecords, Transmit(e, <<f>>, line[e])
    PROVE  /\ line' \in [Ends -> Seq(FrameRecords)]
           /\ soup' \in [Ends -> SUBSET FrameRecords]
           /\ Frames(e)' \subseteq Frames(e)
           /\ \A h \in Frames(Peer(e))' : h \in Frames(Peer(e)) \/ h \in {f}
<1>1. PICK fs : fs = <<f>>
  OBVIOUS
<1>2. PICK rest : rest = line[e]
  OBVIOUS
<1>3. fs \in Seq(FrameRecords) /\ {fs[i] : i \in 1..Len(fs)} = {f}
  BY <1>1
<1>4. rest \in Seq(FrameRecords)
  BY <1>2 DEF TypeOK
<1>5. \A i \in 1..Len(rest) : rest[i] \in Frames(e)
  BY <1>2 DEF Frames
<1>6. Transmit(e, fs, rest)
  BY <1>1, <1>2
<1> QED
  BY <1>3, <1>4, <1>5, <1>6, TransmitFrames

-----------------------------------------------------------------------------
(* The steps                                                               *)

\* Nothing has been sent yet, so only the types are to be shown.
LEMMA InitInv == Init => IndInv
<1> SUFFICES ASSUME Init PROVE IndInv
  OBVIOUS
<1>1. 0 \in SeqNums /\ Isn \in [Ends -> SeqNums] /\ SeqNums \subseteq Nat
  BY SeqNumsNat, SeqModAssumption, SettingsAssumption DEF SeqNums
<1>2. \A e \in Ends :
        /\ conn[e].state = (IF e = "opener" THEN "CLOSED" ELSE "LISTEN")
        /\ conn[e].send_seq = Isn[e] /\ conn[e].recv_seq = 0
        /\ conn[e].send_ack = 0 /\ conn[e].recv_ack = 0
        /\ conn[e] \in TcpConnections
  BY <1>1 DEF Init, TcpConnections, TcpStates
<1>3. TypeOK
  <2>1. conn \in [Ends -> TcpConnections]
    BY <1>2 DEF Init
  <2> QED
    BY <2>1 DEF Init, TypeOK
<1>4. \A e \in Ends : /\ Frames(e) = {} /\ Fresh(e) /\ ~Shaken(e) /\ ~finned[e]
                      /\ taken[e] = <<>> /\ sent[e] = 0
  BY <1>2 DEF Init, Frames, Fresh, Shaken
<1>5. ShakeInv
  BY <1>2, <1>4 DEF ShakeInv, Ends
<1>6. ASSUME NEW e \in Ends
      PROVE  EndInv(e) /\ WireInv(e) /\ RecvInv(e) /\ AckInv(e) /\ FinInv(e) /\ HeardInv(e)
  <2>1. /\ Peer(e) \in Ends /\ Isn[e] \in Nat /\ setting.data \in Nat
        /\ taken[Peer(e)] = <<>> /\ sent[Peer(e)] = 0
    BY <1>3, <1>4, PeerFacts, Numbers
  <2>2. EndInv(e)
    BY <1>2, <1>4, <2>1 DEF EndInv, Closing, Ends
  <2>3. WireInv(e) /\ FinInv(e) /\ HeardInv(e)
    BY <1>4 DEF WireInv, FinInv, HeardInv
  <2>4. RecvInv(e)
    BY <1>4, <2>1 DEF RecvInv
  <2>5. AckInv(e)
    BY <1>2, <1>4, <2>1 DEF AckInv
  <2> QED
    BY <2>2, <2>3, <2>4, <2>5
<1> QED
  BY <1>3, <1>5, <1>6 DEF IndInv

\* The first SYN: nothing is on the wire before it.
LEMMA OpenStep == IndInv /\ Open => IndInv'
<1> SUFFICES ASSUME IndInv, Open PROVE IndInv'
  OBVIOUS
<1>1. PICK e : e = "opener"
  OBVIOUS
<1>2. PICK p : p = "listener"
  OBVIOUS
<1>3. e \in Ends /\ p \in Ends /\ p # e /\ Peer(e) = p /\ Peer(p) = e
  BY <1>1, <1>2 DEF Ends, Peer
<1>4. PICK w : w = conn[e]
  OBVIOUS
<1>5. PICK f : f = SynFrame(w.send_seq)
  OBVIOUS
<1>6. /\ TypeOK /\ EndInv(e) /\ EndInv(p) /\ ShakeInv
      /\ w \in TcpConnections /\ Isn[e] \in Nat /\ sent[e] \in Nat
      /\ setting.data \in Nat /\ Isn[e] + setting.data + 2 < SeqMod
  BY <1>3, <1>4, Numbers DEF IndInv
<1>7. w.state = "CLOSED" /\ w.send_seq = Isn[e]
  BY <1>1, <1>4 DEF Open
<1>8. Fresh(e) /\ ~finned[e] /\ sent[e] = 0 /\ taken[e] = <<>>
  <2>1. ~finned[e]
    BY <1>4, <1>6, <1>7 DEF EndInv, Fresh
  <2>2. Fresh(e)
    BY <1>4, <1>7, <2>1 DEF Fresh
  <2> QED
    BY <1>6, <2>1, <2>2 DEF EndInv, Shaken
<1>9. PICK c : c = [w EXCEPT !.state = "SYN_SENT"]
  OBVIOUS
<1>10. /\ c \in TcpConnections /\ c.state = "SYN_SENT" /\ c.send_seq = Isn[e]
       /\ c.recv_ack = w.recv_ack
  <2>1. "SYN_SENT" \in TcpStates
    BY DEF TcpStates
  <2> QED
    BY <1>6, <1>7, <1>9, <2>1, ConnWithState
<1>11. Transition(conn["opener"], "SYN_SENT") = c
  BY <1>1, <1>4, <1>7, <1>9 DEF Transition, Successors
<1>12. PICK d : d = Sent(c, 1)
  OBVIOUS
<1>13. /\ d \in TcpConnections /\ d.state = "SYN_SENT"
       /\ d.send_seq = Isn[e] + 1 /\ d.recv_ack = w.recv_ack
  <2>1. Advance(Isn[e], 1) = Isn[e] + 1
    <3>1. Isn[e] + 1 < SeqMod
      BY <1>6, SeqModAssumption
    <3> QED
      BY <1>6, <3>1, AdvanceSum
  <2> QED
    BY <1>10, <1>12, <2>1, ConnSent
<1>14. /\ Transmit(e, <<f>>, line[e])
       /\ conn' = [conn EXCEPT ![e] = d]
       /\ setting' = setting /\ sent' = sent /\ taken' = taken
       /\ finned' = finned /\ resyn' = resyn /\ refin' = refin
  BY <1>1, <1>5, <1>7, <1>10, <1>11, <1>12 DEF Open, history
<1>15. conn'[e] = d /\ conn'[p] = conn[p] /\ conn' \in [Ends -> TcpConnections]
  BY <1>3, <1>6, <1>13, <1>14 DEF TypeOK
<1>16. /\ f \in FrameRecords /\ f.seq = Isn[e] /\ f.ack = 0 /\ f.syn
       /\ ~f.has_ack /\ ~f.fin /\ f.len = 0
  <2>1. Isn[e] \in SeqNums /\ 0 \in SeqNums
    BY <1>3, SettingsAssumption, SeqModAssumption DEF SeqNums
  <2> QED
    BY <1>5, <1>7, <2>1, SynType
<1>17. /\ line' \in [Ends -> Seq(FrameRecords)]
       /\ soup' \in [Ends -> SUBSET FrameRecords]
       /\ Frames(e)' \subseteq Frames(e)
       /\ \A h \in Frames(p)' : h \in Frames(p) \/ h \in {f}
  BY <1>3, <1>6, <1>14, <1>16, TransmitOne
<1>18. TypeOK'
  BY <1>6, <1>14, <1>15, <1>17 DEF TypeOK
<1>19. ~Fresh(e)' /\ ~Shaken(e)' /\ ~Shaken(e)
  BY <1>8, <1>13, <1>15 DEF Fresh, Shaken
<1>20. Evolves(e, {f})
  <2>1. Len(taken[e]) <= Len(taken'[e]) /\ sent[e] <= sent'[e]
    BY <1>6, <1>8, <1>14
  <2> QED
    BY <1>3, <1>4, <1>8, <1>13, <1>14, <1>15, <1>17, <1>19, <2>1 DEF Evolves
<1>21. NewFrames(e, {f})
  <2>1. FrameOf(p, f)'
    BY <1>2, <1>3, <1>16 DEF FrameOf
  <2>2. 0 <= Isn[p] + 1 + Len(taken'[e])
    BY <1>3, <1>6, <1>8, <1>14, Numbers
  <2> QED
    BY <1>3, <1>8, <1>16, <2>1, <2>2 DEF NewFrames
<1>22. ShakeInv'
  <2>1. /\ Frames(p) = {} /\ Frames(e) = {} /\ Fresh(p)
        /\ conn[p].state = "LISTEN"
    BY <1>1, <1>2, <1>6, <1>8 DEF ShakeInv, EndInv, Fresh
  <2>2. \A x \in Ends : \A h \in Frames(x)' : h.syn
    BY <1>1, <1>2, <1>16, <1>17, <2>1 DEF Ends
  <2> QED
    BY <1>1, <1>2, <1>15, <1>17, <1>19, <2>1, <2>2 DEF ShakeInv
<1>23. EndInv(e)'
  BY <1>1, <1>6, <1>8, <1>13, <1>14, <1>15, <1>19 DEF EndInv, Closing
<1>24. RecvInv(e)'
  <2>1. Len(taken[e]) <= sent[p] /\ sent[p] \in Nat
    BY <1>3, <1>6, <1>8, Numbers
  <2> QED
    BY <1>3, <1>8, <1>14, <1>19, <2>1 DEF RecvInv
<1>25. HeardInv(e)'
  BY <1>13, <1>15 DEF HeardInv
<1> QED
  BY <1>3, <1>18, <1>20, <1>21, <1>22, <1>23, <1>24, <1>25, StepKept

\* When a side is past the handshake, both have begun.
LEMMA BothBegun ==
    ASSUME IndInv, NEW e \in Ends, Shaken(e), conn[e].state # "SYN_RECEIVED"
    PROVE  Shaken("opener") /\ ~Fresh("listener")
<1>1. ShakeInv /\ EndInv(e)
  BY DEF IndInv
<1>2. CASE e = "opener"
  BY <1>1, <1>2 DEF ShakeInv
<1>3. CASE e = "listener"
  <2>1. conn[e].state # "LISTEN"
    BY <1>1 DEF EndInv, Shaken, Fresh, Closing
  <2> QED
    BY <1>1, <1>3, <2>1 DEF ShakeInv, Shaken
<1> QED
  BY <1>2, <1>3 DEF Ends

\* An ESTABLISHED side has sent no FIN, and its numbers are those of its data.
LEMMA Established ==
    ASSUME IndInv, NEW e \in Ends, conn[e].state = "ESTABLISHED"
    PROVE  /\ ~finned[e] /\ Shaken(e) /\ ~Fresh(e)
           /\ conn[e].send_seq = Isn[e] + 1 + sent[e]
           /\ Advance(conn[e].send_seq, 1) = Isn[e] + 2 + sent[e]
           /\ Shaken("opener") /\ ~Fresh("listener")
<1>1. ~finned[e]
  BY DEF IndInv, EndInv, Closing
<1>2. Shaken(e) /\ ~Fresh(e)
  BY DEF Shaken, Fresh
<1>3. /\ Isn[e] \in Nat /\ sent[e] \in Nat /\ setting.data \in Nat
      /\ Isn[e] + setting.data + 2 < SeqMod
  BY Numbers DEF IndInv
<1>4. conn[e].send_seq = Isn[e] + 1 + sent[e] /\ sent[e] <= setting.data
  <2>1. EndInv(e)
    BY DEF IndInv
  <2> QED
    BY <1>1, <1>2, <1>3, <2>1 DEF EndInv
<1>5. Isn[e] + 1 + sent[e] \in Nat /\ Isn[e] + 1 + sent[e] + 1 < SeqMod
  BY <1>3, <1>4, SeqModAssumption
<1>6. Advance(Isn[e] + 1 + sent[e], 1) = Isn[e] + 1 + sent[e] + 1
  BY <1>5, AdvanceSum
<1>7. Isn[e] + 1 + sent[e] + 1 = Isn[e] + 2 + sent[e]
  BY <1>3
<1> QED
  BY <1>1, <1>2, <1>4, <1>6, <1>7, BothBegun

\* What a side acknowledges before it has seen a FIN is what it has taken.
LEMMA AckExact ==
    ASSUME IndInv, NEW e \in Ends, Shaken(e), ~resyn[e], ~finned[Peer(e)]
    PROVE  conn[e].recv_seq = Isn[Peer(e)] + 1 + Len(taken[e])
  BY DEF IndInv, RecvInv

\* ... or, where the opener's own number is an old one, at most that.
LEMMA SendAckOld ==
    ASSUME IndInv, NEW e \in Ends, Shaken(e), ~resyn[e], ~finned[Peer(e)],
           OwnNumberIsOld(Peer(e))
    PROVE  conn[e].send_ack <= Isn[Peer(e)] + 1 + Len(taken[e])
<1>1. PICK p : p = Peer(e)
  OBVIOUS
<1>2. /\ Isn[e] \in Nat /\ Isn[p] \in Nat /\ Len(taken[e]) \in Nat
  BY <1>1, PeerFacts, Numbers DEF IndInv
<1>3. \/ conn[e].send_ack = Isn[p] + 1 + Len(taken[e])
      \/ e = "opener" /\ conn[e].send_ack = Isn[e] + 1
  BY <1>1, AckExact DEF IndInv, RecvInv
<1>4. e = "opener" => Isn[e] <= Isn[p]
  BY <1>1 DEF OwnNumberIsOld, Peer
<1> QED
  BY <1>1, <1>2, <1>3, <1>4

\* A step that receives nothing leaves what was received alone.
LEMMA RecvSame ==
    ASSUME NEW e \in Ends, RecvInv(e), Shaken(e) \/ ~Shaken(e)',
           conn'[e].recv_seq = conn[e].recv_seq, conn'[e].send_ack = conn[e].send_ack,
           taken' = taken, resyn' = resyn,
           sent'[Peer(e)] = sent[Peer(e)], finned'[Peer(e)] = finned[Peer(e)]
    PROVE  RecvInv(e)'
  BY DEF RecvInv

\* Data acknowledges recv_seq, which is one past what was taken before the FIN.
LEMMA SendDataStep ==
    ASSUME IndInv, NEW e \in Ends, SendData(e)
    PROVE  IndInv'
<1>1. PICK p : p = Peer(e)
  OBVIOUS
<1>2. p \in Ends /\ p # e /\ Peer(p) = e
  BY <1>1, PeerFacts
<1>3. PICK w : w = conn[e]
  OBVIOUS
<1>4. PICK d : d = Sent(w, 1)
  OBVIOUS
<1>5. PICK f : f = DataFrame(w, 1, sent[e] + 1)
  OBVIOUS
<1>6. /\ TypeOK /\ EndInv(e) /\ RecvInv(e) /\ ShakeInv
      /\ w \in TcpConnections /\ Isn[e] \in Nat /\ sent[e] \in Nat
      /\ setting.data \in Nat /\ Len(taken[e]) \in Nat
  BY <1>3, Numbers DEF IndInv
<1>7. w.state = "ESTABLISHED" /\ sent[e] < setting.data
  BY <1>3 DEF SendData
<1>8. /\ ~finned[e] /\ Shaken(e) /\ ~Fresh(e)
      /\ w.send_seq = Isn[e] + 1 + sent[e]
      /\ Advance(w.send_seq, 1) = Isn[e] + 2 + sent[e]
      /\ Shaken("opener") /\ ~Fresh("listener")
  BY <1>3, <1>7, Established
<1>9. /\ d \in TcpConnections /\ d.state = "ESTABLISHED"
      /\ d.send_seq = Isn[e] + 2 + sent[e] /\ d.recv_seq = w.recv_seq
      /\ d.send_ack = w.send_ack /\ d.recv_ack = w.recv_ack
  BY <1>4, <1>6, <1>7, <1>8, ConnSent
<1>10. /\ Transmit(e, <<f>>, line[e])
       /\ conn' = [conn EXCEPT ![e] = d]
       /\ sent' = [sent EXCEPT ![e] = @ + 1]
       /\ setting' = setting /\ taken' = taken
       /\ finned' = finned /\ resyn' = resyn /\ refin' = refin
  BY <1>3, <1>4, <1>5 DEF SendData, history
<1>11. /\ conn'[e] = d /\ conn'[p] = conn[p] /\ conn' \in [Ends -> TcpConnections]
       /\ sent'[e] = sent[e] + 1 /\ sent'[p] = sent[p] /\ sent' \in [Ends -> Nat]
  BY <1>2, <1>6, <1>9, <1>10 DEF TypeOK
<1>12. /\ f \in FrameRecords /\ f.seq = w.send_seq /\ f.ack = w.recv_seq /\ ~f.syn
       /\ f.has_ack /\ ~f.fin /\ f.len = 1 /\ f.payload = sent[e] + 1
  <2>1. sent[e] + 1 \in Nat
    BY <1>6
  <2> QED
    BY <1>5, <1>6, <2>1, DataType
<1>13. /\ line' \in [Ends -> Seq(FrameRecords)]
       /\ soup' \in [Ends -> SUBSET FrameRecords]
       /\ Frames(e)' \subseteq Frames(e)
       /\ \A h \in Frames(p)' : h \in Frames(p) \/ h \in {f}
  BY <1>1, <1>6, <1>10, <1>12, TransmitOne
<1>14. TypeOK'
  BY <1>6, <1>10, <1>11, <1>13 DEF TypeOK
<1>15. Shaken(e)' /\ ~Fresh(e)'
  BY <1>9, <1>11 DEF Shaken, Fresh
<1>16. Evolves(e, {f})
  <2>1. Len(taken[e]) <= Len(taken'[e]) /\ sent[e] <= sent'[e]
    BY <1>6, <1>10, <1>11
  <2> QED
    BY <1>1, <1>3, <1>8, <1>9, <1>10, <1>11, <1>13, <1>15, <2>1 DEF Evolves
<1>17. NewFrames(e, {f})
  <2>1. f.payload \in 1..sent'[e] /\ f.seq = Isn[e] + f.payload
    <3>1. /\ sent'[e] = sent[e] + 1 /\ f.payload = sent[e] + 1
          /\ f.seq = Isn[e] + 1 + sent[e]
      BY <1>8, <1>11, <1>12
    <3>2. /\ sent[e] + 1 \in 1..(sent[e] + 1)
          /\ Isn[e] + 1 + sent[e] = Isn[e] + (sent[e] + 1)
      BY <1>6
    <3> QED
      BY <3>1, <3>2
  <2>2. FrameOf(p, f)'
    BY <1>2, <1>12, <1>15, <2>1 DEF FrameOf
  <2>3. (~finned[p] /\ NoLateSyn') => f.ack = Isn[p] + 1 + Len(taken'[e])
    BY <1>1, <1>3, <1>8, <1>10, <1>12, AckExact DEF NoLateSyn
  <2>4. Isn[p] + 1 + Len(taken'[e]) \in Nat
    BY <1>2, <1>6, <1>10, Numbers
  <2> QED
    BY <1>1, <1>8, <1>12, <2>2, <2>3, <2>4 DEF NewFrames
<1>18. ShakeInv'
  <2>1. Shaken("opener")' /\ ~Fresh("listener")'
    BY <1>2, <1>8, <1>10, <1>11, <1>15 DEF Shaken, Fresh, Ends
  <2> QED
    BY <2>1 DEF ShakeInv, Shaken
<1>19. EndInv(e)'
  <2>1. sent'[e] <= setting'.data /\ Isn[e] + 1 + sent'[e] + 0 = Isn[e] + 2 + sent[e]
    <3>1. sent'[e] = sent[e] + 1 /\ setting' = setting
      BY <1>10, <1>11
    <3>2. /\ sent[e] + 1 <= setting.data
          /\ Isn[e] + 1 + (sent[e] + 1) + 0 = Isn[e] + 2 + sent[e]
      <4>1. sent[e] < setting.data
        BY <1>7
      <4>2. Isn[e] \in Nat /\ sent[e] \in Nat /\ setting.data \in Nat
        BY <1>6
      <4> QED
        BY <4>1, <4>2
    <3> QED
      BY <3>1, <3>2
  <2>2. e = "listener" => conn'[e].state # "CLOSED"
    BY <1>9, <1>11
  <2> QED
    BY <1>8, <1>9, <1>10, <1>11, <1>15, <2>1 DEF EndInv, Closing
<1>20. RecvInv(e)'
  BY <1>1, <1>3, <1>6, <1>8, <1>9, <1>10, <1>11, RecvSame
<1>21. HeardInv(e)'
  BY <1>9, <1>11 DEF HeardInv
<1> QED
  BY <1>14, <1>16, <1>17, <1>18, <1>19, <1>20, <1>21, StepKept

\* A keepalive takes no sequence number and acknowledges send_ack.
LEMMA SendKeepaliveStep ==
    ASSUME IndInv, NEW e \in Ends, SendKeepalive(e)
    PROVE  IndInv'
<1>1. PICK p : p = Peer(e)
  OBVIOUS
<1>2. /\ p \in Ends /\ p # e /\ Peer(p) = e
      /\ e = "opener" => p = "listener"
  BY <1>1, PeerFacts
<1>3. PICK w : w = conn[e]
  OBVIOUS
<1>4. PICK f : f = KeepaliveFrame(w)
  OBVIOUS
<1>5. /\ TypeOK /\ EndInv(e) /\ RecvInv(e) /\ HeardInv(e) /\ ShakeInv
      /\ w \in TcpConnections /\ sent[e] \in Nat /\ Len(taken[e]) \in Nat
      /\ Isn[p] \in Nat
  BY <1>2, <1>3, Numbers DEF IndInv
<1>6. w.state = "ESTABLISHED" /\ setting.idles
  BY <1>3 DEF SendKeepalive
<1>7. ~finned[e] /\ Shaken(e) /\ Shaken("opener") /\ ~Fresh("listener")
  BY <1>3, <1>6, Established
<1>8. /\ Transmit(e, <<f>>, line[e])
      /\ conn' = conn /\ sent' = sent /\ setting' = setting /\ taken' = taken
      /\ finned' = finned /\ resyn' = resyn /\ refin' = refin
  BY <1>3, <1>4 DEF SendKeepalive, history
<1>9. /\ f \in FrameRecords /\ f.ack = w.send_ack /\ ~f.syn
      /\ f.has_ack /\ ~f.fin /\ f.len = 0
  BY <1>4, <1>5, ConnFields, AckType DEF KeepaliveFrame
<1>10. /\ line' \in [Ends -> Seq(FrameRecords)]
       /\ soup' \in [Ends -> SUBSET FrameRecords]
       /\ Frames(e)' \subseteq Frames(e)
       /\ \A h \in Frames(p)' : h \in Frames(p) \/ h \in {f}
  BY <1>1, <1>5, <1>8, <1>9, TransmitOne
<1>11. TypeOK'
  BY <1>5, <1>8, <1>10 DEF TypeOK
<1>12. \A x \in Ends : (Shaken(x)' <=> Shaken(x)) /\ (Fresh(x)' <=> Fresh(x))
  BY <1>8 DEF Shaken, Fresh
<1>13. Evolves(e, {f})
  <2>1. Len(taken[e]) <= Len(taken'[e]) /\ sent[e] <= sent'[e]
    BY <1>5, <1>8
  <2> QED
    BY <1>1, <1>8, <1>10, <1>12, <2>1 DEF Evolves
<1>14. NewFrames(e, {f})
  <2>1. FrameOf(p, f)'
    BY <1>2, <1>7, <1>9, <1>12 DEF FrameOf
  <2>2. (~finned[p] /\ NoLateSyn' /\ OwnNumberIsOld(p)) =>
          f.ack <= Isn[p] + 1 + Len(taken'[e])
    BY <1>1, <1>3, <1>7, <1>8, <1>9, SendAckOld DEF NoLateSyn
  <2> QED
    BY <1>1, <1>7, <1>9, <2>1, <2>2 DEF NewFrames
<1>15. ShakeInv'
  <2>1. Shaken("opener")' /\ ~Fresh("listener")'
    BY <1>7, <1>12 DEF Ends
  <2> QED
    BY <2>1 DEF ShakeInv, Shaken
<1>16. EndInv(e)'
  BY <1>5, <1>8, <1>12 DEF EndInv
<1>17. RecvInv(e)'
  BY <1>5, <1>7, <1>8, RecvSame
<1>18. HeardInv(e)'
  BY <1>3, <1>6, <1>8 DEF HeardInv
<1> QED
  BY <1>11, <1>13, <1>14, <1>15, <1>16, <1>17, <1>18, StepKept

\* The FIN is numbered after all data, and the side's AckInv and FinInv end with it.
LEMMA CloseStep ==
    ASSUME IndInv, NEW e \in Ends, Close(e)
    PROVE  IndInv'
<1>1. PICK p : p = Peer(e)
  OBVIOUS
<1>2. p \in Ends /\ p # e /\ Peer(p) = e
  BY <1>1, PeerFacts
<1>3. PICK w : w = conn[e]
  OBVIOUS
<1>4. /\ TypeOK /\ EndInv(e) /\ RecvInv(e) /\ ShakeInv
      /\ w \in TcpConnections /\ Isn[e] \in Nat /\ sent[e] \in Nat
      /\ Len(taken[e]) \in Nat /\ Isn[p] \in Nat
  BY <1>2, <1>3, Numbers DEF IndInv
<1>5. w.state = "ESTABLISHED"
  <2>1. w.state # "CLOSE_WAIT" /\ InitiateClose(w) # w
    BY <1>3, <1>4 DEF EndInv, Close, ClosesActively
  <2> QED
    BY <1>4, <2>1, CloseMoves
<1>6. /\ ~finned[e] /\ Shaken(e) /\ ~Fresh(e)
      /\ w.send_seq = Isn[e] + 1 + sent[e]
      /\ Advance(w.send_seq, 1) = Isn[e] + 2 + sent[e]
      /\ Shaken("opener") /\ ~Fresh("listener")
  BY <1>3, <1>5, Established
<1>7. PICK c : c = [w EXCEPT !.state = "FIN_WAIT_1"]
  OBVIOUS
<1>8. /\ c \in TcpConnections /\ c.state = "FIN_WAIT_1"
      /\ c.send_seq = w.send_seq /\ c.recv_seq = w.recv_seq
      /\ c.send_ack = w.send_ack /\ c.recv_ack = w.recv_ack
  <2>1. "FIN_WAIT_1" \in TcpStates
    BY DEF TcpStates
  <2> QED
    BY <1>4, <1>7, <2>1, ConnWithState
<1>9. InitiateClose(w) = c
  BY <1>4, <1>5, <1>7, CloseMoves
<1>10. PICK d : d = Sent(c, 1)
  OBVIOUS
<1>11. /\ d \in TcpConnections /\ d.state = "FIN_WAIT_1"
       /\ d.send_seq = Isn[e] + 2 + sent[e] /\ d.recv_seq = w.recv_seq
       /\ d.send_ack = w.send_ack /\ d.recv_ack = w.recv_ack
  BY <1>6, <1>8, <1>10, ConnSent
<1>12. PICK f : f = FinFrame(c)
  OBVIOUS
<1>13. /\ Transmit(e, <<f>>, line[e])
       /\ conn' = [conn EXCEPT ![e] = d]
       /\ finned' = [finned EXCEPT ![e] = TRUE]
       /\ setting' = setting /\ taken' = taken /\ sent' = sent
       /\ resyn' = resyn /\ refin' = refin
  BY <1>3, <1>9, <1>10, <1>12 DEF Close
<1>14. /\ conn'[e] = d /\ conn'[p] = conn[p] /\ conn' \in [Ends -> TcpConnections]
       /\ finned'[e] /\ finned'[p] = finned[p] /\ finned' \in [Ends -> BOOLEAN]
  BY <1>2, <1>4, <1>11, <1>13 DEF TypeOK
<1>15. /\ f \in FrameRecords /\ f.seq = w.send_seq /\ f.ack = w.recv_seq /\ ~f.syn
       /\ f.has_ack /\ f.fin /\ f.len = 0
  BY <1>8, <1>12, FinType
<1>16. /\ line' \in [Ends -> Seq(FrameRecords)]
       /\ soup' \in [Ends -> SUBSET FrameRecords]
       /\ Frames(e)' \subseteq Frames(e)
       /\ \A h \in Frames(p)' : h \in Frames(p) \/ h \in {f}
  BY <1>1, <1>4, <1>13, <1>15, TransmitOne
<1>17. TypeOK'
  BY <1>4, <1>13, <1>14, <1>16 DEF TypeOK
<1>18. Shaken(e)' /\ ~Fresh(e)'
  BY <1>11, <1>14 DEF Shaken, Fresh
<1>19. Evolves(e, {f})
  <2>1. Len(taken[e]) <= Len(taken'[e]) /\ sent[e] <= sent'[e]
    BY <1>4, <1>13
  <2> QED
    BY <1>1, <1>3, <1>6, <1>11, <1>13, <1>14, <1>16, <1>18, <2>1 DEF Evolves
<1>20. NewFrames(e, {f})
  <2>1. FrameOf(p, f)'
    BY <1>2, <1>6, <1>13, <1>14, <1>15, <1>18 DEF FrameOf
  <2>2. (~finned[p] /\ NoLateSyn') => f.ack = Isn[p] + 1 + Len(taken'[e])
    BY <1>1, <1>3, <1>6, <1>13, <1>15, AckExact DEF NoLateSyn
  <2>3. Isn[p] + 1 + Len(taken'[e]) \in Nat
    BY <1>4, <1>13
  <2> QED
    BY <1>1, <1>6, <1>15, <2>1, <2>2, <2>3 DEF NewFrames
<1>21. ShakeInv'
  <2>1. Shaken("opener")' /\ ~Fresh("listener")'
    BY <1>2, <1>6, <1>13, <1>14, <1>18 DEF Shaken, Fresh, Ends
  <2> QED
    BY <2>1 DEF ShakeInv, Shaken
<1>22. EndInv(e)'
  <2>1. Isn[e] + 1 + sent[e] + 1 = Isn[e] + 2 + sent[e]
    BY <1>4
  <2> QED
    BY <1>4, <1>11, <1>13, <1>14, <1>18, <2>1 DEF EndInv, Closing
<1>23. RecvInv(e)'
  BY <1>1, <1>3, <1>4, <1>6, <1>11, <1>13, <1>14, RecvSame
<1>24. HeardInv(e)'
  BY <1>11, <1>14 DEF HeardInv
<1> QED
  BY <1>17, <1>19, <1>20, <1>21, <1>22, <1>23, <1>24, StepKept

-----------------------------------------------------------------------------
(* A frame is received                                                     *)

\* What is known of a frame on its way
LEMMA FrameKnown ==
    ASSUME IndInv, NEW e \in Ends, NEW h \in Frames(e), NEW p, p = Peer(e)
    PROVE  /\ h \in FrameRecords /\ FrameOf(e, h)
           /\ h.len \in {0, 1} /\ (h.len > 0 <=> h.len = 1)
           /\ h.fin => h.len = 0 /\ h.has_ack /\ ~h.syn
           /\ h.fin => h.seq + 1 < SeqMod /\ h.seq + 1 = Isn[p] + 2 + sent[p]
           /\ h.syn => h.seq + 1 < SeqMod
           /\ h.len = 1 => h.payload \in Nat /\ ~h.syn /\ ~h.fin
<1>1. TypeOK /\ FrameOf(e, h) /\ p \in Ends /\ EndInv(p)
  BY PeerFacts DEF IndInv, WireInv
<1>2. h \in FrameRecords
  BY <1>1, FramesType
<1>3. h.len \in {0, 1} /\ (h.len > 0 <=> h.len = 1)
  BY <1>2, FrameFields
<1>4. /\ Isn[p] \in Nat /\ sent[p] \in Nat /\ setting.data \in Nat
      /\ Isn[p] + setting.data + 2 < SeqMod /\ sent[p] <= setting.data
  <2>1. sent[p] <= setting.data
    BY <1>1 DEF EndInv
  <2> QED
    BY <1>1, <2>1, Numbers
<1>5. h.fin => h.len = 0 /\ h.has_ack /\ ~h.syn
  BY <1>1 DEF FrameOf
<1>6. h.fin => h.seq + 1 < SeqMod /\ h.seq + 1 = Isn[p] + 2 + sent[p]
  <2>1. h.fin => h.seq = Isn[p] + 1 + sent[p]
    BY <1>1 DEF FrameOf
  <2>2. /\ Isn[p] + 1 + sent[p] + 1 < SeqMod
        /\ Isn[p] + 1 + sent[p] + 1 = Isn[p] + 2 + sent[p]
    BY <1>4, SeqModAssumption
  <2> QED
    BY <2>1, <2>2
<1>7. h.syn => h.seq + 1 < SeqMod
  <2>1. h.syn => h.seq = Isn[p]
    BY <1>1 DEF FrameOf
  <2>2. Isn[p] + 1 < SeqMod
    BY <1>4, SeqModAssumption
  <2> QED
    BY <2>1, <2>2
<1>8. h.len = 1 => h.payload \in Nat /\ ~h.syn /\ ~h.fin
  <2>1. h.len = 1 => h.payload \in 1..sent[p] /\ ~h.syn /\ ~h.fin
    BY <1>1 DEF FrameOf
  <2> QED
    BY <1>4, <2>1
<1> QED
  BY <1>1, <1>2, <1>3, <1>5, <1>6, <1>7, <1>8

\* A side that has not seen its peer's SYN is about to.
LEMMA OnlySyns ==
    ASSUME IndInv, NEW e \in Ends, NEW h \in Frames(e)
    PROVE  /\ Shaken(e) \/ (h.syn /\ conn[e].state \in {"LISTEN", "SYN_SENT"})
           /\ conn[e].state = "LISTEN" => h.syn /\ ~Shaken(e) /\ e = "listener"
           /\ conn[e].state = "SYN_SENT" =>
                h.syn /\ h.has_ack /\ ~Shaken(e) /\ e = "opener"
<1>1. ShakeInv /\ EndInv(e) /\ FrameOf(e, h)
  BY DEF IndInv, WireInv
<1>2. CASE e = "opener"
  <2>1. ~Fresh(e)
    BY <1>1, <1>2 DEF ShakeInv
  <2>2. conn[e].state \notin {"LISTEN", "SYN_RECEIVED"}
    BY <1>1, <1>2 DEF EndInv
  <2>3. CASE conn[e].state = "SYN_SENT"
    <3>1. ~Shaken(e)
      BY <2>3 DEF Shaken
    <3>2. h.syn
      BY <1>1, <1>2, <3>1 DEF ShakeInv, Ends
    <3> QED
      BY <1>1, <1>2, <2>3, <3>1, <3>2 DEF FrameOf
  <2>4. CASE conn[e].state # "SYN_SENT"
    BY <2>1, <2>2, <2>4 DEF Shaken
  <2> QED
    BY <2>3, <2>4
<1>3. CASE e = "listener"
  <2>1. /\ conn[e].state # "SYN_SENT" /\ (conn[e].state = "CLOSED" => finned[e])
        /\ conn[e].state = "LISTEN" => ~finned[e]
    BY <1>1, <1>3 DEF EndInv, Closing
  <2>2. CASE conn[e].state = "LISTEN"
    <3>1. Fresh(e) /\ ~Shaken(e)
      BY <2>1, <2>2 DEF Shaken, Fresh
    <3>2. h.syn
      BY <1>1, <1>3, <3>1 DEF ShakeInv, Ends
    <3> QED
      BY <1>3, <2>1, <2>2, <3>1, <3>2
  <2>3. CASE conn[e].state # "LISTEN"
    BY <2>1, <2>3 DEF Shaken, Fresh
  <2> QED
    BY <2>2, <2>3
<1> QED
  BY <1>2, <1>3 DEF Ends

\* What Handle does, side by side
LEMMA HandleEffect ==
    ASSUME IndInv, NEW e \in Ends, NEW p, p = Peer(e), NEW h \in Frames(e),
           NEW rest \in Seq(FrameRecords),
           \A i \in 1..Len(rest) : rest[i] \in Frames(e),
           Handle(e, h, rest),
           NEW w, w = conn[e], NEW c, c = HandleIncoming(w, h, h.len),
           NEW fs \in Seq(FrameRecords), fs = Answers(w, c, h),
           NEW d \in TcpConnections,
           d = CASE h.syn /\ Shakes(w, c) /\ w.state = "LISTEN" -> Sent(c, 1)
                 [] Follows(c, h) -> Sent(InitiateClose(c), 1)
                 [] OTHER -> c
    PROVE  /\ TypeOK' /\ setting' = setting /\ sent' = sent
           /\ conn'[e] = d /\ conn'[p] = conn[p] /\ taken'[p] = taken[p]
           /\ finned'[p] = finned[p] /\ resyn'[p] = resyn[p] /\ refin'[p] = refin[p]
           /\ taken'[e] = IF h.len = 1 /\ c.recv_seq # w.recv_seq /\ ~resyn[e]
                          THEN Append(taken[e], h.payload) ELSE taken[e]
           /\ finned'[e] <=> (finned[e] \/ Follows(c, h))
           /\ resyn'[e] <=> (resyn[e] \/ (h.syn /\ w.state \notin {"LISTEN", "SYN_SENT"}))
           /\ refin'[e] <=> (refin[e] \/ (h.fin /\ HasFin(w)))
           /\ Frames(e)' \subseteq Frames(e)
           /\ \A g \in Frames(p)' : g \in Frames(p) \/ g \in {fs[i] : i \in 1..Len(fs)}
<1>1. p \in Ends /\ p # e
  BY PeerFacts
<1>2. /\ TypeOK /\ (h.len > 0 <=> h.len = 1) /\ (h.len = 1 => h.payload \in Nat)
      /\ h \in FrameRecords
  BY FrameKnown DEF IndInv
<1>3. /\ conn' = [conn EXCEPT ![e] = d]
      /\ Transmit(e, fs, rest)
      /\ taken' = [taken EXCEPT ![e] =
                     IF h.len > 0 /\ c.recv_seq # w.recv_seq /\ ~resyn[e]
                     THEN Append(@, h.payload) ELSE @]
      /\ finned' = [finned EXCEPT ![e] = @ \/ Follows(c, h)]
      /\ resyn' = [resyn EXCEPT ![e] =
                     @ \/ (h.syn /\ w.state \notin {"LISTEN", "SYN_SENT"})]
      /\ refin' = [refin EXCEPT ![e] = @ \/ (h.fin /\ HasFin(w))]
      /\ setting' = setting /\ sent' = sent
  BY Zenon DEF Handle
<1>4. /\ line' \in [Ends -> Seq(FrameRecords)]
      /\ soup' \in [Ends -> SUBSET FrameRecords]
      /\ Frames(e)' \subseteq Frames(e)
      /\ \A g \in Frames(p)' : g \in Frames(p) \/ g \in {fs[i] : i \in 1..Len(fs)}
  BY <1>2, <1>3, TransmitFrames
<1>5. conn' \in [Ends -> TcpConnections] /\ conn'[e] = d /\ conn'[p] = conn[p]
  BY <1>1, <1>2, <1>3 DEF TypeOK
<1>6. PICK t : t = IF h.len = 1 /\ c.recv_seq # w.recv_seq /\ ~resyn[e]
                   THEN Append(taken[e], h.payload) ELSE taken[e]
  OBVIOUS
<1>7. t \in Seq(Nat)
  <2>1. taken[e] \in Seq(Nat)
    BY <1>2 DEF TypeOK
  <2>2. h.len = 1 => Append(taken[e], h.payload) \in Seq(Nat)
    BY <1>2, <2>1, AppendProperties
  <2> QED
    BY <1>6, <2>1, <2>2
<1>8. taken' = [taken EXCEPT ![e] = t]
  BY <1>2, <1>3, <1>6
<1>9. taken' \in [Ends -> Seq(Nat)] /\ taken'[e] = t /\ taken'[p] = taken[p]
  BY <1>1, <1>2, <1>7, <1>8 DEF TypeOK
<1>10. /\ finned' \in [Ends -> BOOLEAN] /\ finned'[p] = finned[p]
       /\ finned'[e] <=> (finned[e] \/ Follows(c, h))
  <2>1. finned \in [Ends -> BOOLEAN] /\ (finned[e] \/ Follows(c, h)) \in BOOLEAN
    BY <1>2 DEF TypeOK, Follows
  <2> QED
    BY <1>1, <1>3, <2>1
<1>11. /\ resyn' \in [Ends -> BOOLEAN] /\ resyn'[p] = resyn[p]
       /\ resyn'[e] <=> (resyn[e] \/ (h.syn /\ w.state \notin {"LISTEN", "SYN_SENT"}))
  BY <1>1, <1>2, <1>3 DEF TypeOK
<1>12. /\ refin' \in [Ends -> BOOLEAN] /\ refin'[p] = refin[p]
       /\ refin'[e] <=> (refin[e] \/ (h.fin /\ HasFin(w)))
  BY <1>1, <1>2, <1>3 DEF TypeOK, HasFin
<1>13. TypeOK'
  BY <1>2, <1>3, <1>4, <1>5, <1>9, <1>10, <1>11, <1>12 DEF TypeOK
<1> QED
  BY <1>3, <1>4, <1>5, <1>6, <1>9, <1>10, <1>11, <1>12, <1>13

\* The listener answers the opener's SYN.
LEMMA ListenStep ==
    ASSUME IndInv, NEW e \in Ends, NEW h \in Frames(e),
           NEW rest \in Seq(FrameRecords),
           \A i \in 1..Len(rest) : rest[i] \in Frames(e),
           Handle(e, h, rest), conn[e].state = "LISTEN"
    PROVE  IndInv'
<1>1. PICK p : p = Peer(e)
  OBVIOUS
<1>2. h.syn /\ ~Shaken(e) /\ e = "listener"
  BY OnlySyns
<1>3. p \in Ends /\ p # e /\ Peer(p) = e /\ p = "opener" /\ \A x \in Ends : x = e \/ x = p
  BY <1>1, <1>2, PeerFacts
<1>4. PICK w : w = conn[e]
  OBVIOUS
<1>5. /\ TypeOK /\ EndInv(e) /\ RecvInv(e) /\ ShakeInv /\ w \in TcpConnections
      /\ Isn[e] \in Nat /\ Isn[p] \in Nat /\ sent[p] \in Nat
      /\ setting.data \in Nat /\ Isn[e] + setting.data + 2 < SeqMod
  BY <1>3, <1>4, Numbers DEF IndInv
<1>6. /\ Fresh(e) /\ ~finned[e] /\ sent[e] = 0 /\ taken[e] = <<>>
      /\ w.send_seq = Isn[e]
  <2>1. ~finned[e]
    BY <1>5 DEF EndInv, Closing
  <2>2. Fresh(e)
    BY <2>1 DEF Fresh
  <2> QED
    BY <1>2, <1>4, <1>5, <2>1, <2>2 DEF EndInv
<1>7. /\ h \in FrameRecords /\ h.seq = Isn[p] /\ h.seq + 1 < SeqMod
      /\ h.len = 0 /\ ~h.fin
  BY <1>1, <1>2, FrameKnown DEF FrameOf
<1>8. PICK c : c = HandleIncoming(w, h, h.len)
  OBVIOUS
<1>9. /\ c \in TcpConnections /\ c.send_seq = Isn[e] /\ c.recv_ack = w.recv_ack
      /\ c.recv_seq = Isn[p] + 1 /\ c.send_ack = Isn[p] + 1
      /\ c.state = "SYN_RECEIVED"
  BY <1>2, <1>4, <1>5, <1>6, <1>7, <1>8, SynHandled
<1>10. PICK f : f = SynAckFrame(c.send_seq, c.send_ack)
  OBVIOUS
<1>11. /\ f \in FrameRecords /\ f.seq = Isn[e] /\ f.ack = Isn[p] + 1 /\ f.syn
       /\ f.has_ack /\ ~f.fin /\ f.len = 0
  BY <1>9, <1>10, ConnFields, SynAckType
<1>12. PICK d : d = Sent(c, 1)
  OBVIOUS
<1>13. /\ d \in TcpConnections /\ d.state = "SYN_RECEIVED"
       /\ d.send_seq = Isn[e] + 1 /\ d.recv_seq = Isn[p] + 1
       /\ d.send_ack = Isn[p] + 1 /\ d.recv_ack = w.recv_ack
  <2>1. Isn[e] + 1 < SeqMod
    BY <1>5, SeqModAssumption
  <2>2. Advance(Isn[e], 1) = Isn[e] + 1
    BY <1>5, <2>1, AdvanceSum
  <2> QED
    BY <1>9, <1>12, <2>2, ConnSent
<1>14. PICK fs : fs = <<f>>
  OBVIOUS
<1>15. fs \in Seq(FrameRecords) /\ {fs[i] : i \in 1..Len(fs)} = {f}
  BY <1>11, <1>14
<1>16. Shakes(w, c) /\ ~Follows(c, h)
  BY <1>4, <1>7, <1>9 DEF Shakes, Follows
<1>17. fs = Answers(w, c, h)
  BY <1>2, <1>4, <1>7, <1>10, <1>14, <1>16 DEF Answers, ShakeAnswers
<1>18. d = CASE h.syn /\ Shakes(w, c) /\ w.state = "LISTEN" -> Sent(c, 1)
             [] Follows(c, h) -> Sent(InitiateClose(c), 1)
             [] OTHER -> c
  BY <1>2, <1>4, <1>12, <1>16
<1>19. /\ TypeOK' /\ setting' = setting /\ sent' = sent
       /\ conn'[e] = d /\ conn'[p] = conn[p] /\ taken'[p] = taken[p]
       /\ finned'[p] = finned[p] /\ resyn'[p] = resyn[p] /\ refin'[p] = refin[p]
       /\ taken'[e] = IF h.len = 1 /\ c.recv_seq # w.recv_seq /\ ~resyn[e]
                      THEN Append(taken[e], h.payload) ELSE taken[e]
       /\ finned'[e] <=> (finned[e] \/ Follows(c, h))
       /\ resyn'[e] <=> (resyn[e] \/ (h.syn /\ w.state \notin {"LISTEN", "SYN_SENT"}))
       /\ Frames(e)' \subseteq Frames(e)
       /\ \A g \in Frames(p)' : g \in Frames(p) \/ g \in {fs[i] : i \in 1..Len(fs)}
  BY <1>1, <1>4, <1>8, <1>13, <1>15, <1>17, <1>18, HandleEffect, SMTT(30)
<1>20. /\ taken'[e] = <<>> /\ ~finned'[e] /\ sent'[e] = 0
       /\ \A g \in Frames(p)' : g \in Frames(p) \/ g \in {f}
  <2>1. taken'[e] = taken[e] /\ (finned'[e] <=> finned[e])
    BY <1>7, <1>16, <1>19
  <2>2. \A g \in Frames(p)' : g \in Frames(p) \/ g \in {f}
    BY <1>15, <1>19
  <2> QED
    BY <1>6, <1>19, <2>1, <2>2
<1>21. Shaken(e)' /\ ~Fresh(e)'
  BY <1>13, <1>19 DEF Shaken, Fresh
<1>22. Evolves(e, {f})
  <2>1. Len(taken[e]) <= Len(taken'[e]) /\ sent[e] <= sent'[e]
    BY <1>6, <1>20
  <2> QED
    BY <1>1, <1>2, <1>4, <1>6, <1>13, <1>19, <1>20, <2>1 DEF Evolves
<1>23. NewFrames(e, {f})
  <2>1. FrameOf(p, f)'
    BY <1>3, <1>11 DEF FrameOf
  <2>2. f.ack <= Isn[p] + 1 + Len(taken'[e])
    BY <1>5, <1>11, <1>20
  <2> QED
    BY <1>1, <1>6, <1>11, <2>1, <2>2 DEF NewFrames
<1>24. ShakeInv'
  <2>1. ~Fresh(p) /\ ~Shaken(p) /\ \A x \in Ends : \A g \in Frames(x) : g.syn
    BY <1>2, <1>3, <1>5, <1>6 DEF ShakeInv
  <2>2. ~Fresh(p)' /\ ~Shaken(p)'
    BY <1>19, <2>1 DEF Fresh, Shaken
  <2>3. \A x \in Ends : \A g \in Frames(x)' : g.syn
    BY <1>3, <1>11, <1>19, <1>20, <2>1
  <2> QED
    BY <1>2, <1>3, <1>13, <1>19, <1>21, <2>2, <2>3 DEF ShakeInv
<1>25. EndInv(e)'
  <2>1. sent[e] <= setting.data
    BY <1>5, <1>6
  <2>2. Isn[e] + 1 + 0 + 0 = Isn[e] + 1
    BY <1>5
  <2> QED
    BY <1>2, <1>6, <1>13, <1>19, <1>20, <1>21, <2>1, <2>2 DEF EndInv, Closing
<1>26. RecvInv(e)'
  <2>1. Len(taken'[e]) = 0 /\ 0 <= sent'[p] /\ Isn[p] + 1 + 0 = Isn[p] + 1
    <3>1. taken'[e] = <<>> /\ sent'[p] = sent[p]
      BY <1>19, <1>20
    <3>2. Len(<<>>) = 0 /\ 0 <= sent[p] /\ Isn[p] + 1 + 0 = Isn[p] + 1
      BY <1>5
    <3> QED
      BY <3>1, <3>2
  <2>2. \A i \in 1..Len(taken'[e]) : taken'[e][i] = i
    BY <2>1
  <2> QED
    BY <1>1, <1>13, <1>19, <2>1, <2>2 DEF RecvInv
<1>27. HeardInv(e)'
  BY <1>13, <1>19 DEF HeardInv
<1> QED
  BY <1>19, <1>22, <1>23, <1>24, <1>25, <1>26, <1>27, StepKept

\* The opener takes the listener's SYN and ACK, and acknowledges its own number.
LEMMA SynSentStep ==
    ASSUME IndInv, NEW e \in Ends, NEW h \in Frames(e),
           NEW rest \in Seq(FrameRecords),
           \A i \in 1..Len(rest) : rest[i] \in Frames(e),
           Handle(e, h, rest), conn[e].state = "SYN_SENT"
    PROVE  IndInv'
<1>1. PICK p : p = Peer(e)
  OBVIOUS
<1>2. h.syn /\ h.has_ack /\ ~Shaken(e) /\ e = "opener"
  BY OnlySyns
<1>3. p \in Ends /\ p # e /\ Peer(p) = e /\ p = "listener"
  BY <1>1, <1>2, PeerFacts
<1>4. PICK w : w = conn[e]
  OBVIOUS
<1>5. /\ TypeOK /\ EndInv(e) /\ RecvInv(e) /\ ShakeInv /\ w \in TcpConnections
      /\ Isn[e] \in Nat /\ Isn[p] \in Nat /\ sent[p] \in Nat
      /\ setting.data \in Nat
  BY <1>3, <1>4, Numbers DEF IndInv
<1>6. /\ ~Fresh(e) /\ ~finned[e] /\ sent[e] = 0 /\ taken[e] = <<>>
      /\ w.send_seq = Isn[e] + 1
  <2>1. ~finned[e] /\ ~Fresh(e)
    BY <1>5 DEF EndInv, Closing, Fresh
  <2>2. Isn[e] + 1 + 0 + 0 = Isn[e] + 1
    BY <1>5
  <2> QED
    BY <1>2, <1>4, <1>5, <2>1, <2>2 DEF EndInv
<1>7. /\ h \in FrameRecords /\ h.seq = Isn[p] /\ h.seq + 1 < SeqMod
      /\ h.len = 0 /\ ~h.fin
  BY <1>1, <1>2, FrameKnown DEF FrameOf
<1>8. PICK c : c = HandleIncoming(w, h, h.len)
  OBVIOUS
<1>9. /\ c \in TcpConnections /\ c.send_seq = Isn[e] + 1 /\ c.recv_ack = w.recv_ack
      /\ c.recv_seq = Isn[p] + 1 /\ c.state = "ESTABLISHED"
      /\ c.send_ack = Isn[e] + 1
  <2>1. h.ack = Isn[e] + 1
    BY <1>2, FrameKnown DEF FrameOf
  <2> QED
    BY <1>2, <1>4, <1>5, <1>6, <1>7, <1>8, <2>1, SynHandled
<1>10. PICK f : f = AckFrame(c, c.send_ack)
  OBVIOUS
<1>11. /\ f \in FrameRecords /\ f.ack = Isn[e] + 1 /\ ~f.syn
       /\ f.has_ack /\ ~f.fin /\ f.len = 0
  BY <1>9, <1>10, ConnFields, AckType
<1>12. PICK fs : fs = <<f>>
  OBVIOUS
<1>13. fs \in Seq(FrameRecords) /\ {fs[i] : i \in 1..Len(fs)} = {f}
  BY <1>11, <1>12
<1>14. Shakes(w, c) /\ ~Follows(c, h) /\ w.state # "LISTEN"
  BY <1>4, <1>7, <1>9 DEF Shakes, Follows
<1>15. fs = Answers(w, c, h)
  BY <1>2, <1>4, <1>7, <1>10, <1>12, <1>14 DEF Answers, ShakeAnswers
<1>16. c = CASE h.syn /\ Shakes(w, c) /\ w.state = "LISTEN" -> Sent(c, 1)
             [] Follows(c, h) -> Sent(InitiateClose(c), 1)
             [] OTHER -> c
  BY <1>14
<1>17. /\ TypeOK' /\ setting' = setting /\ sent' = sent
       /\ conn'[e] = c /\ conn'[p] = conn[p] /\ taken'[p] = taken[p]
       /\ finned'[p] = finned[p] /\ resyn'[p] = resyn[p] /\ refin'[p] = refin[p]
       /\ taken'[e] = IF h.len = 1 /\ c.recv_seq # w.recv_seq /\ ~resyn[e]
                      THEN Append(taken[e], h.payload) ELSE taken[e]
       /\ finned'[e] <=> (finned[e] \/ Follows(c, h))
       /\ resyn'[e] <=> (resyn[e] \/ (h.syn /\ w.state \notin {"LISTEN", "SYN_SENT"}))
       /\ Frames(e)' \subseteq Frames(e)
       /\ \A g \in Frames(p)' : g \in Frames(p) \/ g \in {fs[i] : i \in 1..Len(fs)}
  BY <1>1, <1>4, <1>8, <1>9, <1>13, <1>15, <1>16, HandleEffect, SMTT(30)
<1>18. /\ taken'[e] = <<>> /\ ~finned'[e] /\ sent'[e] = 0
       /\ \A g \in Frames(p)' : g \in Frames(p) \/ g \in {f}
  <2>1. taken'[e] = taken[e] /\ (finned'[e] <=> finned[e])
    BY <1>7, <1>14, <1>17
  <2>2. \A g \in Frames(p)' : g \in Frames(p) \/ g \in {f}
    BY <1>13, <1>17
  <2> QED
    BY <1>6, <1>17, <2>1, <2>2
<1>19. Shaken(e)' /\ ~Fresh(e)'
  BY <1>9, <1>17 DEF Shaken, Fresh
<1>20. Evolves(e, {f})
  <2>1. Len(taken[e]) <= Len(taken'[e]) /\ sent[e] <= sent'[e]
    BY <1>6, <1>18
  <2> QED
    BY <1>1, <1>2, <1>4, <1>6, <1>9, <1>17, <1>18, <2>1 DEF Evolves
<1>21. NewFrames(e, {f})
  <2>1. FrameOf(p, f)'
    BY <1>3, <1>11, <1>19 DEF FrameOf
  <2>2. OwnNumberIsOld(p) => f.ack <= Isn[p] + 1 + Len(taken'[e])
    <3>1. OwnNumberIsOld(p) => Isn[e] <= Isn[p]
      BY <1>2, <1>3 DEF OwnNumberIsOld
    <3>2. Len(taken'[e]) = 0
      BY <1>18
    <3> QED
      BY <1>5, <1>11, <3>1, <3>2
  <2> QED
    BY <1>1, <1>6, <1>11, <2>1, <2>2 DEF NewFrames
<1>22. ShakeInv'
  <2>1. ~Fresh(p)
    BY <1>2, <1>3, <1>5 DEF ShakeInv
  <2>2. ~Fresh(p)'
    BY <1>17, <2>1 DEF Fresh
  <2> QED
    BY <1>2, <1>3, <1>19, <2>2 DEF ShakeInv, Shaken
<1>23. EndInv(e)'
  <2>1. sent[e] <= setting.data
    BY <1>5, <1>6
  <2>2. Isn[e] + 1 + 0 + 0 = Isn[e] + 1
    BY <1>5
  <2> QED
    BY <1>2, <1>6, <1>9, <1>17, <1>18, <1>19, <2>1, <2>2 DEF EndInv, Closing
<1>24. RecvInv(e)'
  <2>1. Len(taken'[e]) = 0 /\ 0 <= sent'[p] /\ Isn[p] + 1 + 0 = Isn[p] + 1
    <3>1. taken'[e] = <<>> /\ sent'[p] = sent[p]
      BY <1>17, <1>18
    <3>2. Len(<<>>) = 0 /\ 0 <= sent[p] /\ Isn[p] + 1 + 0 = Isn[p] + 1
      BY <1>5
    <3> QED
      BY <3>1, <3>2
  <2>2. \A i \in 1..Len(taken'[e]) : taken'[e][i] = i
    BY <2>1
  <2> QED
    BY <1>1, <1>2, <1>9, <1>17, <2>1, <2>2 DEF RecvInv
<1>25. HeardInv(e)'
  BY <1>9, <1>17 DEF HeardInv
<1> QED
  BY <1>17, <1>20, <1>21, <1>22, <1>23, <1>24, <1>25, StepKept

\* A frame after the handshake, and what the handler makes of it
Took(e, p, h, w, c) ==
    /\ p = Peer(e) /\ w = conn[e] /\ c = HandleIncoming(w, h, h.len)
    /\ Shaken(e) /\ w.state \notin {"LISTEN", "SYN_SENT"}
    /\ Moved(w, h, c) /\ (~h.syn => Received(w, h, c))

\* What the step leaves behind, c being the side's connection up to its own FIN
Leaves(e, p, h, w, c) ==
    /\ TypeOK' /\ setting' = setting /\ sent' = sent
    /\ conn'[e] \in TcpConnections /\ conn'[e].recv_seq = c.recv_seq
    /\ conn'[e].send_ack = c.send_ack /\ conn'[e].recv_ack = c.recv_ack
    /\ conn'[p] = conn[p] /\ taken'[p] = taken[p]
    /\ finned'[p] = finned[p] /\ resyn'[p] = resyn[p] /\ refin'[p] = refin[p]
    /\ taken'[e] = IF h.len = 1 /\ c.recv_seq # w.recv_seq /\ ~resyn[e]
                   THEN Append(taken[e], h.payload) ELSE taken[e]
    /\ finned[e] => finned'[e]
    /\ resyn'[e] <=> (resyn[e] \/ (h.syn /\ w.state \notin {"LISTEN", "SYN_SENT"}))
    /\ refin'[e] <=> (refin[e] \/ (h.fin /\ HasFin(w)))
    /\ Frames(e)' \subseteq Frames(e)

\* Payload that is taken is the next one, and a FIN ends the sequence.
LEMMA ReceivedKept ==
    ASSUME IndInv, NEW e \in Ends, NEW p, NEW h \in Frames(e), NEW w, NEW c,
           Took(e, p, h, w, c), Leaves(e, p, h, w, c)
    PROVE  RecvInv(e)' /\ Len(taken[e]) <= Len(taken'[e])
<1>1. /\ p = Peer(e) /\ p \in Ends /\ RecvInv(e) /\ EndInv(p) /\ TypeOK
      /\ w = conn[e] /\ Shaken(e)
  BY PeerFacts DEF IndInv, Took
<1>2. PICK n : n = Len(taken[e])
  OBVIOUS
<1>3. /\ n \in Nat /\ Isn[p] \in Nat /\ sent[p] \in Nat /\ setting.data \in Nat
      /\ Isn[p] + setting.data + 2 < SeqMod /\ sent[p] <= setting.data
      /\ taken[e] \in Seq(Nat)
  <2>1. sent[p] <= setting.data /\ taken[e] \in Seq(Nat)
    BY <1>1 DEF EndInv, TypeOK
  <2> QED
    BY <1>1, <1>2, <2>1, Numbers
<1>4. /\ conn'[e].recv_seq = c.recv_seq /\ conn'[e].send_ack = c.send_ack
      /\ sent'[p] = sent[p] /\ finned'[p] = finned[p]
      /\ taken'[e] = IF h.len = 1 /\ c.recv_seq # w.recv_seq /\ ~resyn[e]
                     THEN Append(taken[e], h.payload) ELSE taken[e]
      /\ resyn'[e] <=> (resyn[e] \/ (h.syn /\ w.state \notin {"LISTEN", "SYN_SENT"}))
  BY DEF Leaves
<1>5. /\ FrameOf(e, h) /\ h.len \in {0, 1} /\ (h.fin => h.len = 0)
      /\ h.fin => h.seq + 1 = Isn[p] + 2 + sent[p]
      /\ h.len = 1 => ~h.syn
  BY <1>1, FrameKnown
<1>6. /\ \A i \in 1..n : taken[e][i] = i
      /\ n <= sent[p]
      /\ ~resyn[e] =>
           /\ \/ w.recv_seq = Isn[p] + 1 + n
              \/ finned[p] /\ w.recv_seq = Isn[p] + 2 + sent[p]
           /\ \/ w.send_ack = w.recv_seq
              \/ e = "opener" /\ w.send_ack = Isn[e] + 1
  BY <1>1, <1>2 DEF RecvInv
<1>7. CASE taken'[e] = taken[e]
  <2>1. Len(taken[e]) <= Len(taken'[e])
    BY <1>2, <1>3, <1>7
  <2>2. CASE resyn'[e]
    BY <1>1, <1>2, <1>4, <1>6, <1>7, <2>1, <2>2 DEF RecvInv
  <2>3. CASE ~resyn'[e]
    <3>1. ~h.syn /\ ~resyn[e]
      BY <1>4, <2>3 DEF Took
    <3>2. Received(w, h, c)
      BY <3>1 DEF Took
    <3>3. CASE c.recv_seq = w.recv_seq /\ c.send_ack = w.send_ack
      BY <1>1, <1>2, <1>4, <1>6, <1>7, <2>1, <3>1, <3>3 DEF RecvInv
    <3>4. CASE h.fin /\ c.recv_seq = h.seq + 1 /\ c.send_ack = c.recv_seq
      <4>1. finned[p] /\ c.recv_seq = Isn[p] + 2 + sent[p]
        BY <1>1, <1>5, <3>4 DEF FrameOf
      <4> QED
        BY <1>1, <1>2, <1>4, <1>6, <1>7, <2>1, <3>4, <4>1 DEF RecvInv
    <3>5. CASE h.len = 1 /\ c.send_ack = c.recv_seq /\ c.recv_seq = w.recv_seq
      BY <1>1, <1>2, <1>4, <1>6, <1>7, <2>1, <3>1, <3>5 DEF RecvInv
    <3>6. CASE h.len = 1 /\ c.recv_seq # w.recv_seq
      <4>1. taken'[e] = Append(taken[e], h.payload)
        BY <1>4, <3>1, <3>6
      <4>2. Len(taken'[e]) = n + 1
        BY <1>2, <1>3, <1>5, <3>6, <4>1, AppendProperties, FrameKnown
      <4> QED
        BY <1>2, <1>3, <1>7, <4>2
    <3> QED
      BY <3>2, <3>3, <3>4, <3>5, <3>6 DEF Received
  <2> QED
    BY <2>1, <2>2, <2>3
<1>8. CASE taken'[e] # taken[e]
  <2>1. /\ h.len = 1 /\ c.recv_seq # w.recv_seq /\ ~resyn[e] /\ ~h.syn
        /\ taken'[e] = Append(taken[e], h.payload)
    BY <1>4, <1>5, <1>8
  <2>2. /\ h.payload \in 1..sent[p] /\ h.seq = Isn[p] + h.payload
        /\ h.len # 0
    BY <1>1, <1>5, <2>1 DEF FrameOf
  <2>3. /\ h.seq = w.recv_seq /\ c.recv_seq = Advance(w.recv_seq, 1)
        /\ c.send_ack = c.recv_seq
    BY <1>5, <2>1, <2>2 DEF Took, Received
  <2>4. h.payload = n + 1 /\ w.recv_seq = Isn[p] + 1 + n /\ n + 1 <= sent[p]
    <3>1. \/ Isn[p] + h.payload = Isn[p] + 1 + n
          \/ Isn[p] + h.payload = Isn[p] + 2 + sent[p]
      BY <1>6, <2>1, <2>2, <2>3
    <3>2. h.payload = n + 1 /\ n + 1 <= sent[p] /\ Isn[p] + h.payload = Isn[p] + 1 + n
      <4>1. Isn[p] \in Nat /\ sent[p] \in Nat /\ n \in Nat /\ h.payload \in 1..sent[p]
        BY <1>3, <2>2
      <4>2. h.payload # 2 + sent[p]
        BY <4>1
      <4>3. Isn[p] + h.payload = Isn[p] + 1 + n
        BY <3>1, <4>1, <4>2
      <4>4. h.payload = n + 1
        BY <4>1, <4>3
      <4> QED
        BY <4>1, <4>3, <4>4
    <3> QED
      BY <2>2, <2>3, <3>2
  <2>5. c.recv_seq = Isn[p] + 1 + (n + 1)
    <3>1. /\ Isn[p] + 1 + n \in Nat /\ Isn[p] + 1 + n + 1 < SeqMod
          /\ Isn[p] + 1 + n + 1 = Isn[p] + 1 + (n + 1)
      <4>1. n + 1 <= sent[p] /\ sent[p] <= setting.data
        BY <1>3, <2>4
      <4>2. n + 1 <= setting.data /\ Isn[p] + setting.data + 2 < SeqMod
        BY <1>3, <4>1
      <4>3. ASSUME NEW i \in Nat, NEW s \in Nat, NEW m \in Nat,
                   n + 1 <= s, i + s + 2 < m
            PROVE  /\ i + 1 + n \in Nat /\ i + 1 + n + 1 < m
                   /\ i + 1 + n + 1 = i + 1 + (n + 1)
        <5>1. n \in Nat
          BY <1>3
        <5> QED
          BY <4>3, <5>1
      <4>4. SeqMod \in Nat
        BY SeqModAssumption
      <4> QED
        BY <1>3, <4>2, <4>3, <4>4
    <3>2. Advance(Isn[p] + 1 + n, 1) = Isn[p] + 1 + n + 1
      BY <3>1, AdvanceSum
    <3> QED
      BY <2>3, <2>4, <3>1, <3>2
  <2>6. n + 1 \in Nat
    BY <1>3
  <2>7. /\ Len(taken'[e]) = n + 1
        /\ \A i \in 1..n : taken'[e][i] = taken[e][i]
        /\ taken'[e][n + 1] = n + 1
    BY <1>2, <1>3, <2>1, <2>4, <2>6, AppendProperties
  <2>8. \A i \in 1..(n + 1) : taken'[e][i] = i
    <3> TAKE i \in 1..(n + 1)
    <3>1. i \in 1..n \/ i = n + 1
      BY <1>3
    <3> QED
      BY <1>6, <2>7, <3>1
  <2>9. Len(taken[e]) <= Len(taken'[e])
    BY <1>2, <1>3, <2>7
  <2> QED
    BY <1>1, <1>4, <2>3, <2>4, <2>5, <2>7, <2>8, <2>9 DEF RecvInv
<1> QED
  BY <1>7, <1>8

\* After the handshake a frame moves recv_seq only as Moved and Received say.
LEMMA TookFrame ==
    ASSUME IndInv, NEW e \in Ends, NEW p, p = Peer(e), NEW h \in Frames(e),
           NEW w, w = conn[e], NEW c, c = HandleIncoming(w, h, h.len),
           w.state \notin {"LISTEN", "SYN_SENT"}
    PROVE  Took(e, p, h, w, c)
<1>1. Shaken(e)
  BY OnlySyns
<1>2. w \in TcpConnections /\ w.state # "CLOSE_WAIT"
  BY Numbers DEF IndInv, EndInv
<1>3. /\ h \in FrameRecords /\ (h.fin => h.len = 0 /\ h.has_ack)
      /\ h.fin => h.seq + 1 < SeqMod
  BY FrameKnown
<1>4. Moved(w, h, c) /\ (~h.syn => Received(w, h, c))
  BY <1>2, <1>3, FrameHandled
<1> QED
  BY <1>1, <1>4 DEF Took

\* The step as the peer sees it, ...
LEMMA TookEvolves ==
    ASSUME IndInv, NEW e \in Ends, NEW p, NEW h \in Frames(e), NEW w, NEW c, NEW N,
           Took(e, p, h, w, c), Leaves(e, p, h, w, c),
           \A g \in Frames(p)' : g \in Frames(p) \/ g \in N,
           conn'[e].state = c.state \/ (conn'[e].state = "LAST_ACK" /\ finned'[e])
    PROVE  Evolves(e, N) /\ Shaken(e)'
<1>1. /\ p = Peer(e) /\ p \in Ends /\ EndInv(e) /\ TypeOK
      /\ w = conn[e] /\ Shaken(e) /\ w.state \notin {"LISTEN", "SYN_SENT"}
      /\ Moved(w, h, c)
  BY PeerFacts DEF IndInv, Took
<1>2. /\ setting' = setting /\ sent' = sent
      /\ conn'[e].recv_ack = c.recv_ack
      /\ conn'[p] = conn[p] /\ taken'[p] = taken[p]
      /\ finned'[p] = finned[p] /\ resyn'[p] = resyn[p] /\ refin'[p] = refin[p]
      /\ finned[e] => finned'[e]
      /\ resyn[e] => resyn'[e]
      /\ Frames(e)' \subseteq Frames(e)
  BY DEF Leaves
<1>3. Len(taken[e]) <= Len(taken'[e])
  BY ReceivedKept
<1>4. sent[e] <= sent'[e]
  BY <1>1, <1>2, Numbers
<1>5. c.state \notin {"LISTEN", "SYN_SENT"} /\ (c.state = "CLOSED" => finned[e])
  <2>1. w.state = "CLOSED" => finned[e]
    BY <1>1 DEF Shaken, Fresh
  <2>2. w.state = "LAST_ACK" => finned[e]
    BY <1>1 DEF EndInv, Closing
  <2> QED
    BY <1>1, <2>1, <2>2 DEF Moved, Closing
<1>6. Shaken(e)'
  BY <1>2, <1>5 DEF Shaken, Fresh
<1>7. HasFin(conn[e]) => HasFin(conn'[e])
  BY <1>1 DEF Moved, HasFin
<1>8. \/ conn'[e].recv_ack = conn[e].recv_ack
      \/ \E g \in Frames(e) : conn'[e].recv_ack = g.ack
  BY <1>1, <1>2 DEF Moved
<1>9. Evolves(e, N)
  BY <1>1, <1>2, <1>3, <1>4, <1>6, <1>7, <1>8 DEF Evolves
<1> QED
  BY <1>6, <1>9

\* ... and as the handshake does.
LEMMA TookShake ==
    ASSUME IndInv, NEW e \in Ends, NEW p, NEW h \in Frames(e), NEW w, NEW c, NEW N,
           Took(e, p, h, w, c), Leaves(e, p, h, w, c),
           \A g \in Frames(p)' : g \in Frames(p) \/ g \in N,
           Shaken(e)', ~h.fin => N = {} /\ conn'[e].state = c.state
    PROVE  ShakeInv'
<1>1. /\ p = Peer(e) /\ p \in Ends /\ p # e /\ \A x \in Ends : x = e \/ x = p
      /\ e = "opener" => p = "listener"
      /\ e = "listener" => p = "opener"
      /\ EndInv(e) /\ ShakeInv /\ FrameOf(e, h)
      /\ w = conn[e] /\ Shaken(e) /\ Moved(w, h, c)
  BY PeerFacts DEF IndInv, WireInv, Took
<1>2. conn'[p] = conn[p] /\ finned'[p] = finned[p] /\ Frames(e)' \subseteq Frames(e)
  BY DEF Leaves
<1>3. (Shaken(p)' <=> Shaken(p)) /\ (Fresh(p)' <=> Fresh(p))
  BY <1>2 DEF Shaken, Fresh
<1>4. ~Fresh(e)'
  BY DEF Shaken
<1>5. CASE Shaken("opener") /\ ~Fresh("listener")
  <2>1. Shaken("opener")' /\ ~Fresh("listener")'
    BY <1>1, <1>3, <1>4, <1>5 DEF Ends
  <2> QED
    BY <2>1 DEF ShakeInv, Shaken
<1>6. CASE ~(Shaken("opener") /\ ~Fresh("listener"))
  <2>1. w.state = "SYN_RECEIVED" /\ e = "listener"
    <3>1. w.state = "SYN_RECEIVED"
      BY <1>1, <1>6, BothBegun
    <3> QED
      BY <1>1, <3>1 DEF EndInv, Ends
  <2>2. ~Fresh(e)
    BY <1>1 DEF Shaken
  <2>3. ~Shaken(p)
    BY <1>1, <1>6, <2>1, <2>2
  <2>4. \A x \in Ends : \A g \in Frames(x) : g.syn
    BY <1>1, <2>1, <2>3 DEF ShakeInv
  <2>5. h.syn /\ ~h.has_ack /\ ~h.fin
    BY <1>1, <2>1, <2>4 DEF FrameOf
  <2>6. conn'[e].state = "SYN_RECEIVED" /\ N = {}
    BY <1>1, <2>1, <2>5 DEF Moved, Closing
  <2>7. \A x \in Ends : \A g \in Frames(x)' : g.syn
    BY <1>1, <1>2, <2>4, <2>6
  <2>8. ~Fresh(p)'
    BY <1>1, <1>3, <2>1 DEF ShakeInv
  <2> QED
    BY <1>1, <1>3, <1>4, <2>1, <2>6, <2>7, <2>8 DEF ShakeInv
<1> QED
  BY <1>5, <1>6

\* No FIN comes in, or one that the side does not follow.
LEMMA StayStep ==
    ASSUME IndInv, NEW e \in Ends, NEW h \in Frames(e),
           NEW rest \in Seq(FrameRecords),
           \A i \in 1..Len(rest) : rest[i] \in Frames(e),
           Handle(e, h, rest), NEW p, NEW w, NEW c, Took(e, p, h, w, c),
           ~Follows(c, h)
    PROVE  IndInv'
<1>1. /\ p = Peer(e) /\ p \in Ends /\ p # e /\ Peer(p) = e
      /\ w = conn[e] /\ c = HandleIncoming(w, h, h.len)
      /\ Shaken(e) /\ w.state \notin {"LISTEN", "SYN_SENT"} /\ Moved(w, h, c)
      /\ EndInv(e) /\ HeardInv(e) /\ TypeOK /\ FrameOf(e, h)
  BY PeerFacts DEF IndInv, WireInv, Took
<1>2. c \in TcpConnections /\ c.state # "CLOSE_WAIT"
  BY <1>1 DEF Moved, Follows, EndInv, Closing
<1>3. PICK f : f = AckFrame(c, c.send_ack)
  OBVIOUS
<1>4. /\ f \in FrameRecords /\ ~f.syn /\ f.has_ack /\ ~f.fin /\ f.len = 0
  BY <1>2, <1>3, ConnFields, AckType
<1>5. PICK fs : fs = IF h.fin THEN <<f>> ELSE <<>>
  OBVIOUS
<1>6. PICK N : N = {fs[i] : i \in 1..Len(fs)}
  OBVIOUS
<1>7. /\ fs \in Seq(FrameRecords)
      /\ N = IF h.fin THEN {f} ELSE {}
  <2>1. CASE h.fin
    BY <1>4, <1>5, <1>6, <2>1
  <2>2. CASE ~h.fin
    BY <1>5, <1>6, <2>2
  <2> QED
    BY <2>1, <2>2
<1>8. fs = Answers(w, c, h)
  <2>1. ~Shakes(w, c)
    BY <1>1 DEF Shakes
  <2>2. CASE h.fin
    <3>1. CloseAnswers(c) = <<f>>
      BY <1>2, <1>3 DEF CloseAnswers
    <3> QED
      BY <1>5, <2>1, <2>2, <3>1 DEF Answers
  <2>3. CASE ~h.fin
    BY <1>5, <2>1, <2>3 DEF Answers
  <2> QED
    BY <2>2, <2>3
<1>9. c = CASE h.syn /\ Shakes(w, c) /\ w.state = "LISTEN" -> Sent(c, 1)
            [] Follows(c, h) -> Sent(InitiateClose(c), 1)
            [] OTHER -> c
  BY <1>1
<1>10. /\ TypeOK' /\ setting' = setting /\ sent' = sent
       /\ conn'[e] = c /\ conn'[p] = conn[p] /\ taken'[p] = taken[p]
       /\ finned'[p] = finned[p] /\ resyn'[p] = resyn[p] /\ refin'[p] = refin[p]
       /\ taken'[e] = IF h.len = 1 /\ c.recv_seq # w.recv_seq /\ ~resyn[e]
                      THEN Append(taken[e], h.payload) ELSE taken[e]
       /\ finned'[e] <=> (finned[e] \/ Follows(c, h))
       /\ resyn'[e] <=> (resyn[e] \/ (h.syn /\ w.state \notin {"LISTEN", "SYN_SENT"}))
       /\ refin'[e] <=> (refin[e] \/ (h.fin /\ HasFin(w)))
       /\ Frames(e)' \subseteq Frames(e)
       /\ \A g \in Frames(p)' : g \in Frames(p) \/ g \in N
  BY <1>1, <1>2, <1>6, <1>7, <1>8, <1>9, HandleEffect, SMTT(30)
<1>11. Leaves(e, p, h, w, c)
  BY <1>2, <1>10 DEF Leaves
<1>12. Evolves(e, N) /\ Shaken(e)'
  BY <1>10, <1>11, TookEvolves
<1>13. ShakeInv'
  BY <1>7, <1>10, <1>11, <1>12, TookShake
<1>14. RecvInv(e)'
  BY <1>11, ReceivedKept
<1>15. finned'[e] <=> finned[e]
  BY <1>10
<1>16. EndInv(e)'
  <2>1. ~Fresh(e) /\ ~Fresh(e)'
    BY <1>1, <1>12 DEF Shaken
  <2>2. c.send_seq = w.send_seq
    BY <1>1 DEF Moved
  <2>3. /\ c.state \in Closing => finned[e]
        /\ finned[e] => c.state \in Closing \cup {"CLOSED"}
        /\ e = "opener" => c.state \notin {"LISTEN", "SYN_RECEIVED"}
        /\ e = "listener" => /\ c.state # "SYN_SENT"
                             /\ c.state = "CLOSED" => finned[e]
    BY <1>1, <1>2 DEF Moved, EndInv, Closing
  <2> QED
    BY <1>1, <1>2, <1>10, <1>12, <1>15, <2>1, <2>2, <2>3 DEF EndInv
<1>17. NewFrames(e, N)
  <2>1. CASE ~h.fin
    <3>1. N = {}
      BY <1>7, <2>1
    <3> QED
      BY <3>1 DEF NewFrames
  <2>2. CASE h.fin
    <3>1. N = {f} /\ finned[p]
      BY <1>1, <1>7, <2>2 DEF FrameOf
    <3>2. FrameOf(p, f)'
      BY <1>1, <1>4, <1>12 DEF FrameOf
    <3>3. (finned[e] /\ ~HasFin(conn[e])) => HasFin(conn'[e])
      BY <1>1, <1>10, <2>2 DEF EndInv, Closing, HasFin, Moved
    <3> QED
      BY <1>1, <1>4, <3>1, <3>2, <3>3 DEF NewFrames
  <2> QED
    BY <2>1, <2>2
<1>18. HeardInv(e)'
  <2> SUFFICES ASSUME c.state \in {"LAST_ACK", "CLOSED"}, finned[e],
                      OwnNumberIsOld(e), ~refin'[e], NoLateSyn'
               PROVE  /\ finned'[p]
                      /\ \/ HasFin(conn'[p])
                         \/ /\ c.state = "LAST_ACK"
                            /\ \A g \in Frames(e)' : g.ack <= c.recv_ack
    BY <1>1, <1>10, <1>15 DEF HeardInv, HasFin, OwnNumberIsOld
  <2>1. NoLateSyn /\ ~refin[e] /\ ~(h.fin /\ HasFin(w))
    BY <1>1, <1>10, PeerFacts DEF NoLateSyn
  <2>2. w.state \in {"LAST_ACK", "CLOSED"}
    BY <1>1 DEF Moved, Closing, EndInv
  <2>3. /\ finned[p]
        /\ \/ HasFin(conn[p])
           \/ /\ w.state = "LAST_ACK"
              /\ \A g \in Frames(e) : g.ack <= w.recv_ack
    BY <1>1, <2>1, <2>2 DEF HeardInv
  <2>4. CASE HasFin(conn[p])
    BY <1>10, <2>3, <2>4
  <2>5. CASE ~HasFin(conn[p])
    <3>1. ~h.fin /\ h.ack <= w.recv_ack /\ w.state = "LAST_ACK"
      BY <2>1, <2>2, <2>3, <2>5 DEF HasFin
    <3>2. c.state = "LAST_ACK" /\ c.recv_ack = w.recv_ack
      BY <1>1, <3>1 DEF Moved
    <3> QED
      BY <1>10, <2>3, <2>5, <3>2
  <2> QED
    BY <2>4, <2>5
<1> QED
  BY <1>10, <1>12, <1>13, <1>14, <1>16, <1>17, <1>18, StepKept

\* The first FIN comes in and the side closes as well.
LEMMA FollowStep ==
    ASSUME IndInv, NEW e \in Ends, NEW h \in Frames(e),
           NEW rest \in Seq(FrameRecords),
           \A i \in 1..Len(rest) : rest[i] \in Frames(e),
           Handle(e, h, rest), NEW p, NEW w, NEW c, Took(e, p, h, w, c),
           Follows(c, h)
    PROVE  IndInv'
<1>1. /\ p = Peer(e) /\ p \in Ends /\ p # e /\ Peer(p) = e
      /\ w = conn[e] /\ c = HandleIncoming(w, h, h.len)
      /\ Shaken(e) /\ w.state \notin {"LISTEN", "SYN_SENT"} /\ Moved(w, h, c)
      /\ EndInv(e) /\ FinInv(e) /\ TypeOK /\ FrameOf(e, h)
  BY PeerFacts DEF IndInv, WireInv, Took
<1>2. /\ h.fin /\ c \in TcpConnections /\ c.state = "CLOSE_WAIT"
      /\ c.send_seq = w.send_seq /\ ~h.syn
  BY <1>1 DEF Moved, Follows, FrameOf
<1>3. w.state = "ESTABLISHED" /\ c.recv_ack = h.ack
  BY <1>1, <1>2 DEF Moved, EndInv, Closing
<1>4. /\ ~finned[e] /\ ~Fresh(e)
      /\ w.send_seq = Isn[e] + 1 + sent[e]
      /\ Advance(w.send_seq, 1) = Isn[e] + 2 + sent[e]
  BY <1>1, <1>3, Established
<1>5. PICK b : b = [c EXCEPT !.state = "LAST_ACK"]
  OBVIOUS
<1>6. /\ b \in TcpConnections /\ b.state = "LAST_ACK"
      /\ b.send_seq = w.send_seq /\ b.recv_seq = c.recv_seq
      /\ b.send_ack = c.send_ack /\ b.recv_ack = c.recv_ack
  <2>1. "LAST_ACK" \in TcpStates
    BY DEF TcpStates
  <2> QED
    BY <1>2, <1>5, <2>1, ConnWithState
<1>7. InitiateClose(c) = b
  BY <1>2, <1>5, CloseMoves
<1>8. PICK d : d = Sent(b, 1)
  OBVIOUS
<1>9. /\ d \in TcpConnections /\ d.state = "LAST_ACK"
      /\ d.send_seq = Isn[e] + 2 + sent[e] /\ d.recv_seq = c.recv_seq
      /\ d.send_ack = c.send_ack /\ d.recv_ack = c.recv_ack
  BY <1>4, <1>6, <1>8, ConnSent
<1>10. PICK f : f = AckFrame(c, c.send_ack)
  OBVIOUS
<1>11. PICK g : g = FinFrame(b)
  OBVIOUS
<1>12. f \in FrameRecords /\ ~f.syn /\ f.has_ack /\ ~f.fin /\ f.len = 0
  BY <1>2, <1>10, ConnFields, AckType
<1>13. /\ g \in FrameRecords /\ ~g.syn /\ g.has_ack /\ g.fin /\ g.len = 0
       /\ g.seq = w.send_seq
  BY <1>6, <1>11, FinType
<1>14. PICK fs : fs = <<f, g>>
  OBVIOUS
<1>15. PICK N : N = {fs[i] : i \in 1..Len(fs)}
  OBVIOUS
<1>16. fs \in Seq(FrameRecords) /\ N \subseteq {f, g}
  BY <1>12, <1>13, <1>14, <1>15
<1>17. fs = Answers(w, c, h)
  <2>1. CloseAnswers(c) = <<f, g>>
    BY <1>2, <1>7, <1>10, <1>11 DEF CloseAnswers
  <2> QED
    BY <1>2, <1>14, <2>1 DEF Answers
<1>18. d = CASE h.syn /\ Shakes(w, c) /\ w.state = "LISTEN" -> Sent(c, 1)
             [] Follows(c, h) -> Sent(InitiateClose(c), 1)
             [] OTHER -> c
  BY <1>2, <1>7, <1>8
<1>19. /\ TypeOK' /\ setting' = setting /\ sent' = sent
       /\ conn'[e] = d /\ conn'[p] = conn[p] /\ taken'[p] = taken[p]
       /\ finned'[p] = finned[p] /\ resyn'[p] = resyn[p] /\ refin'[p] = refin[p]
       /\ taken'[e] = IF h.len = 1 /\ c.recv_seq # w.recv_seq /\ ~resyn[e]
                      THEN Append(taken[e], h.payload) ELSE taken[e]
       /\ finned'[e] <=> (finned[e] \/ Follows(c, h))
       /\ resyn'[e] <=> (resyn[e] \/ (h.syn /\ w.state \notin {"LISTEN", "SYN_SENT"}))
       /\ refin'[e] <=> (refin[e] \/ (h.fin /\ HasFin(w)))
       /\ Frames(e)' \subseteq Frames(e)
       /\ \A k \in Frames(p)' : k \in Frames(p) \/ k \in N
  BY <1>1, <1>9, <1>15, <1>16, <1>17, <1>18, HandleEffect, SMTT(30)
<1>20. finned'[e]
  BY <1>19
<1>21. Leaves(e, p, h, w, c)
  BY <1>9, <1>19, <1>20 DEF Leaves
<1>22. Evolves(e, N) /\ Shaken(e)'
  BY <1>9, <1>19, <1>20, <1>21, TookEvolves
<1>23. ShakeInv'
  BY <1>2, <1>19, <1>21, <1>22, TookShake
<1>24. RecvInv(e)'
  BY <1>21, ReceivedKept
<1>25. EndInv(e)'
  <2>1. ~Fresh(e)'
    BY <1>22 DEF Shaken
  <2>2. Isn[e] + 1 + sent[e] + 1 = Isn[e] + 2 + sent[e]
    <3>1. Isn[e] \in Nat /\ sent[e] \in Nat
      BY <1>1, Numbers
    <3> QED
      BY <3>1
  <2> QED
    BY <1>1, <1>9, <1>19, <1>20, <1>22, <2>1, <2>2 DEF EndInv, Closing
<1>26. NewFrames(e, N)
  <2>1. finned[p]
    BY <1>1, <1>2 DEF FrameOf
  <2>2. FrameOf(p, f)'
    BY <1>1, <1>12, <1>22 DEF FrameOf
  <2>3. FrameOf(p, g)'
    BY <1>1, <1>4, <1>13, <1>19, <1>20, <1>22 DEF FrameOf
  <2>4. N \subseteq FrameRecords /\ \A k \in N : FrameOf(p, k)'
    BY <1>12, <1>13, <1>16, <2>2, <2>3
  <2> QED
    BY <1>1, <1>4, <2>1, <2>4 DEF NewFrames
<1>27. HeardInv(e)'
  <2> SUFFICES ASSUME OwnNumberIsOld(e), NoLateSyn'
               PROVE  finned'[p] /\ \A k \in Frames(e)' : k.ack <= d.recv_ack
    BY <1>1, <1>9, <1>19 DEF HeardInv, OwnNumberIsOld
  <2>1. NoLateSyn
    BY <1>1, <1>19, PeerFacts DEF NoLateSyn
  <2>2. \A k \in Frames(e) : k.ack <= h.ack
    BY <1>1, <1>2, <1>4, <2>1 DEF FinInv
  <2>3. finned[p]
    BY <1>1, <1>2 DEF FrameOf
  <2> QED
    BY <1>3, <1>9, <1>19, <2>2, <2>3
<1> QED
  BY <1>19, <1>22, <1>23, <1>24, <1>25, <1>26, <1>27, StepKept

\* A frame that is handled and answered, by the state it finds the connection in
LEMMA HandleStep ==
    ASSUME IndInv, NEW e \in Ends, NEW h \in Frames(e),
           NEW rest \in Seq(FrameRecords),
           \A i \in 1..Len(rest) : rest[i] \in Frames(e),
           Handle(e, h, rest)
    PROVE  IndInv'
<1>1. CASE conn[e].state = "LISTEN"
  BY <1>1, ListenStep
<1>2. CASE conn[e].state = "SYN_SENT"
  BY <1>2, SynSentStep
<1>3. CASE conn[e].state \notin {"LISTEN", "SYN_SENT"}
  <2>1. PICK p : p = Peer(e)
    OBVIOUS
  <2>2. PICK w : w = conn[e]
    OBVIOUS
  <2>3. PICK c : c = HandleIncoming(w, h, h.len)
    OBVIOUS
  <2>4. Took(e, p, h, w, c)
    BY <1>3, <2>1, <2>2, <2>3, TookFrame
  <2>5. CASE Follows(c, h)
    BY <2>4, <2>5, FollowStep
  <2>6. CASE ~Follows(c, h)
    BY <2>4, <2>6, StayStep
  <2> QED
    BY <2>5, <2>6
<1> QED
  BY <1>1, <1>2, <1>3

\* The frame is the first of the line, or any frame of the soup, which stays there.
LEMMA ReceiveStep ==
    ASSUME IndInv, NEW e \in Ends, Receive(e)
    PROVE  IndInv'
<1>1. TypeOK /\ line[e] \in Seq(FrameRecords)
  BY DEF IndInv, TypeOK
<1>2. CASE line[e] # <<>> /\ Handle(e, Head(line[e]), Tail(line[e]))
  <2>1. PICK h : h = Head(line[e])
    OBVIOUS
  <2>2. PICK rest : rest = Tail(line[e])
    OBVIOUS
  <2>3. /\ Len(line[e]) \in Nat /\ Len(line[e]) >= 1 /\ h = line[e][1]
        /\ rest \in Seq(FrameRecords) /\ Len(rest) = Len(line[e]) - 1
        /\ \A i \in 1..Len(rest) : rest[i] = line[e][i + 1]
    BY <1>1, <1>2, <2>1, <2>2, HeadTailProperties, EmptySeq, LenProperties
  <2>4. h \in Frames(e)
    BY <2>3 DEF Frames
  <2>5. \A i \in 1..Len(rest) : rest[i] \in Frames(e)
    <3> TAKE i \in 1..Len(rest)
    <3>1. i + 1 \in 1..Len(line[e]) /\ rest[i] = line[e][i + 1]
      BY <2>3
    <3> QED
      BY <3>1 DEF Frames
  <2> QED
    BY <1>2, <2>1, <2>2, <2>3, <2>4, <2>5, HandleStep
<1>3. ASSUME NEW h \in soup[e], Handle(e, h, line[e])
      PROVE  IndInv'
  <2>1. PICK rest : rest = line[e]
    OBVIOUS
  <2>2. h \in Frames(e) /\ \A i \in 1..Len(rest) : rest[i] \in Frames(e)
    BY <2>1 DEF Frames
  <2> QED
    BY <1>1, <1>3, <2>1, <2>2, HandleStep
<1> QED
  BY <1>2, <1>3 DEF Receive

\* A step that changes no variable
LEMMA StutterStep == IndInv /\ UNCHANGED vars => IndInv'
<1> SUFFICES ASSUME IndInv, UNCHANGED vars PROVE IndInv'
  OBVIOUS
<1>1. /\ setting' = setting /\ conn' = conn /\ line' = line /\ soup' = soup
      /\ sent' = sent /\ taken' = taken /\ finned' = finned /\ resyn' = resyn
      /\ refin' = refin
  BY DEF vars, history
<1>2. \A e \in Ends : /\ Frames(e)' = Frames(e)
                      /\ Fresh(e)' <=> Fresh(e)
                      /\ Shaken(e)' <=> Shaken(e)
  BY <1>1 DEF Frames, Fresh, Shaken
<1>3. TypeOK'
  BY <1>1 DEF IndInv, TypeOK
<1>4. ShakeInv'
  BY <1>1, <1>2 DEF IndInv, ShakeInv, Ends
<1>5. ASSUME NEW e \in Ends
      PROVE  (EndInv(e) /\ WireInv(e) /\ RecvInv(e) /\ AckInv(e) /\ FinInv(e) /\ HeardInv(e))'
  <2>1. EndInv(e) /\ WireInv(e) /\ RecvInv(e) /\ AckInv(e) /\ FinInv(e) /\ HeardInv(e)
    BY DEF IndInv
  <2>2. Peer(e) \in Ends /\ (NoLateSyn' <=> NoLateSyn)
    BY <1>1, PeerFacts DEF NoLateSyn
  <2>3. EndInv(e)'
    BY <1>1, <1>2, <2>1 DEF EndInv
  <2>4. WireInv(e)'
    BY <1>1, <1>2, <2>1, <2>2 DEF WireInv, FrameOf
  <2>5. RecvInv(e)'
    BY <1>1, <1>2, <2>1 DEF RecvInv
  <2>6. AckInv(e)' /\ FinInv(e)'
    BY <1>1, <1>2, <2>1, <2>2 DEF AckInv, FinInv
  <2>7. HeardInv(e)'
    BY <1>1, <1>2, <2>1, <2>2 DEF HeardInv, HasFin
  <2> QED
    BY <2>3, <2>4, <2>5, <2>6, <2>7
<1> QED
  BY <1>3, <1>4, <1>5 DEF IndInv

\* Every step of Next preserves the invariant.
LEMMA NextStep == IndInv /\ [Next]_vars => IndInv'
  BY OpenStep, SendDataStep, SendKeepaliveStep, CloseStep, ReceiveStep, StutterStep
     DEF Next

-----------------------------------------------------------------------------
(* The theorems                                                            *)

\* The inductive invariant holds: types, the handshake, every frame on the wire
\* against what its sender has sent, and every acknowledgement against what was
\* taken (handle_incoming and the frames of tcp_protocol.hpp).
THEOREM EndpointsInvariant == Spec => []IndInv
  BY InitInv, NextStep, PTL DEF Spec

\* Whatever the network loses, repeats or reorders, a side takes the payloads in
\* order and each once, for any amount of data that does not wrap the sequence
\* numbers (handle_incoming).
THEOREM PayloadsInOrder == Spec => []TakenInOrder
<1>1. IndInv => TakenInOrder
  BY DEF IndInv, RecvInv, TakenInOrder
<1> QED
  BY <1>1, EndpointsInvariant, PTL

\* No acknowledgement that reaches a side before its own FIN runs ahead of what
\* its peer took (handle_incoming, create_data, create_ack, create_keepalive).
THEOREM AcknowledgedIsTaken == Spec => []AckedIsTaken
<1>1. IndInv => AckedIsTaken
  <2> SUFFICES ASSUME IndInv, NEW e \in Ends, ~finned[e], NoLateSyn,
                      OwnNumberIsOld(e)
               PROVE  conn[e].recv_ack - Isn[e] - 1 <= Len(taken[Peer(e)])
    BY DEF AckedIsTaken, ToldWhatIsTaken
  <2>1. conn[e].recv_ack <= Isn[e] + 1 + Len(taken[Peer(e)])
    BY DEF IndInv, AckInv
  <2>2. conn[e].recv_ack \in Nat /\ Isn[e] \in Nat /\ Len(taken[Peer(e)]) \in Nat
    BY PeerFacts, Numbers DEF IndInv
  <2> QED
    BY <2>1, <2>2
<1> QED
  BY <1>1, EndpointsInvariant, PTL

\* When a side that has sent its FIN is CLOSED, its peer has received the FIN: no
\* acknowledgement older than it ends LAST_ACK (handle_incoming, the LAST_ACK and
\* FIN cases).
THEOREM LastAckIsHeard == Spec => []ClosedIsHeard
<1>1. IndInv => ClosedIsHeard
  <2> SUFFICES ASSUME IndInv, NEW e \in Ends, conn[e].state = "CLOSED", finned[e],
                      OwnNumberIsOld(e), ~refin[e], NoLateSyn
               PROVE  HasFin(conn[Peer(e)])
    BY DEF ClosedIsHeard
  <2>1. HeardInv(e)
    BY DEF IndInv
  <2> QED
    BY <2>1 DEF HeardInv
<1> QED
  BY <1>1, EndpointsInvariant, PTL
=============================================================================
