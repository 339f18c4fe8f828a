---------------------------- MODULE OrderPathSolo ----------------------------
(***************************************************************************)
(* The order path with one client: what holds between the client's state   *)
(* and the streams, buffers and tables of the gateway.  With one client    *)
(* two connections never have packets in req_ring at the same time, so a   *)
(* packet's bytes are still in buf when it is parsed; and one order is in  *)
(* flight at a time, on the newest connection.                             *)
(***************************************************************************)
EXTENDS OrderPath

\* The first sequence number of order j, on whatever connection it is sent.
SeqOf(j) == 1 + OrderLen * (j - 1)

\* The frames that may be unread in a stream: an order and a keepalive, sent
\* behind what is left of the retransmissions of the order before, and the
\* retransmissions of the order.
MaxFrames == 2 * MaxRetries + 2

\* No sequence number wraps, and no order id looks like one read out of a header.
NoWrap ==
    /\ SeqOf(MaxOrders + 1) + (HeaderLen + OrderLen) * MaxFrames < SeqMod
    /\ MaxOrders < JunkId(0)

\* An epoll_wait has room for all that is ready: the listening socket and the two
\* connections accepted last.
RoomForAll == MaxEvents >= 3

\* The newest connection of client c, the last order it sent and how often, at
\* most, it has sent that order again.
Newest(c) == <<c, client[c].made>>
Sent(c) == client[c].order_id - 1
Resent(c) == IF client[c].queue = <<>> THEN MaxRetries ELSE client[c].queue[1].retries

\* The packet in the ring is that of connection k.
InRing(k) == ring # <<>> /\ ring[1].conn = k

\* Something of connection k is not yet processed.
Pending(k) == link[k].up # <<>> \/ InRing(k)

-----------------------------------------------------------------------------
\* One sequence number per byte of an order, kept through every reconnect.  A
\* client that stops closes its descriptor.
NumberInv(c) ==
    /\ client[c].conn.send_seq = SeqOf(client[c].order_id)
    /\ client[c].pc = "start" => client[c].order_id = 1
    /\ client[c].pc = "wait" => client[c].order_id > 1
    /\ client[c].pc = "stopped" => client[c].fd = 0
    /\ client[c].order_id > 1 => client[c].req.id = Sent(c) /\ client[c].req.client = c

\* retrans_q and outstanding_segments hold the last order or nothing.
SegmentInv(c) ==
    \/ client[c].queue = <<>> /\ client[c].outstanding = {}
    \/ /\ client[c].pc \in {"wait", "stopped"}
       /\ Len(client[c].queue) = 1
       /\ client[c].queue[1].seq_start = SeqOf(Sent(c))
       /\ client[c].queue[1].seq_end = SeqOf(client[c].order_id)
       /\ \E f \in client[c].outstanding :
             /\ client[c].outstanding = {f}
             /\ f.seq = SeqOf(Sent(c)) /\ f.payload = client[c].req

\* What is left of the connection before the newest is handled before anything
\* of the newest is read: epoll_wait reports them in this order.
SerialInv(c) ==
    /\ Len(ring) <= 1
    /\ ring # <<>> => buf = <<>> \/ ring[1].len = ByteCount(buf)
    /\ \A k \in Conns :
          /\ link[k].gateway_end \in {"none", "backlog"} =>
                /\ ctx[k] = [tcp |-> NewConnection, reassembly |-> NoSegments]
                /\ link[k].down = <<>>
                /\ client[c].pc = "top" => link[k].up = <<>>
          /\ link[k].gateway_end = "closed" => link[k].up = <<>>
          /\ k[2] < client[c].made /\ Pending(k) =>
                /\ k[2] = client[c].made - 1
                /\ client[c].pc # "top"
                /\ link[k].gateway_end = "open"
                /\ link[Newest(c)].down = <<>>
                /\ Newest(c) \notin batch /\ ~InRing(Newest(c))
                /\ link[k].up # <<>> =>
                      \/ k \in batch
                      \/ /\ link[Newest(c)].gateway_end = "backlog"
                         /\ ListenFd \in batch => Head(backlog) # Newest(c)

\* How many connections of c the gateway has accepted
AcceptedOf(c) == client[c].made - Len(backlog)

\* Connections are accepted in the order in which they were made.  One that is
\* accepted, or about to be, finds what was left unread in the connection before
\* it in the batch or read, and the connection before that closed or about to be.
AcceptInv(c) ==
    LET last == AcceptedOf(c) + (IF ListenFd \in batch THEN 1 ELSE 0)
    IN  /\ \A i \in 1..Len(backlog) : backlog[i] = <<c, AcceptedOf(c) + i>>
        /\ \A k \in Conns :
              /\ link[k].gateway_end \in {"open", "closed"} <=> k[2] <= AcceptedOf(c)
              /\ link[k].gateway_end = "open" =>
                    /\ k[2] < last => k \in batch \/ link[k].up = <<>>
                    /\ k[2] < last - 1 => k \in batch /\ link[k].up = <<>>

-----------------------------------------------------------------------------
\* Frames numbered up to last, with no order among them beyond the one numbered
\* sent, which is req.
Past(frames, last, sent, req) ==
    /\ Len(frames) <= MaxFrames
    /\ \A i \in 1..Len(frames) :
          /\ frames[i].seq <= last
          /\ frames[i].len = OrderLen =>
                frames[i].seq <= sent /\ (frames[i].seq = sent => frames[i].payload = req)

\* All that was sent, read or buffered is numbered up to last.
FramesUpTo(c, last) ==
    /\ Past(buf, last, SeqOf(Sent(c)), client[c].req)
    /\ client[c].idles \/ \A i \in 1..Len(buf) : buf[i].len = OrderLen
    /\ \A k \in Conns :
          /\ Past(link[k].up, last, SeqOf(Sent(c)), client[c].req)
          /\ \A s \in DOMAIN ctx[k].reassembly :
                s <= last /\ s # ctx[k].tcp.recv_seq

\* Frames whose first header is not the expected one.
Stale(frames, expected) == frames # <<>> => frames[1].seq # expected

\* A read of such frames, or of a keepalive alone, leads to no order.
Dead(frames, expected) ==
    Stale(frames, expected) \/ (Len(frames) = 1 /\ frames[1].len = 0)

Idle(k) ==
    /\ Dead(link[k].up, ctx[k].tcp.recv_seq)
    /\ InRing(k) => Dead(buf, ctx[k].tcp.recv_seq)

\* The orders of c the gateway applied are older than order j.
AppliedBelow(c, j) ==
    \A i \in 1..Len(applied) :
        applied[i].client = c /\ applied[i].id <= MaxOrders => applied[i].id < j

\* No order is on its way: the last one was answered, or there is none.
AtRest(c) ==
    /\ client[c].pc \in {"start", "top", "loop", "burst"}
    /\ client[c].queue = <<>>
    /\ FramesUpTo(c, SeqOf(IF client[c].pc = "burst" THEN client[c].order_id ELSE Sent(c)))
    /\ AppliedBelow(c, client[c].order_id)
    /\ client[c].idles \/ live_orders = client[c].shadow
    /\ \A k \in Conns : k[2] = client[c].made =>
          LET up == link[k].up
              stale == Stale(up, ctx[k].tcp.recv_seq)
          IN  /\ link[k].down = <<>>
              /\ Idle(k)
              /\ \/ stale /\ Len(up) <= MaxRetries
                 \/ /\ client[c].pc = "burst"
                    /\ stale \/ up[1].seq = SeqOf(client[c].order_id)
                    /\ Len(up) <= MaxRetries + 1

\* The last order was sent and not applied.  If a read of the newest connection
\* leads to an order, it is this one.
Unanswered(c) ==
    /\ client[c].pc \in {"wait", "stopped"} /\ client[c].order_id > 1
    /\ FramesUpTo(c, SeqOf(Sent(c)))
    /\ AppliedBelow(c, Sent(c))
    /\ Accepted(client[c].shadow, client[c].req)
    /\ client[c].idles \/ live_orders = client[c].shadow
    /\ \A k \in Conns : k[2] = client[c].made =>
          LET up == link[k].up
              dead == Dead(buf, ctx[k].tcp.recv_seq)
          IN  /\ link[k].down = <<>>
              /\ Stale(up, ctx[k].tcp.recv_seq) \/ up[1].seq = SeqOf(Sent(c))
              /\ InRing(k) => dead \/ buf[1].seq = SeqOf(Sent(c))
              /\ client[c].pc = "wait" =>
                    /\ Len(up) <= MaxRetries + 2 + Resent(c)
                    /\ InRing(k) /\ ~dead => Len(up) <= Resent(c)

\* The last order was applied and the answer waits for the client.
Answered(c) ==
    /\ client[c].pc = "wait"
    /\ FramesUpTo(c, SeqOf(Sent(c)))
    /\ AppliedBelow(c, client[c].order_id)
    /\ client[c].idles \/ live_orders = Table(client[c].shadow, client[c].req)
    /\ \A k \in Conns : k[2] = client[c].made =>
          LET down == link[k].down
          IN  /\ Len(down) = 1
              /\ down[1].ack >= SeqOf(client[c].order_id)
              /\ client[c].idles \/ down[1].payload = Ack(client[c].req, TRUE)
              /\ Idle(k) /\ Stale(link[k].up, ctx[k].tcp.recv_seq)
              /\ Len(link[k].up) <= Resent(c)

\* The client has stopped and its last order will not be applied any more.
Over(c) ==
    /\ client[c].pc = "stopped"
    /\ FramesUpTo(c, SeqOf(client[c].order_id))
    /\ AppliedBelow(c, client[c].order_id)
    /\ \/ client[c].idles
       \/ live_orders \in {client[c].shadow, Table(client[c].shadow, client[c].req)}
    /\ \A k \in Conns : k[2] = client[c].made => Idle(k)

\* Nothing on an older connection leads to an order, and the last order is in
\* one of four phases.
PhaseInv(c) ==
    /\ \A k \in Conns : k[2] < client[c].made => Idle(k)
    /\ AtRest(c) \/ Unanswered(c) \/ Answered(c) \/ Over(c)

\* The inductive invariant of the order path with one client.
SoloInv ==
    /\ IndInv /\ AppliedInOrder
    /\ \A c \in Clients :
          NumberInv(c) /\ SegmentInv(c) /\ AcceptInv(c) /\ SerialInv(c) /\ PhaseInv(c)

-----------------------------------------------------------------------------
\* The gateway does not take up order j on connection k: the connection is not
\* the first and the numbers of its two ends do not agree, or several frames that
\* were read together, taken for one, moved recv_seq past the order or hid it.
Missed(k, j) ==
    LET recv_seq == ctx[k].tcp.recv_seq
    IN  \/ k[2] > 1 /\ recv_seq # SeqOf(j)
        \/ recv_seq > SeqOf(j)
        \/ \E s \in DOMAIN ctx[k].reassembly : ctx[k].reassembly[s].len > OrderLen

\* The client waits for the answer to an order it will not send again, and the
\* gateway has nothing left to do for it.
GivenUp(c) ==
    /\ client[c].pc = "wait" /\ client[c].queue = <<>>
    /\ Quiet /\ link[Newest(c)].down = <<>>
    /\ Missed(Newest(c), Sent(c))

\* A client that waits for the answer to an order gets it, or stops because the
\* gateway has closed the connection, or has retransmitted the order as often as
\* it may to a gateway that counts differently: on the first connection, as long
\* as every read of the gateway is one frame, the loop of order, answer, order
\* goes on.
AnsweredOrGivenUp ==
    \A c \in Clients :
        client[c].pc = "wait" ~> client[c].pc # "wait" \/ []GivenUp(c)
=============================================================================
