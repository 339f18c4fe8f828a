------------------------------ MODULE OrderPath ------------------------------
(***************************************************************************)
(* The TCP order path: apps/order_tcp/order_client.cpp, one process per    *)
(* client, and apps/order_tcp/order_gateway.cpp, a single thread that      *)
(* serves every connection from one epoll loop.  Between them is the       *)
(* kernel's TCP (external): per connection, one reliable stream each way.  *)
(*                                                                         *)
(* A stream is the sequence of frames written to it and not yet read.  The *)
(* gateway does no framing: a read returns all the bytes there are, and    *)
(* everything behind the first header is taken as that frame's payload.    *)
(* Reads of one batch of events all go to the same stack buffer, which is  *)
(* out of scope when the frames are parsed: Buffers names what a build may *)
(* leave in it.  Elapsed time is left out: a keepalive, a reconnect, a     *)
(* read timeout and a retransmission may fall due at any moment, in the    *)
(* runs whose constants allow them at all.                                 *)
(***************************************************************************)
EXTENDS TcpReassembly, TcpRetransmission, Functions

CONSTANTS
    Clients,        \* the order_client processes
    ListenFd,       \* the gateway's listening socket
    Burst,          \* --burst
    Actions,        \* the order actions --cancel-ratio and --replace-ratio allow
    Reconnects,     \* --disconnect-interval-s is not zero
    Keepalives,     \* whether an iteration of a client's loop can take a second
    SlowGateway,    \* an answer on its way can outlast --timeout-ms and the RTO
    ServerDrop,     \* --server-drop-at-s is not zero
    Buffers,        \* what the gateway may find in buf when it parses
    MaxEvents,      \* kMaxEvents: 64
    RingCapacity,   \* req_ring: 64
    MaxRetries,     \* retransmissions before a segment is given up: 5
    MaxOrders,      \* bound on the orders of one client
    MaxConns        \* bound on the connections of one client

ASSUME ActionsAssumption == {"New"} \subseteq Actions
                            /\ Actions \subseteq {"New", "Cancel", "Replace"}
ASSUME SwitchesAssumption ==
    /\ {Reconnects, SlowGateway, ServerDrop} \subseteq BOOLEAN
    /\ Keepalives # {} /\ Keepalives \subseteq BOOLEAN
ASSUME BuffersAssumption ==
    Buffers # {} /\ Buffers \subseteq {"last_read", "overwritten"}
ASSUME NumbersAssumption ==
    {Burst, MaxEvents, RingCapacity, MaxOrders, MaxConns} \subseteq Nat \ {0}
    /\ MaxRetries \in Nat
ASSUME ClientsAssumption == IsFiniteSet(Clients)
ASSUME RingAssumption == MaxEvents <= RingCapacity

VARIABLES
    client,         \* the state of each client
    link,           \* the kernel's view of each connection
    backlog,        \* connections waiting to be accepted, oldest first
    ctx,            \* conn_ctx: the gateway's state of each connection
    batch,          \* events of the current epoll_wait not yet handled
    ring,           \* req_ring: reads of this batch not yet processed
    buf,            \* the frames of the last read, empty while it is zeroed
    live_orders,    \* live_orders
    dropping,       \* server_drop_at_s has passed
    applied         \* history: the requests the gateway applied

gateway == <<ctx, batch, ring, buf, live_orders, applied>>
vars == <<client, link, backlog, gateway, dropping>>

-----------------------------------------------------------------------------
(***************************************************************************)
(* Data.                                                                   *)
(***************************************************************************)
OrderLen == 40      \* sizeof(OrderRequest)
AckLen == 24        \* sizeof(OrderAck)
HeaderLen == 20     \* TcpProtocol::kHeaderLen
MinCwnd == 1200     \* cwnd_bytes_ is never below one MSS

\* Connections are numbered per client, in the order it makes them.
Conns == Clients \X (1..MaxConns)

ASSUME ListenFdAssumption == ListenFd \notin Clients \cup Conns

\* The field client says whose order it is; it is not on the wire.
Request(c, id, action, target) ==
    [client |-> c, id |-> id, action |-> action, target |-> target]

NoRequest == Request(ListenFd, 0, "none", 0)

\* An order id, or a target, read out of bytes that are no order id: the ports
\* and sequence numbers of a header make it larger than any real one.
JunkId(seq) == 1000000 + seq

\* A whole order frame read as if it were an OrderRequest.  Byte 20, which is
\* taken as the action, is the low byte of the real order id.
FrameAsRequest(frame) ==
    LET code == frame.payload.id % 256
    IN  Request(frame.payload.client, JunkId(frame.seq),
                CASE code = 1 -> "New"
                  [] code = 2 -> "Cancel"
                  [] code = 3 -> "Replace"
                  [] OTHER    -> "none",
                JunkId(0))

\* What the bytes behind the first header of a buffer are taken for.
PayloadOf(frames) ==
    CASE frames[1].len > 0 -> frames[1].payload
      [] frames[1].len = 0 /\ Len(frames) > 1 /\ frames[2].len > 0 ->
           FrameAsRequest(frames[2])
      [] OTHER -> NoRequest

\* The bytes of a sequence of frames.
ByteCount(frames) ==
    LET upto[n \in 0..Len(frames)] ==
          IF n = 0 THEN 0 ELSE upto[n - 1] + HeaderLen + frames[n].len
    IN  upto[Len(frames)]

\* The order table after a request, and whether the request was accepted.
Table(live, req) ==
    CASE req.action = "New"    -> live \cup {req.id}
      [] req.action = "Cancel" -> live \ {req.target}
      [] OTHER                 -> live

\* Acceptance looked up after the order was taken out of the table.
AcceptedTooLate(live, req) ==
    req.action \in {"Cancel", "Replace"} => req.target \in Table(live, req)

Accepted(live, req) == req.action \in {"Cancel", "Replace"} => req.target \in live

Ack(req, accepted) == [id |-> req.id, accepted |-> accepted]
-----------------------------------------------------------------------------
(***************************************************************************)
(* The kernel (external).                                                  *)
(***************************************************************************)
NoLink == [up |-> <<>>, down |-> <<>>, client_end |-> "none", gateway_end |-> "none"]

\* connect: the connection is made before the gateway accepts it.
Opened(l) == [l EXCEPT !.client_end = "open", !.gateway_end = "backlog"]

\* close by either end: what that end had not read is gone.
ClosedByClient(l) == [l EXCEPT !.client_end = "closed", !.down = <<>>]
ClosedByGateway(l) == [l EXCEPT !.gateway_end = "closed", !.up = <<>>]

\* write: to a peer that has closed, it succeeds and the bytes are lost.
SentUp(l, frames) ==
    IF l.gateway_end = "closed" THEN l ELSE [l EXCEPT !.up = @ \o frames]
SentDown(l, frames) ==
    IF l.client_end = "closed" THEN l ELSE [l EXCEPT !.down = @ \o frames]

\* The connections epoll reports: something to read, or the end of the stream.
Readable ==
    {k \in Conns : /\ link[k].gateway_end = "open"
                   /\ link[k].up # <<>> \/ link[k].client_end = "closed"}

Init ==
    /\ \E idles \in Keepalives :
       client = [c \in Clients |->
                   [idles |-> idles, pc |-> "start", state |-> "CONNECTING",
                    fd |-> 0, made |-> 0, conn |-> NewConnection, order_id |-> 1, req |-> NoRequest,
                    shadow |-> {}, queue |-> <<>>, outstanding |-> {}, left |-> 0]]
    /\ link = [k \in Conns |-> NoLink]
    /\ backlog = <<>>
    /\ ctx = [k \in Conns |-> [tcp |-> NewConnection, reassembly |-> NoSegments]]
    /\ batch = {}
    /\ ring = <<>>
    /\ buf = <<>>
    /\ live_orders = {}
    /\ dropping = FALSE
    /\ applied = <<>>

-----------------------------------------------------------------------------
(***************************************************************************)
(* The client.                                                             *)
(***************************************************************************)

\* The connection behind the client's fd, which is 0 while it has none.
ConnOf(c) == <<c, client[c].fd>>

HasConn(c) == client[c].fd # 0

\* The next connection the client makes.
NextConn(c) == <<c, client[c].made + 1>>

\* The links once client c has closed its fd.
LinksAfterClose(c) ==
    IF HasConn(c) THEN [link EXCEPT ![ConnOf(c)] = ClosedByClient(@)] ELSE link

\* The first connect_to_gateway.
Connect(c) ==
    /\ client[c].pc = "start"
    /\ client' = [client EXCEPT ![c] =
                    [@ EXCEPT !.pc = "top", !.state = "ACTIVE", !.fd = 1, !.made = 1]]
    /\ link' = [link EXCEPT ![NextConn(c)] = Opened(@)]
    /\ backlog' = Append(backlog, NextConn(c))
    /\ UNCHANGED <<gateway, dropping>>

\* The first connect_to_gateway fails: main returns 1.
ConnectFails(c) ==
    /\ client[c].pc = "start"
    /\ client' = [client EXCEPT ![c] = [@ EXCEPT !.pc = "stopped", !.state = "STOPPED"]]
    /\ UNCHANGED <<link, backlog, gateway, dropping>>

\* The disconnect interval has passed at the top of the loop: close and connect
\* again.  Of all the client keeps, only the congestion controller starts anew.
Reconnect(c) ==
    /\ Reconnects
    /\ client[c].pc = "top"
    /\ client[c].made < MaxConns
    /\ client' = [client EXCEPT ![c] =
                    [@ EXCEPT !.pc = "loop", !.state = "ACTIVE",
                              !.fd = client[c].made + 1, !.made = client[c].made + 1]]
    /\ link' = [LinksAfterClose(c) EXCEPT ![NextConn(c)] = Opened(@)]
    /\ backlog' = Append(backlog, NextConn(c))
    /\ UNCHANGED <<gateway, dropping>>

\* The same, but the connect fails: the client sleeps and tries again.
ReconnectFails(c) ==
    /\ Reconnects
    /\ client[c].pc = "top"
    /\ client' = [client EXCEPT ![c] = [@ EXCEPT !.state = "RETRYING", !.fd = 0]]
    /\ link' = LinksAfterClose(c)
    /\ UNCHANGED <<backlog, gateway, dropping>>

\* The client is past the reconnect and about to send orders.
InLoop(c) == client[c].pc \in {"top", "loop"} /\ HasConn(c)

\* The last activity is a second old.
SendKeepalive(c) ==
    /\ client[c].idles
    /\ InLoop(c)
    /\ client' = [client EXCEPT ![c] = [@ EXCEPT !.pc = "burst", !.left = Burst]]
    /\ link' = [link EXCEPT ![ConnOf(c)] =
                  SentUp(@, <<KeepaliveFrame(client[c].conn)>>)]
    /\ UNCHANGED <<backlog, gateway, dropping>>

\* The requests the client may build: a cancel or replace names an order of
\* its shadow book, whichever comes first in the hash table.
NextRequests(c) ==
    {Request(c, client[c].order_id, action, target) :
        action \in Actions, target \in client[c].shadow \cup {0}}

Buildable(c, req) ==
    IF req.action = "New" THEN req.target = 0 ELSE req.target \in client[c].shadow

\* A burst counter that is never set back.
OrdersLeftNoReset(c) == client[c].left

\* Orders left of this burst, the next one included.
OrdersLeft(c) == IF client[c].pc = "burst" THEN client[c].left ELSE Burst

AfterOrder(left) == IF left = 0 THEN "top" ELSE "burst"

\* cc.can_send, for a congestion window of one segment size.
WindowOpen(c) == (Cardinality(client[c].outstanding) + 1) * OrderLen <= MinCwnd

\* One order: build it, write it, track the segment for retransmission and wait
\* for the answer.  With the window closed the order is skipped, id and all.
SendOrder(c, req) ==
    LET conn == client[c].conn
        frame == DataFrame(conn, OrderLen, req)
    IN  /\ InLoop(c) \/ client[c].pc = "burst"
        /\ client[c].order_id <= MaxOrders
        /\ Buildable(c, req)
        /\ IF WindowOpen(c)
           THEN /\ client' = [client EXCEPT ![c] =
                     [@ EXCEPT
                       !.pc = "wait",
                       !.order_id = client[c].order_id + 1,
                       !.req = req,
                       !.left = OrdersLeft(c) - 1,
                       !.conn = [conn EXCEPT !.send_seq = Advance(@, OrderLen)],
                       !.queue = TrackSegment(client[c].queue, conn.send_seq, OrderLen),
                       !.outstanding =
                          {f \in client[c].outstanding : f.seq # conn.send_seq}
                          \cup {frame}]]
                /\ link' = [link EXCEPT ![ConnOf(c)] = SentUp(@, <<frame>>)]
           ELSE /\ client' = [client EXCEPT ![c] =
                     [@ EXCEPT
                       !.pc = AfterOrder(OrdersLeft(c) - 1),
                       !.order_id = client[c].order_id + 1,
                       !.left = OrdersLeft(c) - 1]]
                /\ UNCHANGED link
        /\ UNCHANGED <<backlog, gateway, dropping>>

\* The client's end: a FIN if the state machine lets the connection close
\* actively, then close.
Stop(c) ==
    LET conn == client[c].conn
        fin == IF client[c].state = "ACTIVE" /\ ClosesActively(conn)
               THEN <<FinFrame(InitiateClose(conn))>> ELSE <<>>
    IN  /\ client' = [client EXCEPT ![c] =
                        [@ EXCEPT !.pc = "stopped", !.state = "STOPPED", !.fd = 0]]
        /\ link' = IF HasConn(c)
                   THEN [link EXCEPT ![ConnOf(c)] = ClosedByClient(SentUp(@, fin))]
                   ELSE link
        /\ UNCHANGED <<backlog, gateway, dropping>>

\* SIGINT or SIGTERM: whatever the client is doing, it leaves its loops.
Interrupted(c) ==
    /\ client[c].pc \in {"top", "loop", "burst", "wait"}
    /\ Stop(c)

\* A write to a connection the gateway has closed and reset.
WriteFails(c) ==
    /\ InLoop(c) \/ client[c].pc = "burst"
    /\ client[c].order_id <= MaxOrders
    /\ link[ConnOf(c)].gateway_end = "closed"
    /\ Stop(c)

\* The read returns 0, or fails: the gateway has closed the connection.
ReadEof(c) ==
    /\ client[c].pc = "wait"
    /\ link[ConnOf(c)].down = <<>>
    /\ link[ConnOf(c)].gateway_end = "closed"
    /\ Stop(c)

\* A cancel that takes its own id off the shadow book.
ShadowAfterOwnId(shadow, req) ==
    CASE req.action = "New"    -> shadow \cup {req.id}
      [] req.action = "Cancel" -> shadow \ {req.id}
      [] OTHER                 -> shadow

\* The shadow book after the answer to req, accepted or not.
ShadowAfter(shadow, req) == Table(shadow, req)

\* The read returns bytes: the first frame in them is the answer, whatever
\* order it names, and the rest is dropped.
ReadAck(c) ==
    LET down == link[ConnOf(c)].down
        ack == down[1].ack
    IN  /\ client[c].pc = "wait"
        /\ down # <<>>
        /\ client' = [client EXCEPT ![c] =
             [@ EXCEPT
               !.pc = AfterOrder(client[c].left),
               !.conn = [client[c].conn EXCEPT !.recv_ack = ack],
               !.queue = AckUpTo(client[c].queue, ack),
               !.outstanding = {f \in client[c].outstanding :
                                  Advance(f.seq, OrderLen) > ack},
               !.shadow = ShadowAfter(client[c].shadow, client[c].req)]]
        /\ link' = [link EXCEPT ![ConnOf(c)] = [@ EXCEPT !.down = <<>>]]
        /\ UNCHANGED <<backlog, gateway, dropping>>

\* The gateway has handled all it was sent.
Quiet == batch = {} /\ ring = <<>> /\ backlog = <<>> /\ Readable = {}

\* The read times out with some entries of the queue past their deadline: the
\* ones that have had their retries are given up, the others sent again.
ReadTimeout(c, due) ==
    LET queue == AfterCollectDue(client[c].queue, due, MaxRetries)
        kept == {f \in client[c].outstanding : Contains(queue, f.seq)}
        entries == Due(client[c].queue, due, MaxRetries)
        again == Picked(entries,
                        {i \in 1..Len(entries) :
                           \E f \in kept : f.seq = entries[i].seq_start})
        frames == [i \in 1..Len(again) |->
                     CHOOSE f \in kept : f.seq = again[i].seq_start]
    IN  /\ SlowGateway \/ Quiet
        /\ client[c].pc = "wait"
        /\ link[ConnOf(c)].down = <<>>
        /\ link[ConnOf(c)].gateway_end # "closed"
        /\ due # {}
        /\ client' = [client EXCEPT ![c] =
                        [@ EXCEPT !.queue = queue, !.outstanding = kept]]
        /\ link' = [link EXCEPT ![ConnOf(c)] = SentUp(@, frames)]
        /\ UNCHANGED <<backlog, gateway, dropping>>

-----------------------------------------------------------------------------
(***************************************************************************)
(* The gateway.                                                            *)
(***************************************************************************)

\* What epoll_wait may report of the ready descriptors: all of them, or as many
\* as there is room for, whichever the kernel takes.
Reported(ready) ==
    IF Cardinality(ready) <= MaxEvents
    THEN {ready} ELSE {fds \in SUBSET ready : Cardinality(fds) = MaxEvents}

\* epoll.wait_with_options: a batch of events.
EpollWait ==
    /\ batch = {} /\ ring = <<>>
    /\ batch' \in Reported(Readable \cup {fd \in {ListenFd} : backlog # <<>>})
    /\ batch' # {}
    /\ UNCHANGED <<client, link, backlog, ctx, ring, buf, live_orders, dropping,
                   applied>>

\* An event of the listening socket: accept one connection.
Accept ==
    LET k == Head(backlog)
    IN  /\ ListenFd \in batch
        /\ batch' = batch \ {ListenFd}
        /\ backlog' = Tail(backlog)
        /\ link' = [link EXCEPT ![k] = [@ EXCEPT !.gateway_end = "open"]]
        /\ ctx' = [ctx EXCEPT ![k] =
                     [tcp |-> NewConnection, reassembly |-> NoSegments]]
        /\ UNCHANGED <<client, ring, buf, live_orders, dropping, applied>>

\* A read that leaves its event in the batch.
ReadFramesTwice(k) ==
    /\ k \in batch
    /\ link[k].up # <<>>
    /\ buf' = link[k].up
    /\ link' = [link EXCEPT ![k] = [@ EXCEPT !.up = <<>>]]
    /\ ring' = Append(ring, [conn |-> k, len |-> ByteCount(link[k].up)])
    /\ UNCHANGED <<client, backlog, ctx, batch, live_orders, dropping, applied>>

\* An event of a connection: all there is to read goes to buf, and a packet that
\* points to buf goes to the ring.
ReadFrames(k) ==
    /\ k \in batch
    /\ link[k].up # <<>>
    /\ batch' = batch \ {k}
    /\ buf' = link[k].up
    /\ link' = [link EXCEPT ![k] = [@ EXCEPT !.up = <<>>]]
    /\ ring' = IF Len(ring) < RingCapacity
               THEN Append(ring, [conn |-> k, len |-> ByteCount(link[k].up)])
               ELSE ring
    /\ UNCHANGED <<client, backlog, ctx, live_orders, dropping, applied>>

\* Every event taken for the end of the stream.
ReadEndAnyway(k) ==
    /\ k \in batch
    /\ batch' = batch \ {k}
    /\ buf' = <<>>
    /\ link' = [link EXCEPT ![k] = ClosedByGateway(@)]
    /\ UNCHANGED <<client, backlog, ctx, ring, live_orders, dropping, applied>>

\* The end of the stream ignored, as a read that would block is.
ReadEndIgnored(k) ==
    /\ k \in batch
    /\ link[k].up = <<>>
    /\ batch' = batch \ {k}
    /\ buf' = <<>>
    /\ UNCHANGED <<client, link, backlog, ctx, ring, live_orders, dropping, applied>>

\* An event of a connection: its stream has ended.  buf was zeroed for the read.
ReadEnd(k) ==
    /\ k \in batch
    /\ link[k].up = <<>>
    /\ batch' = batch \ {k}
    /\ buf' = <<>>
    /\ link' = [link EXCEPT ![k] = ClosedByGateway(@)]
    /\ UNCHANGED <<client, backlog, ctx, ring, live_orders, dropping, applied>>

\* The events are handled and the ring holds a packet for connection k of len
\* bytes behind its header.  buf is what its pointer leads to by now, and h the
\* header parsed from there.
Popping(k, len) ==
    /\ batch = {} /\ ring # <<>>
    /\ k = Head(ring).conn
    /\ len = Head(ring).len - HeaderLen
    /\ ring' = Tail(ring)

\* A packet that is parsed: its connection is known, and buf was neither zeroed
\* by a later event nor overwritten.
Parsing(k, len) ==
    /\ Popping(k, len)
    /\ ~dropping
    /\ buf # <<>>
    /\ "last_read" \in Buffers
    /\ link[k].gateway_end = "open"

\* server_drop_at_s passes.
DropDeadline ==
    /\ ServerDrop
    /\ ~dropping
    /\ dropping' = TRUE
    /\ UNCHANGED <<client, link, backlog, gateway>>

\* From then on a packet only closes its connection.
DropPacket(k, len) ==
    /\ Popping(k, len)
    /\ dropping
    /\ link' = [link EXCEPT ![k] = ClosedByGateway(@)]
    /\ UNCHANGED <<client, backlog, ctx, batch, buf, live_orders, dropping, applied>>

\* The packet is skipped: its connection is gone, or buf was zeroed or overwritten
\* and what is there does not parse.
SkipPacket(k, len) ==
    /\ Popping(k, len)
    /\ ~dropping
    /\ link[k].gateway_end # "open" \/ buf = <<>> \/ "overwritten" \in Buffers
    /\ UNCHANGED <<client, link, backlog, ctx, batch, buf, live_orders, dropping,
                   applied>>

\* A frame without payload: the state machine handles it, a FIN is answered by
\* an ACK and, in CLOSE_WAIT, by the gateway's own FIN; a connection that is
\* then CLOSED is closed.
ControlFrame(k, len) ==
    LET h == buf[1]
        handled == HandleIncoming(ctx[k].tcp, h, len)
        closing == h.fin /\ handled.state = "CLOSE_WAIT"
        tcp == IF closing
               THEN [InitiateClose(handled) EXCEPT !.send_seq = Advance(@, 1)]
               ELSE handled
        replies == (IF h.fin THEN <<AckFrame(handled, handled.send_ack)>> ELSE <<>>)
                   \o (IF closing THEN <<FinFrame(InitiateClose(handled))>> ELSE <<>>)
        answered == SentDown(link[k], replies)
    IN  /\ Parsing(k, len)
        /\ len = 0 /\ (h.fin \/ h.has_ack)
        /\ ctx' = [ctx EXCEPT ![k] = [@ EXCEPT !.tcp = tcp]]
        /\ link' = [link EXCEPT ![k] =
                      IF tcp.state = "CLOSED" THEN ClosedByGateway(answered)
                                              ELSE answered]
        /\ UNCHANGED <<client, backlog, batch, buf, live_orders, dropping, applied>>

\* A payload that is not the next one: it waits in the reassembly buffer, and
\* nothing is answered.
BufferSegment(k, len) ==
    /\ Parsing(k, len)
    /\ len > 0 /\ buf[1].seq # ctx[k].tcp.recv_seq
    /\ ctx' = [ctx EXCEPT ![k] =
                 [@ EXCEPT !.reassembly =
                    Insert(ctx[k].reassembly, buf[1].seq, len, PayloadOf(buf))]]
    /\ UNCHANGED <<client, link, backlog, batch, buf, live_orders, dropping, applied>>

\* process_order_payload for one payload after another: recv_seq moves by the
\* length of the payload, trailing bytes included, the request is applied to the
\* order table and answered.  A payload too short for a request does nothing.
Processed(tcp, segments) ==
    LET after[n \in 0..Len(segments)] ==
          IF n = 0
          THEN [tcp |-> tcp, live |-> live_orders, acks |-> <<>>, done |-> <<>>]
          ELSE LET b == after[n - 1]
                   req == segments[n].payload
                   moved == [b.tcp EXCEPT !.recv_seq = Advance(@, segments[n].len)]
               IN  IF segments[n].len < OrderLen
                   THEN b
                   ELSE [tcp |-> moved,
                         live |-> Table(b.live, req),
                         acks |-> Append(b.acks,
                                    DataFrame(moved, AckLen,
                                              Ack(req, Accepted(b.live, req)))),
                         done |-> Append(b.done, req)]
    IN  after[Len(segments)]

\* A payload processed whatever its sequence number.
ProcessOrderAnySeq(k, len) ==
    LET result == Processed(ctx[k].tcp, <<[len |-> len, payload |-> PayloadOf(buf)]>>)
    IN  /\ Parsing(k, len)
        /\ len > 0
        /\ ctx' = [ctx EXCEPT ![k] = [@ EXCEPT !.tcp = result.tcp]]
        /\ live_orders' = result.live
        /\ applied' = applied \o result.done
        /\ link' = [link EXCEPT ![k] = SentDown(@, result.acks)]
        /\ UNCHANGED <<client, backlog, batch, buf, dropping>>

\* A payload answered and applied without moving recv_seq.
ProcessOrderNoAdvance(k, len) ==
    LET tcp == ctx[k].tcp
        result == Processed(tcp, <<[len |-> len, payload |-> PayloadOf(buf)]>>)
    IN  /\ Parsing(k, len)
        /\ len > 0 /\ buf[1].seq = tcp.recv_seq
        /\ live_orders' = result.live
        /\ applied' = applied \o result.done
        /\ link' = [link EXCEPT ![k] = SentDown(@, result.acks)]
        /\ UNCHANGED <<client, backlog, ctx, batch, buf, dropping>>

\* The next payload: it is processed, and with it the buffered segments it makes
\* contiguous.
ProcessOrder(k, len) ==
    LET tcp == ctx[k].tcp
        first == <<[len |-> len, payload |-> PayloadOf(buf)]>>
        expected == Processed(tcp, first).tcp.recv_seq
        result == Processed(tcp,
                            first \o Contiguous(ctx[k].reassembly, expected))
    IN  /\ Parsing(k, len)
        /\ len > 0 /\ buf[1].seq = tcp.recv_seq
        /\ ctx' = [ctx EXCEPT ![k] =
                     [tcp |-> result.tcp,
                      reassembly |-> Rest(ctx[k].reassembly, expected)]]
        /\ live_orders' = result.live
        /\ applied' = applied \o result.done
        /\ link' = [link EXCEPT ![k] = SentDown(@, result.acks)]
        /\ UNCHANGED <<client, backlog, batch, buf, dropping>>

-----------------------------------------------------------------------------
\* A read of a client that waits for an answer returns.
ReadReturns(c) ==
    \/ ReadAck(c)
    \/ ReadEof(c)
    \/ \E due \in SUBSET {e.seq_start : e \in Range(client[c].queue)} :
          ReadTimeout(c, due)

ClientStep(c) ==
    \/ Connect(c)
    \/ ConnectFails(c)
    \/ Reconnect(c)
    \/ ReconnectFails(c)
    \/ SendKeepalive(c)
    \/ \E req \in NextRequests(c) : SendOrder(c, req)
    \/ WriteFails(c)
    \/ ReadReturns(c)
    \/ Interrupted(c)

HandlePacket(k, len) ==
    \/ DropPacket(k, len)
    \/ SkipPacket(k, len)
    \/ ControlFrame(k, len)
    \/ BufferSegment(k, len)
    \/ ProcessOrder(k, len)

GatewayStep ==
    \/ EpollWait
    \/ Accept
    \/ \E k \in Conns : ReadFrames(k) \/ ReadEnd(k)
    \/ \E pkt \in Range(ring) : HandlePacket(pkt.conn, pkt.len - HeaderLen)

Next ==
    \/ \E c \in Clients : ClientStep(c)
    \/ GatewayStep
    \/ DropDeadline

Spec == Init /\ [][Next]_vars

\* The gateway's loop never pauses, and the read of a client that waits returns
\* with an answer, with the end of the stream or with a timeout.  Nothing is
\* assumed of signals, new orders, keepalives or reconnects, nor of which ready
\* descriptors epoll reports first: each event takes something off a stream, and
\* the clients' orders are bounded.
Fairness ==
    /\ WF_vars(GatewayStep)
    /\ \A c \in Clients : WF_vars(ReadReturns(c))

FairSpec == Spec /\ Fairness

-----------------------------------------------------------------------------
(***************************************************************************)
(* Properties.                                                             *)
(***************************************************************************)

OrderIds == 0..MaxOrders \cup JunkId(0)..JunkId(SeqMod - 1)
Requests == [client : Clients \cup {ListenFd}, id : OrderIds,
             action : {"New", "Cancel", "Replace", "none"}, target : OrderIds]
Acks == [id : OrderIds, accepted : BOOLEAN]
Headers(len, payloads) ==
    [seq : SeqNums, ack : SeqNums, syn : {FALSE}, has_ack : {TRUE}, fin : {FALSE},
     len : {len}, payload : payloads]
OrderFrames == Headers(OrderLen, Requests)
UpFrames == OrderFrames \cup Headers(0, {NoPayload})
DownFrames == Headers(AckLen, Acks)
Entries == [seq_start : SeqNums, seq_end : SeqNums, retries : 0..MaxRetries]

ClientStates ==
    [idles : BOOLEAN,
     pc : {"start", "top", "loop", "burst", "wait", "stopped"},
     state : {"CONNECTING", "ACTIVE", "RETRYING", "STOPPED"},
     fd : 0..MaxConns, made : 0..MaxConns, conn : TcpConnections,
     order_id : 1..(MaxOrders + 1), req : Requests, shadow : SUBSET (1..MaxOrders),
     queue : Seq(Entries), outstanding : SUBSET OrderFrames, left : 0..Burst]

Links == [up : Seq(UpFrames), down : Seq(DownFrames),
          client_end : {"none", "open", "closed"},
          gateway_end : {"none", "backlog", "open", "closed"}]

Packets == [conn : Conns, len : Nat]

\* A reassembly buffer: no segment is empty.
Segments == [len : Nat \ {0}, payload : Requests]
IsReassembly(segments) ==
    /\ DOMAIN segments \subseteq SeqNums
    /\ \A s \in DOMAIN segments : segments[s] \in Segments

TypeOK ==
    /\ client \in [Clients -> ClientStates]
    /\ link \in [Conns -> Links]
    /\ backlog \in Seq(Conns)
    /\ ctx = [k \in Conns |-> [tcp |-> ctx[k].tcp, reassembly |-> ctx[k].reassembly]]
    /\ \A k \in Conns : ctx[k].tcp \in TcpConnections /\ IsReassembly(ctx[k].reassembly)
    /\ batch \subseteq Conns \cup {ListenFd}
    /\ ring \in Seq(Packets)
    /\ buf \in Seq(UpFrames)
    /\ live_orders \subseteq OrderIds
    /\ dropping \in BOOLEAN
    /\ applied \in Seq(Requests)

\* Retransmitted, delayed, buffered, on a new connection or run together with
\* other frames: an order is applied by process_order_payload at most once, and
\* after the orders the client sent before it.
AppliedInOrder ==
    \A c \in Clients : \A i, j \in 1..Len(applied) :
        /\ i < j
        /\ applied[i].client = c /\ applied[i].id <= MaxOrders
        /\ applied[j].client = c /\ applied[j].id <= MaxOrders
        => applied[i].id < applied[j].id

\* The client's shadow book is the gateway's order table: exactly, when no order
\* is on its way; else, also when the client stops before the answer, up to the
\* one order that the gateway may have applied or not.  It takes a client that
\* sends no keepalives: an order read together with one is applied as junk.
BooksAgree ==
    \A c \in {d \in Clients : ~client[d].idles} :
        LET shadow == client[c].shadow
        IN  /\ client[c].pc \in {"top", "loop", "burst"} => live_orders = shadow
            /\ client[c].pc \in {"wait", "stopped"} =>
                  live_orders \in {shadow, Table(shadow, client[c].req)}

\* What is on its way to a client is the one answer to the order it waits for:
\* the "ack client_order_id mismatch" branch is never taken, and a cancel or a
\* replace never meets an order the gateway does not know.  Again without
\* keepalives, which make the gateway answer an order id that was never sent.
AckAnswersRequest ==
    \A c \in {d \in Clients : ~client[d].idles} :
        HasConn(c) /\ link[ConnOf(c)].down # <<>> =>
            /\ client[c].pc = "wait"
            /\ Len(link[ConnOf(c)].down) = 1
            /\ link[ConnOf(c)].down[1].payload = Ack(client[c].req, TRUE)

\* retrans_q and outstanding_segments describe the same segments through sends,
\* ACKs, give-ups and reconnects, and at most one is in flight: the congestion
\* window is never what holds an order back.
RetransmitBookkeeping ==
    \A c \in Clients :
        /\ {e.seq_start : e \in Range(client[c].queue)}
             = {f.seq : f \in client[c].outstanding}
        /\ Len(client[c].queue) = Cardinality(client[c].outstanding)
        /\ Len(client[c].queue) <= IF client[c].pc \in {"wait", "stopped"} THEN 1 ELSE 0

\* The gateway closes a connection only when its client has, when
\* --server-drop-at-s says so, or when its client sends keepalives: one of those
\* read alone is a frame without payload, and the state machine, which no
\* handshake has taken out of CLOSED, makes the gateway close the connection.
ClosedOnlyByClient ==
    \A k \in Conns :
        link[k].gateway_end = "closed" =>
            link[k].client_end = "closed" \/ dropping \/ client[k[1]].idles

\* Every packet in req_ring belongs to a connection the gateway has open, so its
\* answer goes to the socket it came from: no event of the batch closes a
\* connection behind a packet already read, and with it its descriptor, which
\* accept could give to another.  A read never finds the ring full, although
\* main does not look at what try_push returns: there are no more events in a
\* batch than places in the ring.
RingHoldsOpenConns ==
    /\ \A i, j \in 1..Len(ring) :
          /\ link[ring[i].conn].gateway_end = "open"
          /\ ring[i].conn = ring[j].conn => i = j
    /\ batch \ {ListenFd} # {} => Len(ring) < RingCapacity

-----------------------------------------------------------------------------
(***************************************************************************)
(* What the code keeps true at every step and the proofs build on.         *)
(***************************************************************************)

\* A client's descriptor is that of its newest connection, and it is at work
\* only with one.  No handshake takes its state machine out of CLOSED.
ClientInv ==
    \A c \in Clients :
        /\ client[c].fd \in {0, client[c].made}
        /\ client[c].pc = "start" => client[c].made = 0
        /\ client[c].pc \in {"loop", "burst", "wait"} => HasConn(c)
        /\ client[c].pc = "burst" => client[c].left > 0
        /\ client[c].pc = "wait" => client[c].req.id \in 1..MaxOrders
        /\ client[c].conn.state = "CLOSED"

\* The kernel knows the connections the client has made, and the client's end of
\* all but the newest is closed.  Only a client that sends keepalives sends
\* frames without payload.
LinkInv ==
    \A k \in Conns :
        /\ ctx[k].tcp.state = "CLOSED"
        /\ k[2] > client[k[1]].made => link[k] = NoLink
        /\ k[2] <= client[k[1]].made =>
              /\ link[k].gateway_end # "none"
              /\ link[k].client_end =
                    IF k[2] = client[k[1]].fd THEN "open" ELSE "closed"
        /\ client[k[1]].idles \/ \A i \in 1..Len(link[k].up) : link[k].up[i].len = OrderLen

\* The events of a batch stay true until they are handled.
EventInv ==
    /\ \A i, j \in 1..Len(backlog) :
          /\ link[backlog[i]].gateway_end = "backlog"
          /\ backlog[i] = backlog[j] => i = j
    /\ ListenFd \in batch => backlog # <<>>
    /\ \A k \in batch \ {ListenFd} :
          /\ link[k].gateway_end = "open"
          /\ link[k].up # <<>> \/ link[k].client_end = "closed"

\* A packet in the ring is that of a connection that is open and has no event
\* left in the batch; only a keepalive read alone has nothing behind its header.
RingInv ==
    \A i, j \in 1..Len(ring) :
        /\ link[ring[i].conn].gateway_end = "open"
        /\ ring[i].conn \notin batch
        /\ ring[i].conn = ring[j].conn => i = j
        /\ ring[i].len >= HeaderLen
        /\ client[ring[i].conn[1]].idles \/ ring[i].len > HeaderLen

IndInv == TypeOK /\ ClientInv /\ LinkInv /\ EventInv /\ RingInv /\ ClosedOnlyByClient

\* The packets in the ring and the events still to handle are no more than one
\* epoll_wait reports.
RoomInv ==
    /\ IsFiniteSet(batch)
    /\ Cardinality(batch \ {ListenFd}) + Len(ring) <= MaxEvents

-----------------------------------------------------------------------------
\* A client that waits for the answer to an order gets it, or stops because the
\* gateway has closed the connection: the answers keep pace with the orders, as
\* RUN_SIM_ORDER.md says they do.
EveryOrderIsAnswered ==
    \A c \in Clients : client[c].pc = "wait" ~> client[c].pc # "wait"

\* The gateway gives up every connection its client has closed, whatever was
\* still unread in it: no descriptor and no conn_ctx entry stays behind.
ConnectionsReclaimed ==
    \A k \in Conns : link[k].client_end = "closed" ~> link[k].gateway_end = "closed"

=============================================================================
