------------------------------ MODULE MarketFeed ------------------------------
(***************************************************************************)
(* The UDP market feed: apps/market_udp/feed_publisher.cpp, which numbers  *)
(* its messages and drops and reorders some on purpose, the multicast      *)
(* socket of one subscriber (external: it keeps the order and may lose a   *)
(* datagram), and apps/market_udp/feed_subscriber.cpp, a single thread     *)
(* whose BusyPoller drives BatchRecv, PacketRing and UdpDeliveryFeedback.  *)
(* Subscribers share nothing, so one stands for all.                       *)
(*                                                                         *)
(* The packets in the ring point into the receive buffers of BatchRecv,    *)
(* which the next recv_batch writes again.  Pauses are left out, and with  *)
(* them adaptive_adjust, which only changes their length; the subscriber   *)
(* sets no timeout.                                                        *)
(***************************************************************************)
EXTENDS Integers, Sequences, FiniteSetsExt

CONSTANTS
    MaxPackets,     \* max_packets of one recv_batch: 16
    RingCapacity,   \* capacity of the ring: 64
    CancelFlags,    \* what the cancel_flag pointers may lead to
    MaxSeq,         \* bound on the messages published
    MaxForeign      \* bound on the datagrams of other senders

ASSUME SizesAssumption ==
    /\ MaxPackets \in Nat \ {0}
    /\ RingCapacity \in Nat
    /\ MaxPackets <= RingCapacity
ASSUME CancelFlagsAssumption == CancelFlags \subseteq {"none", "g_running"}
ASSUME BoundsAssumption == MaxSeq \in Nat /\ MaxForeign \in Nat

VARIABLES
    seq,            \* the publisher's next sequence number
    reorder_q,      \* messages it has numbered and not yet sent
    dropped_total,  \* dropped_total
    sent_total,     \* sent_total
    publishing,     \* the publisher has not exited
    foreign,        \* datagrams other senders have sent to the group
    socket,         \* the subscriber's receive queue, oldest first
    arrived,        \* history: every datagram that reached the socket
    cancel_flag,    \* the atomic the subscriber passes as cancel_flag
    g_running,      \* g_running
    running,        \* BusyPoller::running_
    status,         \* BusyPollResult::status
    sub_pc,         \* where the subscriber is
    buffers,        \* temp_buffers_: what each receive buffer holds
    ring,           \* the packets in the ring, as the buffers they point to
    feedback,       \* the UdpDeliveryFeedback
    handled,        \* history: the datagrams process_packet was given
    observed        \* history: the sequence numbers that were observed

publisher == <<seq, reorder_q, dropped_total, sent_total, publishing>>
subscriber == <<cancel_flag, running, status, sub_pc, buffers, ring, feedback,
                handled, observed>>
vars == <<publisher, foreign, socket, arrived, g_running, subscriber>>

\* A datagram is the sequence number of the message in it, or Foreign: one that
\* parse or the test of the payload size rejects.
Foreign == 0

IsMarketData(datagram) == datagram # Foreign

\* UdpDeliveryFeedback{}
NewFeedback ==
    [expected_seq |-> 1, total |-> 0, gaps |-> 0, reorder_events |-> 0,
     max_reorder_depth |-> 0]

Init ==
    /\ seq = 1
    /\ reorder_q = <<>>
    /\ dropped_total = 0
    /\ sent_total = 0
    /\ publishing = TRUE
    /\ foreign = 0
    /\ socket = <<>>
    /\ arrived = <<>>
    /\ cancel_flag \in CancelFlags
    /\ g_running = TRUE
    /\ running = FALSE
    /\ status = "Completed"
    /\ sub_pc = "start"
    /\ buffers = [i \in 1..MaxPackets |-> Foreign]
    /\ ring = <<>>
    /\ feedback = NewFeedback
    /\ handled = <<>>
    /\ observed = {}

-----------------------------------------------------------------------------
(***************************************************************************)
(* The publisher and the network.                                          *)
(***************************************************************************)

\* A round of the loop that drops its message.
PublishDropped ==
    /\ publishing /\ seq <= MaxSeq
    /\ seq' = seq + 1
    /\ dropped_total' = dropped_total + 1
    /\ UNCHANGED <<reorder_q, sent_total, publishing, foreign, socket, arrived,
                   g_running, subscriber>>

\* An exchange that loses one message and doubles the other.
QueuedTwice(m) ==
    LET q == Append(reorder_q, m)
        n == Len(q)
    IN  {q} \cup (IF n >= 2 THEN {[q EXCEPT ![n - 1] = q[n]]} ELSE {})

\* The queue with a new message, which may change places with the one before.
Queued(m) ==
    LET q == Append(reorder_q, m)
        n == Len(q)
    IN  {q} \cup (IF n >= 2 THEN {[q EXCEPT ![n - 1] = q[n], ![n] = q[n - 1]]}
                            ELSE {})

\* A round of the loop that sends all the queue holds but the last message; each
\* round leaves one behind, so that is one message or none.  It reaches the
\* socket or is lost.
Publish(q) ==
    LET out == SubSeq(q, 1, Len(q) - 1)
    IN  /\ publishing /\ seq <= MaxSeq
        /\ seq' = seq + 1
        /\ reorder_q' = <<q[Len(q)]>>
        /\ sent_total' = sent_total + Len(out)
        /\ \/ socket' = socket \o out /\ arrived' = arrived \o out
           \/ out # <<>> /\ UNCHANGED <<socket, arrived>>
        /\ UNCHANGED <<dropped_total, publishing, foreign, g_running, subscriber>>

\* sendto fails, or sends too little: the publisher exits.
PublishFails(q) ==
    /\ publishing /\ seq <= MaxSeq
    /\ Len(q) > 1
    /\ seq' = seq + 1
    /\ reorder_q' = Tail(q)
    /\ publishing' = FALSE
    /\ UNCHANGED <<dropped_total, sent_total, foreign, socket, arrived, g_running,
                   subscriber>>

\* Another sender on the group's port.
ForeignArrives ==
    /\ foreign < MaxForeign
    /\ foreign' = foreign + 1
    /\ socket' = Append(socket, Foreign)
    /\ arrived' = Append(arrived, Foreign)
    /\ UNCHANGED <<publisher, g_running, subscriber>>

\* SIGINT or SIGTERM to the subscriber.
Signal ==
    /\ g_running /\ sub_pc # "done"
    /\ g_running' = FALSE
    /\ UNCHANGED <<publisher, foreign, socket, arrived, subscriber>>

-----------------------------------------------------------------------------
(***************************************************************************)
(* The subscriber.                                                         *)
(***************************************************************************)

\* cancel_flag != nullptr && cancel_flag->load()
Cancelled == cancel_flag = "g_running" /\ g_running

\* start_with_control
Start ==
    /\ sub_pc = "start"
    /\ running' = TRUE
    /\ sub_pc' = "loop"
    /\ UNCHANGED <<publisher, foreign, socket, arrived, g_running, cancel_flag,
                   status, buffers, ring, feedback, handled, observed>>

\* The poller's loop has ended: it returns, and the subscriber reports and exits.
PollerEnds ==
    /\ sub_pc = "loop"
    /\ ~running \/ Cancelled
    /\ running' = FALSE
    /\ status' = IF running THEN "Cancelled" ELSE "Stopped"
    /\ sub_pc' = "done"
    /\ UNCHANGED <<publisher, foreign, socket, arrived, g_running, cancel_flag,
                   buffers, ring, feedback, handled, observed>>

\* A poll_func that never looks at g_running.
PollFuncNoFlag ==
    /\ sub_pc = "loop"
    /\ running /\ ~Cancelled
    /\ sub_pc' = "recv"
    /\ UNCHANGED <<publisher, foreign, socket, arrived, g_running, cancel_flag,
                   running, status, buffers, ring, feedback, handled, observed>>

\* The next round of the poller's loop: poll_func is called, and stops the
\* poller if g_running is false.
PollFunc ==
    /\ sub_pc = "loop"
    /\ running /\ ~Cancelled
    /\ running' = g_running
    /\ sub_pc' = IF g_running THEN "recv" ELSE "loop"
    /\ UNCHANGED <<publisher, foreign, socket, arrived, g_running, cancel_flag,
                   status, buffers, ring, feedback, handled, observed>>

\* A receive that waits for a full batch.
ReceivedFull ==
    IF Cancelled \/ Len(socket) < MaxPackets THEN 0 ELSE MaxPackets

\* How many datagrams recvmmsg returns: none when the call is cancelled.
Received == IF Cancelled THEN 0 ELSE Min({MaxPackets, Len(socket)})

\* How many of them the ring takes before it is full.
Pushed == Min({Received, RingCapacity - Len(ring)})

\* recv_batch: the datagrams go to the receive buffers, and packets that point
\* to the buffers into the ring until it is full; the rest is dropped.
RecvBatch ==
    /\ sub_pc = "recv"
    /\ socket' = SubSeq(socket, Received + 1, Len(socket))
    /\ buffers' = [i \in 1..MaxPackets |->
                     IF i <= Received THEN socket[i] ELSE buffers[i]]
    /\ ring' = ring \o [i \in 1..Pushed |-> i]
    /\ sub_pc' = "pop"
    /\ UNCHANGED <<publisher, foreign, arrived, g_running, cancel_flag, running,
                   status, feedback, handled, observed>>

\* recv_batch reports a system error: the subscriber stops its poller.
RecvFails ==
    /\ sub_pc = "recv"
    /\ ~Cancelled
    /\ g_running' = FALSE
    /\ running' = FALSE
    /\ sub_pc' = "loop"
    /\ UNCHANGED <<publisher, foreign, socket, arrived, cancel_flag, status,
                   buffers, ring, feedback, handled, observed>>

\* A gap counted from the message before the one expected.
ObserveOffByOne(fb, s) ==
    LET counted == [fb EXCEPT !.total = @ + 1]
        gap == IF s = fb.expected_seq THEN 0 ELSE s - fb.expected_seq + 1
    IN  IF s >= fb.expected_seq
        THEN [counted EXCEPT !.gaps = @ + gap, !.expected_seq = s + 1]
        ELSE [counted EXCEPT !.reorder_events = @ + 1]

\* observe
Observe(fb, s) ==
    LET counted == [fb EXCEPT !.total = @ + 1]
        late == fb.expected_seq - s
    IN  IF s >= fb.expected_seq
        THEN [counted EXCEPT !.gaps = @ + (s - fb.expected_seq),
                             !.expected_seq = s + 1]
        ELSE [counted EXCEPT !.reorder_events = @ + 1,
                             !.max_reorder_depth = Max({@, late})]

\* try_pop and process_packet: a datagram that is not market data is reported
\* and skipped.
ProcessPacket ==
    LET datagram == buffers[Head(ring)]
    IN  /\ sub_pc = "pop"
        /\ ring # <<>>
        /\ ring' = Tail(ring)
        /\ handled' = Append(handled, datagram)
        /\ IF IsMarketData(datagram)
           THEN /\ feedback' = Observe(feedback, datagram)
                /\ observed' = observed \cup {datagram}
           ELSE UNCHANGED <<feedback, observed>>
        /\ UNCHANGED <<publisher, foreign, socket, arrived, g_running, cancel_flag,
                       running, status, sub_pc, buffers>>

\* A poll_func that returns after each packet.
PollReturnsEarly ==
    /\ sub_pc = "pop"
    /\ sub_pc' = "loop"
    /\ UNCHANGED <<publisher, foreign, socket, arrived, g_running, cancel_flag,
                   running, status, buffers, ring, feedback, handled, observed>>

\* The ring is empty: poll_func returns.
PollReturns ==
    /\ sub_pc = "pop"
    /\ ring = <<>>
    /\ sub_pc' = "loop"
    /\ UNCHANGED <<publisher, foreign, socket, arrived, g_running, cancel_flag,
                   running, status, buffers, ring, feedback, handled, observed>>

-----------------------------------------------------------------------------
PublisherStep ==
    \/ PublishDropped
    \/ \E q \in Queued(seq) : Publish(q) \/ PublishFails(q)

SubscriberStep ==
    \/ Start
    \/ PollerEnds
    \/ PollFunc
    \/ RecvBatch
    \/ RecvFails
    \/ ProcessPacket
    \/ PollReturns

Next ==
    \/ PublisherStep
    \/ ForeignArrives
    \/ Signal
    \/ SubscriberStep

Spec == Init /\ [][Next]_vars

\* The subscriber is a loop that never blocks.  Nothing is assumed of the
\* publisher, the network or signals.
FairSpec == Spec /\ WF_vars(SubscriberStep)

-----------------------------------------------------------------------------
(***************************************************************************)
(* Properties.                                                             *)
(***************************************************************************)
Datagrams == Nat

Feedbacks ==
    [expected_seq : Nat, total : Nat, gaps : Nat, reorder_events : Nat,
     max_reorder_depth : Nat]

TypeOK ==
    /\ seq \in Nat
    /\ reorder_q \in Seq(Nat)
    /\ dropped_total \in Nat
    /\ sent_total \in Nat
    /\ publishing \in BOOLEAN
    /\ foreign \in Nat
    /\ socket \in Seq(Datagrams)
    /\ arrived \in Seq(Datagrams)
    /\ cancel_flag \in {"none", "g_running"}
    /\ g_running \in BOOLEAN
    /\ running \in BOOLEAN
    /\ status \in {"Completed", "Cancelled", "Stopped"}
    /\ sub_pc \in {"start", "loop", "recv", "pop", "done"}
    /\ buffers \in [1..MaxPackets -> Datagrams]
    /\ ring \in Seq(1..MaxPackets)
    /\ feedback \in Feedbacks
    /\ handled \in Seq(Datagrams)
    /\ observed \subseteq Nat

\* Every datagram the socket took is processed once and in order: the ring never
\* refuses one that recvmmsg has already taken off the socket, and no packet in
\* the ring is left when recv_batch writes the buffers again.
ReceivedOnce ==
    /\ Len(handled) + Len(ring) + Len(socket) = Len(arrived)
    /\ \A i \in 1..Len(handled) : handled[i] = arrived[i]

\* The messages up to the newest that never came.
Missing == (1..(feedback.expected_seq - 1)) \ observed

\* What the subscriber reports adds up, whatever is dropped, lost or overtaken:
\* recv_total counts each message once, and gaps less reorder_events, the
\* messages announced as missing that came after all, are exactly the missing.
CountersAddUp ==
    /\ feedback.total = Cardinality(observed)
    /\ feedback.gaps - feedback.reorder_events = Cardinality(Missing)

\* A datagram in the socket is processed, unless the subscriber ends.
DatagramsProcessed ==
    \A n \in 1..(MaxSeq + MaxForeign) :
        Len(arrived) >= n ~> (Len(handled) >= n \/ sub_pc = "done")

\* A signal ends the subscriber, wherever it is in its loop.
StopsWhenSignalled == ~g_running ~> sub_pc = "done"

\* A subscriber that nobody stops receives what arrives.
SubscriberReceives ==
    (\E i \in 1..Len(socket) : IsMarketData(socket[i]))
        ~> (feedback.total > 0 \/ ~g_running)
-----------------------------------------------------------------------------
(***************************************************************************)
(* The inductive invariant behind the safety properties.                   *)
(***************************************************************************)

\* Where each datagram that arrived is: handled, in a buffer that the ring
\* points to, or still in the socket, in this order.
FlowInv ==
    /\ ring # <<>> => sub_pc = "pop"
    /\ Len(handled) + Len(ring) + Len(socket) = Len(arrived)
    /\ \A i \in 1..Len(handled) : handled[i] = arrived[i]
    /\ \A i \in 1..Len(ring) : buffers[ring[i]] = arrived[Len(handled) + i]
    /\ \A i \in 1..Len(socket) :
          socket[i] = arrived[Len(handled) + Len(ring) + i]

\* No message is sent twice: the one that waits has not been sent.
UniqueInv ==
    /\ Len(reorder_q) <= 1
    /\ \A j \in 1..Len(reorder_q) : 0 < reorder_q[j] /\ reorder_q[j] < seq
    /\ 0 < seq
    /\ \A i \in 1..Len(arrived) : arrived[i] < seq
    /\ \A i \in 1..Len(arrived) : \A j \in 1..Len(reorder_q) :
          arrived[i] # reorder_q[j]
    /\ \A i, j \in 1..Len(arrived) :
          i # j /\ IsMarketData(arrived[i]) => arrived[i] # arrived[j]

\* The counters against the messages observed.
CountInv ==
    /\ observed = {s \in 1..(feedback.expected_seq - 1) :
                     \E i \in 1..Len(handled) : handled[i] = s}
    /\ \A i \in 1..Len(handled) : handled[i] < feedback.expected_seq
    /\ feedback.expected_seq > 0
    /\ feedback.total = Cardinality(observed)
    /\ feedback.total + feedback.gaps
          = feedback.expected_seq - 1 + feedback.reorder_events

\* Every datagram is in one place, no message is in two, and the counters tell
\* how many are missing.
IndInv == TypeOK /\ FlowInv /\ UniqueInv /\ CountInv
=============================================================================
