# A TLA+ model of the user-space networking stack

This directory holds TLA+ specifications of the C++ user-space networking stack
and its two simulations: the lock-free structures and memory pools of
`include/usn/core`, the user-space TCP of `include/usn/protocol`, the waiting calls
of `include/usn/io`, the order path of `apps/order_tcp`, the market feed of
`apps/market_udp`, and the programs that launch them. The specifications are translated from
the source; paths below are relative to the repository root, and `PROJECT.json`
maps every definition to the lines it models.

1. [The system](#1-the-system): components, state, interactions, hard behaviours
2. [The modules](#2-the-modules): how state and actions correspond to the code
3. [The runs](#3-the-runs): what TLC checks, the bounds and the fairness
4. [What the code does that its comments and docs do not say](#4-disagreements)
5. [The proofs](#5-the-proofs)
6. [What is not modelled](#6-what-is-not-modelled)
7. [The plan](#7-the-plan)

## 1. The system

| Component | State | Operations | What makes it correct |
|---|---|---|---|
| `PacketRing` (`core/packet_ring.hpp`) | `write_pos_`, `read_pos_`, the slots | `try_push`, `try_push_batch`, `try_pop`, `try_pop_batch`, `size`, `available` | one producer thread and one consumer thread never touch one slot together; packets leave in push order, once; unsigned differences stay in `0..capacity_` |
| `MpscQueue<T>` (`core/mpsc_queue.hpp`) | `head_`, `tail_`, a ring of `std::optional<T>` | `try_push` (many threads), `try_pop` (one thread) | two producers never own one slot; values leave in claim order, once and whole; a push is refused only when the queue is full |
| `MemoryPool`, `ZeroCopyMemoryPool` (`core/memory_pool.hpp`, `optimization/zero_copy.hpp`) | a free list over fixed blocks | `allocate`, `deallocate`, `available` | a block has one owner; blocks are conserved |
| TCP state machine (`protocol/tcp_state_machine.hpp`, `tcp_protocol.hpp`) | `TcpConnection`: state, sequence numbers, windows | `handle_incoming`, `initiate_close`, `transition_state`, frame builders and parser | transitions only along `can_transition`; data acknowledged is data received; both ends close |
| `TcpReassemblyBuffer` (`tcp_reassembly.hpp`) | segments keyed by sequence number | `insert`, `pop_contiguous`, hole statistics | payload is handed on once and in order |
| `TcpRetransmissionQueue`, `TcpRtoEstimator` (`tcp_retransmission.hpp`) | segments in flight, deadlines, retries | `track_segment`, `ack_up_to`, `collect_due` | a segment leaves when acknowledged or given up, never otherwise |
| `TcpCongestionController` (`tcp_congestion.hpp`) | window, threshold, accumulator | `can_send`, `on_ack`, `on_loss` | bytes in flight are those of the segments tracked |
| order client (`apps/order_tcp/order_client.cpp`) | one connection, order ids, shadow book, segments in flight | one loop: reconnect, keepalive, burst of orders, wait with retransmission, stop | every order is answered; the shadow book is the gateway's table |
| order gateway (`apps/order_tcp/order_gateway.cpp`) | a context per connection, `req_ring`, one stack buffer, `live_orders` | one epoll loop: accept, read, push to the ring, process the ring | each order applied once, in order; each answer to the right client; no connection leaked or closed at will |
| UDP protocol, feedback, sockets (`protocol/udp_*.hpp`) | the expected sequence number and four counters | header codec, `observe`, send and receive | gaps and reordering are counted right |
| market feed (`apps/market_udp`) | publisher's sequence and queue, subscriber's ring, buffers and statistics | publish loop; batched receive, ring, process | every datagram of the socket is processed once; every message is counted as received or as missing; a signal ends the loop |
| `BatchIO`, `BusyPoller`, `EpollWrapper`, `IoUringWrapper` (`include/usn/io`) | policies, deadlines, stop and cancel flags, rings shared with the kernel | batched receive and send, poll loops, waits with time budgets | timeouts and cancellation are honoured; completions are delivered once |
| orchestrators (`apps/run_sim_*.cpp`) | child processes, summary files | fork, exec, kill, wait, sum up | all children end, the driver first; the launcher ends; the totals are complete |
| tracing, NUMA helpers, benchmarks | none that matters | | |

**Interactions.** The order client and the gateway are separate processes; they
talk over kernel TCP and put *user-space* TCP frames into that stream. The
gateway is a single thread: it takes a batch of epoll events, reads every ready
socket into one stack buffer, pushes a packet that points to that buffer into a
`PacketRing`, and when the events are done pops the packets and parses them. A
parsed payload goes through the reassembly buffer to the order table, the answer
goes straight to the socket. The client keeps `TcpRetransmissionQueue`,
`TcpCongestionController` and its own map of outstanding segments side by side.
The feed publisher numbers its messages, drops some and exchanges neighbours, and
multicasts the rest. The feed subscriber joins `BatchRecv`, `PacketRing`,
`BusyPoller` and `UdpDeliveryFeedback` in one thread: a batch of datagrams goes
into receive buffers, packets that point to the buffers into the ring, and the
ring is emptied before the next batch. Every message is built in a block of a
memory pool and the block goes back once the kernel has the bytes. The I/O wrappers
return statuses of their own, which `io_status.hpp` makes one, and the loops of the
programs go on or end by it. A launcher per simulation forks the background
processes, then the one that drives them, stops the driver first, and in the market
simulation reads a file of each subscriber.

**Hard behaviours.** Threads that decide from a position the other thread is
moving (ring, queue); plain stores read by another thread (queue); streams that
join frames, retransmissions that cross late answers, reconnects that keep half
of the old state, a buffer shared by all reads of a batch (order path); messages
dropped, lost and overtaken against counters that are to add up, and one flag read
in two senses (market feed); lost,
duplicated and reordered segments against a state machine that compares sequence
numbers without windows; time budgets that race cancellation. `PROJECT.json`
lists them under `hazards`, each at its line with the properties aimed at it.

## 2. The modules

```
BoundedFifo  <-implements-  PacketRing  <- MCPacketRing
                                 ^
                            PacketRingProofs   MpscQueueProofs -> MpscQueue <- MCMpscQueue

TcpStateMachine <- TcpReassembly, TcpRetransmission <- OrderPath <- OrderPathSolo
                             MCOrderPath -> OrderPathSolo <- OrderPathProofs

TcpStateMachine <- TcpEndpoints <- MCTcpEndpoints      TcpEndpointsProofs -> TcpEndpoints

MarketFeedProofs -> MarketFeed <- MCMarketFeed

BlockPool  <-implements-  MemoryPool <- MCMemoryPool       MemoryPoolProofs -> MemoryPool

IoWaitsProofs -> IoWaits <- MCIoWaits      LauncherProofs -> Launcher <- MCLauncher
```

### PacketRing, BoundedFifo

Every load or store of a position and every copy into, out of or reset of a slot
is a step. A call is a chain of steps marked by `p_pc` or `c_pc`; the variables
`p_write`, `p_n`, `p_i`, `c_read`, ... are the locals of the C++ functions. The
release store of `write_pos_` (`Publish`) and of `read_pos_` (`Release`) come
after the slot accesses they publish, and the acquire load of the other position
comes before them: with the code's memory orders these steps interleave as
written. Positions are naturals: `NeverOverfull` shows that no difference leaves
`0..Capacity`, so `std::size_t` never wraps. `Capacity` is any positive number;
the code's rounding to a power of two only makes `pos & mask_` equal
`pos % Capacity`. `available()` is `Capacity - size()` and `empty()` is
`size() = 0`. `sent` and `popped` are history.

`BoundedFifo` says what the ring promises: a queue of at most `Capacity` packets,
filled at one end by a run at a time and emptied at the other. The refinement
mapping, `AbstractQueue`, is the part of the current pop already copied followed
by the slots between the two positions. A push takes effect at `Publish`, a pop at
`Release`.

### MpscQueue

`LoadTail`, `LoadHead`, `CasSucceed`, `CasFail` (also without cause, as
`compare_exchange_weak` may), `WriteFirst` and `WriteSecond` are `try_push`; `PopCall`
to `PopAdvance` are `try_pop`. `Minus` subtracts modulo `SizeMod`, because
`tail - head` really wraps here. `buffer_[index] = value` on an
`std::optional<T>` is two plain stores, payload and engaged flag, and the
consumer reads the flag without synchronisation: a data race, whose outcome
depends on the build. The constant `WriteOrders` names the orders of the two
stores a build may emit, and `write_order` is the one of this behaviour; the
properties about values are stated for the builds that store the payload first,
those about positions for all. GCC at `-O2` emits payload first for `MpscQueue<int>`,
the only instance in the repository, and flag first for a structure of three
words.

### TcpStateMachine, TcpReassembly, TcpRetransmission

Pure operators on a connection record, on a map of segments and on a queue of
entries, with the source's names. `HandleIncoming` is `handle_incoming`, one
operator for each of its parts (SYN, ACK, payload, FIN) because each part may
return early. Sequence numbers are modulo `SeqMod` (2^32 in the code) and compared
as the code compares them, as plain unsigned numbers. `collect_due` is split into
what it returns (`Due`) and what it leaves (`AfterCollectDue`), and the caller says
which deadlines have passed.

### OrderPath

`client[c]` is the local state of `main` in `order_client.cpp`: `pc` says where in
its loop it is ("top" before the reconnect test, "loop" behind it, "burst" between
two orders of a burst, "wait" inside the loop that waits for an answer), `state`
is `client_state`, `queue` is `retrans_q`, `outstanding` is
`outstanding_segments`, `shadow` is `shadow_live_orders`. `ctx`, `ring`, `buf` and
`live_orders` are the variables of the same names in `order_gateway.cpp`, and
`batch` the events of the current `epoll_wait` still to be handled. `link[k]` and
`backlog` are the kernel (external): two byte streams per connection, as sequences
of frames not yet read, and the state of both ends.

* A read by the gateway takes *all* the frames in the stream (`ReadFrames`);
  `ByteCount` and `PayloadOf` say what the single parse of those bytes makes of
  them: everything behind the first header is one payload, and a request read from
  the bytes of another header is a junk request (`FrameAsRequest`). Frame sizes are
  the code's: header 20, order 40, answer 24.
* An `epoll_wait` reports at most `MaxEvents` (`kMaxEvents`) of the ready descriptors,
  the kernel chooses which (`Reported`). `RingAssumption` says that the ring has a place
  for each: both are 64 in the code.
* A packet in the ring points to the stack array `buf`. All reads of a batch share
  it: every event of a connection zeroes it, the one that finds the end of a stream
  (`ReadEnd`) too, and zeros do not parse. Its scope has ended when the ring is
  processed. `Buffers` names what a build may leave in it: the bytes of the last read,
  or something overwritten that does not parse.
* `ControlFrame`, `BufferSegment` and `ProcessOrder` are the three ways through the
  processing loop, with everything each does: state machine, answers, reassembly,
  order table, closing.
* Time is a choice. A timeout of the client's read, with any set of entries past
  their deadline, may come when the gateway is idle, and with `SlowGateway` also
  while the answer is on its way; `Keepalives`, `Reconnects` and `ServerDrop` are
  the program options that let the other timers fire.
* The congestion window is at least one segment size (1200 bytes), which is 30
  orders; `RetransmitBookkeeping` shows that at most one is outstanding, so the
  branch that skips an order is never taken. Windows are left out for the reason
  given in `TcpStateMachine`: the wire value never falls below 65280.

`OrderPathSolo` adds no behaviour. It states what holds between the client's state and
the streams, buffers and tables of the gateway when there is one client (`SoloInv`,
section 5).

### MarketFeed

The publisher's variables are those of `feed_publisher.cpp`; one round of its loop
is one step, with the exchange of the two newest messages as a choice (`Queued`)
and everything the round sends. Each round leaves one message in `reorder_q`, so
a round sends one message or none, and the last message of a run stays behind.
The socket (external) keeps order and may lose a datagram; a
datagram is the sequence number of its message or `Foreign`, one that `parse` or
the size test rejects. Of the subscriber, `Start`, `PollerEnds` and `PollFunc` are
the rounds of `start_with_control` with the head of the callback, `RecvBatch` and
`RecvFails` are `recv_batch` with the callback's reaction, and `ProcessPacket` and
`PollReturns` its last loop. `ring` holds the *buffers* the packets point to, not
the datagrams: what `process_packet` reads is what the buffer holds at that moment.
The ring itself is used by one thread, so the atomic view of `BoundedFifo` is
enough. `cancel_flag` says what the two `cancel_flag` pointers lead to:
`"g_running"` is what the program passes, `"none"` the default `nullptr`, the
subscriber as it would run without the defect of section 4. The theorems and the
passing run cover both. `handled`, `observed` and `arrived` are history.

### TcpEndpoints

Two `TcpConnection`s against each other, every frame through `HandleIncoming`: the
opener sends a SYN, either side sends data, keepalives and its FIN, and a frame is
answered as the repository answers it: every ACK is `create_ack(conn, conn.send_ack)`,
that of the handshake (`ShakeAnswers`, from `tests/protocol/tcp_protocol_basic.cpp`) as
that of a FIN (`CloseAnswers`, from `order_gateway.cpp` and `order_client.cpp`). No
program in the repository opens a connection with a SYN, so `Open` is external, the
library's TCP as its interface suggests it is used. A
`setting` fixes the network (external): lines that keep the order and lose nothing,
or a soup of all frames ever sent, from which any may be taken at any time, again,
or never. `taken`, `finned`, `resyn` and `refin` are history. `taken` is cut off at
a SYN that comes after the handshake, because `recv_seq` goes back then; the
properties that depend on it say so.

### IoWaits

One worker calls one backend with fixed options (`opts`) again and again and goes on
by `classify_loop_control`; another thread sets the cancel flag or calls `stop()`;
the kernel (external) makes things ready, interrupts a sleep, fails a call and lets
milliseconds pass. The four waits share `Return`, `Sleep` and `Slice`, as the code
repeats them; `Epoll*`, `Batch*`, `Uring*` and `Busy*` are the loops of
`wait_with_options`, `recvmmsg_with_policy` and `sendmmsg_with_policy` (the same text
for both directions: "ready" is a datagram or room in the send buffer),
`wait_completions_with_options` and `start_with_control`. Statuses are the unified
ones: the conversions of `io_status.hpp` map names to the same names, only `Completed`
becomes `Ok`, and the poller never returns `Completed`. Every look at the flag that can
fall on either side of a store to it is a step of its own: `recv_batch` reads it again
after its policy has returned. `Collect` takes the entry at the head of the completion
queue, `UringSeen` moves the head by as many as were collected. The wait of the
busy poller is a sleep of `poll_interval`, that of the idle branch also sets
`start_time` (`since`). What the ring overload of `recv_batch` does with a full ring is
in `MarketFeed`.

### MemoryPool, BlockPool

Both pools are one free list beside the blocks: `next_free` and `free_list` are the
variables of those names, a block index stands for its address, and `None` is
`SIZE_MAX`. `MapHuge`, `Map` and `Construct` are the constructors with the fallback to
ordinary pages and the exception. A record of `Uses` says how a program uses its
pool: the gateway allocates one block for good and one that it gives back at once
(`Leak`, `Prefault`), the four programs give a block back before they take the next
(`single`), the tests hold several. `cells` says whose message each byte of the pool
holds, because the gateway's answer (44 bytes) is longer than its block (36): `Reach`
is what a message covers, `Spill` by how much. `stack` and `depth` are history: the
free blocks in the order they came back. `BlockPool` is the promise: a block has one
owner, and a call is refused only when every block is out.

### Launcher

`pc`, `next`, `turn` and `code` are the control of `main`: start the background
processes and the driver, sleep, stop the driver, stop the others, sum up; a failed
fork jumps to the stopping with `code` 1. `stop_process` is `Kill` and `Wait`. A child
goes from `forked` through `loaded` (after `execv`) and `ready` (its handler is
installed) to `leaving` (its loop has ended), `zombie` and `reaped`; a child without
a handler dies of a SIGINT, one that cannot `exec` exits with 127. `inherited` is a
launcher started with SIGINT ignored, as a shell without job control starts a
background job; `execv` keeps that. `file` is the summary file of each subscriber,
which may be there from an earlier launcher with the same process id.

## 3. The runs

`tlc -config X.cfg MCM` for each row, `M` the module the config is named after. TLC
checks deadlock in the ring and in the queue. Elsewhere the system really may stop, so
the configs say `CHECK_DEADLOCK FALSE`: clients stop and the gateway waits for ever, the
subscriber exits and the publisher may, a loop over waits ends, a pool is destroyed,
connections close, the launcher returns.

| Run | Config | Shows |
|---|---|---|
| `ring` | `PacketRing.cfg` | capacity 2, two packets, batches of up to 3 (longer than the ring), 4 pushes: `NoSlotRace`, `PoppedInOrder`, `SizeIsAPromise`, the inductive invariant `IndInv`, the refinement `ImplementsFifo` and the liveness `EveryPacketIsPopped`. 218,136 states |
| `mpsc` | `MpscQueue.cfg` | two producers, capacity 2, 4 claims, either order of the stores, one of the producers may be suspended for good inside a push: `IndInv` (its part `ClaimInv` in both), `OneOwnerPerSlot`, `ReceivedInOrder` and `ReceivedOrHeldBack` with the payload first. 330,430 states |
| `order_books` | `OrderPathBooks.cfg` | one client with new orders, cancels and replaces, reconnects, late answers, retransmissions, keepalives read together with orders, `--server-drop-at-s` and signals: the inductive invariant `SoloInv` (which includes `IndInv`), `BooksAgree`, `AckAnswersRequest`, `AppliedInOrder`, `RetransmitBookkeeping`, `ClosedOnlyByClient` and the liveness `AnsweredOrGivenUp`. 147,752 states |
| `order_crowd` | `OrderPathCrowd.cfg` | two clients with reconnects and keepalives, two events per `epoll_wait` and a ring of two places: `RingHoldsOpenConns`, `ConnectionsReclaimed`. 280,551 states |
| `feed` | `MarketFeed.cfg` | batches of 2 into a ring of 2, 5 messages, 1 foreign datagram, both cancel flags: `ReceivedOnce`, `CountersAddUp`, `IndInv`, `DatagramsProcessed`, `StopsWhenSignalled`. 161,272 states |
| `io_waits` | `IoWaits.cfg` | the four backends, no, zero and bounded timeouts, poll intervals of 0, 1 and 2 ms, with and without a flag: the inductive invariant `IndInv`, `BudgetIsKept`, `CancelIsPrompt`, `HandedOnce`, `EndsWhenTold`, `EverythingHanded`. 168,585 states |
| `pool` | `MemoryPool.cfg` | both pools, the programs' uses and one that holds several blocks: `FreeListIsAChain`, `MessagesStayWhole`, the refinement `ImplementsBlockPool`. 18,391 states |
| `endpoints` | `TcpEndpoints.cfg` | closes by either or both, in the soup with up to 2 data frames from each side or one and keepalives, on the lines with 2, with and without keepalives: `TakenInOrder`, `AckedIsTaken`, `ClosedIsHeard` and the liveness `EndsTogether`. 1,131,725 states |
| `launcher` | `Launcher.cfg` | two subscribers and a publisher, a gateway and a client; failing forks, execs and children, Ctrl-C, SIGINT ignored or not: `NoChildLeft`, `SummaryIsComplete`, `EverybodyEnds`. 12,112 states |
| `mpsc_spurious_full`, `order_unanswered`, `feed_cancelled` | `MpscQueueSpuriousFull.cfg`, `OrderPathUnanswered.cfg`, `MarketFeedCancelled.cfg` | the disagreements of section 4 that end with a counterexample |

**Bounds.** `MaxPushes` is twice the capacity of the ring and of the queue, so that
every slot is used again and positions go round; batches exceed the capacity so
that a partial push and a partial pop happen; `SizeMod` is larger than every
position, so the only wrap is that of a negative difference. In the order path two
connections per client are one reconnect, with the old connection still unread at
the gateway; `MaxOrders` of 3 gives a full burst and the next one, and a
cancel of an order before it; a `MaxRetries` of 1 reaches the retransmission that crosses
an answer and the give-up. The buffer keeps its bytes in the passing runs, because
`AnsweredOrGivenUp` is about such a build; the invariants are proved for an overwritten
one as well (section 5). With one
client three events are all that can be ready at once (section 5); the two of
`order_crowd` are fewer than its two clients can make ready, and the ring is as small
as `RingAssumption` allows. Sequence
numbers stay below `SeqMod` = 4096 as the code's stay below 2^32. In the feed five
messages are enough for a gap, a late message and a second gap, in two full
batches and a partial one; the ring is as small as a batch, the tightest case the
code's 16 and 64 allow. `MaxPushes`, `MaxOrders`, `MaxConns`, `MaxSeq` and
`MaxForeign` stop the environment from starting new work; nothing
else is bounded there. In the waits two arrivals and a budget of 3 ms in slices of 2
give a budget that is no multiple of the interval and a second arrival during the
handling of the first; a clock stops at `MaxClock`, beyond every budget
(`ClockAssumption`); a completion queue whose head has run past all that arrives stays
there, since nothing changes any more. The pool has three blocks, so that a block in
use has neighbours on both sides and every order of giving back happens. At the
endpoints two frames of one byte are the least that can be reordered and lost
separately; in the soup keepalives are sent in a setting of their own, with one data
frame, and on a line one keepalive waits at a time. The opener's first number is
behind the listener's in the run; what is proved holds for all (section 5). One launcher has two background processes, so that
a fork may fail with none, one or two of them started.

**Fairness.** Ring: a thread inside a call is scheduled until the call returns
(weak), and the consumer polls again and again, whatever other calls it makes
(strong fairness of the pop call, since a call of `size` disables it in between).
Queue: the consumer's poll loop (weak) and, for the producers in `Reliable`, the
steps of a push that has begun (weak); the other producer may stop anywhere. A weak
`compare_exchange` need not succeed, and nobody need call `try_push`. Order path: the gateway's loop never blocks on
anything but `epoll_wait` (weak fairness of `GatewayStep`), and the client's
`read` has a receive timeout, so it returns (weak fairness of `ReadReturns`). No
fairness on signals, orders, keepalives, reconnects or `DropDeadline`. Feed: the
subscriber is a loop of non-blocking calls (weak fairness of `SubscriberStep`);
nothing is assumed of the publisher, the network or signals. Waits: the worker runs
(weak fairness of `WorkerStep`) and a sleep of so many milliseconds passes (weak
fairness of `Tick \/ Expire`); nothing on arrivals, signals, flags and errors.
Endpoints: a frame on an orderly line is received (weak fairness of `Deliver`), a frame
in the soup need not be; the liveness property is about the lines only, and nobody has
to send or close.
Launcher: the processes run and a sleep ends; no fork, exec or child has to fail, and
no signal has to come from outside. Pools: no liveness.

## 4. Disagreements

Three are runs that TLC ends with a counterexample, each with a finding in
`PROJECT.json` that quotes the text it contradicts.

* `mpsc_spurious_full`: `tail` is loaded before `head`; when the head has passed
  it, `tail - head` wraps and the push is refused although the queue may be empty.
* `order_unanswered`: the gateway parses a stack buffer whose block has ended. Built
  with GCC 12, it rejects every frame as `invalid tcp frame` at every optimisation
  level unless `-fstack-reuse=none` is given, where `docs/RUN_SIM_ORDER.md:137` expects
  `ack_recv_total` to keep up with `req_sent_total`: without any disturbance the first
  order is never answered (`EveryOrderIsAnswered`).
* `feed_cancelled`: the subscriber passes `&g_running`, true while it runs, as the
  flag that cancels the poller when it is *true*. The poller returns before its
  first poll and nothing is ever received.

Others follow from the same modules with other constants, or are excluded by a
condition that a property names, and have no run of their own.

*Order path.* Where the buffer keeps its bytes, an order stays unanswered for two more
reasons, which `AnsweredOrGivenUp` names (`Missed`) and shows to be the only ones. A
reconnect keeps `conn.send_seq`, the gateway's new context expects 1, and the next order
is taken for out of order; and frames that are read in one piece, a segment with its
retransmission or a keepalive with the order behind it, count as one long payload, so
that `recv_seq` moves too far or a junk segment hides the order. The client then
retransmits until the segment is given up and waits on, for ever if the gateway does not
close the connection. With two clients, all packets of one batch of events point to the
same array: one order is applied twice and the other never, and `AppliedInOrder` fails.
The gateway closes a connection at the first keepalive it reads alone, because no code
moves its `TcpConnection` out of `CLOSED`: that is the last alternative of
`ClosedOnlyByClient`.

*MPSC queue.* The header calls the queue non-blocking (`mpsc_queue.hpp:8`), but a producer
suspended between its CAS and its write keeps from the consumer all values claimed after
its own, although their pushes have returned. In the run `mpsc` one producer may be
suspended so; `ReceivedOrHeldBack` names the case (`HeldBack`) and shows that nothing else
holds a value back. In a build that stores the flag first, `try_pop` can return what a slot
held before: `ReceivedInOrder` is stated for the other order.

*Close and counters.* The client's `conn.state` is
`CLOSED` throughout, so the FIN exchange at its end is dead code. And
`docs/RUN_SIM_MARKET.md` calls `gaps` a number of discontinuities, while `observe`
adds the number of messages missing in each; `CountersAddUp` states the latter.

*TCP endpoints.* A SYN that comes late sets `recv_seq` back in every state
(`tcp_state_machine.hpp:90`), and data is taken again (`~resyn` in `TakenInOrder`).
After the handshake the opener's `send_ack` is its *own* number
(`tcp_state_machine.hpp:96`). That number, in the ACK of the handshake and in a keepalive sent before any
data came in, does no harm while it is an old acknowledgement to the listener
(`OwnNumberIsOld` in `AckedIsTaken`, `ClosedIsHeard` and `EndsTogether`: the opener's
first number is not ahead of the listener's). Otherwise the listener is told of data that
never came; its real acknowledgements then look old and are dropped, so that after a
close by the listener the opener stays in `LAST_ACK` for ever; and when a FIN has set
`recv_ack` back, a late copy of that ACK closes the listener from `LAST_ACK` although
its FIN was not heard. A second FIN passes the test for old
acknowledgements (`:102`) and closes a side in `LAST_ACK` that was not heard (`~refin`
in `ClosedIsHeard`). A frame of data whose acknowledgement is not newer than the last
is dropped with its payload (`:103`): nothing is torn, but without a retransmission
nothing more is taken, and there is one for orders only. A FIN that overtakes data
ends the stream early, without a sign.

*Waits.* `wait_completions_with_options` returns `Timeout` after the first poll
interval, whatever its budget (`io_uring_wrapper.hpp:182`), and in a wait without a limit
it does not see the cancel flag until a completion or a signal comes (`:165`).
With `max_completions` above 1, its default is 64, it collects the entry at the head of
the queue again and again, since nothing is consumed before the end, and then moves the
head by as many (`:199`). A signal costs a whole slice of the budget in every
backend, so a disturbed call may report `Timeout` early. A timeout of the busy poller
longer than `max_idle_time` never fires, because the idle branch sets `start_time` anew
(`busy_poll.hpp:123`), although `tests/io/busy_poll_basic.cpp` (`TimeoutStopsLoop`)
expects `Timeout`; with timeout 0 it never polls, where the other backends look once;
and a `stop()` before `start` is lost. Each is a condition in a property of `IoWaits`.

*Pools.* Every answer of the gateway is written 8 bytes past its block
(`kAckBufSize`, `order_gateway.cpp:97`). It does no harm because one block is in use at a
time, and block 0, the only other one that is out, lies before it: `MessagesStayWhole`
fails as soon as a caller takes a second block. The first `allocate()` of the gateway is
never given back. `uses_huge_pages()` reports the request, not what was mapped.

*Launchers.* With SIGINT ignored on entry, a publisher or gateway never dies of it and
`waitpid` waits for ever (`~inherited` in `EverybodyEnds`). A summary file left by an earlier
launcher with the same process id is added up when the subscriber writes none
(`SummaryIsComplete`). A failed `exec` is not noticed.

## 5. The proofs

`tlapm M.tla` for `PacketRingProofs`, `MpscQueueProofs`, `MarketFeedProofs`,
`MemoryPoolProofs`, `LauncherProofs`, `IoWaitsProofs`, `OrderPathProofs`,
`TcpEndpointsProofs`. Each module begins with the facts on arithmetic and sequences
that its own proofs need.

**Packet ring** (`PacketRingProofs`): for every capacity, set of packets, batch
length and number of pushes, from the three assumptions of `PacketRing` alone:
`RingInvariant` (`IndInv`), `RingTypeOK`, `RingPoppedInOrder`, `RingNoSlotRace`,
`RingNeverOverfull`, and the action property `RingSizeIsAPromise`.

`PoppedInOrder` is not inductive: what the consumer copies is right only if the
slots between the positions hold what was sent, and they do only if the producer
never fills one of them. The invariant has three parts. `PositionsInv`: each
thread's locals equal its own position, and the other position has moved only the
helpful way since it was loaded, so the room (or the packets) a thread counted is
still there. `ContentInv`: slot `k % Capacity` holds `sent[k+1]` for each `k` from the
first not yet reset to `write_pos - 1`, followed by what the current push has
filled. `SizeInv`: the last `size()` of a thread errs on its safe side. The one
arithmetic fact behind them, that positions less than a capacity apart have
different slots, is the lemma `RemaindersDiffer`, proved for `%` from the division
theorem.

`RingImplementsFifo` is the refinement of `BoundedFifo`. Two steps change the abstract
queue: `Publish` appends the packets of the current push, because by `ContentInv` the
slots it makes visible hold exactly them, and `Release` cuts off the packets of the
current pop, because what the consumer copied is what those slots held. All others
leave `AbstractQueue` as it is: a slot the producer fills is not yet in it, and a slot
the consumer resets is in it by its copy.

**MPSC queue** (`MpscQueueProofs`): for any set of producers, of any size.
`QueueBase` (`ClaimInv`) and `QueueNeverOverfull` hold for any order of the stores:
`ClaimInv` says that a producer about to CAS holds a tail and a head once less than a
capacity apart, and that both have only grown; the CAS compares the tail, so the
claim is within the capacity of a head that can only be larger.
`QueueInvariant`, `QueueReceivedInOrder` and `QueueOneOwnerPerSlot` say more of the
behaviours whose `write_order` is `"payload_first"`, as they must (section 4):
`SlotInv` then says
that an owned slot is not engaged, an engaged slot holds the value claimed for
its position, and the slots beyond `tail_` are free.

**Market feed** (`MarketFeedProofs`): for every batch length, every ring at least
as large, any number of messages and foreign datagrams, and either cancel flag:
`FeedInvariant` (`IndInv`), `FeedTypeOK`, `FeedReceivedOnce` and
`FeedCountersAddUp`. `CountersAddUp` is a statement about sets: it needs that no
message is observed twice, which is true because none arrives twice, because the
one that waits in the publisher's queue has not been sent. That is `UniqueInv`.
`FlowInv` locates every datagram that arrived: handled, in a buffer the ring points
to, or in the socket, in this order. With an empty ring at the start of each batch
and `MaxPackets <= RingCapacity`, the assumption the code's 16 and 64 meet, the
ring never refuses. `CountInv` ties `observed` to what was handled and states the
balance `total + gaps = expected_seq - 1 + reorder_events`; cardinalities of
intervals give the rest.

**Memory pools** (`MemoryPoolProofs`): for every number and size of blocks and every
set of uses that meets `UsesAssumption`: `PoolTypeOK`, `PoolFreeList`,
`PoolMessagesStayWhole`, and `PoolImplementsBlockPool`, the refinement of `BlockPool`. That
`allocate` hands out a block nobody holds needs the whole chain: the list below the
top of `stack` has to be as it was when the block on top was given back. `ChainInv` says
that `free_list` links each element of `stack` to the one below, that `stack` repeats
nothing and holds nothing that is out, and that `depth` and the held blocks make up all;
a refusal then means that all are out, by cardinality. The messages need in addition
(`SpillInv`) that with messages longer than a block only blocks 0 and 1 ever go out.

**Launcher** (`LauncherProofs`): for any number of background processes, handlers and
summaries: `LauncherTypeOK`, `LauncherLeavesNoChild`, `LauncherStopsDriverFirst`,
`LauncherSummaryIsComplete`. The invariant follows the two loops of `main`: the children
before `next` have been started and no others, those before `turn` are reaped, and
the driver is reaped or was never started from `kill` on; a reaped child writes
no more, which makes the files that are read final.

**Waits** (`IoWaitsProofs`): for any options, poll intervals and arrivals:
`WaitsInvariant` (`IndInv`), `WaitsBudgetIsKept`, `WaitsCancelIsPrompt`,
`WaitsHandedOnce`. `BudgetInv` is an account: a bounded call pays for a sleep when it
begins, so `elapsed`, what is left of the sleep and `remaining` never add up to more
than the timeout, and to exactly that unless a signal cut a sleep short or, in
`recv_batch`, something became ready; the poller's clock runs with `elapsed` as long as
the timeout is within `max_idle_time`.
`PromptInv` says that `late` counts only the current sleep until the worker has looked
at the flag, after which it never sleeps again. `HandedInv` says that what was handed
over are the numbers up to the head of the queue, and that an io_uring call asked for one
completion holds the next number only until it marks it as seen. The one assumption on
the constants is that the clocks count beyond every budget (`ClockAssumption`).

**Order path** (`OrderPathProofs`): for any number of clients, connections, orders and
retransmissions, any ring, any of the program options, both contents of the buffer, and
with sequence numbers that wrap:

* `OrderPathInvariant`: `IndInv`, the type invariant of all ten variables with the facts
  that make the steps of client, kernel and gateway fit together. `ClientInv`: a
  client's descriptor is that of its newest connection. `LinkInv`: the client's end of
  exactly that connection is open, and frames without payload come only from clients
  that send keepalives. `EventInv`: an event that `epoll_wait` reported is still true
  when its turn comes, whatever the other events of the batch and the clients did in
  between. `RingInv`: a packet's connection is open and has no event left in the batch.
* `GatewayClosesOnCause` (`ClosedOnlyByClient`) follows: of the two ways the gateway
  closes on its own account, the end of a stream is the client's close (`EventInv`), and a
  frame without payload means keepalives (`RingInv`, `LinkInv`).
* `RingServesOpenConns` (`RingHoldsOpenConns`) needs one more invariant, `RoomInv`: the
  packets in the ring and the connections with an event left in the batch are together
  no more than `MaxEvents`. `epoll_wait` finds the ring empty and starts with at most
  that many events, a read turns an event into a packet, and every other step only takes
  away. With `RingAssumption` a connection that still has an event leaves a place free.

With one client, as long as no sequence number wraps and no order id is as large as
those read out of a header (`NoWrap`: with the code's 2^32, a million orders), and when an
`epoll_wait` can report three events (`RoomForAll`: the code's can report 64), for any
number of connections, orders and retransmissions, any of the program options and both
contents of the buffer:

* `SoloInvariant`: `SoloInv`, below.
* `OrdersAppliedInOrder` (`AppliedInOrder`), `ShadowIsOrderTable` (`BooksAgree`),
  `AnswersMatchRequests` (`AckAnswersRequest`), `RetransmitBooksAgree`
  (`RetransmitBookkeeping`): each a consequence of it.

The first two hypotheses are needed: with two clients the reads of one batch share a buffer
(section 4), and a segment left in the reassembly buffer is taken for a new order when
the numbers come round to it (a hazard listed in `PROJECT.json`). The argument:

* `NumberInv`: order `j` has the sequence number `SeqOf(j)` on whatever connection it is
  sent, since a reconnect keeps `send_seq`. So a stream, a buffer or a reassembly entry
  can be compared with the client's `order_id`.
* `AcceptInv`: connections are accepted in the order in which they were made, and when
  one is accepted, what was left unread in the one before is in the same batch or read
  already, and the one before that is closed or about to be. So what is ready at any
  time is the listening socket and the two connections accepted last, `RoomForAll` is
  enough for `epoll_wait` to report all of it, and nothing is left out of a batch.
* `SerialInv`: a packet is parsed before the next read overwrites its bytes, because the
  ring never holds two. A reconnect may leave retransmissions unread in the old
  connection, but the gateway has that one open, since an order sent on it was answered;
  so the `epoll_wait` that reports the new connection for `accept` reports the old one
  too, at the latest, and the new one is read in a later batch.
* `PhaseInv`: the last order is in one of four phases. `AtRest`: it was answered, or there
  is none. `Unanswered`: it is on its way, and if a read of the newest connection leads to an
  order at all, to this one. `Answered`: it was applied, its one answer waits, and a
  retransmission still unread is below what the gateway expects. `Over`: the client has
  stopped and nothing of it will be applied any more. `Stale` and `Dead` say when a
  read cannot lead to an order: its first header is not the expected number, or it is a
  keepalive alone. An older connection is always in that state (`Idle`).
* `FramesUpTo` bounds what is unread: `MaxFrames` frames, numbered up to the last order. A
  read of several frames moves `recv_seq` by all their bytes, past every number the client
  has used, which is why the connection is dead from then on, and why `NoWrap` has room for
  a full stream beyond the last order.
* `SegmentInv`: the queue and the outstanding segments hold the last order or nothing,
  because an answer acknowledges at least all of it.

The frames, the reassembly buffer and the retransmission queue are defined by recursive
functions, and their types and bounds are proved by induction over the set of the
indices for which a claim holds (`BoundedInduction`, from the well-foundedness of `<`;
`RecursionExists` gives the function that a recursive definition chooses).

**TCP endpoints** (`TcpEndpointsProofs`): for lines and for the soup, every first sequence
number of either side and any number of data frames, from `SettingsAssumption`, which
says that the numbers do not wrap: `EndpointsInvariant` (`IndInv`), `PayloadsInOrder`
(`TakenInOrder`), `AcknowledgedIsTaken` (`AckedIsTaken`) and `LastAckIsHeard`
(`ClosedIsHeard`). None of the three is inductive. `handle_incoming` compares a segment's
`seq` with `recv_seq` and its `ack` only with the last one, never with what was sent, so
what it takes and what it closes on is right only if the frames on the wire are, and in a
soup a frame stays on the wire for ever. `IndInv` therefore speaks of every frame that may still arrive (`Frames`):

* `ShakeInv`: nothing but SYNs is on the wire until the opener has seen the listener's,
  and the listener is in `LISTEN` or `SYN_RECEIVED` until then.
* `EndInv`: `send_seq` counts the SYN, the data and the FIN a side has sent, and the state
  tells which of these it has sent; `CLOSE_WAIT` is never left standing, because the answer
  to a FIN goes on to `LAST_ACK`.
* `WireInv`: each frame agrees with what its sender has sent. Payload `n` has the number
  `Isn + n`, a FIN the number after all the data, and a SYN `Isn`.
* `RecvInv`: `recv_seq` is one past what was taken, or past the peer's FIN, and `send_ack`
  is `recv_seq` or, at the opener, its own first number plus one, which is below
  `recv_seq` or equal to it when that number is not ahead. With `WireInv`
  the one data frame that matches `recv_seq` is the next payload, and none matches after
  the FIN: that is `TakenInOrder`.
* `AckInv`: until a side sends its own FIN, nothing on the way to it acknowledges more
  than its peer took.
* `FinInv`: of all frames on the way to a side that has not closed, the peer's FIN
  acknowledges the most. So the FIN that takes that side to `LAST_ACK` leaves nothing on
  the wire that acknowledges more than `recv_ack`.
* `HeardInv`: hence a side in `LAST_ACK` has nothing to close on until its peer has
  handled its FIN.

The parts of `handle_incoming` (SYN, acknowledgement, payload, FIN) each have a lemma
that says which fields they move and when (`SynHandled`, `AckHandled`, `PayloadHandled`,
`HandleFinCases`), and `FrameHandled` puts them together as `Moved` and `Received`;
the step lemmas use only those two. `AckInv`, `FinInv` and `HeardInv` carry the same
exceptions as the properties they serve (a late SYN, a second FIN, for the listener an
opener whose first number is ahead), which section 4 describes.

**Only proved**: the bounds `NeverOverfull` of ring and queue, `DriverStopsFirst`, and the
type invariants of pools and launcher have no run of their own, nor has `RoomInv`; in ring, queue and feed
they are parts or consequences of the `IndInv` the runs check. The `IndInv` of the
endpoints is in no run either, only the three invariants that follow from it.

**Only model-checked**: liveness (`EveryPacketIsPopped`, `ReceivedOrHeldBack`,
`AnsweredOrGivenUp`, `ConnectionsReclaimed`, `DatagramsProcessed`,
`StopsWhenSignalled`, `EndsWhenTold`, `EverythingHanded`, `EndsTogether`,
`EverybodyEnds`), which is beyond the prover. Every invariant and every action property
of a passing run is stated by a theorem, for the order path with one client only where
the theorem says so.

## 6. What is not modelled

* The byte layout and checksums of TCP and UDP frames: a frame is a record, and what
  the parser makes of bytes that run together is in `OrderPath`. The checksum that
  overlaps the window (`tcp_protocol.hpp:225`) makes `validate_checksum` reject what
  `create_ack` has built; no program calls it.
* Windows, the growth of the congestion window, deadlines and the RTO arithmetic: one
  order is in flight at a time and the smallest window is 30 orders, so none of them
  decides what happens next; which deadline has passed is a choice.
* The hole statistics of the reassembly buffer, metrics, tracing, latencies, and the
  options that only change rates.
* `available()` of the memory pools, which only counts the free list.
* The failure of `accept` and of `epoll_ctl` in the gateway; `size` and `empty` of the MPSC
  queue, which its header calls approximate; `adaptive_adjust` of the busy poller, which
  changes the length of a sleep; submissions to io_uring and `peek_completions`.
* Socket options and ownership in `udp_socket.hpp` and `tcp_socket.hpp`; NUMA and CPU
  affinity, which keep no state; benchmarks; SIGTERM sent to a launcher alone, which
  leaves its children as they are.

## 7. The plan

1. *Done.* `PacketRing` with `BoundedFifo`; `MpscQueue`; the TCP operators and
   `OrderPath`; `MarketFeed`; proofs of both queues and of the feed.
2. *Done.* `TcpEndpoints`; `MemoryPool` with `BlockPool`, proved; `IoWaits`; `Launcher`, proved.
3. *Done.* The refinement of `BoundedFifo` by the ring; the three invariants of the waits;
   the invariant of the order path, `ClosedOnlyByClient` and `RingHoldsOpenConns`; the
   properties of the order path that hold for one client (`BooksAgree`,
   `AckAnswersRequest`, `AppliedInOrder`, `RetransmitBookkeeping`).
4. *Done.* The proofs of the endpoints: `TakenInOrder`, `AckedIsTaken`, `ClosedIsHeard`.
5. Backoff, RTO estimator and congestion window with their arithmetic; hole
   statistics and the rounding of capacities against reference definitions.
