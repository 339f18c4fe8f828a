----------------------------- MODULE PacketRing -----------------------------
(***************************************************************************)
(* The single-producer single-consumer packet ring of                      *)
(* include/usn/core/packet_ring.hpp.  The producer thread runs try_push,   *)
(* try_push_batch and size/available, the consumer thread try_pop,         *)
(* try_pop_batch and size/empty.  Every access to shared memory (a load or *)
(* a store of write_pos_ or read_pos_, a copy into, a copy out of or a     *)
(* reset of one slot) is a step of its own, so the two threads interleave  *)
(* at every point where the hardware lets them.                            *)
(*                                                                         *)
(* Positions are natural numbers: the invariants show that the differences *)
(* the code computes with std::size_t stay in 0..Capacity, so no unsigned  *)
(* subtraction wraps (a position itself would need 2^64 pushes).           *)
(***************************************************************************)
EXTENDS Integers, Sequences, FiniteSetsExt

CONSTANTS
    Packet,     \* the packets the producer can push
    Cleared,    \* what Packet::reset leaves in a slot
    Capacity,   \* capacity_
    MaxBatch,   \* longest span handed to a batch call
    MaxPushes   \* bound on the packets pushed in one behaviour

ASSUME CapacityAssumption == Capacity \in Nat \ {0}
ASSUME BoundsAssumption == MaxBatch \in Nat \ {0} /\ MaxPushes \in Nat
ASSUME ClearedAssumption == Cleared \notin Packet

VARIABLES
    write_pos,  \* write_pos_: next position to fill, published by the producer
    read_pos,   \* read_pos_: next position to take, published by the consumer
    packets,    \* packets_: the slots
    p_pc,       \* where the producer is
    p_args,     \* its argument: the packets to push
    p_write,    \* local write: write_pos_ as loaded at the call
    p_n,        \* local to_push
    p_i,        \* local i: slots filled so far
    p_size,     \* result of its last size() since its last push
    c_pc,       \* where the consumer is
    c_want,     \* its argument: the length of the span to fill
    c_read,     \* local read: read_pos_ as loaded at the call
    c_n,        \* local to_pop
    c_i,        \* local i: slots taken and reset so far
    c_out,      \* the packets copied out by this call so far
    c_size,     \* result of its last size() since its last pop
    sent,       \* history: every packet published, oldest first
    popped      \* history: every packet handed to the consumer

shared == <<write_pos, read_pos, packets>>
producer == <<p_pc, p_args, p_write, p_n, p_i, p_size>>
consumer == <<c_pc, c_want, c_read, c_n, c_i, c_out, c_size>>
history == <<sent, popped>>
vars == <<shared, producer, consumer, history>>

\* pos & mask_, for a capacity that is a power of two.
Slot(pos) == pos % Capacity

\* (write >= read) ? (write - read) : 0
Occupancy(write, read) == IF write >= read THEN write - read ELSE 0

\* PacketRing(capacity)
Init ==
    /\ write_pos = 0
    /\ read_pos = 0
    /\ packets = [s \in 0..(Capacity - 1) |-> Cleared]
    /\ p_pc = "idle" /\ p_args = <<>> /\ p_write = 0 /\ p_n = 0 /\ p_i = 0
    /\ p_size = Capacity
    /\ c_pc = "idle" /\ c_want = 0 /\ c_read = 0 /\ c_n = 0 /\ c_i = 0
    /\ c_out = <<>>
    /\ c_size = 0
    /\ sent = <<>>
    /\ popped = <<>>

-----------------------------------------------------------------------------
(***************************************************************************)
(* The producer.                                                           *)
(***************************************************************************)

\* try_push: the call and the relaxed load of write_pos_.
TryPush(packet) ==
    /\ p_pc = "idle"
    /\ Len(sent) < MaxPushes
    /\ p_pc' = "push"
    /\ p_args' = <<packet>>
    /\ p_write' = write_pos
    /\ UNCHANGED <<shared, p_n, p_i, p_size, consumer, history>>

\* try_push_batch: the call and the relaxed load of write_pos_.
TryPushBatch(batch) ==
    /\ p_pc = "idle"
    /\ Len(sent) + Len(batch) <= MaxPushes
    /\ p_pc' = "push_batch"
    /\ p_args' = batch
    /\ p_write' = write_pos
    /\ UNCHANGED <<shared, p_n, p_i, p_size, consumer, history>>

\* The push has room for n packets: the slots may now be filled.  With no
\* room the call returns, and what size() told the producer is used up.
StartFill(n) ==
    /\ p_n' = n
    /\ p_i' = 0
    /\ p_pc' = IF n = 0 THEN "idle" ELSE "fill"
    /\ p_size' = IF n = 0 THEN Capacity ELSE p_size
    /\ UNCHANGED <<shared, p_args, p_write, consumer, history>>

\* A ring that believes it has one slot more than it has.
TryPushLoadOffByOne ==
    /\ p_pc = "push"
    /\ StartFill(IF p_write - read_pos > Capacity THEN 0 ELSE 1)

\* try_push: the acquire load of read_pos_ and the test for a full ring.
TryPushLoad ==
    /\ p_pc = "push"
    /\ StartFill(IF p_write - read_pos >= Capacity THEN 0 ELSE 1)

\* A batch push that keeps one slot in reserve.
TryPushBatchLoadReserve ==
    /\ p_pc = "push_batch"
    /\ StartFill(Min({Len(p_args), Occupancy(Capacity - 1, p_write - read_pos)}))

\* try_push_batch: the acquire load of read_pos_, available and to_push.
TryPushBatchLoad ==
    /\ p_pc = "push_batch"
    /\ StartFill(Min({Len(p_args), Capacity - (p_write - read_pos)}))

\* packets_[(write + i) & mask_] = packets[i]
FillSlot ==
    /\ p_pc = "fill"
    /\ packets' = [packets EXCEPT ![Slot(p_write + p_i)] = p_args[p_i + 1]]
    /\ p_i' = p_i + 1
    /\ p_pc' = IF p_i + 1 = p_n THEN "publish" ELSE "fill"
    /\ UNCHANGED <<write_pos, read_pos, p_args, p_write, p_n, p_size,
                   consumer, history>>

\* write_pos_.store(write + to_push, release); the call returns.
Publish ==
    /\ p_pc = "publish"
    /\ write_pos' = p_write + p_n
    /\ sent' = sent \o SubSeq(p_args, 1, p_n)
    /\ p_pc' = "idle"
    /\ p_size' = Capacity
    /\ UNCHANGED <<read_pos, packets, p_args, p_write, p_n, p_i,
                   consumer, popped>>

\* size() by the producer: the load of read_pos_.  The local is kept in
\* p_write, which no call in progress is using.
ProducerSizeLoadRead ==
    /\ p_pc = "idle"
    /\ p_pc' = "size"
    /\ p_write' = read_pos
    /\ UNCHANGED <<shared, p_args, p_n, p_i, p_size, consumer, history>>

\* size() by the producer: the load of write_pos_ and the result.
ProducerSizeLoadWrite ==
    /\ p_pc = "size"
    /\ p_pc' = "idle"
    /\ p_size' = Occupancy(write_pos, p_write)
    /\ UNCHANGED <<shared, p_args, p_write, p_n, p_i, consumer, history>>

-----------------------------------------------------------------------------
(***************************************************************************)
(* The consumer.                                                           *)
(***************************************************************************)

\* try_pop: the call and the relaxed load of read_pos_.
TryPop ==
    /\ c_pc = "idle"
    /\ c_pc' = "pop"
    /\ c_want' = 1
    /\ c_read' = read_pos
    /\ UNCHANGED <<shared, producer, c_n, c_i, c_out, c_size, history>>

\* try_pop_batch: the call and the relaxed load of read_pos_.
TryPopBatch(want) ==
    /\ c_pc = "idle"
    /\ c_pc' = "pop_batch"
    /\ c_want' = want
    /\ c_read' = read_pos
    /\ UNCHANGED <<shared, producer, c_n, c_i, c_out, c_size, history>>

\* n packets are there to be taken.  With none the call returns.
StartTake(n) ==
    /\ c_n' = n
    /\ c_i' = 0
    /\ c_out' = <<>>
    /\ c_pc' = IF n = 0 THEN "idle" ELSE "copy"
    /\ c_size' = IF n = 0 THEN 0 ELSE c_size
    /\ UNCHANGED <<shared, producer, c_want, c_read, history>>

\* A pop that takes the last packet for an empty ring.
TryPopLoadKeepsLast ==
    /\ c_pc = "pop"
    /\ StartTake(IF c_read + 1 >= write_pos THEN 0 ELSE 1)

\* try_pop: the acquire load of write_pos_ and the test for an empty ring.
TryPopLoad ==
    /\ c_pc = "pop"
    /\ StartTake(IF c_read >= write_pos THEN 0 ELSE 1)

\* A batch pop that always fills the span it was given.
TryPopBatchLoadNoMin ==
    /\ c_pc = "pop_batch"
    /\ StartTake(IF c_read >= write_pos THEN 0 ELSE c_want)

\* try_pop_batch: the acquire load of write_pos_, available and to_pop.
TryPopBatchLoad ==
    /\ c_pc = "pop_batch"
    /\ StartTake(Min({c_want, write_pos - c_read}))

\* packets[i] = packets_[(read + i) & mask_]
CopySlot ==
    /\ c_pc = "copy"
    /\ c_out' = Append(c_out, packets[Slot(c_read + c_i)])
    /\ c_pc' = "reset"
    /\ UNCHANGED <<shared, producer, c_want, c_read, c_n, c_i, c_size, history>>

\* packets_[(read + i) & mask_].reset()
ResetSlot ==
    /\ c_pc = "reset"
    /\ packets' = [packets EXCEPT ![Slot(c_read + c_i)] = Cleared]
    /\ c_i' = c_i + 1
    /\ c_pc' = IF c_i + 1 = c_n THEN "release" ELSE "copy"
    /\ UNCHANGED <<write_pos, read_pos, producer, c_want, c_read, c_n, c_out,
                   c_size, history>>

\* read_pos_.store(read + to_pop, release); the call returns.
Release ==
    /\ c_pc = "release"
    /\ read_pos' = c_read + c_n
    /\ popped' = popped \o c_out
    /\ c_pc' = "idle"
    /\ c_i' = 0
    /\ c_out' = <<>>
    /\ c_size' = 0
    /\ UNCHANGED <<write_pos, packets, producer, c_want, c_read, c_n, sent>>

\* size() by the consumer: the load of read_pos_.
ConsumerSizeLoadRead ==
    /\ c_pc = "idle"
    /\ c_pc' = "size"
    /\ c_read' = read_pos
    /\ UNCHANGED <<shared, producer, c_want, c_n, c_i, c_out, c_size, history>>

\* size() by the consumer: the load of write_pos_ and the result.
ConsumerSizeLoadWrite ==
    /\ c_pc = "size"
    /\ c_pc' = "idle"
    /\ c_size' = Occupancy(write_pos, c_read)
    /\ UNCHANGED <<shared, producer, c_want, c_read, c_n, c_i, c_out, history>>

-----------------------------------------------------------------------------
PushCall ==
    \/ \E packet \in Packet : TryPush(packet)
    \/ \E n \in 1..MaxBatch : \E batch \in [1..n -> Packet] : TryPushBatch(batch)

PopCall ==
    \/ TryPop
    \/ \E want \in 1..MaxBatch : TryPopBatch(want)

\* The rest of a call the producer has entered.
ProducerStep ==
    \/ TryPushLoad
    \/ TryPushBatchLoad
    \/ FillSlot
    \/ Publish
    \/ ProducerSizeLoadWrite

\* The rest of a call the consumer has entered.
ConsumerStep ==
    \/ TryPopLoad
    \/ TryPopBatchLoad
    \/ CopySlot
    \/ ResetSlot
    \/ Release
    \/ ConsumerSizeLoadWrite

Next ==
    \/ PushCall
    \/ ProducerSizeLoadRead
    \/ ProducerStep
    \/ PopCall
    \/ ConsumerSizeLoadRead
    \/ ConsumerStep

Spec == Init /\ [][Next]_vars

\* A thread inside a call is scheduled until the call returns, and the
\* consumer keeps polling: it calls try_pop again and again, whatever other
\* calls it makes in between.  Nothing is assumed of the producer's calls.
Fairness ==
    /\ WF_vars(ProducerStep)
    /\ WF_vars(ConsumerStep)
    /\ SF_vars(PopCall)

FairSpec == Spec /\ Fairness

-----------------------------------------------------------------------------
(***************************************************************************)
(* Properties.                                                             *)
(***************************************************************************)

TypeOK ==
    /\ write_pos \in Nat
    /\ read_pos \in Nat
    /\ packets \in [0..(Capacity - 1) -> Packet \cup {Cleared}]
    /\ p_pc \in {"idle", "push", "push_batch", "fill", "publish", "size"}
    /\ p_args \in Seq(Packet)
    /\ p_write \in Nat
    /\ p_n \in Nat
    /\ p_i \in Nat
    /\ p_size \in Nat
    /\ c_pc \in {"idle", "pop", "pop_batch", "copy", "reset", "release", "size"}
    /\ c_want \in Nat
    /\ c_read \in Nat
    /\ c_n \in Nat
    /\ c_i \in Nat
    /\ c_out \in Seq(Packet \cup {Cleared})
    /\ c_size \in Nat
    /\ sent \in Seq(Packet)
    /\ popped \in Seq(Packet \cup {Cleared})

\* The slot the producer's next step stores into, and the slot the consumer's
\* next step copies or resets.
FillingSlot == {s \in {Slot(p_write + p_i)} : p_pc = "fill"}
TakingSlot == {s \in {Slot(c_read + c_i)} : c_pc \in {"copy", "reset"}}

\* A slot is plain memory, so the two threads must never be at work on the same
\* one: no data race between packets_[...] = packet in try_push and the copy
\* and reset in try_pop, although each decides from a position that may be
\* stale by the time it touches the slot.
NoSlotRace == FillingSlot \cap TakingSlot = {}

\* The consumer is handed exactly the packets that were published, in order:
\* none lost, none twice, none torn and never the cleared packet that reset()
\* leaves in a slot.
PoppedInOrder ==
    /\ Len(popped) = read_pos
    /\ Len(sent) = write_pos
    /\ read_pos <= write_pos
    /\ \A k \in 1..Len(popped) : popped[k] = sent[k]

\* The ring never holds more than capacity_ packets, counting those whose slots
\* the producer has filled and not yet published: every slot between the two
\* positions is one of its own.
NeverOverfull ==
    /\ write_pos - read_pos <= Capacity
    /\ p_pc \in {"fill", "publish"} => p_write + p_n - read_pos <= Capacity

\* What size() tells the thread that owns one end is a promise to it.  When it
\* showed the producer available() free slots, the next push takes as many
\* packets as fit in them and is not refused; when it showed the consumer
\* size() packets, the next pop returns at least as many (or all it asked for).
\* The other thread's steps between the two calls can only help.
SizeIsAPromise ==
    [][/\ p_pc \in {"push", "push_batch"} /\ p_pc' # p_pc
             => p_n' >= Min({Len(p_args), Capacity - p_size})
       /\ c_pc \in {"pop", "pop_batch"} /\ c_pc' # c_pc
             => c_n' >= Min({c_want, c_size})]_vars

\* Every packet the producer publishes is handed to the consumer, as long as
\* the consumer keeps polling.
EveryPacketIsPopped ==
    \A k \in 1..MaxPushes : (Len(sent) >= k) ~> (Len(popped) >= k)

\* The packets in the ring as the abstract queue sees them: those the consumer
\* has copied in a call it has not finished, then those still in their slots.
AbstractQueue ==
    [k \in 1..(write_pos - read_pos) |->
        IF k <= Len(c_out) THEN c_out[k] ELSE packets[Slot(read_pos + k - 1)]]

Fifo == INSTANCE BoundedFifo WITH queue <- AbstractQueue

\* The ring is a bounded FIFO queue: a push becomes visible at the one store of
\* write_pos_ that publishes it, a pop takes effect at its one store of
\* read_pos_, and no other step of either thread changes what the queue holds.
ImplementsFifo == Fifo!FifoSpec
-----------------------------------------------------------------------------
(***************************************************************************)
(* The inductive invariant behind the safety properties.                   *)
(***************************************************************************)

\* Each thread's locals against the positions.  A thread knows its own position
\* exactly; the other thread's may have moved on since it was loaded, and only
\* in the direction that makes more room (or more packets).
PositionsInv ==
    /\ read_pos <= write_pos
    /\ write_pos <= read_pos + Capacity
    /\ p_pc \in {"push", "push_batch", "fill", "publish"} => p_write = write_pos
    /\ p_pc = "push" => Len(p_args) = 1
    /\ p_pc = "push_batch" => Len(p_args) > 0
    /\ p_pc = "size" => p_write <= read_pos
    /\ p_pc \in {"fill", "publish"} =>
          /\ 0 < p_n /\ p_n <= Len(p_args)
          /\ write_pos + p_n <= read_pos + Capacity
          /\ p_i <= p_n
          /\ (p_i = p_n) <=> (p_pc = "publish")
    /\ c_pc # "idle" => c_read = read_pos
    /\ c_pc = "pop" => c_want = 1
    /\ c_pc = "pop_batch" => c_want > 0
    /\ c_pc \in {"copy", "reset", "release"} =>
          /\ 0 < c_n
          /\ read_pos + c_n <= write_pos
          /\ c_i <= c_n
          /\ (c_i = c_n) <=> (c_pc = "release")
    /\ c_pc \notin {"copy", "reset", "release"} => c_i = 0
    /\ Len(c_out) = IF c_pc = "reset" THEN c_i + 1 ELSE c_i

\* What is in the slots: the published packets the consumer has not yet taken,
\* and after them the ones the producer has filled and not yet published.
ContentInv ==
    /\ Len(sent) = write_pos
    /\ Len(popped) = read_pos
    /\ \A k \in 1..read_pos : popped[k] = sent[k]
    /\ \A k \in 1..Len(c_out) : c_out[k] = sent[read_pos + k]
    /\ \A k \in (read_pos + c_i)..(write_pos - 1) : packets[Slot(k)] = sent[k + 1]
    /\ p_pc \in {"fill", "publish"} =>
          \A k \in write_pos..(write_pos + p_i - 1) :
             packets[Slot(k)] = p_args[k - write_pos + 1]

\* What size() reported stays on the safe side of the occupancy.
SizeInv ==
    /\ p_pc \in {"idle", "push", "push_batch", "size"} =>
          write_pos - read_pos <= p_size
    /\ c_pc \in {"idle", "pop", "pop_batch", "size"} =>
          c_size <= write_pos - read_pos

\* Every thread's view of the positions is consistent, the slots hold exactly
\* what was pushed and not yet popped, and size() errs on the safe side.
IndInv == TypeOK /\ PositionsInv /\ ContentInv /\ SizeInv
=============================================================================
