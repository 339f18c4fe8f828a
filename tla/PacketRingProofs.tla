-------------------------- MODULE PacketRingProofs --------------------------
(***************************************************************************)
(* The safety of PacketRing for every capacity, batch length and number of *)
(* pushes.                                                                 *)
(***************************************************************************)
EXTENDS PacketRing, SequenceTheorems, TLAPS

-----------------------------------------------------------------------------
(***************************************************************************)
(* Remainders, minima and concatenations.                                  *)
(***************************************************************************)

\* A position modulo the capacity is an index of the buffer.
LEMMA RemainderInRange ==
    ASSUME NEW C \in Nat \ {0}, NEW a \in Nat
    PROVE  a % C \in 0..(C - 1)
  OBVIOUS

\* A multiple of C that exceeds another does so by at least C.
LEMMA MultiplesApart ==
    ASSUME NEW C \in Nat \ {0}, NEW p \in Int, NEW q \in Int, p < q
    PROVE  C * q >= C * p + C
  OBVIOUS

\* Two positions less than C apart have different remainders modulo C.
LEMMA RemaindersDiffer ==
    ASSUME NEW C \in Nat \ {0}, NEW a \in Nat, NEW b \in Nat, a < b, b < a + C
    PROVE  a % C # b % C
<1> DEFINE qa == a \div C
           qb == b \div C
<1> SUFFICES ASSUME a % C = b % C
             PROVE  FALSE
  OBVIOUS
<1>1. /\ qa \in Nat /\ a = C * qa + (a % C)
      /\ qb \in Nat /\ b = C * qb + (b % C)
  OBVIOUS
<1> HIDE DEF qa, qb
<1>2. CASE qa < qb
  <2>1. C * qb >= C * qa + C
    BY <1>1, <1>2, MultiplesApart
  <2> QED
    BY <1>1, <2>1
<1>3. CASE qb < qa
  <2>1. C * qa >= C * qb + C
    BY <1>1, <1>3, MultiplesApart
  <2> QED
    BY <1>1, <2>1
<1>4. CASE qa = qb
  BY <1>1, <1>4
<1> QED
  BY <1>1, <1>2, <1>3, <1>4

\* std::min of two lengths.
LEMMA MinOfTwo ==
    ASSUME NEW a \in Int, NEW b \in Int
    PROVE  /\ Min({a, b}) \in {a, b}
           /\ Min({a, b}) <= a
           /\ Min({a, b}) <= b
<1>1. \E x \in {a, b} : \A y \in {a, b} : x =< y
  <2>1. CASE a <= b
    BY <2>1
  <2>2. CASE b <= a
    BY <2>2
  <2> QED
    BY <2>1, <2>2
<1> QED
  BY <1>1 DEF Min

\* The second part of a concatenation.
LEMMA ConcatTail ==
    ASSUME NEW S, NEW s \in Seq(S), NEW t \in Seq(S), NEW k \in 1..Len(t)
    PROVE  (s \o t)[Len(s) + k] = t[k]
<1>1. Len(s) + k \in 1..(Len(s) + Len(t)) /\ ~(Len(s) + k <= Len(s))
  OBVIOUS
<1>2. (s \o t)[Len(s) + k] = t[Len(s) + k - Len(s)]
  BY <1>1, ConcatProperties
<1> QED
  BY <1>2

-----------------------------------------------------------------------------
(***************************************************************************)
(* Slots of the ring.                                                      *)
(***************************************************************************)

\* pos & mask_ is an index of packets_.
LEMMA SlotInRange ==
    ASSUME NEW pos \in Nat
    PROVE  Slot(pos) \in 0..(Capacity - 1)
  BY CapacityAssumption, RemainderInRange DEF Slot

\* Two positions less than a capacity apart never share a slot.
LEMMA SlotsDiffer ==
    ASSUME NEW a \in Nat, NEW b \in Nat, a < b, b < a + Capacity
    PROVE  Slot(a) # Slot(b)
  BY CapacityAssumption, RemaindersDiffer DEF Slot

-----------------------------------------------------------------------------
(***************************************************************************)
(* The inductive invariant.                                                *)
(***************************************************************************)

\* The constructor establishes the invariant.
LEMMA InitIndInv == Init => IndInv
  BY CapacityAssumption
     DEF Init, IndInv, TypeOK, PositionsInv, ContentInv, SizeInv

\* A batch of n packets is a sequence of length n.
LEMMA BatchIsSeq ==
    ASSUME NEW n \in Nat, NEW batch \in [1..n -> Packet]
    PROVE  batch \in Seq(Packet) /\ Len(batch) = n
  OBVIOUS

\* try_push, try_push_batch and size() of the producer begin: only its locals
\* change.
LEMMA ProducerCallStep ==
    ASSUME IndInv, PushCall \/ ProducerSizeLoadRead
    PROVE  IndInv'
<1> USE DEF shared, consumer, history
<1>1. CASE ProducerSizeLoadRead
  BY <1>1 DEF IndInv, TypeOK, PositionsInv, ContentInv, SizeInv,
              ProducerSizeLoadRead
<1>2. ASSUME NEW packet \in Packet, TryPush(packet)
      PROVE  IndInv'
  BY <1>2, SMTT(30) DEF IndInv, TypeOK, PositionsInv, ContentInv, SizeInv, TryPush
<1>3. ASSUME NEW n \in 1..MaxBatch, NEW batch \in [1..n -> Packet],
             TryPushBatch(batch)
      PROVE  IndInv'
  <2>1. batch \in Seq(Packet) /\ Len(batch) > 0
    BY BatchIsSeq, BoundsAssumption
  <2> QED
    BY <1>3, <2>1 DEF IndInv, TypeOK, PositionsInv, ContentInv, SizeInv,
                      TryPushBatch
<1> QED
  BY <1>1, <1>2, <1>3 DEF PushCall

\* The producer decides how many packets fit, from a read_pos_ that is exact at
\* this load.
LEMMA ProducerLoadStep ==
    ASSUME IndInv, TryPushLoad \/ TryPushBatchLoad
    PROVE  IndInv'
<1> USE DEF shared, consumer, history
<1>1. ASSUME NEW n \in Nat, StartFill(n), p_pc \in {"push", "push_batch"},
             n <= Len(p_args), p_write + n <= read_pos + Capacity
      PROVE  IndInv'
  <2>1. TypeOK'
    BY <1>1, CapacityAssumption DEF IndInv, TypeOK, StartFill
  <2>2. PositionsInv'
    BY <1>1, CapacityAssumption DEF IndInv, TypeOK, PositionsInv, StartFill
  <2>3. ContentInv'
    <3>1. p_i' = 0 /\ UNCHANGED <<write_pos, read_pos, packets, p_args, c_i,
                                  c_out, sent, popped>>
      BY <1>1 DEF StartFill
    <3>2. write_pos'..(write_pos' + p_i' - 1) = {}
      BY <3>1 DEF IndInv, TypeOK
    <3> QED
      BY <3>1, <3>2 DEF IndInv, ContentInv
  <2>4. SizeInv'
    BY <1>1, CapacityAssumption DEF IndInv, TypeOK, PositionsInv, SizeInv, StartFill
  <2> QED
    BY <2>1, <2>2, <2>3, <2>4 DEF IndInv
<1>2. CASE TryPushLoad
  <2> DEFINE n == IF p_write - read_pos >= Capacity THEN 0 ELSE 1
  <2>1. p_write = write_pos /\ write_pos <= read_pos + Capacity /\ Len(p_args) = 1
    BY <1>2 DEF IndInv, PositionsInv, TryPushLoad
  <2>2. n \in Nat /\ n <= Len(p_args) /\ p_write + n <= read_pos + Capacity
    BY <2>1, CapacityAssumption DEF IndInv, TypeOK
  <2> QED
    BY <1>1, <1>2, <2>2 DEF TryPushLoad
<1>3. CASE TryPushBatchLoad
  <2> DEFINE room == Capacity - (p_write - read_pos)
             n == Min({Len(p_args), room})
  <2>1. room \in Nat /\ Len(p_args) \in Nat /\ p_write + room = read_pos + Capacity
    BY <1>3, CapacityAssumption DEF IndInv, TypeOK, PositionsInv, TryPushBatchLoad
  <2> HIDE DEF room
  <2>2. n \in Nat /\ n <= Len(p_args) /\ n <= room
    <3>1. Len(p_args) \in Int /\ room \in Int
      BY <2>1
    <3>2. n \in {Len(p_args), room} /\ n <= Len(p_args) /\ n <= room
      BY <3>1, MinOfTwo
    <3> QED
      BY <2>1, <3>2
  <2>3. p_write + n <= read_pos + Capacity
    BY <2>1, <2>2 DEF IndInv, TypeOK
  <2> QED
    BY <1>1, <1>3, <2>2, <2>3 DEF TryPushBatchLoad, room
<1> QED
  BY <1>2, <1>3

\* Filling a slot beyond write_pos_ leaves every published slot alone.
LEMMA FillSlotStep ==
    ASSUME IndInv, FillSlot
    PROVE  IndInv'
<1> USE DEF shared, consumer, history
<1> DEFINE pos == p_write + p_i
<1>1. /\ pos \in Nat /\ pos = write_pos + p_i /\ pos < read_pos + Capacity
      /\ p_i + 1 \in 1..Len(p_args)
      /\ p_args[p_i + 1] \in Packet
  <2>1. pos \in Nat /\ pos = write_pos + p_i /\ p_i < p_n /\ p_n <= Len(p_args)
    BY DEF IndInv, TypeOK, PositionsInv, FillSlot
  <2>2. pos < read_pos + Capacity
    BY <2>1, CapacityAssumption DEF IndInv, TypeOK, PositionsInv, FillSlot
  <2>3. p_i + 1 \in 1..Len(p_args)
    BY <2>1 DEF IndInv, TypeOK
  <2> QED
    BY <2>1, <2>2, <2>3 DEF IndInv, TypeOK
<1>2. Slot(pos) \in 0..(Capacity - 1)
  BY <1>1, SlotInRange
<1>3. TypeOK'
  BY <1>1, <1>2 DEF IndInv, TypeOK, FillSlot
<1>4. PositionsInv'
  BY DEF IndInv, TypeOK, PositionsInv, FillSlot
<1>5. SizeInv'
  BY DEF IndInv, SizeInv, FillSlot
<1>6. ASSUME NEW k \in Nat, read_pos <= k, k < pos
      PROVE  packets'[Slot(k)] = packets[Slot(k)]
  <2>1. pos < k + Capacity
    BY <1>1, <1>6, CapacityAssumption DEF IndInv, TypeOK
  <2>2. Slot(k) # Slot(pos) /\ Slot(k) \in 0..(Capacity - 1)
    <3> HIDE DEF pos
    <3> QED
      BY <1>1, <1>6, <2>1, SlotsDiffer, SlotInRange
  <2> QED
    BY <2>2 DEF IndInv, TypeOK, FillSlot
<1>7. packets'[Slot(pos)] = p_args[p_i + 1]
  BY <1>2 DEF IndInv, TypeOK, FillSlot
<1>8. ContentInv'
  <2>1. ASSUME NEW k \in (read_pos + c_i)..(write_pos - 1)
        PROVE  packets'[Slot(k)] = sent[k + 1]
    <3>1. k \in Nat /\ read_pos <= k /\ k < pos
      BY <1>1 DEF IndInv, TypeOK
    <3>2. packets[Slot(k)] = sent[k + 1]
      BY DEF IndInv, ContentInv
    <3> QED
      BY <1>6, <3>1, <3>2
  <2>2. ASSUME NEW k \in write_pos..(write_pos + p_i)
        PROVE  packets'[Slot(k)] = p_args[k - write_pos + 1]
    <3>1. CASE k = pos
      <4>1. k - write_pos + 1 = p_i + 1
        BY <1>1, <3>1 DEF IndInv, TypeOK
      <4>2. packets'[Slot(k)] = p_args[p_i + 1]
        BY <1>7, <3>1, Zenon
      <4> QED
        BY <4>1, <4>2, Zenon
    <3>2. CASE k # pos
      <4>1. /\ k \in Nat /\ read_pos <= k /\ k < pos
            /\ k \in write_pos..(write_pos + p_i - 1)
        BY <1>1, <3>2 DEF IndInv, TypeOK, PositionsInv
      <4>2. packets[Slot(k)] = p_args[k - write_pos + 1]
        BY <4>1 DEF IndInv, ContentInv, FillSlot
      <4> QED
        BY <1>6, <4>1, <4>2
    <3> QED
      BY <3>1, <3>2
  <2> QED
    BY <2>1, <2>2 DEF IndInv, TypeOK, ContentInv, FillSlot
<1> QED
  BY <1>3, <1>4, <1>5, <1>8 DEF IndInv

\* Publishing hands over slots that are already filled.
LEMMA PublishStep ==
    ASSUME IndInv, Publish
    PROVE  IndInv'
<1> USE DEF shared, consumer, history
<1> DEFINE batch == SubSeq(p_args, 1, p_n)
<1>1. /\ p_write = write_pos /\ p_i = p_n /\ p_n \in Nat
      /\ 0 < p_n /\ p_n <= Len(p_args)
      /\ write_pos + p_n <= read_pos + Capacity
      /\ Len(sent) = write_pos
  BY DEF IndInv, TypeOK, PositionsInv, ContentInv, Publish
<1>2. /\ batch \in Seq(Packet) /\ Len(batch) = p_n
      /\ \A k \in 1..p_n : batch[k] = p_args[k]
  BY <1>1 DEF IndInv, TypeOK
<1>3. /\ sent' \in Seq(Packet) /\ Len(sent') = write_pos + p_n
      /\ \A k \in 1..write_pos : sent'[k] = sent[k]
      /\ \A k \in 1..p_n : sent'[write_pos + k] = p_args[k]
  <2> HIDE DEF batch
  <2>1. sent \in Seq(Packet) /\ sent' = sent \o batch
    BY DEF IndInv, TypeOK, Publish, batch
  <2>2. Len(sent') = write_pos + p_n /\ sent' \in Seq(Packet)
    BY <1>1, <1>2, <2>1, ConcatProperties
  <2>3. \A k \in 1..write_pos : sent'[k] = sent[k]
    BY <1>1, <1>2, <2>1 DEF IndInv, TypeOK
  <2>4. ASSUME NEW k \in 1..p_n
        PROVE  sent'[write_pos + k] = p_args[k]
    BY <1>1, <1>2, <2>1, ConcatTail
  <2> QED
    BY <2>2, <2>3, <2>4
<1>4. TypeOK'
  <2>1. write_pos' \in Nat /\ p_size' \in Nat /\ p_pc' = "idle"
    BY <1>1, CapacityAssumption DEF IndInv, TypeOK, Publish
  <2> QED
    BY <1>3, <2>1 DEF IndInv, TypeOK, Publish
<1>5. PositionsInv'
  BY <1>1 DEF IndInv, TypeOK, PositionsInv, Publish
<1>6. SizeInv'
  BY <1>1, CapacityAssumption DEF IndInv, TypeOK, PositionsInv, SizeInv, Publish
<1>7. ContentInv'
  <2>1. /\ write_pos' = write_pos + p_n
        /\ UNCHANGED <<read_pos, packets, popped, c_out, c_i>>
        /\ p_pc' = "idle"
    BY <1>1 DEF Publish
  <2>2. \A k \in 1..read_pos : popped[k] = sent'[k]
    BY <1>3 DEF IndInv, TypeOK, PositionsInv, ContentInv
  <2>3. \A k \in 1..Len(c_out) : c_out[k] = sent'[read_pos + k]
    BY <1>3 DEF IndInv, TypeOK, PositionsInv, ContentInv
  <2>4. ASSUME NEW k \in (read_pos' + c_i')..(write_pos' - 1)
        PROVE  packets'[Slot(k)] = sent'[k + 1]
    <3>1. k \in (read_pos + c_i)..(write_pos + p_n - 1) /\ packets' = packets
      BY <1>1, <2>1 DEF IndInv, TypeOK
    <3>2. CASE k < write_pos
      BY <1>3, <3>1, <3>2 DEF IndInv, TypeOK, ContentInv
    <3>3. CASE k >= write_pos
      <4>1. packets[Slot(k)] = p_args[k - write_pos + 1]
        <5>1. k \in write_pos..(write_pos + p_i - 1)
          BY <1>1, <3>1, <3>3 DEF IndInv, TypeOK
        <5> QED
          BY <5>1 DEF IndInv, ContentInv, Publish
      <4>2. k - write_pos + 1 \in 1..p_n /\ write_pos + (k - write_pos + 1) = k + 1
        BY <1>1, <3>1, <3>3 DEF IndInv, TypeOK
      <4> QED
        BY <1>3, <3>1, <4>1, <4>2
    <3> QED
      BY <3>1, <3>2, <3>3 DEF IndInv, TypeOK
  <2>5. Len(popped') = read_pos' /\ Len(sent') = write_pos'
    BY <1>3, <2>1 DEF IndInv, ContentInv
  <2>6. /\ \A k \in 1..read_pos' : popped'[k] = sent'[k]
        /\ \A k \in 1..Len(c_out') : c_out'[k] = sent'[read_pos' + k]
    BY <2>1, <2>2, <2>3
  <2> QED
    BY <2>1, <2>4, <2>5, <2>6 DEF ContentInv
<1> HIDE DEF batch
<1> QED
  BY <1>4, <1>5, <1>6, <1>7 DEF IndInv

\* size() of the producer returns: read_pos_ was loaded first, so the result
\* can only be too high.
LEMMA ProducerSizeStep ==
    ASSUME IndInv, ProducerSizeLoadWrite
    PROVE  IndInv'
<1> USE DEF shared, consumer, history
<1>1. /\ p_write <= read_pos /\ read_pos <= write_pos
      /\ p_size' = write_pos - p_write
  BY DEF IndInv, TypeOK, PositionsInv, ProducerSizeLoadWrite, Occupancy
<1>2. TypeOK'
  BY <1>1 DEF IndInv, TypeOK, ProducerSizeLoadWrite
<1>3. PositionsInv'
  BY DEF IndInv, PositionsInv, ProducerSizeLoadWrite
<1>4. ContentInv'
  BY DEF IndInv, ContentInv, ProducerSizeLoadWrite
<1>5. SizeInv'
  BY <1>1 DEF IndInv, TypeOK, SizeInv, ProducerSizeLoadWrite
<1> QED
  BY <1>2, <1>3, <1>4, <1>5 DEF IndInv

\* try_pop, try_pop_batch and size() of the consumer begin: only its locals
\* change.
LEMMA ConsumerCallStep ==
    ASSUME IndInv, PopCall \/ ConsumerSizeLoadRead
    PROVE  IndInv'
<1> USE DEF shared, producer, history
<1>1. CASE ConsumerSizeLoadRead
  BY <1>1 DEF IndInv, TypeOK, PositionsInv, ContentInv, SizeInv,
              ConsumerSizeLoadRead
<1>2. CASE TryPop
  BY <1>2 DEF IndInv, TypeOK, PositionsInv, ContentInv, SizeInv, TryPop
<1>3. ASSUME NEW want \in 1..MaxBatch, TryPopBatch(want)
      PROVE  IndInv'
  <2>1. want \in Nat /\ want > 0
    BY BoundsAssumption
  <2> QED
    BY <1>3, <2>1 DEF IndInv, TypeOK, PositionsInv, ContentInv, SizeInv,
                      TryPopBatch
<1> QED
  BY <1>1, <1>2, <1>3 DEF PopCall

\* The consumer decides how many packets to take.
LEMMA ConsumerLoadStep ==
    ASSUME IndInv, TryPopLoad \/ TryPopBatchLoad
    PROVE  IndInv'
<1> USE DEF shared, producer, history
<1>1. ASSUME NEW n \in Nat, StartTake(n), c_pc \in {"pop", "pop_batch"},
             c_read + n <= write_pos
      PROVE  IndInv'
  <2>1. TypeOK'
    BY <1>1 DEF IndInv, TypeOK, StartTake
  <2>2. PositionsInv'
    BY <1>1 DEF IndInv, TypeOK, PositionsInv, StartTake
  <2>3. ContentInv'
    BY <1>1 DEF IndInv, TypeOK, PositionsInv, ContentInv, StartTake
  <2>4. SizeInv'
    BY <1>1 DEF IndInv, TypeOK, PositionsInv, SizeInv, StartTake
  <2> QED
    BY <2>1, <2>2, <2>3, <2>4 DEF IndInv
<1>2. CASE TryPopLoad
  <2> DEFINE n == IF c_read >= write_pos THEN 0 ELSE 1
  <2>1. n \in Nat /\ c_read + n <= write_pos
    BY <1>2 DEF IndInv, TypeOK, PositionsInv, TryPopLoad
  <2> QED
    BY <1>1, <1>2, <2>1 DEF TryPopLoad
<1>3. CASE TryPopBatchLoad
  <2> DEFINE there == write_pos - c_read
             n == Min({c_want, there})
  <2>1. there \in Nat /\ c_want \in Nat /\ c_read + there = write_pos
    BY <1>3 DEF IndInv, TypeOK, PositionsInv, TryPopBatchLoad
  <2> HIDE DEF there
  <2>2. n \in Nat /\ n <= there
    <3>1. c_want \in Int /\ there \in Int
      BY <2>1
    <3>2. n \in {c_want, there} /\ n <= there
      BY <3>1, MinOfTwo
    <3> QED
      BY <2>1, <3>2
  <2>3. c_read + n <= write_pos
    BY <2>1, <2>2 DEF IndInv, TypeOK
  <2> QED
    BY <1>1, <1>3, <2>2, <2>3 DEF TryPopBatchLoad, there
<1> QED
  BY <1>2, <1>3

\* The copied packet is the next one published.
LEMMA CopySlotStep ==
    ASSUME IndInv, CopySlot
    PROVE  IndInv'
<1> USE DEF shared, producer, history
<1> DEFINE pos == c_read + c_i
           pkt == packets[Slot(pos)]
<1>1. /\ pos \in (read_pos + c_i)..(write_pos - 1) /\ pos = read_pos + c_i
      /\ pos \in Nat
      /\ Len(c_out) = c_i
  BY DEF IndInv, TypeOK, PositionsInv, CopySlot
<1>2. pkt = sent[pos + 1]
  BY <1>1 DEF IndInv, ContentInv
<1>3. pkt \in Packet \cup {Cleared}
  BY <1>1, SlotInRange DEF IndInv, TypeOK
<1>4. c_out' = Append(c_out, pkt)
  BY DEF CopySlot
<1> HIDE DEF pos, pkt
<1>5. /\ c_out' \in Seq(Packet \cup {Cleared}) /\ Len(c_out') = c_i + 1
      /\ \A k \in 1..c_i : c_out'[k] = c_out[k]
      /\ c_out'[c_i + 1] = pkt
  BY <1>1, <1>3, <1>4 DEF IndInv, TypeOK
<1>6. TypeOK'
  BY <1>5 DEF IndInv, TypeOK, CopySlot
<1>7. PositionsInv'
  BY <1>5 DEF IndInv, TypeOK, PositionsInv, CopySlot
<1>8. SizeInv'
  BY DEF IndInv, SizeInv, CopySlot
<1>9. ContentInv'
  <2>1. ASSUME NEW k \in 1..(c_i + 1)
        PROVE  c_out'[k] = sent[read_pos + k]
    <3>1. CASE k = c_i + 1
      BY <1>1, <1>2, <1>5, <3>1 DEF IndInv, TypeOK
    <3>2. CASE k # c_i + 1
      BY <1>1, <1>5, <3>2 DEF IndInv, TypeOK, ContentInv
    <3> QED
      BY <3>1, <3>2
  <2> QED
    BY <1>5, <2>1 DEF IndInv, ContentInv, CopySlot
<1> QED
  BY <1>6, <1>7, <1>8, <1>9 DEF IndInv

\* Clearing the slot just copied leaves the packets behind it, and the ones the
\* producer is filling, alone.
LEMMA ResetSlotStep ==
    ASSUME IndInv, ResetSlot
    PROVE  IndInv'
<1> USE DEF shared, producer, history
<1> DEFINE pos == c_read + c_i
<1>1. /\ pos \in Nat /\ pos = read_pos + c_i /\ pos >= read_pos
      /\ c_i < c_n
  BY DEF IndInv, TypeOK, PositionsInv, ResetSlot
<1>2. Slot(pos) \in 0..(Capacity - 1)
  BY <1>1, SlotInRange
<1>3. TypeOK'
  BY <1>1, <1>2 DEF IndInv, TypeOK, ResetSlot
<1>4. PositionsInv'
  BY <1>1 DEF IndInv, TypeOK, PositionsInv, ResetSlot
<1>5. SizeInv'
  BY DEF IndInv, SizeInv, ResetSlot
<1>6. ASSUME NEW k \in Nat, pos < k, k < read_pos + Capacity
      PROVE  packets'[Slot(k)] = packets[Slot(k)]
  <2>1. k < pos + Capacity
    BY <1>1, <1>6, CapacityAssumption DEF IndInv, TypeOK
  <2>2. Slot(k) # Slot(pos) /\ Slot(k) \in 0..(Capacity - 1)
    <3> HIDE DEF pos
    <3> QED
      BY <1>1, <1>6, <2>1, SlotsDiffer, SlotInRange
  <2> QED
    BY <2>2 DEF IndInv, TypeOK, ResetSlot
<1>7. ContentInv'
  <2>1. ASSUME NEW k \in (read_pos + c_i + 1)..(write_pos - 1)
        PROVE  packets'[Slot(k)] = sent[k + 1]
    <3>1. /\ k \in Nat /\ pos < k /\ k < read_pos + Capacity
          /\ k \in (read_pos + c_i)..(write_pos - 1)
      BY <1>1, CapacityAssumption DEF IndInv, TypeOK, PositionsInv
    <3>2. packets[Slot(k)] = sent[k + 1]
      BY <3>1 DEF IndInv, ContentInv
    <3> QED
      BY <1>6, <3>1, <3>2
  <2>2. ASSUME p_pc \in {"fill", "publish"},
               NEW k \in write_pos..(write_pos + p_i - 1)
        PROVE  packets'[Slot(k)] = p_args[k - write_pos + 1]
    <3>1. k \in Nat /\ pos < k /\ k < read_pos + Capacity
      BY <1>1, <2>2, CapacityAssumption
         DEF IndInv, TypeOK, PositionsInv, ResetSlot
    <3>2. packets[Slot(k)] = p_args[k - write_pos + 1]
      BY <2>2 DEF IndInv, ContentInv
    <3> QED
      BY <1>6, <3>1, <3>2
  <2> QED
    BY <2>1, <2>2 DEF IndInv, TypeOK, ContentInv, ResetSlot
<1> QED
  BY <1>3, <1>4, <1>5, <1>7 DEF IndInv

\* Releasing the slots hands the copied packets to the caller.
LEMMA ReleaseStep ==
    ASSUME IndInv, Release
    PROVE  IndInv'
<1> USE DEF shared, producer, history
<1>1. /\ c_read = read_pos /\ c_i = c_n /\ Len(c_out) = c_n /\ c_n \in Nat
      /\ 0 < c_n /\ read_pos + c_n <= write_pos
      /\ Len(popped) = read_pos
      /\ read_pos' = read_pos + c_n
  BY DEF IndInv, TypeOK, PositionsInv, ContentInv, Release
<1>2. popped' \in Seq(Packet \cup {Cleared}) /\ Len(popped') = read_pos + c_n
  BY <1>1, ConcatProperties DEF IndInv, TypeOK, Release
<1>3. TypeOK'
  BY <1>1, <1>2 DEF IndInv, TypeOK, Release
<1>4. PositionsInv'
  BY <1>1, CapacityAssumption DEF IndInv, TypeOK, PositionsInv, Release
<1>5. SizeInv'
  BY <1>1 DEF IndInv, TypeOK, SizeInv, Release
<1>6. ASSUME NEW k \in 1..(read_pos + c_n)
      PROVE  popped'[k] = sent[k]
  <2>1. CASE k <= read_pos
    BY <1>1, <2>1 DEF IndInv, TypeOK, ContentInv, Release
  <2>2. CASE k > read_pos
    <3>1. k - read_pos \in 1..Len(c_out) /\ read_pos + (k - read_pos) = k
      BY <1>1, <2>2 DEF IndInv, TypeOK
    <3>2. (popped \o c_out)[Len(popped) + (k - read_pos)] = c_out[k - read_pos]
      BY <3>1, ConcatTail DEF IndInv, TypeOK
    <3>3. c_out[k - read_pos] = sent[read_pos + (k - read_pos)]
      BY <3>1 DEF IndInv, ContentInv
    <3> QED
      BY <1>1, <3>1, <3>2, <3>3 DEF Release
  <2> QED
    BY <2>1, <2>2 DEF IndInv, TypeOK
<1>7. ContentInv'
  BY <1>1, <1>2, <1>6 DEF IndInv, TypeOK, ContentInv, Release
<1> QED
  BY <1>3, <1>4, <1>5, <1>7 DEF IndInv

\* size() of the consumer returns the exact occupancy.
LEMMA ConsumerSizeStep ==
    ASSUME IndInv, ConsumerSizeLoadWrite
    PROVE  IndInv'
<1> USE DEF shared, producer, history
<1>1. c_read = read_pos /\ c_size' = write_pos - read_pos /\ c_size' \in Nat
  BY DEF IndInv, TypeOK, PositionsInv, ConsumerSizeLoadWrite, Occupancy
<1>2. TypeOK'
  BY <1>1 DEF IndInv, TypeOK, ConsumerSizeLoadWrite
<1>3. PositionsInv'
  BY DEF IndInv, PositionsInv, ConsumerSizeLoadWrite
<1>4. ContentInv'
  BY DEF IndInv, ContentInv, ConsumerSizeLoadWrite
<1>5. SizeInv'
  BY <1>1 DEF IndInv, TypeOK, SizeInv, ConsumerSizeLoadWrite
<1> QED
  BY <1>2, <1>3, <1>4, <1>5 DEF IndInv

\* A stuttering step changes nothing.
LEMMA StutterStep ==
    ASSUME IndInv, UNCHANGED vars
    PROVE  IndInv'
  BY DEF vars, shared, producer, consumer, history,
         IndInv, TypeOK, PositionsInv, ContentInv, SizeInv

\* Every step of either thread preserves the invariant.
LEMMA NextIndInv == IndInv /\ [Next]_vars => IndInv'
  BY ProducerCallStep, ProducerLoadStep, FillSlotStep, PublishStep,
     ProducerSizeStep, ConsumerCallStep, ConsumerLoadStep, CopySlotStep,
     ResetSlotStep, ReleaseStep, ConsumerSizeStep, StutterStep
     DEF Next, ProducerStep, ConsumerStep

\* In every behaviour of the ring, for every capacity and every batch length, the
\* positions, the slots and the results of size() are as IndInv says.
THEOREM RingInvariant == Spec => []IndInv
  BY InitIndInv, NextIndInv, PTL DEF Spec

-----------------------------------------------------------------------------
(***************************************************************************)
(* What follows from it.                                                   *)
(***************************************************************************)

\* The variables of the ring keep their types.
THEOREM RingTypeOK == Spec => []TypeOK
<1>1. IndInv => TypeOK
  BY DEF IndInv
<1> QED
  BY <1>1, RingInvariant, PTL

\* try_pop hands out what try_push was given, in order, once each.
THEOREM RingPoppedInOrder == Spec => []PoppedInOrder
<1>1. IndInv => PoppedInOrder
  BY DEF IndInv, PositionsInv, ContentInv, PoppedInOrder
<1> QED
  BY <1>1, RingInvariant, PTL

\* The producer and the consumer are never at work on the same slot.
THEOREM RingNoSlotRace == Spec => []NoSlotRace
<1>1. IndInv => NoSlotRace
  <2> SUFFICES ASSUME IndInv, p_pc = "fill", c_pc \in {"copy", "reset"}
               PROVE  Slot(p_write + p_i) # Slot(c_read + c_i)
    BY DEF NoSlotRace, FillingSlot, TakingSlot
  <2> DEFINE a == c_read + c_i
             b == p_write + p_i
  <2>1. a \in Nat /\ b \in Nat /\ a < b
    BY DEF IndInv, TypeOK, PositionsInv
  <2>2. b < a + Capacity
    BY CapacityAssumption DEF IndInv, TypeOK, PositionsInv
  <2> HIDE DEF a, b
  <2>3. Slot(a) # Slot(b)
    BY <2>1, <2>2, SlotsDiffer
  <2> QED
    BY <2>3 DEF a, b
<1> QED
  BY <1>1, RingInvariant, PTL

\* The ring never holds more than its capacity.
THEOREM RingNeverOverfull == Spec => []NeverOverfull
<1>1. IndInv => NeverOverfull
  BY CapacityAssumption DEF IndInv, TypeOK, PositionsInv, NeverOverfull
<1> QED
  BY <1>1, RingInvariant, PTL

\* What size() and available() told a thread still holds at its next call.
THEOREM RingSizeIsAPromise == Spec => SizeIsAPromise
<1> DEFINE Promise ==
       /\ p_pc \in {"push", "push_batch"} /\ p_pc' # p_pc
             => p_n' >= Min({Len(p_args), Capacity - p_size})
       /\ c_pc \in {"pop", "pop_batch"} /\ c_pc' # c_pc
             => c_n' >= Min({c_want, c_size})
<1>1. ASSUME IndInv, TryPushLoad
      PROVE  p_n' >= Min({Len(p_args), Capacity - p_size})
  <2>1. /\ p_n' = IF p_write - read_pos >= Capacity THEN 0 ELSE 1
        /\ p_write - read_pos <= p_size /\ Len(p_args) = 1
    BY <1>1 DEF IndInv, PositionsInv, SizeInv, TryPushLoad, StartFill
  <2>2. Len(p_args) \in Int /\ Capacity - p_size \in Int
    BY <1>1, CapacityAssumption DEF IndInv, TypeOK
  <2> DEFINE m == Min({Len(p_args), Capacity - p_size})
  <2>3. m \in {Len(p_args), Capacity - p_size} /\ m <= 1 /\ m <= Capacity - p_size
    BY <2>1, <2>2, MinOfTwo
  <2> HIDE DEF m
  <2>4. p_n' >= m
    BY <1>1, <2>1, <2>2, <2>3, CapacityAssumption DEF IndInv, TypeOK
  <2> QED
    BY <2>4 DEF m
<1>2. ASSUME IndInv, TryPushBatchLoad
      PROVE  p_n' >= Min({Len(p_args), Capacity - p_size})
  <2> DEFINE room == Capacity - (p_write - read_pos)
             promised == Capacity - p_size
             n == Min({Len(p_args), room})
             m == Min({Len(p_args), promised})
  <2>1. p_n' = n /\ promised <= room
    BY <1>2, CapacityAssumption
       DEF IndInv, TypeOK, PositionsInv, SizeInv, TryPushBatchLoad, StartFill
  <2>2. Len(p_args) \in Int /\ room \in Int /\ promised \in Int
    BY <1>2, CapacityAssumption DEF IndInv, TypeOK
  <2> HIDE DEF room, promised
  <2>3. n \in {Len(p_args), room} /\ m \in {Len(p_args), promised}
        /\ m <= Len(p_args) /\ m <= promised
    BY <2>2, MinOfTwo
  <2> HIDE DEF n, m
  <2>4. p_n' >= m
    BY <2>1, <2>2, <2>3
  <2> QED
    BY <2>4 DEF m, promised
<1>3. ASSUME IndInv, TryPopLoad
      PROVE  c_n' >= Min({c_want, c_size})
  <2>1. /\ c_n' = IF c_read >= write_pos THEN 0 ELSE 1
        /\ c_size <= write_pos - c_read /\ c_want = 1
    BY <1>3 DEF IndInv, PositionsInv, SizeInv, TryPopLoad, StartTake
  <2>2. c_want \in Int /\ c_size \in Int
    BY <1>3 DEF IndInv, TypeOK
  <2> DEFINE m == Min({c_want, c_size})
  <2>3. m \in {c_want, c_size} /\ m <= 1 /\ m <= c_size
    BY <2>1, <2>2, MinOfTwo
  <2> HIDE DEF m
  <2>4. c_n' >= m
    BY <1>3, <2>1, <2>2, <2>3 DEF IndInv, TypeOK
  <2> QED
    BY <2>4 DEF m
<1>4. ASSUME IndInv, TryPopBatchLoad
      PROVE  c_n' >= Min({c_want, c_size})
  <2> DEFINE there == write_pos - c_read
             n == Min({c_want, there})
             m == Min({c_want, c_size})
  <2>1. c_n' = n /\ c_size <= there
    BY <1>4 DEF IndInv, TypeOK, PositionsInv, SizeInv, TryPopBatchLoad, StartTake
  <2>2. c_want \in Int /\ there \in Int /\ c_size \in Int
    BY <1>4 DEF IndInv, TypeOK
  <2> HIDE DEF there
  <2>3. n \in {c_want, there} /\ m \in {c_want, c_size}
        /\ m <= c_want /\ m <= c_size
    BY <2>2, MinOfTwo
  <2> HIDE DEF n, m
  <2>4. c_n' >= m
    BY <2>1, <2>2, <2>3
  <2> QED
    BY <2>4 DEF m
<1>5. ASSUME IndInv, [Next]_vars, ~TryPushLoad, ~TryPushBatchLoad,
             ~TryPopLoad, ~TryPopBatchLoad
      PROVE  /\ p_pc \in {"push", "push_batch"} => p_pc' = p_pc
             /\ c_pc \in {"pop", "pop_batch"} => c_pc' = c_pc
  BY <1>5 DEF Next, vars, PushCall, PopCall, ProducerStep, ConsumerStep,
     TryPush, TryPushBatch, ProducerSizeLoadRead, FillSlot, Publish,
     ProducerSizeLoadWrite, TryPop, TryPopBatch, ConsumerSizeLoadRead,
     CopySlot, ResetSlot, Release, ConsumerSizeLoadWrite, producer, consumer
<1>6. ASSUME TryPushLoad \/ TryPushBatchLoad
      PROVE  c_pc' = c_pc
  BY <1>6 DEF TryPushLoad, TryPushBatchLoad, StartFill, consumer
<1>7. ASSUME TryPopLoad \/ TryPopBatchLoad
      PROVE  p_pc' = p_pc
  BY <1>7 DEF TryPopLoad, TryPopBatchLoad, StartTake, producer
<1>8. IndInv /\ [Next]_vars => [Promise]_vars
  BY <1>1, <1>2, <1>3, <1>4, <1>5, <1>6, <1>7
<1> QED
  BY <1>8, RingInvariant, PTL DEF Spec, SizeIsAPromise
-----------------------------------------------------------------------------
(***************************************************************************)
(* The ring implements the bounded queue.                                  *)
(***************************************************************************)

\* What the abstract queue holds is what was published and not yet released.
QueueHoldsUnpopped ==
    /\ AbstractQueue \in Seq(Packet)
    /\ Len(AbstractQueue) = write_pos - read_pos
    /\ \A k \in 1..(write_pos - read_pos) : AbstractQueue[k] = sent[read_pos + k]

\* The packets copied out by an unfinished pop and those still in their slots
\* are together the published ones the consumer has not been handed.
LEMMA UnpoppedInQueue == IndInv => QueueHoldsUnpopped
<1> SUFFICES ASSUME IndInv
             PROVE  QueueHoldsUnpopped
  OBVIOUS
<1> DEFINE len == write_pos - read_pos
<1>1. len \in Nat /\ read_pos \in Nat /\ write_pos = read_pos + len
  BY DEF IndInv, TypeOK, PositionsInv
<1>2. ASSUME NEW k \in 1..len
      PROVE  /\ AbstractQueue[k] = sent[read_pos + k]
             /\ sent[read_pos + k] \in Packet
  <2>1. AbstractQueue[k] = IF k <= Len(c_out) THEN c_out[k]
                           ELSE packets[Slot(read_pos + k - 1)]
    BY DEF AbstractQueue
  <2>2. read_pos + k \in 1..Len(sent)
    BY <1>1 DEF IndInv, ContentInv
  <2>3. CASE k <= Len(c_out)
    <3>1. k \in 1..Len(c_out)
      BY <2>3 DEF IndInv, TypeOK
    <3>2. c_out[k] = sent[read_pos + k]
      BY <3>1 DEF IndInv, ContentInv
    <3> QED
      BY <2>1, <2>2, <2>3, <3>2 DEF IndInv, TypeOK
  <2>4. CASE ~(k <= Len(c_out))
    <3>1. /\ read_pos + k - 1 \in (read_pos + c_i)..(write_pos - 1)
          /\ (read_pos + k - 1) + 1 = read_pos + k
      BY <1>1, <2>4 DEF IndInv, TypeOK, PositionsInv
    <3>2. packets[Slot(read_pos + k - 1)] = sent[(read_pos + k - 1) + 1]
      BY <3>1 DEF IndInv, ContentInv
    <3> QED
      BY <2>1, <2>2, <2>4, <3>1, <3>2 DEF IndInv, TypeOK
  <2> QED
    BY <2>3, <2>4
<1>3. DOMAIN AbstractQueue = 1..len
  BY DEF AbstractQueue
<1>4. AbstractQueue = [k \in 1..len |-> AbstractQueue[k]]
  BY DEF AbstractQueue
<1> HIDE DEF len
<1>5. AbstractQueue \in [1..len -> Packet]
  BY <1>2, <1>4
<1>6. AbstractQueue \in Seq(Packet) /\ Len(AbstractQueue) = len
  BY <1>1, <1>5
<1> QED
  BY <1>2, <1>6 DEF QueueHoldsUnpopped, len

\* A step that moves neither position and publishes nothing leaves the queue as
\* it is, whatever it copies, clears or fills.
LEMMA QueueUnchanged ==
    ASSUME QueueHoldsUnpopped, QueueHoldsUnpopped',
           UNCHANGED <<write_pos, read_pos, sent>>
    PROVE  AbstractQueue' = AbstractQueue
<1>1. Len(AbstractQueue') = Len(AbstractQueue)
  BY DEF QueueHoldsUnpopped
<1>2. \A k \in 1..Len(AbstractQueue) : AbstractQueue'[k] = AbstractQueue[k]
  BY DEF QueueHoldsUnpopped
<1>3. AbstractQueue \in Seq(Packet) /\ AbstractQueue' \in Seq(Packet)
  BY DEF QueueHoldsUnpopped
<1> QED
  BY <1>1, <1>2, <1>3, SeqEqual

\* The store of write_pos_ appends the batch to the queue.
LEMMA PublishIsPush ==
    ASSUME IndInv, QueueHoldsUnpopped, QueueHoldsUnpopped', Publish
    PROVE  Fifo!FifoNext
<1> DEFINE batch == SubSeq(p_args, 1, p_n)
           queue == AbstractQueue
<1>1. /\ p_n \in Nat /\ 0 < p_n /\ p_n <= Len(p_args) /\ p_args \in Seq(Packet)
      /\ sent \in Seq(Packet) /\ Len(sent) = write_pos
      /\ read_pos \in Nat /\ write_pos \in Nat /\ read_pos <= write_pos
      /\ write_pos + p_n <= read_pos + Capacity
      /\ sent' = sent \o batch
      /\ write_pos' = write_pos + p_n
      /\ read_pos' = read_pos
      /\ popped' = popped
  BY DEF IndInv, TypeOK, PositionsInv, ContentInv, Publish
<1>2. /\ batch \in Seq(Packet) /\ Len(batch) = p_n
      /\ batch \in [1..p_n -> Packet]
  <2>1. batch \in Seq(Packet) /\ Len(batch) = p_n
    BY <1>1
  <2> HIDE DEF batch
  <2> QED
    BY <2>1
<1>3. p_n \in 1..Capacity
  BY <1>1, CapacityAssumption
<1>4. queue \in Seq(Packet) /\ Len(queue) = write_pos - read_pos
  BY DEF QueueHoldsUnpopped
<1>5. queue' \in Seq(Packet) /\ Len(queue') = write_pos - read_pos + p_n
  BY <1>1 DEF QueueHoldsUnpopped
<1>6. Len(queue) + Len(batch) <= Capacity
  BY <1>1, <1>2, <1>4, CapacityAssumption
<1>7. ASSUME NEW k \in 1..(write_pos - read_pos + p_n)
      PROVE  queue'[k] = (queue \o batch)[k]
  <2>1. queue'[k] = sent'[read_pos + k]
    BY <1>1 DEF QueueHoldsUnpopped
  <2>2. CASE k <= write_pos - read_pos
    <3>1. queue[k] = sent[read_pos + k] /\ k \in 1..Len(queue)
      BY <1>1, <1>4, <2>2 DEF QueueHoldsUnpopped
    <3>2. (queue \o batch)[k] = queue[k]
      <4> HIDE DEF queue, batch
      <4> QED
        BY <1>2, <1>4, <3>1
    <3>3. read_pos + k \in 1..Len(sent)
      BY <1>1, <2>2
    <3>4. (sent \o batch)[read_pos + k] = sent[read_pos + k]
      <4> HIDE DEF queue, batch
      <4> QED
        BY <1>1, <1>2, <3>3
    <3> QED
      BY <1>1, <2>1, <3>1, <3>2, <3>4, Zenon
  <2>3. CASE k > write_pos - read_pos
    <3> DEFINE j == k - (write_pos - read_pos)
    <3>1. /\ j \in 1..Len(batch)
          /\ k = Len(queue) + j /\ read_pos + k = Len(sent) + j
      BY <1>1, <1>2, <1>4, <2>3
    <3> HIDE DEF j, queue, batch
    <3>2. (queue \o batch)[Len(queue) + j] = batch[j]
      BY <1>2, <1>4, <3>1, ConcatTail
    <3>3. (sent \o batch)[Len(sent) + j] = batch[j]
      BY <1>1, <1>2, <3>1, ConcatTail
    <3> QED
      BY <1>1, <2>1, <3>1, <3>2, <3>3, Zenon
  <2>4. k <= write_pos - read_pos \/ k > write_pos - read_pos
    BY <1>1
  <2> QED
    BY <2>2, <2>3, <2>4, Zenon
<1>8. queue' = queue \o batch
  <2> HIDE DEF batch
  <2>1. /\ queue \o batch \in Seq(Packet)
        /\ Len(queue \o batch) = write_pos - read_pos + p_n
    BY <1>2, <1>4, ConcatProperties
  <2> QED
    BY <1>5, <1>7, <2>1, SeqEqual
<1>9. Fifo!Push(batch)
  BY <1>1, <1>6, <1>8 DEF Fifo!Push
<1> HIDE DEF batch
<1> QED
  BY <1>2, <1>3, <1>9 DEF Fifo!FifoNext

\* The store of read_pos_ takes what the pop copied from the front of the queue.
LEMMA ReleaseIsPop ==
    ASSUME IndInv, QueueHoldsUnpopped, QueueHoldsUnpopped', Release
    PROVE  Fifo!FifoNext
<1> DEFINE queue == AbstractQueue
<1>1. /\ c_n \in Nat /\ 0 < c_n /\ Len(c_out) = c_n
      /\ c_out \in Seq(Packet \cup {Cleared})
      /\ read_pos \in Nat /\ write_pos \in Nat /\ read_pos + c_n <= write_pos
      /\ \A k \in 1..c_n : c_out[k] = sent[read_pos + k]
      /\ read_pos' = read_pos + c_n
      /\ write_pos' = write_pos /\ sent' = sent
      /\ popped' = popped \o c_out
  BY DEF IndInv, TypeOK, PositionsInv, ContentInv, Release
<1>2. queue \in Seq(Packet) /\ Len(queue) = write_pos - read_pos
  BY DEF QueueHoldsUnpopped
<1>3. queue' \in Seq(Packet) /\ Len(queue') = write_pos - read_pos - c_n
  BY <1>1 DEF QueueHoldsUnpopped
<1>4. c_n \in 1..Len(queue)
  BY <1>1, <1>2
<1>5. c_out = SubSeq(queue, 1, c_n)
  <2>1. /\ SubSeq(queue, 1, c_n) \in Seq(Packet)
        /\ Len(SubSeq(queue, 1, c_n)) = c_n
        /\ \A k \in 1..c_n : SubSeq(queue, 1, c_n)[k] = queue[k]
    <3> HIDE DEF queue
    <3> QED
      BY <1>1, <1>2, <1>4
  <2>2. \A k \in 1..c_n : queue[k] = sent[read_pos + k]
    BY <1>1 DEF QueueHoldsUnpopped
  <2>3. SubSeq(queue, 1, c_n) \in Seq(Packet \cup {Cleared})
    BY <2>1
  <2> HIDE DEF queue
  <2> QED
    BY <1>1, <2>1, <2>2, <2>3, SeqEqual
<1>6. queue' = SubSeq(queue, c_n + 1, Len(queue))
  <2> DEFINE rest == SubSeq(queue, c_n + 1, Len(queue))
  <2>1. /\ rest \in Seq(Packet)
        /\ Len(rest) = write_pos - read_pos - c_n
        /\ \A k \in 1..(write_pos - read_pos - c_n) : rest[k] = queue[c_n + k]
    <3> HIDE DEF queue
    <3>1. rest \in Seq(Packet) /\ Len(rest) = Len(queue) - c_n
      BY <1>1, <1>2, <1>4
    <3>2. ASSUME NEW k \in 1..(Len(queue) - c_n)
          PROVE  rest[k] = queue[c_n + k]
      BY <1>1, <1>2, <1>4
    <3> HIDE DEF rest
    <3> QED
      BY <1>2, <3>1, <3>2
  <2>2. ASSUME NEW k \in 1..(write_pos - read_pos - c_n)
        PROVE  queue'[k] = rest[k]
    <3>1. k \in 1..(write_pos' - read_pos')
      BY <1>1
    <3>2. queue'[k] = sent'[read_pos' + k]
      BY <3>1 DEF QueueHoldsUnpopped
    <3>3. /\ c_n + k \in 1..(write_pos - read_pos)
          /\ read_pos' + k = read_pos + (c_n + k)
      BY <1>1
    <3>4. queue[c_n + k] = sent[read_pos + (c_n + k)]
      BY <3>3 DEF QueueHoldsUnpopped
    <3> QED
      BY <1>1, <2>1, <3>2, <3>3, <3>4
  <2> HIDE DEF rest
  <2>3. queue' = rest
    BY <1>3, <2>1, <2>2, SeqEqual
  <2> QED
    BY <2>3 DEF rest
<1>7. Fifo!Pop(c_n)
  BY <1>1, <1>5, <1>6 DEF Fifo!Pop
<1> QED
  BY <1>4, <1>7 DEF Fifo!FifoNext

\* No other step moves a position, publishes a packet or hands one out.
LEMMA OtherStepsKeepQueue ==
    ASSUME [Next]_vars, ~Publish, ~Release
    PROVE  UNCHANGED <<write_pos, read_pos, sent, popped>>
<1> USE DEF shared, producer, consumer, history
<1>1. CASE UNCHANGED vars
  BY <1>1 DEF vars
<1>2. CASE PushCall \/ ProducerSizeLoadRead
  BY <1>2 DEF PushCall, TryPush, TryPushBatch, ProducerSizeLoadRead
<1>3. CASE ProducerStep
  BY <1>3 DEF ProducerStep, TryPushLoad, TryPushBatchLoad, StartFill, FillSlot,
              ProducerSizeLoadWrite
<1>4. CASE PopCall \/ ConsumerSizeLoadRead
  BY <1>4 DEF PopCall, TryPop, TryPopBatch, ConsumerSizeLoadRead
<1>5. CASE ConsumerStep
  BY <1>5 DEF ConsumerStep, TryPopLoad, TryPopBatchLoad, StartTake, CopySlot,
              ResetSlot, ConsumerSizeLoadWrite
<1> QED
  BY <1>1, <1>2, <1>3, <1>4, <1>5 DEF Next

\* Two threads that share only the two positions and the slots behave as one
\* bounded FIFO queue: try_push and try_push_batch take effect at their store of
\* write_pos_, try_pop and try_pop_batch at their store of read_pos_, and every
\* other load, copy and reset is invisible.
THEOREM RingImplementsFifo == Spec => ImplementsFifo
<1>1. Init => Fifo!FifoInit
  <2> SUFFICES ASSUME Init
               PROVE  AbstractQueue = <<>> /\ popped = <<>>
    BY DEF Fifo!FifoInit
  <2>1. QueueHoldsUnpopped
    BY InitIndInv, UnpoppedInQueue
  <2>2. AbstractQueue \in Seq(Packet) /\ Len(AbstractQueue) = 0
    BY <2>1 DEF QueueHoldsUnpopped, Init
  <2> QED
    BY <2>2, EmptySeq DEF Init
<1>2. IndInv /\ IndInv' /\ [Next]_vars => [Fifo!FifoNext]_(Fifo!fifoVars)
  <2> SUFFICES ASSUME IndInv, IndInv', [Next]_vars
               PROVE  [Fifo!FifoNext]_(Fifo!fifoVars)
    OBVIOUS
  <2>1. QueueHoldsUnpopped
    BY UnpoppedInQueue
  <2>2. (IndInv => QueueHoldsUnpopped)'
    BY UnpoppedInQueue, PTL
  <2>3. QueueHoldsUnpopped'
    BY <2>2
  <2>4. CASE Publish
    BY <2>1, <2>3, <2>4, PublishIsPush
  <2>5. CASE Release
    BY <2>1, <2>3, <2>5, ReleaseIsPop
  <2>6. CASE ~Publish /\ ~Release
    <3>1. UNCHANGED <<write_pos, read_pos, sent, popped>>
      BY <2>6, OtherStepsKeepQueue
    <3>2. AbstractQueue' = AbstractQueue
      BY <2>1, <2>3, <3>1, QueueUnchanged
    <3> QED
      BY <3>1, <3>2 DEF Fifo!fifoVars
  <2> QED
    BY <2>4, <2>5, <2>6
<1> QED
  BY <1>1, <1>2, RingInvariant, PTL DEF Spec, ImplementsFifo, Fifo!FifoSpec
=============================================================================
