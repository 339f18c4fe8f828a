-------------------------- MODULE MpscQueueProofs --------------------------
(***************************************************************************)
(* The safety of MpscQueue for every number of producers, every capacity   *)
(* and every width of std::size_t.  The positions are safe whatever the    *)
(* order of the two stores to a slot; the values need the payload to be    *)
(* stored before the flag.                                                 *)
(***************************************************************************)
EXTENDS MpscQueue, SequenceTheorems, TLAPS

-----------------------------------------------------------------------------
(***************************************************************************)
(* Remainders.                                                             *)
(***************************************************************************)

\* A position modulo the capacity is an index of the buffer.
LEMMA RemainderInRange ==
    ASSUME NEW C \in Nat \ {0}, NEW a \in Nat
    PROVE  a % C \in 0..(C - 1)
  OBVIOUS

\* A multiple of C that exceeds another does so by at least C.
LEMMA MultiplesApart ==
    ASSUME NEW C \in Nat \ {0}, NEW p \in Int, NEW q \in Int, p < q
    PROVE  C * q >= C * p + C
  OBVIOUS

\* Two positions less than C apart have different remainders modulo C.
LEMMA RemaindersDiffer ==
    ASSUME NEW C \in Nat \ {0}, NEW a \in Nat, NEW b \in Nat, a < b, b < a + C
    PROVE  a % C # b % C
<1> DEFINE qa == a \div C
           qb == b \div C
<1> SUFFICES ASSUME a % C = b % C
             PROVE  FALSE
  OBVIOUS
<1>1. /\ qa \in Nat /\ a = C * qa + (a % C)
      /\ qb \in Nat /\ b = C * qb + (b % C)
  OBVIOUS
<1> HIDE DEF qa, qb
<1>2. CASE qa < qb
  <2>1. C * qb >= C * qa + C
    BY <1>1, <1>2, MultiplesApart
  <2> QED
    BY <1>1, <2>1
<1>3. CASE qb < qa
  <2>1. C * qa >= C * qb + C
    BY <1>1, <1>3, MultiplesApart
  <2> QED
    BY <1>1, <2>1
<1>4. CASE qa = qb
  BY <1>1, <1>4
<1> QED
  BY <1>1, <1>2, <1>3, <1>4

\* One round of the ring leads back to the same slot.
LEMMA RemainderPeriodic ==
    ASSUME NEW C \in Nat \ {0}, NEW a \in Nat
    PROVE  (a + C) % C = a % C
<1> DEFINE qa == a \div C
           b == a + C
           qb == b \div C
<1>1. /\ qa \in Nat /\ a = C * qa + (a % C) /\ a % C \in 0..(C - 1)
      /\ qb \in Nat /\ b = C * qb + (b % C) /\ b % C \in 0..(C - 1)
  OBVIOUS
<1>2. b = C * (qa + 1) + (a % C)
  BY <1>1
<1>3. qa + 1 \in Int /\ b \in Nat
  BY <1>1
<1> DEFINE q == qa + 1
<1> HIDE DEF qa, b, qb, q
<1>4. CASE q < qb
  <2>1. C * qb >= C * q + C
    BY <1>1, <1>3, <1>4, MultiplesApart DEF q
  <2> QED
    BY <1>1, <1>2, <1>3, <2>1, SMTT(30) DEF q
<1>5. CASE qb < q
  <2>1. C * q >= C * qb + C
    BY <1>1, <1>3, <1>5, MultiplesApart DEF q
  <2> QED
    BY <1>1, <1>2, <1>3, <2>1 DEF q
<1>6. CASE qb = q
  <2>1. b % C = a % C
    BY <1>1, <1>2, <1>3, <1>6 DEF q
  <2> QED
    BY <2>1 DEF b
<1> QED
  BY <1>1, <1>3, <1>4, <1>5, <1>6 DEF q

\* An unsigned difference that comes out below some bound C is a true
\* difference, when the width leaves C values above every position.
LEMMA SmallDifference ==
    ASSUME NEW M \in Nat, NEW P \in Nat, NEW C \in Nat \ {0}, M >= P + C,
           NEW a \in 0..P, NEW b \in 0..P, (a - b) % M < C
    PROVE  b <= a /\ a - b < C
<1>1. M \in Nat \ {0}
  OBVIOUS
<1>2. CASE a < b
  <2>1. (a - b) % M = a - b + M
    BY <1>1, <1>2
  <2> QED
    BY <1>2, <2>1
<1>3. CASE b <= a
  <2>1. (a - b) % M = a - b
    BY <1>1, <1>3
  <2> QED
    BY <1>3, <2>1
<1> QED
  BY <1>2, <1>3

\* index = pos & mask_ is an index of buffer_.
LEMMA IndexInRange ==
    ASSUME NEW pos \in Nat
    PROVE  Index(pos) \in Slots
  BY CapacityAssumption, RemainderInRange DEF Index, Slots

\* Two different positions of one window of a capacity never share a slot.
LEMMA IndexesDiffer ==
    ASSUME NEW base \in Nat, NEW a \in Nat, NEW b \in Nat, a # b,
           base <= a, a < base + Capacity, base <= b, b < base + Capacity
    PROVE  Index(a) # Index(b)
<1>1. CASE a < b
  <2>1. b < a + Capacity
    BY CapacityAssumption
  <2> QED
    BY <1>1, <2>1, CapacityAssumption, RemaindersDiffer DEF Index
<1>2. CASE b < a
  <2>1. a < b + Capacity
    BY CapacityAssumption
  <2> QED
    BY <1>2, <2>1, CapacityAssumption, RemaindersDiffer DEF Index
<1> QED
  BY <1>1, <1>2

-----------------------------------------------------------------------------
(***************************************************************************)
(* Types and positions.                                                    *)
(***************************************************************************)

\* What a producer pushes is a value.
LEMMA ValueType ==
    ASSUME TypeOK, NEW p \in Producers
    PROVE  Value(p) \in Values
  BY DEF TypeOK, Value, Values

LEMMA InitBase == Init => TypeOK /\ ClaimInv
  BY CapacityAssumption, BoundsAssumption, IndexInRange
     DEF Init, TypeOK, ClaimInv, Values, Slots, NoValue

\* The steps of a push keep the types and the positions.
LEMMA PushBase ==
    ASSUME TypeOK, ClaimInv, NEW p \in Producers, LoadTail(p) \/ PushStep(p)
    PROVE  TypeOK' /\ ClaimInv'
<1> USE DEF consumer
<1>0. Value(p) \in Values /\ Index(p_tail[p]) \in Slots
  BY ValueType, IndexInRange DEF TypeOK
<1>1. CASE LoadTail(p)
  BY <1>1 DEF TypeOK, ClaimInv, LoadTail
<1>2. CASE LoadHead(p)
  <2>1. TypeOK'
    BY <1>2 DEF TypeOK, LoadHead
  <2>2. ASSUME Minus(p_tail[p], head) < Capacity
        PROVE  head <= p_tail[p] /\ p_tail[p] < head + Capacity
    <3>1. p_tail[p] \in 0..MaxPushes /\ head \in 0..MaxPushes
      BY BoundsAssumption DEF TypeOK, ClaimInv
    <3>2. head <= p_tail[p] /\ p_tail[p] - head < Capacity
      BY <2>2, <3>1, BoundsAssumption, CapacityAssumption, SmallDifference
         DEF Minus
    <3> QED
      BY <3>1, <3>2, CapacityAssumption, BoundsAssumption
  <2>3. p_pc'[p] = "cas" => Minus(p_tail[p], head) < Capacity
    <3>1. Minus(p_tail[p], head) \in Int
      BY BoundsAssumption, CapacityAssumption DEF TypeOK, Minus
    <3> QED
      BY <1>2, <3>1, CapacityAssumption DEF TypeOK, LoadHead
  <2>4. ClaimInv'
    BY <1>2, <2>2, <2>3 DEF TypeOK, ClaimInv, LoadHead
  <2> QED
    BY <2>1, <2>4
<1>3. CASE CasSucceed(p)
  <2>1. Len(claimed') = tail + 1 /\ claimed' \in Seq(Values)
    BY <1>0, <1>3 DEF TypeOK, ClaimInv, CasSucceed
  <2>2. TypeOK'
    BY <1>3, <2>1 DEF TypeOK, CasSucceed
  <2>3. tail + 1 <= head + Capacity /\ tail + 1 <= MaxPushes
    BY <1>3, CapacityAssumption, BoundsAssumption DEF TypeOK, ClaimInv, CasSucceed
  <2>4. ClaimInv'
    BY <1>3, <2>1, <2>3 DEF TypeOK, ClaimInv, CasSucceed
  <2> QED
    BY <2>2, <2>4
<1>4. CASE CasFail(p)
  BY <1>4 DEF TypeOK, ClaimInv, CasFail
<1>5. CASE WriteFirst(p)
  <2>1. /\ engaged' \in [Slots -> BOOLEAN]
        /\ payload' \in [Slots -> Values]
    BY <1>0, <1>5 DEF TypeOK, WriteFirst
  <2>2. p_pc' \in [Producers -> {"idle", "load_head", "cas", "write",
                                 "write_flag", "write_payload"}]
    BY <1>5 DEF TypeOK, WriteFirst
  <2>3. UNCHANGED <<head, tail, p_tail, p_head, p_count, c_pc, c_head, c_value,
                    claimed, received>>
    BY <1>5 DEF WriteFirst
  <2>4. TypeOK'
    BY <2>1, <2>2, <2>3 DEF TypeOK
  <2>5. ClaimInv'
    BY <1>5 DEF TypeOK, ClaimInv, WriteFirst
  <2> QED
    BY <2>4, <2>5
<1>6. CASE WriteSecond(p)
  <2>1. /\ engaged' \in [Slots -> BOOLEAN]
        /\ payload' \in [Slots -> Values]
    BY <1>0, <1>6 DEF TypeOK, WriteSecond
  <2>2. /\ p_pc' \in [Producers -> {"idle", "load_head", "cas", "write",
                                    "write_flag", "write_payload"}]
        /\ p_count' \in [Producers -> Nat]
    BY <1>6 DEF TypeOK, WriteSecond
  <2>3. UNCHANGED <<head, tail, p_tail, p_head, c_pc, c_head, c_value,
                    claimed, received>>
    BY <1>6 DEF WriteSecond
  <2>4. TypeOK'
    BY <2>1, <2>2, <2>3 DEF TypeOK
  <2>5. ClaimInv'
    BY <1>6 DEF TypeOK, ClaimInv, WriteSecond
  <2> QED
    BY <2>4, <2>5
<1> QED
  BY <1>1, <1>2, <1>3, <1>4, <1>5, <1>6 DEF PushStep

\* The steps of a pop keep the types and the positions.
LEMMA PopBase ==
    ASSUME TypeOK, ClaimInv, PopStep
    PROVE  TypeOK' /\ ClaimInv'
<1>0. Index(c_head) \in Slots
  BY IndexInRange DEF TypeOK
<1>1. CASE PopCall
  BY <1>1 DEF TypeOK, ClaimInv, PopCall
<1>2. CASE PopLoadTail
  BY <1>2 DEF TypeOK, ClaimInv, PopLoadTail
<1>3. CASE PopCheck
  BY <1>3 DEF TypeOK, ClaimInv, PopCheck
<1>4. CASE PopTake
  BY <1>0, <1>4 DEF TypeOK, ClaimInv, PopTake
<1>5. CASE PopClear
  BY <1>0, <1>5 DEF TypeOK, ClaimInv, PopClear
<1>6. CASE PopAdvance
  <2>1. /\ c_head = head /\ head < tail
        /\ Len(received') = head + 1 /\ received' \in Seq(Values)
    BY <1>6 DEF TypeOK, ClaimInv, PopAdvance
  <2>2. TypeOK'
    BY <1>6, <2>1 DEF TypeOK, PopAdvance
  <2>3. ClaimInv'
    BY <1>6, <2>1, CapacityAssumption DEF TypeOK, ClaimInv, PopAdvance
  <2> QED
    BY <2>2, <2>3
<1> QED
  BY <1>1, <1>2, <1>3, <1>4, <1>5, <1>6 DEF PopStep

LEMMA NextBase ==
    TypeOK /\ ClaimInv /\ [Next]_vars => TypeOK' /\ ClaimInv'
<1> SUFFICES ASSUME TypeOK, ClaimInv, [Next]_vars
             PROVE  TypeOK' /\ ClaimInv'
  OBVIOUS
<1>1. CASE UNCHANGED vars
  BY <1>1 DEF vars, consumer, TypeOK, ClaimInv
<1> QED
  BY <1>1, PushBase, PopBase DEF Next

\* Whatever the order in which the build stores a value and its flag, the
\* variables keep their types and the positions stay as ClaimInv says.
THEOREM QueueBase == Spec => [](TypeOK /\ ClaimInv)
  BY InitBase, NextBase, PTL DEF Spec

\* A CAS never claims a position whose slot is still in use.
THEOREM QueueNeverOverfull == Spec => []NeverOverfull
<1>1. TypeOK /\ ClaimInv => NeverOverfull
  BY CapacityAssumption DEF TypeOK, ClaimInv, NeverOverfull
<1> QED
  BY <1>1, QueueBase, PTL

-----------------------------------------------------------------------------
(***************************************************************************)
(* Owners and values, when the payload is stored before the flag.          *)
(***************************************************************************)

\* What such a build keeps.
OrderedInv == TypeOK /\ ClaimInv /\ SlotInv

LEMMA InitSlot == Init => SlotInv
  BY CapacityAssumption, IndexInRange
     DEF Init, SlotInv, Writing, Slots

\* A producer that is not yet an owner: only its locals change.
LEMMA PushLoadSlot ==
    ASSUME OrderedInv, NEW p \in Producers,
           LoadTail(p) \/ LoadHead(p) \/ CasFail(p)
    PROVE  SlotInv'
<1> USE DEF consumer
<1>1. p \notin Writing /\ Writing' = Writing
  BY DEF OrderedInv, TypeOK, Writing, LoadTail, LoadHead, CasFail
<1>2. \A q \in Writing : p_pc'[q] = p_pc[q] /\ p_tail'[q] = p_tail[q]
  BY <1>1 DEF OrderedInv, TypeOK, Writing, LoadTail, LoadHead, CasFail
<1>3. UNCHANGED <<head, tail, engaged, payload, p_count, c_pc, c_value,
                  claimed, received>>
  BY DEF LoadTail, LoadHead, CasFail
<1>4. \A q \in Writing : Value(q)' = Value(q)
  BY <1>3 DEF Value
<1>5. \A q \in Writing' :
         /\ p_pc'[q] # "write_payload"
         /\ head <= p_tail'[q] /\ p_tail'[q] < tail
         /\ claimed[p_tail'[q] + 1] = Value(q)
         /\ ~engaged[Index(p_tail'[q])]
         /\ p_pc'[q] = "write_flag" => payload[Index(p_tail'[q])] = Value(q)
         /\ c_pc \in {"take", "clear", "advance"} => p_tail'[q] # head
  BY <1>1, <1>2 DEF OrderedInv, SlotInv
<1>6. \A q, r \in Writing' : q # r => p_tail'[q] # p_tail'[r]
  BY <1>1, <1>2 DEF OrderedInv, SlotInv
<1> QED
  BY <1>1, <1>3, <1>4, <1>5, <1>6 DEF OrderedInv, SlotInv

\* A claim takes the free slot at tail_.
LEMMA CasSlot ==
    ASSUME OrderedInv, NEW p \in Producers, CasSucceed(p)
    PROVE  SlotInv'
<1> USE DEF consumer
<1>1. /\ Writing' = Writing \cup {p} /\ p \notin Writing
      /\ p_tail[p] = tail /\ tail' = tail + 1
      /\ p_pc'[p] = "write"
      /\ \A q \in Writing : p_pc'[q] = p_pc[q]
  BY DEF OrderedInv, TypeOK, Writing, CasSucceed
<1>2. UNCHANGED <<head, engaged, payload, p_tail, p_count, c_pc, c_value,
                  received>>
  BY DEF CasSucceed
<1>3. /\ \A k \in 1..tail : claimed'[k] = claimed[k]
      /\ claimed'[tail + 1] = Value(p)
  BY ValueType DEF OrderedInv, TypeOK, ClaimInv, CasSucceed
<1>4. head <= tail /\ tail < head + Capacity /\ Len(received) = head
  BY CapacityAssumption DEF OrderedInv, TypeOK, ClaimInv, CasSucceed
<1>5. ~engaged[Index(tail)]
  <2>1. tail \in tail..(head + Capacity - 1)
    BY <1>4, CapacityAssumption DEF OrderedInv, TypeOK
  <2> QED
    BY <2>1 DEF OrderedInv, SlotInv
<1>6. ASSUME NEW q \in Writing'
      PROVE  /\ p_pc'[q] # "write_payload"
             /\ head <= p_tail[q] /\ p_tail[q] < tail + 1
             /\ claimed'[p_tail[q] + 1] = Value(q)
             /\ ~engaged[Index(p_tail[q])]
             /\ p_pc'[q] = "write_flag" => payload[Index(p_tail[q])] = Value(q)
             /\ c_pc \in {"take", "clear", "advance"} => p_tail[q] # head
  <2>1. CASE q = p
    BY <1>1, <1>3, <1>4, <1>5, <2>1 DEF OrderedInv, TypeOK, ClaimInv
  <2>2. CASE q # p
    <3>1. q \in Writing
      BY <1>1, <2>2
    <3>2. p_pc'[q] = p_pc[q]
      BY <1>1, <3>1
    <3>3. /\ p_pc[q] # "write_payload"
          /\ head <= p_tail[q]
          /\ p_tail[q] < tail
          /\ claimed[p_tail[q] + 1] = Value(q)
          /\ ~engaged[Index(p_tail[q])]
          /\ p_pc[q] = "write_flag" => payload[Index(p_tail[q])] = Value(q)
          /\ c_pc \in {"take", "clear", "advance"} => p_tail[q] # head
      BY <3>1, Zenon DEF OrderedInv, SlotInv
    <3>4. p_tail[q] \in Nat /\ tail \in Nat
      BY <3>1 DEF OrderedInv, TypeOK, Writing
    <3>5. p_tail[q] < tail + 1 /\ p_tail[q] + 1 \in 1..tail
      BY <3>3, <3>4
    <3>6. claimed'[p_tail[q] + 1] = Value(q)
      BY <1>3, <3>3, <3>5, Zenon
    <3> QED
      BY <3>2, <3>3, <3>5, <3>6, Zenon
  <2> QED
    BY <2>1, <2>2
<1>7. \A q, r \in Writing' : q # r => p_tail[q] # p_tail[r]
  <2>1. \A q \in Writing : p_tail[q] # tail
    BY DEF OrderedInv, TypeOK, SlotInv, Writing
  <2>2. \A q, r \in Writing : q # r => p_tail[q] # p_tail[r]
    BY DEF OrderedInv, SlotInv
  <2> QED
    BY <1>1, <2>1, <2>2
<1>8. ASSUME NEW k \in head..tail, engaged[Index(k)]
      PROVE  payload[Index(k)] = claimed'[k + 1]
  <2>1. k # tail
    BY <1>5, <1>8
  <2>2. k \in head..(tail - 1) /\ k + 1 \in 1..tail
    BY <2>1 DEF OrderedInv, TypeOK
  <2> QED
    BY <1>3, <1>8, <2>2 DEF OrderedInv, SlotInv
<1>9. \A k \in (tail + 1)..(head + Capacity - 1) : ~engaged[Index(k)]
  BY CapacityAssumption DEF OrderedInv, TypeOK, SlotInv
<1>10. c_pc \in {"clear", "advance"} => c_value = claimed'[head + 1]
  BY <1>3 DEF OrderedInv, TypeOK, ClaimInv, SlotInv
<1>11. \A k \in 1..Len(received) : received[k] = claimed'[k]
  BY <1>3, <1>4 DEF OrderedInv, TypeOK, SlotInv
<1>12. \A q \in Writing' : Value(q)' = Value(q)
  BY <1>2 DEF Value
<1>13. /\ c_pc \in {"take", "clear"} => engaged[Index(head)]
       /\ c_pc = "advance" => ~engaged[Index(head)]
  BY DEF OrderedInv, SlotInv
<1>14. tail' - 1 = tail
  BY <1>1 DEF OrderedInv, TypeOK
<1> QED
  BY <1>1, <1>2, <1>6, <1>7, <1>8, <1>9, <1>10, <1>11, <1>12, <1>13, <1>14
     DEF SlotInv

\* Two positions in use never share a slot.
LEMMA InUseDiffer ==
    ASSUME OrderedInv, NEW a \in Nat, NEW b \in Nat, a # b,
           head <= a, a < head + Capacity, head <= b, b < head + Capacity
    PROVE  Index(a) # Index(b)
  BY IndexesDiffer DEF OrderedInv, TypeOK

\* Storing the payload of an owned slot disturbs no other slot.
LEMMA WriteFirstSlot ==
    ASSUME OrderedInv, NEW p \in Producers, WriteFirst(p),
           write_order = "payload_first"
    PROVE  SlotInv'
<1> USE DEF consumer
<1> DEFINE i == Index(p_tail[p])
<1>1. /\ p \in Writing /\ Writing' = Writing
      /\ p_pc' = [p_pc EXCEPT ![p] = "write_flag"]
      /\ payload' = [payload EXCEPT ![i] = Value(p)]
      /\ UNCHANGED <<head, tail, engaged, p_tail, p_count, c_pc, c_value,
                     claimed, received>>
  BY DEF OrderedInv, TypeOK, Writing, WriteFirst
<1>2. i \in Slots /\ ~engaged[i]
  BY <1>1, IndexInRange DEF OrderedInv, TypeOK, SlotInv
<1>3. ASSUME NEW q \in Writing, q # p
      PROVE  Index(p_tail[q]) # i
  <2>1. /\ p_tail[q] # p_tail[p]
        /\ head <= p_tail[p] /\ p_tail[p] < tail
        /\ head <= p_tail[q] /\ p_tail[q] < tail
    BY <1>1, <1>3 DEF OrderedInv, SlotInv
  <2>2. p_tail[q] < head + Capacity /\ p_tail[p] < head + Capacity
    BY <2>1, CapacityAssumption DEF OrderedInv, TypeOK, ClaimInv, Writing
  <2> QED
    BY <2>1, <2>2, InUseDiffer DEF OrderedInv, TypeOK, Writing
<1>4. \A q \in Writing : Value(q)' = Value(q)
  BY <1>1 DEF Value
<1>5. ASSUME NEW q \in Writing, p_pc'[q] = "write_flag"
      PROVE  payload'[Index(p_tail[q])] = Value(q)
  <2>1. CASE q = p
    BY <1>1, <1>2, <2>1 DEF OrderedInv, TypeOK
  <2>2. CASE q # p
    <3>1. p_pc[q] = "write_flag"
      BY <1>1, <1>5, <2>2 DEF OrderedInv, TypeOK, Writing
    <3>2. payload[Index(p_tail[q])] = Value(q)
      BY <3>1 DEF OrderedInv, SlotInv
    <3>3. Index(p_tail[q]) \in Slots
      BY IndexInRange DEF OrderedInv, TypeOK, Writing
    <3> HIDE DEF i
    <3> QED
      BY <1>1, <1>3, <2>2, <3>2, <3>3 DEF OrderedInv, TypeOK
  <2> QED
    BY <2>1, <2>2
<1>6. ASSUME NEW k \in head..(tail - 1), engaged[Index(k)]
      PROVE  payload'[Index(k)] = claimed[k + 1]
  <2>1. Index(k) # i
    BY <1>2, <1>6
  <2>2. Index(k) \in Slots
    BY IndexInRange DEF OrderedInv, TypeOK
  <2>3. payload[Index(k)] = claimed[k + 1]
    BY <1>6 DEF OrderedInv, SlotInv
  <2> HIDE DEF i
  <2> QED
    BY <1>1, <2>1, <2>2, <2>3 DEF OrderedInv, TypeOK
<1>7. \A q \in Writing : p_pc'[q] # "write_payload"
  BY <1>1 DEF OrderedInv, TypeOK, SlotInv, Writing
<1> HIDE DEF i
<1> QED
  BY <1>1, <1>4, <1>5, <1>6, <1>7 DEF OrderedInv, SlotInv

\* Setting the flag hands over a slot that holds its value.
LEMMA WriteSecondSlot ==
    ASSUME OrderedInv, NEW p \in Producers, WriteSecond(p)
    PROVE  SlotInv'
<1> USE DEF consumer
<1> DEFINE i == Index(p_tail[p])
<1>1. /\ p \in Writing /\ p_pc[p] = "write_flag" /\ Writing' = Writing \ {p}
      /\ \A q \in Writing' : p_pc'[q] = p_pc[q] /\ p_count'[q] = p_count[q]
      /\ engaged' = [engaged EXCEPT ![i] = TRUE]
      /\ UNCHANGED <<head, tail, payload, p_tail, c_pc, c_value,
                     claimed, received>>
  BY DEF OrderedInv, TypeOK, SlotInv, Writing, WriteSecond
<1>2. /\ i \in Slots /\ payload[i] = claimed[p_tail[p] + 1]
      /\ p_tail[p] \in Nat /\ head <= p_tail[p] /\ p_tail[p] < tail
      /\ c_pc \in {"take", "clear", "advance"} => p_tail[p] # head
  BY <1>1, IndexInRange DEF OrderedInv, TypeOK, SlotInv
<1>3. ASSUME NEW k \in Nat, k # p_tail[p], head <= k, k < head + Capacity
      PROVE  engaged'[Index(k)] = engaged[Index(k)] /\ Index(k) # i
  <2>1. p_tail[p] < head + Capacity
    BY <1>2, CapacityAssumption DEF OrderedInv, TypeOK, ClaimInv
  <2>2. Index(k) # i /\ Index(k) \in Slots
    BY <1>2, <1>3, <2>1, InUseDiffer, IndexInRange
  <2> HIDE DEF i
  <2> QED
    BY <1>1, <2>2 DEF OrderedInv, TypeOK
<1> HIDE DEF i
<1>4. \A q \in Writing' : q \in Writing /\ Value(q)' = Value(q)
  BY <1>1 DEF Value
<1>5. ASSUME NEW q \in Writing'
      PROVE  ~engaged'[Index(p_tail[q])]
  <2>1. /\ q \in Writing /\ p_tail[q] \in Nat /\ p_tail[q] # p_tail[p]
        /\ head <= p_tail[q] /\ p_tail[q] < head + Capacity
        /\ ~engaged[Index(p_tail[q])]
    BY <1>1, CapacityAssumption DEF OrderedInv, TypeOK, ClaimInv, SlotInv, Writing
  <2> QED
    BY <1>3, <2>1
<1>6. ASSUME NEW k \in head..(tail - 1), engaged'[Index(k)]
      PROVE  payload[Index(k)] = claimed[k + 1]
  <2>1. CASE k = p_tail[p]
    BY <1>2, <2>1 DEF i
  <2>2. CASE k # p_tail[p]
    <3>1. k \in Nat /\ head <= k /\ k < head + Capacity
      BY CapacityAssumption DEF OrderedInv, TypeOK, ClaimInv
    <3> QED
      BY <1>3, <1>6, <2>2, <3>1 DEF OrderedInv, SlotInv
  <2> QED
    BY <2>1, <2>2
<1>7. ASSUME NEW k \in tail..(head + Capacity - 1)
      PROVE  ~engaged'[Index(k)]
  <2>1. k \in Nat /\ k # p_tail[p] /\ head <= k /\ k < head + Capacity
    BY <1>2, CapacityAssumption DEF OrderedInv, TypeOK, ClaimInv
  <2> QED
    BY <1>3, <2>1 DEF OrderedInv, SlotInv
<1>8. /\ c_pc \in {"take", "clear"} => engaged'[Index(head)]
      /\ c_pc = "advance" => ~engaged'[Index(head)]
  <2> SUFFICES ASSUME c_pc \in {"take", "clear", "advance"}
               PROVE  engaged'[Index(head)] = engaged[Index(head)]
    BY DEF OrderedInv, SlotInv
  <2>1. head \in Nat /\ head # p_tail[p] /\ head < head + Capacity
    BY <1>2, CapacityAssumption DEF OrderedInv, TypeOK
  <2> QED
    BY <1>3, <2>1
<1> QED
  BY <1>1, <1>4, <1>5, <1>6, <1>7, <1>8 DEF OrderedInv, SlotInv

\* The consumer looks before it takes.
LEMMA PopLookSlot ==
    ASSUME OrderedInv, PopCall \/ PopLoadTail \/ PopCheck \/ PopTake
    PROVE  SlotInv'
<1>1. Writing' = Writing /\ \A q \in Writing : Value(q)' = Value(q)
  BY DEF Writing, Value, PopCall, PopLoadTail, PopCheck, PopTake
<1>2. UNCHANGED <<head, tail, engaged, payload, p_pc, p_tail, claimed, received>>
  BY DEF PopCall, PopLoadTail, PopCheck, PopTake
<1>3. c_pc \in {"check", "take"} => c_head = head /\ head \in head..(tail - 1)
  BY DEF OrderedInv, TypeOK, ClaimInv
<1>4. c_pc' \in {"take", "clear"} => engaged[Index(head)]
  BY <1>3 DEF OrderedInv, TypeOK, SlotInv, PopCall, PopLoadTail, PopCheck, PopTake
<1>5. c_pc' = "clear" => c_value' = claimed[head + 1]
  BY <1>3 DEF OrderedInv, TypeOK, SlotInv, PopCall, PopLoadTail, PopCheck, PopTake
<1>6. c_pc' # "advance"
  BY DEF OrderedInv, PopCall, PopLoadTail, PopCheck, PopTake
<1>7. ASSUME NEW q \in Writing, c_pc' \in {"take", "clear"}
      PROVE  p_tail[q] # head
  BY <1>4, <1>7 DEF OrderedInv, SlotInv
<1> QED
  BY <1>1, <1>2, <1>4, <1>5, <1>6, <1>7 DEF OrderedInv, SlotInv

\* Emptying the slot at the head disturbs no other slot.
LEMMA PopClearSlot ==
    ASSUME OrderedInv, PopClear
    PROVE  SlotInv'
<1> DEFINE i == Index(head)
<1>1. /\ c_head = head /\ head \in Nat /\ head < tail /\ i \in Slots
      /\ engaged' = [engaged EXCEPT ![i] = FALSE]
      /\ c_pc = "clear" /\ c_pc' = "advance"
      /\ UNCHANGED <<head, tail, payload, p_pc, p_tail, p_count, c_value,
                     claimed, received>>
  BY IndexInRange DEF OrderedInv, TypeOK, ClaimInv, PopClear
<1>2. Writing' = Writing /\ \A q \in Writing : Value(q)' = Value(q)
  BY <1>1 DEF Writing, Value
<1>3. ASSUME NEW s \in Slots
      PROVE  engaged'[s] = (s # i /\ engaged[s])
  BY <1>1 DEF OrderedInv, TypeOK
<1>4. ~engaged'[i]
  BY <1>1 DEF OrderedInv, TypeOK
<1> HIDE DEF i
<1>5. \A q \in Writing : ~engaged'[Index(p_tail[q])]
  <2> SUFFICES ASSUME NEW q \in Writing
               PROVE  ~engaged'[Index(p_tail[q])]
    OBVIOUS
  <2>1. Index(p_tail[q]) \in Slots
    BY IndexInRange DEF OrderedInv, TypeOK, Writing
  <2>2. ~engaged[Index(p_tail[q])]
    BY DEF OrderedInv, SlotInv
  <2> QED
    BY <1>3, <2>1, <2>2
<1>6. ASSUME NEW k \in head..(tail - 1), engaged'[Index(k)]
      PROVE  payload[Index(k)] = claimed[k + 1]
  <2>1. Index(k) \in Slots
    BY <1>1, IndexInRange
  <2>2. engaged[Index(k)]
    BY <1>3, <1>6, <2>1
  <2> QED
    BY <2>2 DEF OrderedInv, SlotInv
<1>7. ASSUME NEW k \in tail..(head + Capacity - 1)
      PROVE  ~engaged'[Index(k)]
  <2>1. Index(k) \in Slots
    BY <1>1, IndexInRange DEF OrderedInv, TypeOK
  <2>2. ~engaged[Index(k)]
    BY DEF OrderedInv, SlotInv
  <2> QED
    BY <1>3, <2>1, <2>2
<1>8. ~engaged'[Index(head)]
  BY <1>4 DEF i
<1> QED
  BY <1>1, <1>2, <1>5, <1>6, <1>7, <1>8 DEF OrderedInv, SlotInv

\* Advancing the head frees the slot that was just emptied.
LEMMA PopAdvanceSlot ==
    ASSUME OrderedInv, PopAdvance
    PROVE  SlotInv'
<1>1. /\ c_head = head /\ head \in Nat /\ head < tail
      /\ head' = head + 1
      /\ c_pc = "advance" /\ c_pc' = "idle"
      /\ UNCHANGED <<tail, engaged, payload, p_pc, p_tail, p_count, claimed>>
  BY DEF OrderedInv, TypeOK, ClaimInv, PopAdvance
<1>2. Writing' = Writing /\ \A q \in Writing : Value(q)' = Value(q)
  BY <1>1 DEF Writing, Value
<1>3. \A q \in Writing : head + 1 <= p_tail[q]
  BY <1>1 DEF OrderedInv, TypeOK, SlotInv, Writing
<1>4. ASSUME NEW k \in tail..(head + 1 + Capacity - 1)
      PROVE  ~engaged[Index(k)]
  <2>1. CASE k = head + Capacity
    <3>1. Index(k) = Index(head)
      BY <1>1, <2>1, CapacityAssumption, RemainderPeriodic DEF Index
    <3> QED
      BY <1>1, <3>1 DEF OrderedInv, SlotInv
  <2>2. CASE k # head + Capacity
    <3>1. k \in tail..(head + Capacity - 1)
      BY <1>1, <2>2, CapacityAssumption DEF OrderedInv, TypeOK
    <3> QED
      BY <3>1 DEF OrderedInv, SlotInv
  <2> QED
    BY <2>1, <2>2
<1>5. ASSUME NEW k \in 1..Len(received')
      PROVE  received'[k] = claimed[k]
  <2>1. /\ received \in Seq(Values) /\ c_value \in Values
        /\ Len(received) = head /\ received' = Append(received, c_value)
        /\ c_value = claimed[head + 1]
    BY DEF OrderedInv, TypeOK, ClaimInv, SlotInv, PopAdvance
  <2>2. k \in 1..(head + 1)
    BY <2>1
  <2>3. CASE k = head + 1
    BY <2>1, <2>3
  <2>4. CASE k # head + 1
    <3>1. k \in 1..Len(received)
      BY <1>1, <2>1, <2>2, <2>4
    <3>2. received[k] = claimed[k]
      BY <3>1 DEF OrderedInv, SlotInv
    <3> QED
      BY <2>1, <3>1, <3>2
  <2> QED
    BY <2>3, <2>4
<1>6. \A k \in (head + 1)..(tail - 1) :
         engaged[Index(k)] => payload[Index(k)] = claimed[k + 1]
  BY <1>1 DEF OrderedInv, TypeOK, SlotInv
<1> QED
  BY <1>1, <1>2, <1>3, <1>4, <1>5, <1>6 DEF OrderedInv, SlotInv

\* With the payload stored before the flag, every step keeps the invariant.
LEMMA NextSlot ==
    ASSUME OrderedInv, [Next]_vars, write_order = "payload_first"
    PROVE  SlotInv'
<1>1. CASE UNCHANGED vars
  BY <1>1 DEF vars, consumer, OrderedInv, SlotInv, Writing, Value
<1> QED
  BY <1>1, PushLoadSlot, CasSlot, WriteFirstSlot, WriteSecondSlot, PopLookSlot,
     PopClearSlot, PopAdvanceSlot DEF Next, PushStep, PopStep

\* In a build that stores the payload of a slot before its flag, as GCC does
\* for MpscQueue<int>, the claims, the owners and the slots are as SlotInv says;
\* in any other the claims still are as ClaimInv says.
THEOREM QueueInvariant == Spec => []IndInv
<1>1. Init => IndInv
  <2> SUFFICES ASSUME Init
               PROVE  IndInv
    OBVIOUS
  <2>1. TypeOK /\ ClaimInv /\ SlotInv
    BY InitBase, InitSlot
  <2>2. write_order \in WriteOrders
    BY DEF Init
  <2> QED
    BY <2>1, <2>2 DEF IndInv
<1>2. IndInv /\ [Next]_vars => IndInv'
  <2> SUFFICES ASSUME IndInv, [Next]_vars
               PROVE  IndInv'
    OBVIOUS
  <2>1. TypeOK' /\ ClaimInv'
    BY NextBase DEF IndInv
  <2>2. write_order' = write_order
    BY DEF Next, vars
  <2>3. ASSUME write_order = "payload_first"
        PROVE  SlotInv'
    BY <2>3, NextSlot DEF IndInv, OrderedInv
  <2> QED
    BY <2>1, <2>2, <2>3 DEF IndInv
<1> QED
  BY <1>1, <1>2, PTL DEF Spec

\* Then try_pop returns the values in the order of their claims, each once and
\* none before it is written.
THEOREM QueueReceivedInOrder == Spec => []ReceivedInOrder
<1>1. IndInv => ReceivedInOrder
  BY DEF IndInv, TypeOK, ClaimInv, SlotInv, ReceivedInOrder
<1> QED
  BY <1>1, QueueInvariant, PTL

\* And no slot is ever written by two threads, or written while it is emptied.
THEOREM QueueOneOwnerPerSlot == Spec => []OneOwnerPerSlot
<1>1. IndInv => OneOwnerPerSlot
  <2> SUFFICES ASSUME IndInv, write_order = "payload_first"
               PROVE  /\ \A p, q \in Writing :
                            p # q => Index(p_tail[p]) # Index(p_tail[q])
                      /\ c_pc \in {"take", "clear", "advance"} =>
                            \A p \in Writing : Index(p_tail[p]) # Index(c_head)
    BY DEF OneOwnerPerSlot
  <2>0. OrderedInv
    BY DEF IndInv, OrderedInv
  <2>1. \A p \in Writing :
           p_tail[p] \in Nat /\ head <= p_tail[p] /\ p_tail[p] < head + Capacity
    <3>1. \A p \in Writing :
             p_tail[p] \in Nat /\ head <= p_tail[p] /\ p_tail[p] < tail
      BY <2>0 DEF OrderedInv, TypeOK, SlotInv, Writing
    <3>2. head \in Nat /\ tail \in Nat /\ tail <= head + Capacity
      BY <2>0 DEF OrderedInv, TypeOK, ClaimInv
    <3> QED
      BY <3>1, <3>2, CapacityAssumption
  <2>2. \A p, q \in Writing : p # q => Index(p_tail[p]) # Index(p_tail[q])
    <3>1. \A p, q \in Writing : p # q => p_tail[p] # p_tail[q]
      BY <2>0 DEF OrderedInv, SlotInv
    <3> QED
      BY <2>0, <2>1, <3>1, InUseDiffer
  <2>3. ASSUME c_pc \in {"take", "clear", "advance"}, NEW p \in Writing
        PROVE  Index(p_tail[p]) # Index(c_head)
    <3>1. c_head = head /\ head \in Nat /\ head < head + Capacity /\ p_tail[p] # head
      BY <2>0, <2>3, CapacityAssumption DEF OrderedInv, TypeOK, ClaimInv, SlotInv
    <3> QED
      BY <2>0, <2>1, <3>1, InUseDiffer
  <2> QED
    BY <2>2, <2>3
<1> QED
  BY <1>1, QueueInvariant, PTL
=============================================================================
