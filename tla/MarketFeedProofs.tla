-------------------------- MODULE MarketFeedProofs --------------------------
(***************************************************************************)
(* The safety of MarketFeed for every batch length, ring capacity at least *)
(* as large, and number of messages and foreign datagrams.                 *)
(***************************************************************************)
EXTENDS MarketFeed, FiniteSetTheorems, SequenceTheorems, TLAPS

-----------------------------------------------------------------------------
(***************************************************************************)
(* Arrivals.                                                               *)
(***************************************************************************)

\* std::min of two lengths.
LEMMA MinOfTwo ==
    ASSUME NEW a \in Int, NEW b \in Int
    PROVE  /\ Min({a, b}) \in {a, b}
           /\ Min({a, b}) <= a
           /\ Min({a, b}) <= b
<1>1. \E x \in {a, b} : \A y \in {a, b} : x =< y
  <2>1. CASE a <= b
    BY <2>1
  <2>2. CASE b <= a
    BY <2>2
  <2> QED
    BY <2>1, <2>2
<1> QED
  BY <1>1 DEF Min

\* std::max of two depths.
LEMMA MaxOfTwo ==
    ASSUME NEW a \in Nat, NEW b \in Nat
    PROVE  Max({a, b}) \in Nat
<1>1. \E x \in {a, b} : \A y \in {a, b} : x >= y
  <2>1. CASE a >= b
    BY <2>1
  <2>2. CASE b >= a
    BY <2>2
  <2> QED
    BY <2>1, <2>2
<1> QED
  BY <1>1 DEF Max

\* The lengths of the queues are numbers.
LEMMA Lengths ==
    ASSUME TypeOK
    PROVE  /\ Len(reorder_q) \in Nat
           /\ Len(socket) \in Nat
           /\ Len(arrived) \in Nat
           /\ Len(ring) \in Nat
           /\ Len(handled) \in Nat
  BY LenProperties DEF TypeOK

\* The program starts with nothing sent and nothing counted.
LEMMA InitIndInv == Init => IndInv
<1> SUFFICES ASSUME Init PROVE IndInv
  OBVIOUS
<1>1. TypeOK
  <2>1. /\ reorder_q \in Seq(Nat) /\ socket \in Seq(Datagrams)
        /\ arrived \in Seq(Datagrams) /\ handled \in Seq(Datagrams)
        /\ ring \in Seq(1..MaxPackets)
    BY EmptySeq, Zenon DEF Init
  <2>2. feedback \in Feedbacks
    BY DEF Init, NewFeedback, Feedbacks
  <2>3. buffers \in [1..MaxPackets -> Datagrams]
    BY DEF Init, Datagrams, Foreign
  <2>4. cancel_flag \in {"none", "g_running"}
    BY CancelFlagsAssumption DEF Init
  <2>5. seq \in Nat /\ dropped_total \in Nat /\ sent_total \in Nat /\ foreign \in Nat
    BY DEF Init
  <2>6. /\ publishing \in BOOLEAN /\ g_running \in BOOLEAN /\ running \in BOOLEAN
        /\ status \in {"Completed", "Cancelled", "Stopped"}
        /\ sub_pc \in {"start", "loop", "recv", "pop", "done"}
        /\ observed \subseteq Nat
    BY Zenon DEF Init
  <2> QED
    BY <2>1, <2>2, <2>3, <2>4, <2>5, <2>6, Zenon DEF TypeOK
<1>2. /\ Len(handled) = 0 /\ Len(ring) = 0 /\ Len(socket) = 0 /\ Len(arrived) = 0
      /\ Len(reorder_q) = 0
  BY EmptySeq, Zenon DEF Init
<1>3. FlowInv
  BY <1>2 DEF Init, FlowInv
<1>4. UniqueInv
  BY <1>2 DEF Init, UniqueInv
<1>5. CountInv
  BY <1>2, FS_EmptySet DEF Init, CountInv, NewFeedback
<1> QED
  BY <1>1, <1>3, <1>4, <1>5 DEF IndInv

\* What the proofs use of t = Append(s, m).
Appended(s, t, m) ==
    /\ Len(t) = Len(s) + 1
    /\ \A i \in 1..Len(s) : t[i] = s[i]
    /\ t[Len(s) + 1] = m

\* Append does that.
LEMMA AppendAppended ==
    ASSUME NEW S, NEW s \in Seq(S), NEW m \in S
    PROVE  Appended(s, Append(s, m), m)
<1> DEFINE t == Append(s, m)
<1>1. Len(t) = Len(s) + 1
  BY AppendProperties, Zenon
<1>2. \A i \in 1..Len(s) : t[i] = s[i]
  BY AppendProperties
<1>3. t[Len(s) + 1] = m
  BY AppendProperties, Zenon
<1> QED
  BY <1>1, <1>2, <1>3, Zenon DEF Appended

\* A datagram that reaches the socket goes behind the ones already there.
LEMMA FlowGrows ==
    ASSUME IndInv, NEW m, Appended(socket, socket', m),
           Appended(arrived, arrived', m),
           UNCHANGED <<handled, ring, buffers, sub_pc>>
    PROVE  FlowInv'
<1>1. /\ Len(socket) \in Nat /\ Len(arrived) \in Nat
      /\ Len(ring) \in Nat /\ Len(handled) \in Nat
  BY Lengths DEF IndInv
<1>2. Len(handled) + Len(ring) + Len(socket) = Len(arrived)
  BY DEF IndInv, FlowInv
<1>4. /\ Len(socket') = Len(socket) + 1
      /\ \A i \in 1..Len(socket) : socket'[i] = socket[i]
      /\ socket'[Len(socket) + 1] = m
  BY DEF Appended
<1>5. /\ Len(arrived') = Len(arrived) + 1
      /\ \A i \in 1..Len(arrived) : arrived'[i] = arrived[i]
      /\ arrived'[Len(arrived) + 1] = m
  BY DEF Appended
<1>6. Len(handled') + Len(ring') + Len(socket') = Len(arrived')
  <2>1. Len(handled') = Len(handled) /\ Len(ring') = Len(ring)
    BY Zenon
  <2>2. Len(handled) + Len(ring) + (Len(socket) + 1) = Len(arrived) + 1
    BY <1>1, <1>2
  <2> QED
    BY <1>4, <1>5, <2>1, <2>2, Zenon
<1>7. ASSUME NEW i \in 1..Len(socket')
      PROVE  socket'[i] = arrived'[Len(handled) + Len(ring) + i]
  <2>0. i \in 1..(Len(socket) + 1)
    BY <1>4
  <2>1. CASE i <= Len(socket)
    <3>1. i \in 1..Len(socket) /\ Len(handled) + Len(ring) + i \in 1..Len(arrived)
      BY <1>1, <1>2, <2>0, <2>1
    <3>2. socket[i] = arrived[Len(handled) + Len(ring) + i]
      BY <3>1 DEF IndInv, FlowInv
    <3> QED
      BY <1>4, <1>5, <3>1, <3>2
  <2>2. CASE i > Len(socket)
    <3>1. i = Len(socket) + 1
      BY <1>1, <2>0, <2>2
    <3>2. Len(handled) + Len(ring) + (Len(socket) + 1) = Len(arrived) + 1
      BY <1>1, <1>2
    <3> QED
      BY <1>4, <1>5, <3>1, <3>2, Zenon
  <2> QED
    BY <1>1, <2>0, <2>1, <2>2
<1>8. ASSUME NEW i \in 1..Len(handled)
      PROVE  handled[i] = arrived'[i]
  <2>1. i \in 1..Len(arrived)
    BY <1>1, <1>2
  <2>2. handled[i] = arrived[i]
    BY DEF IndInv, FlowInv
  <2> QED
    BY <1>5, <2>1, <2>2
<1>9. ASSUME NEW i \in 1..Len(ring)
      PROVE  buffers[ring[i]] = arrived'[Len(handled) + i]
  <2>1. Len(handled) + i \in 1..Len(arrived)
    BY <1>1, <1>2
  <2>2. buffers[ring[i]] = arrived[Len(handled) + i]
    BY DEF IndInv, FlowInv
  <2> QED
    BY <1>5, <2>1, <2>2
<1>10. (ring # <<>> => sub_pc = "pop")'
  BY DEF IndInv, FlowInv
<1> QED
  BY <1>6, <1>7, <1>8, <1>9, <1>10 DEF FlowInv

\* The conditions on the publisher's queue under which no message is doubled,
\* whether or not a datagram arrives.
WaitingOK ==
    /\ seq' \in Nat /\ seq <= seq'
    /\ Len(reorder_q') \in Nat /\ Len(reorder_q') <= 1
    /\ \A j \in 1..Len(reorder_q') :
          /\ reorder_q'[j] \in Nat
          /\ 0 < reorder_q'[j] /\ reorder_q'[j] < seq'
          /\ \A i \in 1..Len(arrived) : arrived[i] # reorder_q'[j]

\* The queue changes and nothing arrives.
LEMMA UniqueKept ==
    ASSUME IndInv, WaitingOK, UNCHANGED arrived
    PROVE  UniqueInv'
<1>1. Len(arrived) \in Nat /\ seq \in Nat
  BY Lengths DEF IndInv, TypeOK
<1>2. ASSUME NEW i \in 1..Len(arrived)
      PROVE  arrived[i] \in Nat /\ arrived[i] < seq
  BY ElementOfSeq DEF IndInv, TypeOK, UniqueInv, Datagrams
<1>3. \A i \in 1..Len(arrived) : arrived[i] < seq'
  BY <1>1, <1>2 DEF WaitingOK
<1>4. 0 < seq'
  BY <1>1 DEF WaitingOK, IndInv, UniqueInv
<1>5. \A i, j \in 1..Len(arrived) :
         i # j /\ IsMarketData(arrived[i]) => arrived[i] # arrived[j]
  BY DEF IndInv, UniqueInv
<1> QED
  BY <1>3, <1>4, <1>5 DEF UniqueInv, WaitingOK, IsMarketData

\* A datagram arrives that is foreign or has neither arrived nor waits.
LEMMA UniqueGrows ==
    ASSUME IndInv, WaitingOK, NEW m \in Nat, Appended(arrived, arrived', m),
           m < seq', \A j \in 1..Len(reorder_q') : m # reorder_q'[j],
           m = Foreign \/ \A i \in 1..Len(arrived) : arrived[i] # m
    PROVE  UniqueInv'
<1>1. Len(arrived) \in Nat /\ seq \in Nat
  BY Lengths DEF IndInv, TypeOK
<1>2. ASSUME NEW i \in 1..Len(arrived)
      PROVE  arrived[i] \in Nat /\ arrived[i] < seq
  BY ElementOfSeq DEF IndInv, TypeOK, UniqueInv, Datagrams
<1>4. /\ Len(arrived') = Len(arrived) + 1
      /\ \A i \in 1..Len(arrived) : arrived'[i] = arrived[i]
      /\ arrived'[Len(arrived) + 1] = m
  BY DEF Appended
<1>5. ASSUME NEW i \in 1..Len(arrived')
      PROVE  i \in 1..Len(arrived) \/ i = Len(arrived) + 1
  BY <1>1, <1>4
<1>6. \A i \in 1..Len(arrived') : arrived'[i] < seq'
  BY <1>1, <1>2, <1>4, <1>5 DEF WaitingOK
<1>7. 0 < seq'
  BY <1>1 DEF WaitingOK, IndInv, UniqueInv
<1>8. \A i \in 1..Len(arrived') : \A j \in 1..Len(reorder_q') :
         arrived'[i] # reorder_q'[j]
  BY <1>4, <1>5 DEF WaitingOK
<1>9. ASSUME NEW i \in 1..Len(arrived'), NEW j \in 1..Len(arrived'),
             i # j, IsMarketData(arrived'[i])
      PROVE  arrived'[i] # arrived'[j]
  <2>1. CASE i \in 1..Len(arrived) /\ j \in 1..Len(arrived)
    BY <1>4, <1>9, <2>1 DEF IndInv, UniqueInv
  <2>2. CASE i \in 1..Len(arrived) /\ j = Len(arrived) + 1
    BY <1>4, <1>9, <2>2 DEF IsMarketData
  <2>3. CASE i = Len(arrived) + 1 /\ j \in 1..Len(arrived)
    BY <1>4, <1>9, <2>3 DEF IsMarketData
  <2> QED
    BY <1>5, <1>9, <2>1, <2>2, <2>3
<1> QED
  BY <1>6, <1>7, <1>8, <1>9 DEF UniqueInv, WaitingOK, IsMarketData

\* What is on the queue after a message was added: that message, and the one
\* that waited before it, in either order.
LEMMA QueuedShape ==
    ASSUME IndInv, NEW q \in Queued(seq)
    PROVE  /\ q \in Seq(Nat)
           /\ \/ Len(q) = 1 /\ q[1] = seq
              \/ /\ Len(reorder_q) = 1 /\ Len(q) = 2
                 /\ \/ q[1] = reorder_q[1] /\ q[2] = seq
                    \/ q[1] = seq /\ q[2] = reorder_q[1]
<1> DEFINE p == Append(reorder_q, seq)
<1>1. Len(reorder_q) \in Nat /\ Len(reorder_q) <= 1
  BY Lengths DEF IndInv, UniqueInv
<1>2. Len(reorder_q) = 0 \/ Len(reorder_q) = 1
  <2>1. \A n \in Nat : n <= 1 => n = 0 \/ n = 1
    OBVIOUS
  <2> QED
    BY <1>1, <2>1, Zenon
<1>3. reorder_q \in Seq(Nat) /\ seq \in Nat
  BY DEF IndInv, TypeOK
<1>4. p \in Seq(Nat) /\ Appended(reorder_q, p, seq)
  BY <1>3, AppendProperties, AppendAppended, Zenon
<1>5. q = p \/ (Len(p) >= 2 /\ q = [p EXCEPT ![Len(p) - 1] = p[Len(p)],
                                             ![Len(p)] = p[Len(p) - 1]])
  BY Zenon DEF Queued, p
<1> HIDE DEF p
<1>6. /\ Len(p) = Len(reorder_q) + 1
      /\ \A i \in 1..Len(reorder_q) : p[i] = reorder_q[i]
      /\ p[Len(reorder_q) + 1] = seq
  BY <1>4, Zenon DEF Appended
<1>7. CASE q = p
  <2>1. CASE Len(reorder_q) = 0
    <3>1. Len(p) = 1 /\ p[1] = seq
      BY <1>6, <2>1
    <3> QED
      BY <1>4, <1>7, <3>1, Zenon
  <2>2. CASE Len(reorder_q) = 1
    <3>1. Len(p) = 2 /\ p[1] = reorder_q[1] /\ p[2] = seq
      BY <1>6, <2>2
    <3> QED
      BY <1>4, <1>7, <2>2, <3>1, Zenon
  <2> QED
    BY <1>2, <2>1, <2>2
<1>8. CASE q # p
  <2>1. Len(reorder_q) = 1
    BY <1>2, <1>5, <1>6, <1>8
  <2>2. Len(p) = 2 /\ p[1] = reorder_q[1] /\ p[2] = seq
    BY <1>6, <2>1
  <2>3. q = [p EXCEPT ![1] = p[2], ![2] = p[1]]
    BY <1>5, <1>8, <2>2
  <2> DEFINE r == [p EXCEPT ![1] = p[2]]
  <2>4. p[1] \in Nat /\ p[2] \in Nat
    BY <1>3, <2>1, <2>2, ElementOfSeq, SMTT(30)
  <2>5. r \in Seq(Nat) /\ Len(r) = 2
    BY <1>4, <2>2, <2>4, ExceptSeq
  <2>6. [r EXCEPT ![2] = p[1]] \in Seq(Nat) /\ Len([r EXCEPT ![2] = p[1]]) = 2
    <3> HIDE DEF r
    <3>1. 2 \in 1..Len(r)
      BY <2>5
    <3>2. \A e \in Nat : [r EXCEPT ![2] = e] \in Seq(Nat)
      BY <2>5, <3>1, ExceptSeq
    <3>3. \A e \in Nat : Len([r EXCEPT ![2] = e]) = Len(r)
      BY <2>5, <3>1, ExceptSeq
    <3> QED
      BY <2>4, <2>5, <3>2, <3>3, Zenon
  <2>7. p \in [1..2 -> Nat]
    BY <1>4, <2>2, LenProperties
  <2>8. q = [r EXCEPT ![2] = p[1]] /\ q[1] = p[2] /\ q[2] = p[1]
    BY <2>3, <2>7
  <2> QED
    BY <2>1, <2>2, <2>6, <2>8, Zenon
<1> QED
  BY <1>7, <1>8

\* A concatenation with one element appends it.
LEMMA ConcatAppended ==
    ASSUME NEW S, NEW s \in Seq(S), NEW t \in Seq(S), Len(t) = 1
    PROVE  s \o t \in Seq(S) /\ Appended(s, s \o t, t[1])
<1> DEFINE c == s \o t
<1>1. Len(s) \in Nat
  BY LenProperties
<1>2. c \in Seq(S) /\ Len(c) = Len(s) + 1
  BY ConcatProperties, SMTT(30)
<1>3. c[Len(s) + 1] = t[1]
  <2>1. Len(s) + 1 \in 1..(Len(s) + Len(t)) /\ ~(Len(s) + 1 <= Len(s))
    BY <1>1
  <2>2. c[Len(s) + 1] = t[Len(s) + 1 - Len(s)]
    BY <2>1, ConcatProperties
  <2>3. Len(s) + 1 - Len(s) = 1
    BY <1>1
  <2> QED
    BY <2>2, <2>3, Zenon
<1>4. ASSUME NEW i \in 1..Len(s)
      PROVE  c[i] = s[i]
  <2>1. i \in 1..(Len(s) + Len(t)) /\ i <= Len(s)
    BY <1>1
  <2> QED
    BY <2>1, ConcatProperties
<1> HIDE DEF c
<1>5. c \in Seq(S) /\ Appended(s, c, t[1])
  BY <1>2, <1>3, <1>4, Zenon DEF Appended
<1> QED
  BY <1>5, Zenon DEF c

\* The counters do not depend on the publisher and the network.
LEMMA CountKept ==
    ASSUME IndInv, UNCHANGED <<feedback, handled, observed>>
    PROVE  CountInv'
  BY DEF IndInv, CountInv

\* Nor does the flow, when nothing arrives.
LEMMA FlowKept ==
    ASSUME IndInv, UNCHANGED <<handled, ring, socket, arrived, buffers, sub_pc>>
    PROVE  FlowInv'
  BY DEF IndInv, FlowInv

\* The messages that have arrived or wait are the same.
LEMMA SameMessages ==
    ASSUME IndInv, UNCHANGED <<seq, reorder_q, arrived>>
    PROVE  UniqueInv'
  BY DEF IndInv, UniqueInv

-----------------------------------------------------------------------------
(***************************************************************************)
(* The publisher and the network.                                          *)
(***************************************************************************)

\* A message is numbered and dropped.
LEMMA PublishDroppedStep ==
    ASSUME IndInv, PublishDropped
    PROVE  IndInv'
<1>1. /\ seq' = seq + 1 /\ dropped_total' = dropped_total + 1
      /\ UNCHANGED <<reorder_q, sent_total, publishing, foreign, socket, arrived,
                     g_running, cancel_flag, running, status, sub_pc, buffers,
                     ring, feedback, handled, observed>>
  BY Zenon DEF PublishDropped, subscriber
<1>2. seq \in Nat /\ dropped_total \in Nat
  BY DEF IndInv, TypeOK
<1>3. seq' \in Nat /\ dropped_total' \in Nat
  BY <1>1, <1>2
<1>4. TypeOK'
  BY <1>1, <1>3, Zenon DEF IndInv, TypeOK
<1>5. WaitingOK
  <2>1. Len(reorder_q') \in Nat /\ Len(reorder_q') <= 1
    BY <1>1, Lengths, Zenon DEF IndInv, UniqueInv
  <2>2. ASSUME NEW j \in 1..Len(reorder_q')
        PROVE  /\ reorder_q'[j] \in Nat
               /\ 0 < reorder_q'[j] /\ reorder_q'[j] < seq'
               /\ \A i \in 1..Len(arrived) : arrived[i] # reorder_q'[j]
    <3>1. reorder_q' = reorder_q
      BY <1>1
    <3>2. reorder_q[j] \in Nat
      BY <3>1, ElementOfSeq DEF IndInv, TypeOK
    <3>3. /\ 0 < reorder_q[j] /\ reorder_q[j] < seq
          /\ \A i \in 1..Len(arrived) : arrived[i] # reorder_q[j]
      BY <3>1 DEF IndInv, UniqueInv
    <3>4. reorder_q[j] < seq'
      BY <1>1, <1>2, <3>2, <3>3
    <3> QED
      BY <3>1, <3>2, <3>3, <3>4, Zenon
  <2> QED
    BY <1>1, <1>2, <2>1, <2>2 DEF WaitingOK
<1>6. UniqueInv' /\ FlowInv' /\ CountInv'
  BY <1>1, <1>5, UniqueKept, FlowKept, CountKept, Zenon
<1> QED
  BY <1>4, <1>6 DEF IndInv

\* One message waits: the new one, or the one that waited before.
LEMMA NewWaiting ==
    ASSUME IndInv, NEW w,
           w = seq \/ (Len(reorder_q) = 1 /\ w = reorder_q[1]),
           seq' = seq + 1, reorder_q' \in Seq(Nat), Len(reorder_q') = 1,
           reorder_q'[1] = w
    PROVE  WaitingOK
<1>1. seq \in Nat /\ 0 < seq
  BY DEF IndInv, TypeOK, UniqueInv
<1>2. w \in Nat /\ 0 < w /\ w <= seq /\ \A i \in 1..Len(arrived) : arrived[i] # w
  <2>1. CASE w = seq
    <3>1. ASSUME NEW i \in 1..Len(arrived)
          PROVE  arrived[i] # seq
      <4>1. arrived[i] \in Nat /\ arrived[i] < seq
        BY ElementOfSeq DEF IndInv, TypeOK, UniqueInv, Datagrams
      <4> QED
        BY <1>1, <4>1
    <3> QED
      BY <1>1, <2>1, <3>1
  <2>2. CASE Len(reorder_q) = 1 /\ w = reorder_q[1]
    <3>1. 1 \in 1..Len(reorder_q)
      BY <2>2
    <3>2. w \in Nat
      BY <2>2, <3>1, ElementOfSeq DEF IndInv, TypeOK
    <3>3. /\ 0 < w /\ w < seq
          /\ \A i \in 1..Len(arrived) : arrived[i] # w
      BY <2>2, <3>1 DEF IndInv, UniqueInv
    <3> QED
      BY <1>1, <3>2, <3>3
  <2> QED
    BY <2>1, <2>2
<1>3. seq' \in Nat /\ seq <= seq' /\ w < seq'
  BY <1>1, <1>2
<1>4. Len(reorder_q') \in Nat /\ Len(reorder_q') <= 1
  OBVIOUS
<1>5. ASSUME NEW j \in 1..Len(reorder_q') PROVE reorder_q'[j] = w
  <2>1. j = 1
    OBVIOUS
  <2> QED
    BY <2>1
<1> QED
  BY <1>2, <1>3, <1>4, <1>5, Zenon DEF WaitingOK

\* A round of the publisher's loop that sends what the queue holds but the last.
LEMMA PublishStep ==
    ASSUME IndInv, NEW q \in Queued(seq), Publish(q)
    PROVE  IndInv'
<1> DEFINE out == SubSeq(q, 1, Len(q) - 1)
           w == q[Len(q)]
<1>1. /\ seq' = seq + 1 /\ reorder_q' = <<w>>
      /\ sent_total' = sent_total + Len(out)
      /\ \/ socket' = socket \o out /\ arrived' = arrived \o out
         \/ out # <<>> /\ UNCHANGED <<socket, arrived>>
      /\ UNCHANGED <<dropped_total, publishing, foreign, g_running, cancel_flag,
                     running, status, sub_pc, buffers, ring, feedback, handled,
                     observed>>
  BY Zenon DEF Publish, subscriber
<1>2. /\ q \in Seq(Nat)
      /\ \/ Len(q) = 1 /\ q[1] = seq
         \/ /\ Len(reorder_q) = 1 /\ Len(q) = 2
            /\ \/ q[1] = reorder_q[1] /\ q[2] = seq
               \/ q[1] = seq /\ q[2] = reorder_q[1]
  BY QueuedShape
<1>3. /\ seq \in Nat /\ sent_total \in Nat /\ socket \in Seq(Nat)
      /\ arrived \in Seq(Nat)
  BY DEF IndInv, TypeOK, Datagrams
<1>4. w \in Nat
  <2>1. Len(q) \in 1..Len(q)
    BY <1>2
  <2> QED
    BY <1>2, <2>1, ElementOfSeq, Zenon
<1>5. w = seq \/ (Len(reorder_q) = 1 /\ w = reorder_q[1])
  BY <1>2
<1> HIDE DEF out, w
<1>6. reorder_q' \in Seq(Nat) /\ Len(reorder_q') = 1 /\ reorder_q'[1] = w
  BY <1>1, <1>4
<1>7. WaitingOK
  BY <1>1, <1>5, <1>6, NewWaiting
<1>8. seq' \in Nat
  BY <1>1, <1>3
<1>9. ASSUME sent_total' \in Nat, socket' \in Seq(Nat), arrived' \in Seq(Nat)
      PROVE  TypeOK'
  BY <1>1, <1>6, <1>8, <1>9, Zenon DEF IndInv, TypeOK, Datagrams
<1>10. CASE Len(q) = 1
  <2>1. out = <<>>
    BY <1>2, <1>10, SubSeqEmpty DEF out
  <2>2. socket' = socket /\ arrived' = arrived
    BY <1>1, <1>3, <2>1, ConcatEmptySeq, Zenon
  <2>3. Len(out) = 0
    BY <2>1, EmptySeq, Zenon
  <2>4. TypeOK'
    BY <1>1, <1>3, <1>9, <2>2, <2>3
  <2>5. UniqueInv' /\ FlowInv' /\ CountInv'
    BY <1>1, <1>7, <2>2, UniqueKept, FlowKept, CountKept, Zenon
  <2> QED
    BY <2>4, <2>5 DEF IndInv
<1>11. CASE Len(q) = 2
  <2>1. out \in Seq(Nat) /\ Len(out) = 1 /\ out[1] = q[1]
    <3>1. \A i \in 1..1 : q[i] \in Nat
      BY <1>2, <1>11, ElementOfSeq
    <3> QED
      BY <1>11, <3>1, SubSeqProperties DEF out
  <2>2. sent_total' \in Nat
    BY <1>1, <1>3, <2>1
  <2>3. CASE UNCHANGED <<socket, arrived>>
    <3>1. TypeOK'
      BY <1>3, <1>9, <2>2, <2>3
    <3>2. UniqueInv' /\ FlowInv' /\ CountInv'
      BY <1>1, <1>7, <2>3, UniqueKept, FlowKept, CountKept, Zenon
    <3> QED
      BY <3>1, <3>2 DEF IndInv
  <2>4. CASE socket' = socket \o out /\ arrived' = arrived \o out
    <3>1. socket' \in Seq(Nat) /\ Appended(socket, socket', q[1])
      BY <1>3, <2>1, <2>4, ConcatAppended, Zenon
    <3>2. arrived' \in Seq(Nat) /\ Appended(arrived, arrived', q[1])
      BY <1>3, <2>1, <2>4, ConcatAppended, Zenon
    <3>3. TypeOK'
      BY <1>9, <2>2, <3>1, <3>2
    <3>4. FlowInv' /\ CountInv'
      BY <1>1, <3>1, <3>2, FlowGrows, CountKept, Zenon
    <3>5. q[1] \in Nat /\ q[1] < seq' /\ q[1] # w
          /\ \A i \in 1..Len(arrived) : arrived[i] # q[1]
      <4>1. q[1] \in Nat
        BY <1>2, <1>11, ElementOfSeq
      <4>2. w = q[2]
        BY <1>11 DEF w
      <4>3. reorder_q[1] < seq /\ \A i \in 1..Len(arrived) : arrived[i] # reorder_q[1]
        <5>1. 1 \in 1..Len(reorder_q)
          BY <1>2, <1>11
        <5> QED
          BY <5>1 DEF IndInv, UniqueInv
      <4>4. ASSUME NEW i \in 1..Len(arrived)
            PROVE  arrived[i] # seq
        <5>1. arrived[i] \in Nat /\ arrived[i] < seq
          BY <1>3, ElementOfSeq DEF IndInv, UniqueInv
        <5> QED
          BY <1>3, <5>1
      <4>5. q[1] <= seq /\ q[1] # q[2] /\ (q[1] = seq \/ q[1] = reorder_q[1])
        BY <1>2, <1>3, <1>11, <4>1, <4>3
      <4>6. q[1] < seq'
        BY <1>1, <1>3, <4>1, <4>5
      <4> QED
        BY <4>1, <4>2, <4>3, <4>4, <4>5, <4>6, Zenon
    <3>6. \A j \in 1..Len(reorder_q') : q[1] # reorder_q'[j]
      BY <1>6, <3>5
    <3>7. UniqueInv'
      BY <1>7, <3>2, <3>5, <3>6, UniqueGrows, Zenon
    <3> QED
      BY <3>3, <3>4, <3>7 DEF IndInv
  <2> QED
    BY <1>1, <2>3, <2>4, Zenon
<1> QED
  BY <1>2, <1>10, <1>11, Zenon

\* A round that fails to send: the message it took off the queue is lost.
LEMMA PublishFailsStep ==
    ASSUME IndInv, NEW q \in Queued(seq), PublishFails(q)
    PROVE  IndInv'
<1>1. /\ seq' = seq + 1 /\ reorder_q' = Tail(q) /\ publishing' = FALSE
      /\ Len(q) > 1
      /\ UNCHANGED <<dropped_total, sent_total, foreign, socket, arrived,
                     g_running, cancel_flag, running, status, sub_pc, buffers,
                     ring, feedback, handled, observed>>
  BY Zenon DEF PublishFails, subscriber
<1>2. /\ q \in Seq(Nat)
      /\ Len(reorder_q) = 1 /\ Len(q) = 2
      /\ q[2] = seq \/ q[2] = reorder_q[1]
  BY <1>1, QueuedShape
<1>3. q # <<>>
  BY <1>2, EmptySeq
<1>4. reorder_q' \in Seq(Nat) /\ Len(reorder_q') = 1 /\ reorder_q'[1] = q[2]
  <2>1. /\ Tail(q) \in Seq(Nat) /\ Len(Tail(q)) = Len(q) - 1
        /\ \A i \in 1..Len(Tail(q)) : Tail(q)[i] = q[i + 1]
    BY <1>2, <1>3, HeadTailProperties
  <2> DEFINE t == Tail(q)
  <2>2. t \in Seq(Nat) /\ Len(t) = 1
    BY <1>2, <2>1
  <2>3. \A i \in 1..Len(t) : t[i] = q[i + 1]
    BY <2>1
  <2> HIDE DEF t
  <2>4. t[1] = q[2]
    BY <2>2, <2>3
  <2> QED
    BY <1>1, <2>2, <2>4, Zenon DEF t
<1>5. WaitingOK
  BY <1>1, <1>2, <1>4, NewWaiting, Zenon
<1>6. seq' \in Nat
  BY <1>5 DEF WaitingOK
<1>7. TypeOK'
  BY <1>1, <1>4, <1>6, Zenon DEF IndInv, TypeOK
<1>8. UniqueInv' /\ FlowInv' /\ CountInv'
  BY <1>1, <1>5, UniqueKept, FlowKept, CountKept, Zenon
<1> QED
  BY <1>7, <1>8 DEF IndInv

\* A datagram of another sender.
LEMMA ForeignArrivesStep ==
    ASSUME IndInv, ForeignArrives
    PROVE  IndInv'
<1>1. /\ foreign' = foreign + 1
      /\ socket' = Append(socket, Foreign) /\ arrived' = Append(arrived, Foreign)
      /\ UNCHANGED <<seq, reorder_q, dropped_total, sent_total, publishing,
                     g_running, cancel_flag, running, status, sub_pc, buffers,
                     ring, feedback, handled, observed>>
  BY Zenon DEF ForeignArrives, subscriber, publisher
<1>2. Foreign \in Nat
  BY DEF Foreign
<1>3. socket \in Seq(Nat) /\ arrived \in Seq(Nat) /\ foreign \in Nat
  BY DEF IndInv, TypeOK, Datagrams
<1>4. socket' \in Seq(Nat) /\ Appended(socket, socket', Foreign)
  BY <1>1, <1>2, <1>3, AppendProperties, AppendAppended, Zenon
<1>5. arrived' \in Seq(Nat) /\ Appended(arrived, arrived', Foreign)
  BY <1>1, <1>2, <1>3, AppendProperties, AppendAppended, Zenon
<1>6. foreign' \in Nat
  <2>1. foreign' = foreign + 1
    BY <1>1, Zenon
  <2> QED
    BY <1>3, <2>1
<1>7. TypeOK'
  BY <1>1, <1>4, <1>5, <1>6, Zenon DEF IndInv, TypeOK, Datagrams
<1>8. FlowInv' /\ CountInv'
  BY <1>1, <1>4, <1>5, FlowGrows, CountKept, Zenon
<1>9. /\ \A j \in 1..Len(reorder_q) :
            /\ reorder_q[j] \in Nat /\ 0 < reorder_q[j] /\ reorder_q[j] < seq
            /\ \A i \in 1..Len(arrived) : arrived[i] # reorder_q[j]
      /\ seq \in Nat /\ 0 < seq
  BY ElementOfSeq DEF IndInv, TypeOK, UniqueInv
<1>10. seq' = seq /\ reorder_q' = reorder_q
  BY <1>1, Zenon
<1>11. Len(reorder_q) \in Nat /\ Len(reorder_q) <= 1
  BY Lengths, Zenon DEF IndInv, UniqueInv
<1>12. seq <= seq' /\ Foreign < seq'
  BY <1>9, <1>10 DEF Foreign
<1>13. WaitingOK
  BY <1>9, <1>10, <1>11, <1>12, Zenon DEF WaitingOK
<1>14. \A j \in 1..Len(reorder_q') : Foreign # reorder_q'[j]
  BY <1>9, <1>10 DEF Foreign
<1>15. UniqueInv'
  BY <1>2, <1>5, <1>12, <1>13, <1>14, UniqueGrows, Zenon
<1> QED
  BY <1>7, <1>8, <1>15 DEF IndInv

-----------------------------------------------------------------------------
(***************************************************************************)
(* The subscriber.                                                         *)
(***************************************************************************)

\* The steps that only change what the subscriber does next: each leaves its
\* place with the ring empty, for it is filled on the way to "pop" only.
LEMMA ControlSteps ==
    ASSUME IndInv,
           Signal \/ Start \/ PollerEnds \/ PollFunc \/ RecvFails \/ PollReturns
    PROVE  IndInv'
<1>1. /\ UNCHANGED <<seq, reorder_q, dropped_total, sent_total, publishing,
                     foreign, socket, arrived, cancel_flag, buffers, ring,
                     feedback, handled, observed>>
      /\ ring = <<>> \/ sub_pc' = sub_pc
  <2>1. UNCHANGED <<seq, reorder_q, dropped_total, sent_total, publishing,
                    foreign, socket, arrived, cancel_flag, buffers, ring,
                    feedback, handled, observed>>
    BY Zenon DEF Signal, Start, PollerEnds, PollFunc, RecvFails, PollReturns,
                 publisher, subscriber
  <2>2. ring = <<>> \/ sub_pc' = sub_pc
    <3>1. CASE sub_pc = "pop"
      BY <3>1 DEF Signal, Start, PollerEnds, PollFunc, RecvFails, PollReturns,
                  subscriber
    <3>2. CASE sub_pc # "pop"
      BY <3>2 DEF IndInv, FlowInv
    <3> QED
      BY <3>1, <3>2
  <2> QED
    BY <2>1, <2>2
<1>2. /\ g_running' \in BOOLEAN /\ running' \in BOOLEAN
      /\ status' \in {"Completed", "Cancelled", "Stopped"}
      /\ sub_pc' \in {"start", "loop", "recv", "pop", "done"}
  BY Zenon DEF IndInv, TypeOK, Signal, Start, PollerEnds, PollFunc, RecvFails,
               PollReturns, publisher, subscriber
<1>3. TypeOK'
  BY <1>1, <1>2, Zenon DEF IndInv, TypeOK
<1>4. FlowInv'
  <2>1. (ring # <<>> => sub_pc = "pop")'
    BY <1>1 DEF IndInv, FlowInv
  <2> QED
    BY <1>1, <2>1 DEF IndInv, FlowInv
<1>5. UniqueInv' /\ CountInv'
  BY <1>1, SameMessages, CountKept, Zenon
<1> QED
  BY <1>3, <1>4, <1>5 DEF IndInv

\* recv_batch: the batch fits the ring, which is empty, and no packet points to
\* a buffer that is written.
LEMMA RecvBatchStep ==
    ASSUME IndInv, RecvBatch
    PROVE  IndInv'
<1> DEFINE n == Received
<1>1. /\ sub_pc = "recv" /\ sub_pc' = "pop"
      /\ socket' = SubSeq(socket, n + 1, Len(socket))
      /\ buffers' = [i \in 1..MaxPackets |->
                       IF i <= n THEN socket[i] ELSE buffers[i]]
      /\ ring' = ring \o [i \in 1..Pushed |-> i]
      /\ UNCHANGED <<seq, reorder_q, dropped_total, sent_total, publishing,
                     foreign, arrived, g_running, cancel_flag, running, status,
                     feedback, handled, observed>>
  BY Zenon DEF RecvBatch, publisher
<1>2. /\ Len(socket) \in Nat /\ Len(arrived) \in Nat /\ Len(handled) \in Nat
      /\ MaxPackets \in Nat /\ RingCapacity \in Nat /\ MaxPackets <= RingCapacity
  BY Lengths, SizesAssumption DEF IndInv
<1>3. n \in Nat /\ n <= MaxPackets /\ n <= Len(socket)
  <2> DEFINE l == Len(socket)
  <2>1. l \in Nat
    BY <1>2
  <2>2. n = IF Cancelled THEN 0 ELSE Min({MaxPackets, l})
    BY DEF Received
  <2> HIDE DEF l, n
  <2>3. MaxPackets \in Int /\ l \in Int
    BY <1>2, <2>1
  <2>4. /\ Min({MaxPackets, l}) \in {MaxPackets, l}
        /\ Min({MaxPackets, l}) <= MaxPackets /\ Min({MaxPackets, l}) <= l
    BY <2>3, MinOfTwo, Zenon
  <2>5. n \in Nat /\ n <= MaxPackets /\ n <= l
    BY <1>2, <2>1, <2>2, <2>4
  <2> QED
    BY <2>5, Zenon DEF l
<1>4. ring = <<>> /\ Len(ring) = 0
  BY <1>1, EmptySeq DEF IndInv, FlowInv
<1>5. Pushed = n
  <2>1. RingCapacity - Len(ring) = RingCapacity
    BY <1>2, <1>4
  <2>2. Pushed = Min({n, RingCapacity})
    BY <2>1, Zenon DEF Pushed
  <2> HIDE DEF n
  <2>3. /\ Min({n, RingCapacity}) \in {n, RingCapacity}
        /\ Min({n, RingCapacity}) <= n /\ Min({n, RingCapacity}) <= RingCapacity
    BY <1>2, <1>3, MinOfTwo
  <2> QED
    BY <1>2, <1>3, <2>2, <2>3
<1> HIDE DEF n
<1> DEFINE r == [i \in 1..n |-> i]
<1>6. r \in Seq(1..MaxPackets) /\ Len(r) = n /\ \A i \in 1..n : r[i] = i
  <2>1. \A i \in 1..n : i \in 1..MaxPackets
    BY <1>2, <1>3
  <2>2. r \in Seq(1..MaxPackets)
    BY <1>3, <2>1
  <2> QED
    BY <1>3, <2>2
<1>7. ring' = r
  BY <1>1, <1>4, <1>5, <1>6, ConcatEmptySeq, Zenon
<1> HIDE DEF r
<1>8. socket \in Seq(Nat) /\ buffers \in [1..MaxPackets -> Nat]
  BY DEF IndInv, TypeOK, Datagrams
<1>9. /\ socket' \in Seq(Nat) /\ Len(socket') = Len(socket) - n
      /\ \A i \in 1..(Len(socket) - n) : socket'[i] = socket[n + i]
  <2> DEFINE l == Len(socket)
             t == SubSeq(socket, n + 1, l)
  <2>1. l \in Nat /\ n <= l
    BY <1>2, <1>3
  <2>2. \A i \in (n + 1)..l : socket[i] \in Nat
    <3>1. \A i \in (n + 1)..l : i \in 1..l
      BY <1>3, <2>1
    <3> QED
      BY <1>8, <3>1, ElementOfSeq, Zenon
  <2> HIDE DEF l
  <2>3. n + 1 \in Int /\ l \in Int
    BY <1>3, <2>1
  <2>4. t \in Seq(Nat)
    BY <2>2, <2>3, SubSeqProperties
  <2>5. Len(t) = IF n + 1 <= l THEN l - (n + 1) + 1 ELSE 0
    BY <2>2, <2>3, SubSeqProperties
  <2>6. \A i \in 1..(l - (n + 1) + 1) : t[i] = socket[n + 1 + i - 1]
    BY <2>2, <2>3, SubSeqProperties
  <2> HIDE DEF t
  <2>7. Len(t) = l - n
    BY <1>3, <2>1, <2>5
  <2>8. \A i \in 1..(l - n) : t[i] = socket[n + i]
    <3>1. ASSUME NEW i \in 1..(l - n)
          PROVE  i \in 1..(l - (n + 1) + 1) /\ n + 1 + i - 1 = n + i
      BY <1>3, <2>1
    <3> QED
      BY <2>6, <3>1, Zenon
  <2>9. socket' = t
    BY <1>1, Zenon DEF t, l
  <2> QED
    BY <2>4, <2>7, <2>8, <2>9, Zenon DEF l
<1>10. buffers' \in [1..MaxPackets -> Nat]
  <2>1. ASSUME NEW i \in 1..MaxPackets
        PROVE  (IF i <= n THEN socket[i] ELSE buffers[i]) \in Nat
    <3>1. CASE i <= n
      <4>1. i \in 1..Len(socket)
        BY <1>2, <1>3, <3>1
      <4>2. socket[i] \in Nat
        BY <1>8, <4>1, ElementOfSeq, Zenon
      <4> QED
        BY <3>1, <4>2
    <3>2. CASE ~(i <= n)
      BY <1>8, <3>2
    <3> QED
      BY <3>1, <3>2
  <2> QED
    BY <1>1, <2>1, Zenon
<1>11. TypeOK'
  BY <1>1, <1>6, <1>7, <1>9, <1>10, Zenon DEF IndInv, TypeOK, Datagrams
<1>12. FlowInv'
  <2>1. Len(handled) + Len(socket) = Len(arrived)
    BY <1>2, <1>4 DEF IndInv, FlowInv
  <2>2. \A i \in 1..Len(socket) : socket[i] = arrived[Len(handled) + i]
    <3>1. \A i \in 1..Len(socket) : socket[i] = arrived[Len(handled) + 0 + i]
      BY <1>4, Zenon DEF IndInv, FlowInv
    <3>2. Len(handled) + 0 = Len(handled)
      BY <1>2
    <3> QED
      BY <3>1, <3>2, Zenon
  <2>3. handled' = handled /\ arrived' = arrived /\ Len(ring') = n
    BY <1>1, <1>6, <1>7, Zenon
  <2>4. Len(handled') + Len(ring') + Len(socket') = Len(arrived')
    <3>1. Len(handled) + n + (Len(socket) - n) = Len(arrived)
      BY <1>2, <1>3, <2>1
    <3> QED
      BY <1>9, <2>3, <3>1, Zenon
  <2>5. ASSUME NEW i \in 1..Len(ring')
        PROVE  buffers'[ring'[i]] = arrived'[Len(handled') + i]
    <3>1. i \in 1..n /\ ring'[i] = i
      BY <1>6, <1>7, <2>3, Zenon
    <3>2. i \in 1..MaxPackets /\ i <= n /\ i \in 1..Len(socket)
      BY <1>2, <1>3, <3>1
    <3>3. buffers'[i] = socket[i]
      BY <1>1, <3>2
    <3> QED
      BY <2>2, <2>3, <3>1, <3>2, <3>3, Zenon
  <2>6. ASSUME NEW i \in 1..Len(socket')
        PROVE  socket'[i] = arrived'[Len(handled') + Len(ring') + i]
    <3>1. i \in 1..(Len(socket) - n)
      BY <1>9, Zenon
    <3>2. /\ n + i \in 1..Len(socket)
          /\ Len(handled) + (n + i) = Len(handled) + n + i
      BY <1>2, <1>3, <3>1
    <3>3. socket'[i] = socket[n + i]
      BY <1>9, <3>1, Zenon
    <3> QED
      BY <2>2, <2>3, <3>2, <3>3, Zenon
  <2>7. \A i \in 1..Len(handled') : handled'[i] = arrived'[i]
    BY <2>3, Zenon DEF IndInv, FlowInv
  <2> QED
    BY <1>1, <2>4, <2>5, <2>6, <2>7, Zenon DEF FlowInv
<1>13. UniqueInv' /\ CountInv'
  BY <1>1, SameMessages, CountKept, Zenon
<1> QED
  BY <1>11, <1>12, <1>13 DEF IndInv

\* What observe does to the counters.
LEMMA ObserveFields ==
    ASSUME NEW fb \in Feedbacks, NEW s \in Nat
    PROVE  /\ Observe(fb, s) \in Feedbacks
           /\ Observe(fb, s).total = fb.total + 1
           /\ s >= fb.expected_seq =>
                /\ Observe(fb, s).expected_seq = s + 1
                /\ Observe(fb, s).gaps = fb.gaps + (s - fb.expected_seq)
                /\ Observe(fb, s).reorder_events = fb.reorder_events
           /\ ~(s >= fb.expected_seq) =>
                /\ Observe(fb, s).expected_seq = fb.expected_seq
                /\ Observe(fb, s).gaps = fb.gaps
                /\ Observe(fb, s).reorder_events = fb.reorder_events + 1
<1> DEFINE o == Observe(fb, s)
<1>1. CASE s >= fb.expected_seq
  <2>1. o =
          [fb EXCEPT !.total = @ + 1, !.gaps = @ + (s - fb.expected_seq),
                     !.expected_seq = s + 1]
    BY <1>1 DEF Observe, Feedbacks
  <2>2. s - fb.expected_seq \in Nat
    BY <1>1 DEF Feedbacks
  <2> HIDE DEF o
  <2>3. o \in Feedbacks
    <3>1. /\ fb.total + 1 \in Nat /\ fb.gaps + (s - fb.expected_seq) \in Nat
          /\ s + 1 \in Nat /\ fb.reorder_events \in Nat
          /\ fb.max_reorder_depth \in Nat
      BY <2>2 DEF Feedbacks
    <3>2. o = [expected_seq |-> s + 1, total |-> fb.total + 1,
               gaps |-> fb.gaps + (s - fb.expected_seq),
               reorder_events |-> fb.reorder_events,
               max_reorder_depth |-> fb.max_reorder_depth]
      BY <2>1 DEF Feedbacks
    <3> QED
      BY <3>1, <3>2, Zenon DEF Feedbacks
  <2>4. /\ o.total = fb.total + 1 /\ o.expected_seq = s + 1
        /\ o.gaps = fb.gaps + (s - fb.expected_seq)
        /\ o.reorder_events = fb.reorder_events
    BY <2>1 DEF Feedbacks
  <2> QED
    BY <1>1, <2>3, <2>4, Zenon DEF o
<1>2. CASE ~(s >= fb.expected_seq)
  <2> DEFINE depth == Max({fb.max_reorder_depth, fb.expected_seq - s})
  <2>1. fb.expected_seq - s \in Nat /\ fb.max_reorder_depth \in Nat
    BY <1>2 DEF Feedbacks
  <2>2. depth \in Nat
    BY <2>1, MaxOfTwo
  <2>3. o =
          [fb EXCEPT !.total = @ + 1, !.reorder_events = @ + 1,
                     !.max_reorder_depth = depth]
    BY <1>2 DEF Observe, Feedbacks
  <2> HIDE DEF depth, o
  <2>4. o \in Feedbacks
    <3>1. /\ fb.total + 1 \in Nat /\ fb.gaps \in Nat /\ fb.expected_seq \in Nat
          /\ fb.reorder_events + 1 \in Nat
      BY DEF Feedbacks
    <3>2. o = [expected_seq |-> fb.expected_seq, total |-> fb.total + 1,
               gaps |-> fb.gaps, reorder_events |-> fb.reorder_events + 1,
               max_reorder_depth |-> depth]
      BY <2>3 DEF Feedbacks
    <3> QED
      BY <2>2, <3>1, <3>2, Zenon DEF Feedbacks
  <2>5. /\ o.total = fb.total + 1 /\ o.expected_seq = fb.expected_seq
        /\ o.gaps = fb.gaps /\ o.reorder_events = fb.reorder_events + 1
    BY <2>3 DEF Feedbacks
  <2> QED
    BY <1>2, <2>4, <2>5, Zenon DEF o
<1> QED
  BY <1>1, <1>2

\* A message that has not been handled before is counted once.
LEMMA CountGrows ==
    ASSUME IndInv, NEW d \in Nat, 0 < d, Appended(handled, handled', d),
           \A i \in 1..Len(handled) : handled[i] # d,
           feedback' = Observe(feedback, d), observed' = observed \cup {d}
    PROVE  CountInv' /\ feedback' \in Feedbacks
<1> DEFINE e == feedback.expected_seq
           f == feedback'.expected_seq
           h == Len(handled)
<1>1. feedback \in Feedbacks /\ h \in Nat
  BY Lengths DEF IndInv, TypeOK
<1>2. /\ e \in Nat /\ e > 0 /\ feedback.total \in Nat /\ feedback.gaps \in Nat
      /\ feedback.reorder_events \in Nat
  BY <1>1 DEF IndInv, CountInv, Feedbacks
<1>3. /\ feedback' \in Feedbacks
      /\ feedback'.total = feedback.total + 1
      /\ d >= e => /\ f = d + 1
                   /\ feedback'.gaps = feedback.gaps + (d - e)
                   /\ feedback'.reorder_events = feedback.reorder_events
      /\ ~(d >= e) => /\ f = e
                      /\ feedback'.gaps = feedback.gaps
                      /\ feedback'.reorder_events = feedback.reorder_events + 1
  BY <1>1, ObserveFields, Zenon
<1>4. /\ Len(handled') = h + 1
      /\ \A i \in 1..h : handled'[i] = handled[i]
      /\ handled'[h + 1] = d
  BY Zenon DEF Appended
<1>5. /\ observed = {s \in 1..(e - 1) : \E i \in 1..h : handled[i] = s}
      /\ \A i \in 1..h : handled[i] < e
      /\ feedback.total = Cardinality(observed)
      /\ feedback.total + feedback.gaps = e - 1 + feedback.reorder_events
  BY Zenon DEF IndInv, CountInv
<1>6. \A i \in 1..h : handled[i] \in Nat
  BY ElementOfSeq DEF IndInv, TypeOK, Datagrams
<1>7. f \in Nat /\ e <= f /\ d < f /\ (f = e \/ f = d + 1)
  BY <1>2, <1>3
<1> HIDE DEF e, f, h
<1>8. \A i \in 1..(h + 1) : i \in 1..h \/ i = h + 1
  BY <1>1
<1>9. /\ \A i \in 1..h : i \in 1..(h + 1)
      /\ h + 1 \in 1..(h + 1)
  BY <1>1
<1>10. \A i \in 1..(h + 1) : handled'[i] < f
  <2>1. \A i \in 1..h : handled[i] < f
    BY <1>2, <1>5, <1>6, <1>7
  <2> QED
    BY <1>4, <1>7, <1>8, <2>1
<1>11. observed' = {s \in 1..(f - 1) : \E i \in 1..(h + 1) : handled'[i] = s}
  <2>1. ASSUME NEW s \in observed'
        PROVE  s \in 1..(f - 1) /\ \E i \in 1..(h + 1) : handled'[i] = s
    <3>1. CASE s = d
      BY <1>4, <1>7, <1>9, <3>1
    <3>2. CASE s \in observed
      <4>1. s \in 1..(e - 1) /\ \E i \in 1..h : handled[i] = s
        BY <1>5, <3>2
      <4>2. s \in 1..(f - 1)
        BY <1>2, <1>7, <4>1
      <4> QED
        BY <1>4, <1>9, <4>1, <4>2, Zenon
    <3> QED
      BY <3>1, <3>2
  <2>2. ASSUME NEW s \in 1..(f - 1), NEW i \in 1..(h + 1), handled'[i] = s
        PROVE  s \in observed'
    <3>1. CASE i = h + 1
      BY <1>4, <2>2, <3>1
    <3>2. CASE i \in 1..h
      <4>1. handled[i] = s /\ s < e
        BY <1>4, <1>5, <2>2, <3>2
      <4>2. s \in 1..(e - 1)
        BY <1>2, <4>1
      <4> QED
        BY <1>5, <3>2, <4>1, <4>2
    <3> QED
      BY <1>8, <3>1, <3>2
  <2> QED
    BY <2>1, <2>2, Zenon
<1>12. d \notin observed
  BY <1>5, Zenon DEF h
<1>13. IsFiniteSet(observed)
  <2>1. IsFiniteSet(1..(e - 1))
    BY <1>2, FS_Interval
  <2>2. observed \in SUBSET (1..(e - 1))
    BY <1>5, Zenon
  <2> QED
    BY <2>1, <2>2, FS_Subset
<1>14. feedback'.total = Cardinality(observed')
  <2>1. Cardinality(observed \cup {d}) = Cardinality(observed) + 1
    BY <1>12, <1>13, FS_AddElement, Zenon
  <2> QED
    BY <1>3, <1>5, <2>1, Zenon
<1>15. feedback'.total + feedback'.gaps = f - 1 + feedback'.reorder_events
  <2>1. feedback.total + feedback.gaps = e - 1 + feedback.reorder_events
    BY <1>5, Zenon
  <2>2. /\ (feedback.total + 1) + (feedback.gaps + (d - e))
             = (d + 1) - 1 + feedback.reorder_events
        /\ (feedback.total + 1) + feedback.gaps
             = e - 1 + (feedback.reorder_events + 1)
    <3> DEFINE total == feedback.total
               gaps == feedback.gaps
               late == feedback.reorder_events
    <3>1. /\ total \in Nat /\ gaps \in Nat /\ late \in Nat /\ e \in Nat
          /\ total + gaps = e - 1 + late
      BY <1>2, <2>1, Zenon
    <3> HIDE DEF total, gaps, late
    <3>2. /\ (total + 1) + (gaps + (d - e)) = (d + 1) - 1 + late
          /\ (total + 1) + gaps = e - 1 + (late + 1)
      BY <3>1
    <3> QED
      BY <3>2, Zenon DEF total, gaps, late
  <2>3. CASE d >= e
    <3>1. /\ f = d + 1 /\ feedback'.gaps = feedback.gaps + (d - e)
          /\ feedback'.reorder_events = feedback.reorder_events
      BY <1>3, <2>3, Zenon
    <3>2. (feedback.total + 1) + (feedback.gaps + (d - e))
            = (d + 1) - 1 + feedback.reorder_events
      BY <2>2, Zenon
    <3> QED
      BY <1>3, <3>1, <3>2, Zenon
  <2>4. CASE ~(d >= e)
    <3>1. /\ f = e /\ feedback'.gaps = feedback.gaps
          /\ feedback'.reorder_events = feedback.reorder_events + 1
      BY <1>3, <2>4, Zenon
    <3>2. (feedback.total + 1) + feedback.gaps
            = e - 1 + (feedback.reorder_events + 1)
      BY <2>2, Zenon
    <3> QED
      BY <1>3, <3>1, <3>2, Zenon
  <2> QED
    BY <2>3, <2>4, Zenon
<1>16. f > 0
  BY <1>2, <1>7
<1>17. /\ observed' = {s \in 1..(f - 1) : \E i \in 1..Len(handled') : handled'[i] = s}
       /\ \A i \in 1..Len(handled') : handled'[i] < f
  BY <1>4, <1>10, <1>11, Zenon
<1> QED
  BY <1>3, <1>14, <1>15, <1>16, <1>17, Zenon DEF CountInv, f

\* A packet is taken from the ring: what it points to is the next datagram that
\* arrived.
LEMMA ProcessPacketStep ==
    ASSUME IndInv, ProcessPacket
    PROVE  IndInv'
<1> DEFINE d == buffers[Head(ring)]
           h == Len(handled)
<1>1. /\ sub_pc = "pop" /\ ring # <<>> /\ ring' = Tail(ring)
      /\ handled' = Append(handled, d)
      /\ IF IsMarketData(d)
         THEN feedback' = Observe(feedback, d) /\ observed' = observed \cup {d}
         ELSE UNCHANGED <<feedback, observed>>
      /\ UNCHANGED <<seq, reorder_q, dropped_total, sent_total, publishing,
                     foreign, socket, arrived, g_running, cancel_flag, running,
                     status, sub_pc, buffers>>
  BY Zenon DEF ProcessPacket, publisher
<1>2. /\ ring \in Seq(1..MaxPackets) /\ handled \in Seq(Nat)
      /\ arrived \in Seq(Nat) /\ buffers \in [1..MaxPackets -> Nat]
  BY DEF IndInv, TypeOK, Datagrams
<1>3. /\ h \in Nat /\ Len(ring) \in Nat /\ Len(socket) \in Nat
      /\ Len(arrived) \in Nat
  BY Lengths DEF IndInv
<1>4. Len(ring) > 0
  BY <1>1, <1>2, <1>3, EmptySeq
<1>5. h + Len(ring) + Len(socket) = Len(arrived)
  BY DEF IndInv, FlowInv
<1>6. h + 1 \in 1..Len(arrived) /\ 1 \in 1..Len(ring)
  BY <1>3, <1>4, <1>5
<1>7. d = arrived[h + 1] /\ d \in Nat
  <2>1. Head(ring) = ring[1]
    BY <1>1, <1>2
  <2>2. buffers[ring[1]] = arrived[h + 1]
    BY <1>6 DEF IndInv, FlowInv
  <2>3. arrived[h + 1] \in Nat
    BY <1>2, <1>6, ElementOfSeq
  <2> QED
    BY <2>1, <2>2, <2>3, Zenon
<1> HIDE DEF d
<1>8. handled' \in Seq(Nat) /\ Appended(handled, handled', d)
  BY <1>1, <1>2, <1>7, AppendProperties, AppendAppended, Zenon
<1>9. /\ ring' \in Seq(1..MaxPackets) /\ Len(ring') = Len(ring) - 1
      /\ \A i \in 1..Len(ring') : ring'[i] = ring[i + 1]
  BY <1>1, <1>2, HeadTailProperties, Zenon
<1>10. /\ Len(handled') = h + 1
       /\ \A i \in 1..h : handled'[i] = handled[i]
       /\ handled'[h + 1] = d
  BY <1>8, Zenon DEF Appended
<1>11. FlowInv'
  <2>1. /\ socket' = socket /\ arrived' = arrived /\ buffers' = buffers
        /\ sub_pc' = "pop"
    BY <1>1, Zenon
  <2>2. Len(handled') + Len(ring') + Len(socket') = Len(arrived')
    <3>1. (h + 1) + (Len(ring) - 1) + Len(socket) = Len(arrived)
      BY <1>3, <1>5
    <3> QED
      BY <1>9, <1>10, <2>1, <3>1, Zenon
  <2>3. ASSUME NEW i \in 1..Len(handled')
        PROVE  handled'[i] = arrived'[i]
    <3>1. i \in 1..(h + 1)
      BY <1>10, Zenon
    <3>2. i \in 1..h \/ i = h + 1
      BY <1>3, <3>1
    <3>3. \A j \in 1..h : handled[j] = arrived[j]
      BY DEF IndInv, FlowInv
    <3> QED
      BY <1>7, <1>10, <2>1, <3>2, <3>3, Zenon
  <2>4. ASSUME NEW i \in 1..Len(ring')
        PROVE  buffers'[ring'[i]] = arrived'[Len(handled') + i]
    <3>1. i \in 1..(Len(ring) - 1)
      BY <1>9, Zenon
    <3>2. i + 1 \in 1..Len(ring) /\ h + (i + 1) = (h + 1) + i
      BY <1>3, <3>1
    <3>3. buffers[ring[i + 1]] = arrived[h + (i + 1)]
      BY <3>2, Zenon DEF IndInv, FlowInv
    <3>4. ring'[i] = ring[i + 1]
      BY <1>9, Zenon
    <3> QED
      BY <1>10, <2>1, <3>2, <3>3, <3>4, Zenon
  <2>5. ASSUME NEW i \in 1..Len(socket')
        PROVE  socket'[i] = arrived'[Len(handled') + Len(ring') + i]
    <3>1. i \in 1..Len(socket)
      BY <2>1, Zenon
    <3>2. socket[i] = arrived[h + Len(ring) + i]
      BY <3>1, Zenon DEF IndInv, FlowInv
    <3>3. h + Len(ring) + i = (h + 1) + (Len(ring) - 1) + i
      BY <1>3, <3>1
    <3> QED
      BY <1>9, <1>10, <2>1, <3>2, <3>3, Zenon
  <2> QED
    BY <2>1, <2>2, <2>3, <2>4, <2>5, Zenon DEF FlowInv
<1>12. UniqueInv'
  BY <1>1, SameMessages, Zenon
<1>13. CountInv' /\ feedback' \in Feedbacks /\ observed' \subseteq Nat
  <2>1. CASE IsMarketData(d)
    <3>1. feedback' = Observe(feedback, d) /\ observed' = observed \cup {d}
      BY <1>1, <2>1, Zenon
    <3>2. 0 < d
      BY <1>7, <2>1 DEF IsMarketData, Foreign
    <3>3. ASSUME NEW i \in 1..h
          PROVE  handled[i] # d
      <4>1. handled[i] = arrived[i]
        BY DEF IndInv, FlowInv
      <4>2. i \in 1..Len(arrived) /\ i # h + 1
        BY <1>3, <1>5
      <4>3. arrived[h + 1] # arrived[i]
        <5>1. IsMarketData(arrived[h + 1])
          BY <1>7, <2>1, Zenon
        <5> QED
          BY <1>6, <4>2, <5>1, Zenon DEF IndInv, UniqueInv
      <4> QED
        BY <1>7, <4>1, <4>3, Zenon
    <3>4. CountInv' /\ feedback' \in Feedbacks
      BY <1>7, <1>8, <3>1, <3>2, <3>3, CountGrows, Zenon
    <3>5. observed' \subseteq Nat
      BY <1>7, <3>1, Zenon DEF IndInv, TypeOK
    <3> QED
      BY <3>4, <3>5, Zenon
  <2>2. CASE ~IsMarketData(d)
    <3>1. feedback' = feedback /\ observed' = observed /\ d = 0
      BY <1>1, <2>2, Zenon DEF IsMarketData, Foreign
    <3> DEFINE e == feedback.expected_seq
    <3>2. e \in Nat /\ e > 0
      BY DEF IndInv, TypeOK, CountInv, Feedbacks
    <3>3. /\ observed = {s \in 1..(e - 1) : \E i \in 1..h : handled[i] = s}
          /\ \A i \in 1..h : handled[i] < e
          /\ feedback.total = Cardinality(observed)
          /\ feedback.total + feedback.gaps = e - 1 + feedback.reorder_events
      BY Zenon DEF IndInv, CountInv
    <3> HIDE DEF e
    <3>4. \A i \in 1..(h + 1) : i \in 1..h \/ i = h + 1
      BY <1>3
    <3>5. \A i \in 1..h : i \in 1..(h + 1)
      BY <1>3
    <3>6. d < e /\ d \notin 1..(e - 1)
      BY <3>1, <3>2
    <3>7. \A i \in 1..(h + 1) : handled'[i] < e
      BY <1>10, <3>3, <3>4, <3>6, Zenon
    <3>8. observed = {s \in 1..(e - 1) : \E i \in 1..(h + 1) : handled'[i] = s}
      BY <1>10, <3>3, <3>4, <3>5, <3>6, Zenon
    <3>9. CountInv'
      BY <1>10, <3>1, <3>2, <3>3, <3>7, <3>8, Zenon DEF CountInv, e
    <3> QED
      BY <3>1, <3>9, Zenon DEF IndInv, TypeOK
  <2> QED
    BY <2>1, <2>2, Zenon
<1>14. TypeOK'
  BY <1>1, <1>8, <1>9, <1>13, Zenon DEF IndInv, TypeOK, Datagrams
<1> QED
  BY <1>11, <1>12, <1>13, <1>14 DEF IndInv

-----------------------------------------------------------------------------
(***************************************************************************)
(* The theorems.                                                           *)
(***************************************************************************)

\* Every step of the publisher, the network and the subscriber keeps the
\* inductive invariant.
LEMMA NextIndInv == IndInv /\ [Next]_vars => IndInv'
<1> SUFFICES ASSUME IndInv, [Next]_vars
             PROVE  IndInv'
  OBVIOUS
<1>1. CASE PublishDropped
  BY <1>1, PublishDroppedStep
<1>2. ASSUME NEW q \in Queued(seq), Publish(q)
      PROVE  IndInv'
  BY <1>2, PublishStep
<1>3. ASSUME NEW q \in Queued(seq), PublishFails(q)
      PROVE  IndInv'
  BY <1>3, PublishFailsStep
<1>4. CASE ForeignArrives
  BY <1>4, ForeignArrivesStep
<1>5. CASE Signal \/ Start \/ PollerEnds \/ PollFunc \/ RecvFails \/ PollReturns
  BY <1>5, ControlSteps
<1>6. CASE RecvBatch
  BY <1>6, RecvBatchStep
<1>7. CASE ProcessPacket
  BY <1>7, ProcessPacketStep
<1>8. CASE UNCHANGED vars
  <2>1. UNCHANGED <<seq, reorder_q, dropped_total, sent_total, publishing,
                    foreign, socket, arrived, cancel_flag, g_running, running,
                    status, sub_pc, buffers, ring, feedback, handled, observed>>
    BY <1>8, Zenon DEF vars, publisher, subscriber
  <2>2. TypeOK'
    BY <2>1, Zenon DEF IndInv, TypeOK
  <2> QED
    BY <2>1, <2>2, SameMessages, FlowKept, CountKept, Zenon DEF IndInv
<1> QED
  BY <1>1, <1>2, <1>3, <1>4, <1>5, <1>6, <1>7, <1>8, Zenon
     DEF Next, PublisherStep, SubscriberStep

\* The inductive invariant of the market feed: every datagram is in one place,
\* no message is in two, and the counters are in balance.
THEOREM FeedInvariant == Spec => []IndInv
  BY InitIndInv, NextIndInv, PTL DEF Spec

\* Every variable of publisher, socket and subscriber keeps its type.
THEOREM FeedTypeOK == Spec => []TypeOK
<1>1. IndInv => TypeOK
  BY DEF IndInv
<1> QED
  BY <1>1, FeedInvariant, PTL

\* recv_batch, the ring and process_packet handle every datagram the socket took
\* once and in order, for every batch length and every ring at least as large.
THEOREM FeedReceivedOnce == Spec => []ReceivedOnce
<1>1. IndInv => ReceivedOnce
  BY Zenon DEF IndInv, FlowInv, ReceivedOnce
<1> QED
  BY <1>1, FeedInvariant, PTL

\* What UdpDeliveryFeedback counts: each message once, and as gaps that were not
\* filled exactly the messages that never came.
THEOREM FeedCountersAddUp == Spec => []CountersAddUp
<1>1. IndInv => CountersAddUp
  <2> SUFFICES ASSUME IndInv
               PROVE  CountersAddUp
    OBVIOUS
  <2> DEFINE e == feedback.expected_seq
             all == 1..(e - 1)
             total == feedback.total
             gaps == feedback.gaps
             late == feedback.reorder_events
  <2>1. e \in Nat /\ e > 0 /\ total \in Nat /\ gaps \in Nat /\ late \in Nat
    BY DEF IndInv, TypeOK, CountInv, Feedbacks
  <2>2. /\ total = Cardinality(observed)
        /\ total + gaps = e - 1 + late
        /\ observed \subseteq all
    BY Zenon DEF IndInv, CountInv
  <2>3. Missing = all \ observed
    BY DEF Missing
  <2> HIDE DEF e, total, gaps, late
  <2>4. IsFiniteSet(all) /\ Cardinality(all) = e - 1
    BY <2>1, FS_Interval
  <2> HIDE DEF all
  <2>5. all \cap observed = observed
    BY <2>2
  <2>6. Cardinality(Missing) = Cardinality(all) - Cardinality(observed)
    <3>1. Cardinality(all \ observed)
            = Cardinality(all) - Cardinality(all \cap observed)
      BY <2>4, FS_Difference, Zenon
    <3> QED
      BY <2>3, <2>5, <3>1
  <2>7. gaps - late = (e - 1) - total
    BY <2>1, <2>2
  <2> QED
    BY <2>2, <2>4, <2>6, <2>7, Zenon DEF CountersAddUp, total, gaps, late
<1> QED
  BY <1>1, FeedInvariant, PTL
=============================================================================
