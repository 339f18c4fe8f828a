--------------------------- MODULE OrderPathProofs ---------------------------
(***************************************************************************)
(* Proofs about the TCP order path.  The first half is for any number of   *)
(* clients, orders, connections and retransmissions; the second, from "One *)
(* client" on, adds what a single client and the gateway keep between      *)
(* them, again for any number of the others.                               *)
(***************************************************************************)
EXTENDS OrderPathSolo, FiniteSetTheorems, SequenceTheorems, WellFoundedInduction,
        TLAPS

\* A position modulo the capacity is an index of the buffer.
LEMMA RemainderInRange ==
    ASSUME NEW C \in Nat \ {0}, NEW a \in Nat
    PROVE  a % C \in 0..(C - 1)
  OBVIOUS

-----------------------------------------------------------------------------
(***************************************************************************)
(* Induction over bounded ranges.                                          *)
(***************************************************************************)

\* A set of naturals that is not empty has a least element.
LEMMA LeastElement ==
    ASSUME NEW T \in SUBSET Nat, T # {}
    PROVE  \E x \in T : \A y \in T : x <= y
<1> DEFINE R == OpToRel(<, Nat)
<1>1. IsWellFoundedOn(R, Nat)
  BY NatLessThanWellFounded
<1>2. \A x, y \in Nat : <<x, y>> \in R <=> x < y
  BY DEF OpToRel
<1> HIDE DEF R
<1>3. PICK x \in T : \A y \in T : ~(<<y, x>> \in R)
  BY <1>1, WFMin
<1>4. ASSUME NEW y \in T
      PROVE  x <= y
  <2>1. x \in Nat /\ y \in Nat /\ ~(y < x)
    BY <1>2, <1>3
  <2> QED
    BY <2>1
<1> QED
  BY <1>4

\* Induction up to a bound, over a set.
LEMMA BoundedInduction ==
    ASSUME NEW N \in Nat, NEW S, 0 \in S,
           \A n \in 0..(N - 1) : n \in S => n + 1 \in S
    PROVE  \A n \in 0..N : n \in S
<1> SUFFICES ASSUME NEW m \in 0..N, m \notin S
             PROVE  FALSE
  OBVIOUS
<1> DEFINE T == {n \in 0..N : n \notin S}
<1>1. T \in SUBSET Nat /\ T # {}
  OBVIOUS
<1> HIDE DEF T
<1>2. PICK x \in T : \A y \in T : x <= y
  BY <1>1, LeastElement
<1>3. x \in 0..N /\ x \notin S /\ x # 0
  BY <1>2 DEF T
<1>4. x - 1 \in 0..(N - 1) /\ (x - 1) + 1 = x
  BY <1>3
<1>5. x - 1 \notin S
  BY <1>3, <1>4
<1>6. x - 1 \in T
  BY <1>4, <1>5 DEF T
<1> QED
  BY <1>2, <1>3, <1>6

\* A set of numbers up to L that holds 0 has a maximum.
LEMMA MaxBelow ==
    ASSUME NEW L \in Nat, NEW S \in SUBSET (0..L), 0 \in S
    PROVE  Max(S) \in S /\ \A y \in S : y <= Max(S)
<1> DEFINE T == {L - n : n \in S}
<1>1. T \in SUBSET Nat /\ T # {}
  OBVIOUS
<1>2. \A n \in S : L - n \in T
  OBVIOUS
<1>3. \A t \in T : \E n \in S : t = L - n
  OBVIOUS
<1> HIDE DEF T
<1>4. PICK x \in T : \A y \in T : x <= y
  BY <1>1, LeastElement
<1>5. PICK m \in S : x = L - m
  BY <1>3
<1>6. \A y \in S : m >= y
  BY <1>2, <1>4, <1>5
<1>7. Max(S) \in S /\ \A y \in S : Max(S) >= y
  BY <1>6 DEF Max
<1> QED
  BY <1>7

\* The functions on 0..N with a given first value and a given step.
Iterations(N, S, first, step) ==
    {f \in [0..N -> S] : /\ f[0] = first
                         /\ \A n \in 1..N : f[n] = step[<<n, f[n - 1]>>]}

\* There is one: a recursive function on 0..N exists.
LEMMA RecursionExists ==
    ASSUME NEW N \in Nat, NEW S, NEW first \in S,
           NEW step \in [(1..N) \X S -> S]
    PROVE  Iterations(N, S, first, step) # {}
<1> DEFINE Upto(m) == {f \in [0..m -> S] :
                         /\ f[0] = first
                         /\ \A n \in 1..m : f[n] = step[<<n, f[n - 1]>>]}
           T == {m \in 0..N : Upto(m) # {}}
<1>1. 0 \in T
  <2>1. [n \in {0} |-> first] \in Upto(0)
    OBVIOUS
  <2> QED
    BY <2>1
<1>2. ASSUME NEW m \in 0..(N - 1), m \in T
      PROVE  m + 1 \in T
  <2>1. PICK f : f \in Upto(m)
    BY <1>2
  <2> DEFINE g == [n \in 0..(m + 1) |-> IF n = m + 1 THEN step[<<m + 1, f[m]>>] ELSE f[n]]
  <2>2. step[<<m + 1, f[m]>>] \in S
    <3>1. f[m] \in S /\ m + 1 \in 1..N
      BY <2>1
    <3> QED
      BY <3>1
  <2>3. g \in [0..(m + 1) -> S]
    BY <2>1, <2>2
  <2>4. g[0] = first
    BY <2>1
  <2>5. ASSUME NEW n \in 1..(m + 1)
        PROVE  g[n] = step[<<n, g[n - 1]>>]
    <3>1. n - 1 \in 0..m /\ n - 1 # m + 1
      OBVIOUS
    <3>2. g[n - 1] = f[n - 1]
      BY <3>1
    <3>3. CASE n = m + 1
      <4>1. g[n] = step[<<m + 1, f[m]>>]
        BY <3>3
      <4>2. n - 1 = m
        BY <3>3
      <4> QED
        BY <3>2, <3>3, <4>1, <4>2, Zenon
    <3>4. CASE n # m + 1
      BY <2>1, <3>2, <3>4
    <3> QED
      BY <3>3, <3>4
  <2>6. g \in Upto(m + 1)
    BY <2>3, <2>4, <2>5
  <2> HIDE DEF Upto
  <2>7. Upto(m + 1) # {} /\ m + 1 \in 0..N
    BY <2>6
  <2> QED
    BY <2>7
<1> HIDE DEF T
<1>3. N \in T
  BY <1>1, <1>2, BoundedInduction
<1> QED
  BY <1>3 DEF T, Iterations

-----------------------------------------------------------------------------
(***************************************************************************)
(* What the operators on the data return.                                  *)
(***************************************************************************)

\* Sequence numbers stay sequence numbers (uint32_t arithmetic).
LEMMA AdvanceInRange ==
    ASSUME NEW seq \in Nat, NEW n \in Nat
    PROVE  Advance(seq, n) \in SeqNums
<1>1. seq + n \in Nat
  OBVIOUS
<1> QED
  BY <1>1, SeqModAssumption, RemainderInRange DEF Advance, SeqNums

\* What the sets of frames are, field by field.
LEMMA FrameFields ==
    ASSUME NEW f \in UpFrames
    PROVE  /\ f.seq \in SeqNums /\ f.ack \in SeqNums
           /\ f.syn = FALSE /\ f.has_ack = TRUE /\ f.fin = FALSE
           /\ \/ f.len = OrderLen /\ f.payload \in Requests
              \/ f.len = 0 /\ f.payload = NoPayload
  BY DEF UpFrames, OrderFrames, Headers

\* The bytes of a sequence of frames: one header at least, and the payload of
\* the first.
LEMMA ByteCountFacts ==
    ASSUME NEW frames \in Seq(UpFrames), frames # <<>>
    PROVE  /\ ByteCount(frames) \in Nat
           /\ ByteCount(frames) >= HeaderLen + frames[1].len
           /\ Len(frames) > 1 => ByteCount(frames) >= 2 * HeaderLen
           /\ Len(frames) = 1 => ByteCount(frames) = HeaderLen + frames[1].len
           /\ ByteCount(frames) <= (HeaderLen + OrderLen) * Len(frames)
<1> DEFINE N == Len(frames)
           Defines(u) == u = [n \in 0..N |->
                                IF n = 0 THEN 0
                                ELSE u[n - 1] + HeaderLen + frames[n].len]
           upto == CHOOSE u : Defines(u)
           step == [x \in (1..N) \X Nat |-> x[2] + HeaderLen + frames[x[1]].len]
<1>1. ByteCount(frames) = upto[N]
  BY Zenon DEF ByteCount
<1>2. N \in Nat \ {0} /\ \A n \in 1..N : frames[n].len \in 0..OrderLen
  <2>1. N \in Nat \ {0} /\ \A n \in 1..N : frames[n] \in UpFrames
    OBVIOUS
  <2>2. ASSUME NEW f \in UpFrames
        PROVE  f.len \in 0..OrderLen
    <3>1. f.len = OrderLen \/ f.len = 0
      BY FrameFields, Zenon
    <3> QED
      BY <3>1 DEF OrderLen
  <2> QED
    BY <2>1, <2>2
<1> HIDE DEF N
<1>3. step \in [(1..N) \X Nat -> Nat]
  <2>1. ASSUME NEW n \in 1..N
        PROVE  frames[n].len \in Nat
    <3>1. frames[n].len \in 0..OrderLen
      BY <1>2
    <3> QED
      BY <3>1
  <2> QED
    BY <2>1 DEF HeaderLen
<1> HIDE DEF step
<1>4. PICK f : f \in Iterations(N, Nat, 0, step)
  <2>1. N \in Nat /\ 0 \in Nat
    BY <1>2
  <2> QED
    BY <1>3, <2>1, RecursionExists, Zenon
<1>13. /\ f \in [0..N -> Nat] /\ f[0] = 0
       /\ \A n \in 1..N : f[n] = step[<<n, f[n - 1]>>]
  BY <1>4 DEF Iterations
<1>5. ASSUME NEW n \in 1..N
      PROVE  f[n] = f[n - 1] + HeaderLen + frames[n].len
  <2>1. n - 1 \in 0..N /\ f[n - 1] \in Nat
    BY <1>2, <1>13
  <2>2. f[n] = step[<<n, f[n - 1]>>]
    BY <1>13
  <2> QED
    BY <2>1, <2>2 DEF step
<1>6. Defines(f)
  BY <1>5, <1>13
<1> HIDE DEF Defines
<1>7. Defines(upto)
  BY <1>6
<1> HIDE DEF upto
<1>8. /\ upto[0] = 0
      /\ \A n \in 1..N : upto[n] = upto[n - 1] + HeaderLen + frames[n].len
  BY <1>2, <1>7 DEF Defines
<1> DEFINE T == {n \in 0..N : /\ upto[n] \in Nat
                              /\ upto[n] <= (HeaderLen + OrderLen) * n
                              /\ n = 1 => upto[n] = HeaderLen + frames[1].len
                              /\ n > 0 => upto[n] >= HeaderLen + frames[1].len
                              /\ n > 1 => upto[n] >= 2 * HeaderLen}
<1>9. 0 \in T
  BY <1>2, <1>8 DEF HeaderLen, OrderLen
<1>10. ASSUME NEW n \in 0..(N - 1), n \in T
       PROVE  n + 1 \in T
  <2>1. n + 1 \in 1..N /\ (n + 1) - 1 = n
    BY <1>2
  <2>2. upto[n + 1] = upto[n] + HeaderLen + frames[n + 1].len
    BY <1>8, <2>1
  <2>3. /\ frames[n + 1].len \in 0..OrderLen /\ frames[1].len \in 0..OrderLen
        /\ upto[n] \in Nat
    <3>1. 1 \in 1..N
      BY <1>2
    <3> QED
      BY <1>2, <1>10, <2>1, <3>1
  <2> DEFINE u0 == upto[n]
             u1 == upto[n + 1]
             l0 == frames[1].len
             l1 == frames[n + 1].len
  <2>6. /\ u0 <= (HeaderLen + OrderLen) * n
        /\ n = 1 => u0 = HeaderLen + l0
        /\ n > 0 => u0 >= HeaderLen + l0
    BY <1>10
  <2>4. n = 0 => u0 = 0 /\ l1 = l0
    BY <1>8
  <2> HIDE DEF u0, u1, l0, l1
  <2>7. /\ u1 = u0 + HeaderLen + l1 /\ u0 \in Nat
        /\ l0 \in 0..OrderLen /\ l1 \in 0..OrderLen
    BY <2>2, <2>3 DEF u0, u1, l0, l1
  <2>8. /\ u1 \in Nat
        /\ u1 <= (HeaderLen + OrderLen) * (n + 1)
        /\ n + 1 = 1 => u1 = HeaderLen + l0
        /\ n + 1 > 0 => u1 >= HeaderLen + l0
        /\ n + 1 > 1 => u1 >= 2 * HeaderLen
    BY <2>4, <2>6, <2>7 DEF HeaderLen, OrderLen
  <2> QED
    BY <2>1, <2>8 DEF u1, l0
<1> HIDE DEF T
<1>11. N \in T
  <2>1. N \in Nat /\ N \in 0..N
    BY <1>2
  <2> QED
    BY <1>9, <1>10, <2>1, BoundedInduction, Zenon
<1> QED
  BY <1>1, <1>2, <1>11 DEF T, N

\* The payload of a buffer is a request, whatever frames are in it.
LEMMA PayloadIsRequest ==
    ASSUME NEW frames \in Seq(UpFrames), frames # <<>>
    PROVE  PayloadOf(frames) \in Requests
<1>1. frames[1] \in UpFrames /\ (Len(frames) > 1 => frames[2] \in UpFrames)
  OBVIOUS
<1>2. ASSUME NEW f \in UpFrames, f.len > 0
      PROVE  f.payload \in Requests /\ FrameAsRequest(f) \in Requests
  <2>1. f.payload \in Requests /\ f.seq \in SeqNums
    <3>1. f.len # 0
      BY <1>2
    <3> QED
      BY <3>1, FrameFields
  <2>2. JunkId(f.seq) \in OrderIds /\ JunkId(0) \in OrderIds
    BY <2>1, SeqModAssumption DEF OrderIds, JunkId, SeqNums
  <2>3. f.payload.client \in Clients \cup {ListenFd}
    BY <2>1 DEF Requests
  <2> DEFINE code == f.payload.id % 256
             action == CASE code = 1 -> "New"
                         [] code = 2 -> "Cancel"
                         [] code = 3 -> "Replace"
                         [] OTHER    -> "none"
  <2>4. action \in {"New", "Cancel", "Replace", "none"}
    <3> HIDE DEF code
    <3> QED
      BY Zenon
  <2>5. FrameAsRequest(f) = [client |-> f.payload.client, id |-> JunkId(f.seq),
                             action |-> action, target |-> JunkId(0)]
    BY Zenon DEF FrameAsRequest, Request
  <2> HIDE DEF action
  <2> QED
    BY <2>1, <2>2, <2>3, <2>4, <2>5 DEF Requests
<1>3. NoRequest \in Requests
  BY NumbersAssumption DEF NoRequest, Request, Requests, OrderIds
<1>4. CASE frames[1].len > 0
  BY <1>1, <1>2, <1>4 DEF PayloadOf
<1>5. CASE frames[1].len = 0 /\ Len(frames) > 1 /\ frames[2].len > 0
  BY <1>1, <1>2, <1>5 DEF PayloadOf
<1>6. CASE ~(frames[1].len > 0)
           /\ ~(frames[1].len = 0 /\ Len(frames) > 1 /\ frames[2].len > 0)
  <2>1. PayloadOf(frames) = NoRequest
    BY <1>6 DEF PayloadOf
  <2> QED
    BY <1>3, <2>1
<1> QED
  BY <1>4, <1>5, <1>6

\* The order table and the shadow book hold order ids.
LEMMA TableIds ==
    ASSUME NEW ids, NEW live \in SUBSET ids, NEW req, req.id \in ids
    PROVE  Table(live, req) \in SUBSET ids
  BY DEF Table

\* Picked returns entries of the queue at positions in keep.
LEMMA PickedFacts ==
    ASSUME NEW E, NEW queue \in Seq(E), NEW keep
    PROVE  /\ Picked(queue, keep) \in Seq({queue[i] : i \in keep \cap (1..Len(queue))})
           /\ Len(queue) = 0 => Picked(queue, keep) = <<>>
           /\ Len(queue) = 1 =>
                 Picked(queue, keep) = IF 1 \in keep THEN <<queue[1]>> ELSE <<>>
<1> DEFINE N == Len(queue)
           K == {queue[i] : i \in keep \cap (1..N)}
           Defines(u) == u = [n \in 0..N |->
                                IF n = 0 THEN <<>>
                                ELSE IF n \in keep THEN Append(u[n - 1], queue[n])
                                     ELSE u[n - 1]]
           upto == CHOOSE u : Defines(u)
           step == [x \in (1..N) \X Seq(K) |->
                      IF x[1] \in keep THEN Append(x[2], queue[x[1]]) ELSE x[2]]
<1>1. Picked(queue, keep) = upto[N]
  BY Zenon DEF Picked
<1>2. N \in Nat /\ \A n \in 1..N : n \in keep => queue[n] \in K
  OBVIOUS
<1> HIDE DEF N, K
<1>3. step \in [(1..N) \X Seq(K) -> Seq(K)]
  BY <1>2
<1> HIDE DEF step
<1>4. <<>> \in Seq(K)
  OBVIOUS
<1>13. PICK f : f \in Iterations(N, Seq(K), <<>>, step)
  BY <1>2, <1>3, <1>4, RecursionExists, Zenon
<1>5. /\ f \in [0..N -> Seq(K)] /\ f[0] = <<>>
      /\ \A n \in 1..N : f[n] = step[<<n, f[n - 1]>>]
  BY <1>13 DEF Iterations
<1>6. ASSUME NEW n \in 1..N
      PROVE  f[n] = IF n \in keep THEN Append(f[n - 1], queue[n]) ELSE f[n - 1]
  <2>1. n - 1 \in 0..N /\ f[n - 1] \in Seq(K)
    BY <1>2, <1>5
  <2>2. f[n] = step[<<n, f[n - 1]>>]
    BY <1>5
  <2> QED
    BY <2>1, <2>2 DEF step
<1>7. Defines(f)
  <2>1. ASSUME NEW n \in 0..N
        PROVE  f[n] = IF n = 0 THEN <<>>
                      ELSE IF n \in keep THEN Append(f[n - 1], queue[n])
                           ELSE f[n - 1]
    <3>1. n = 0 \/ n \in 1..N
      BY <1>2
    <3> QED
      BY <1>5, <1>6, <3>1, Zenon
  <2>2. f = [n \in 0..N |-> f[n]]
    BY <1>5
  <2> QED
    BY <2>1, <2>2, Zenon
<1> HIDE DEF Defines
<1>8. Defines(upto)
  BY <1>7
<1> HIDE DEF upto
<1>9. /\ upto[0] = <<>>
      /\ \A n \in 1..N : upto[n] = IF n \in keep THEN Append(upto[n - 1], queue[n])
                                                 ELSE upto[n - 1]
  <2>1. \A n \in 0..N : upto[n] = IF n = 0 THEN <<>>
                                  ELSE IF n \in keep THEN Append(upto[n - 1], queue[n])
                                       ELSE upto[n - 1]
    BY <1>8, Zenon DEF Defines
  <2>2. 0 \in 0..N /\ \A n \in 1..N : n \in 0..N /\ n # 0
    BY <1>2
  <2> QED
    BY <2>1, <2>2, Zenon
<1> DEFINE T == {n \in 0..N : upto[n] \in Seq(K)}
<1>10. 0 \in T
  <2>1. 0 \in 0..N
    BY <1>2
  <2> QED
    BY <1>4, <1>9, <2>1, Zenon
<1>11. ASSUME NEW n \in 0..(N - 1), n \in T
       PROVE  n + 1 \in T
  <2>1. n + 1 \in 1..N /\ (n + 1) - 1 = n /\ n + 1 \in 0..N
    BY <1>2
  <2>2. upto[n + 1] = IF n + 1 \in keep THEN Append(upto[n], queue[n + 1])
                                        ELSE upto[n]
    BY <1>9, <2>1
  <2>3. upto[n] \in Seq(K) /\ (n + 1 \in keep => queue[n + 1] \in K)
    BY <1>2, <1>11, <2>1
  <2>4. upto[n + 1] \in Seq(K)
    BY <2>2, <2>3
  <2> QED
    BY <2>1, <2>4
<1> HIDE DEF T
<1>12. N \in T
  <2>1. N \in 0..N
    BY <1>2
  <2> QED
    BY <1>2, <1>10, <1>11, <2>1, BoundedInduction, Zenon
<1>14. ASSUME N = 1
       PROVE  upto[N] = IF 1 \in keep THEN <<queue[1]>> ELSE <<>>
  <2>1. upto[1] = IF 1 \in keep THEN Append(upto[0], queue[1]) ELSE upto[0]
    <3>1. 1 \in 1..N /\ 1 - 1 = 0
      BY <1>14
    <3> QED
      BY <1>9, <3>1
  <2>2. Append(<<>>, queue[1]) = <<queue[1]>>
    OBVIOUS
  <2> QED
    BY <1>9, <1>14, <2>1, <2>2, Zenon
<1>15. N = 0 => upto[N] = <<>>
  BY <1>9
<1> QED
  BY <1>1, <1>12, <1>14, <1>15, Zenon DEF T, N, K

\* ack_up_to leaves entries of the queue, and none if all are covered.
LEMMA AckUpToFacts ==
    ASSUME NEW queue \in Seq(Entries), NEW ack \in SeqNums
    PROVE  /\ AckUpTo(queue, ack) \in Seq(Entries)
           /\ (\A i \in 1..Len(queue) : queue[i].seq_end <= ack)
                 => AckUpTo(queue, ack) = <<>>
<1> DEFINE S == {n \in 0..Len(queue) : \A i \in 1..n : queue[i].seq_end <= ack}
<1>1. Len(queue) \in Nat /\ S \in SUBSET (0..Len(queue)) /\ 0 \in S
  OBVIOUS
<1>2. AckUpTo(queue, ack) = SubSeq(queue, Max(S) + 1, Len(queue))
  BY DEF AckUpTo
<1> HIDE DEF S
<1>3. Max(S) \in 0..Len(queue)
  BY <1>1, MaxBelow
<1>4. SubSeq(queue, Max(S) + 1, Len(queue)) \in Seq(Entries)
  BY <1>3, SubSeqProperties
<1>5. ASSUME \A i \in 1..Len(queue) : queue[i].seq_end <= ack
      PROVE  AckUpTo(queue, ack) = <<>>
  <2>1. Len(queue) \in S
    BY <1>1, <1>5 DEF S
  <2>2. Len(queue) <= Max(S)
    BY <1>1, <2>1, MaxBelow
  <2>3. Max(S) + 1 > Len(queue)
    BY <1>1, <1>3, <2>2
  <2> QED
    BY <1>1, <1>2, <1>3, <2>3, SubSeqProperties
<1> QED
  BY <1>2, <1>4, <1>5

\* A reassembly buffer is finite.
LEMMA ReassemblyFinite ==
    ASSUME NEW segments, IsReassembly(segments)
    PROVE  IsFiniteSet(DOMAIN segments) /\ Cardinality(DOMAIN segments) \in Nat
<1>1. IsFiniteSet(SeqNums)
  BY SeqModAssumption, FS_Interval DEF SeqNums
<1>2. IsFiniteSet(DOMAIN segments)
  BY <1>1, FS_Subset DEF IsReassembly
<1> QED
  BY <1>2, FS_CardinalityType

\* The sequence numbers pop_contiguous looks for.
LEMMA CursorFacts ==
    ASSUME NEW segments, IsReassembly(segments), NEW expected \in SeqNums
    PROVE  /\ Cursor(segments, expected)
                \in [0..Cardinality(DOMAIN segments) -> SeqNums]
           /\ Cursor(segments, expected)[0] = expected
<1> DEFINE D == DOMAIN segments
           C == Cardinality(D)
           After(x) == IF x \in D THEN Advance(x, segments[x].len) ELSE x
           Defines(u) == u = [n \in 0..C |->
                                IF n = 0 THEN expected
                                ELSE IF u[n - 1] \in D
                                     THEN Advance(u[n - 1], segments[u[n - 1]].len)
                                     ELSE u[n - 1]]
           cursor == CHOOSE u : Defines(u)
           step == [x \in (1..C) \X SeqNums |-> After(x[2])]
<1>1. Cursor(segments, expected) = cursor
  BY Zenon DEF Cursor
<1>2. C \in Nat
  BY ReassemblyFinite
<1>3. ASSUME NEW x \in SeqNums
      PROVE  After(x) \in SeqNums
  <2>1. x \in Nat
    BY SeqModAssumption DEF SeqNums
  <2>2. ASSUME x \in D
        PROVE  Advance(x, segments[x].len) \in SeqNums
    <3>1. segments[x].len \in Nat
      BY <2>2 DEF IsReassembly, Segments
    <3> QED
      BY <2>1, <3>1, AdvanceInRange
  <2> QED
    BY <2>2
<1> HIDE DEF D, C
<1>4. step \in [(1..C) \X SeqNums -> SeqNums]
  <2> HIDE DEF After
  <2> QED
    BY <1>3
<1> HIDE DEF step
<1>5. PICK f : f \in Iterations(C, SeqNums, expected, step)
  BY <1>2, <1>4, RecursionExists, Zenon
<1>6. /\ f \in [0..C -> SeqNums] /\ f[0] = expected
      /\ \A n \in 1..C : f[n] = step[<<n, f[n - 1]>>]
  BY <1>5 DEF Iterations
<1>7. ASSUME NEW n \in 1..C
      PROVE  f[n] = After(f[n - 1])
  <2>1. n - 1 \in 0..C
    BY <1>2
  <2>2. f[n - 1] \in SeqNums /\ f[n] = step[<<n, f[n - 1]>>]
    BY <1>6, <2>1
  <2> HIDE DEF After
  <2> QED
    BY <2>2 DEF step
<1>8. Defines(f)
  <2>1. ASSUME NEW n \in 0..C
        PROVE  f[n] = IF n = 0 THEN expected ELSE After(f[n - 1])
    <3>1. n = 0 \/ n \in 1..C
      BY <1>2
    <3> QED
      BY <1>6, <1>7, <3>1, Zenon
  <2>2. f = [n \in 0..C |-> f[n]]
    BY <1>6
  <2> QED
    BY <2>1, <2>2, Zenon
<1> HIDE DEF Defines
<1>9. Defines(cursor)
  BY <1>8
<1> HIDE DEF cursor
<1>10. /\ cursor = [n \in 0..C |-> cursor[n]]
       /\ \A n \in 0..C : cursor[n] = IF n = 0 THEN expected ELSE After(cursor[n - 1])
  BY <1>9, Zenon DEF Defines
<1> HIDE DEF After
<1> DEFINE T == {n \in 0..C : cursor[n] \in SeqNums}
<1>11. 0 \in T
  <2>1. 0 \in 0..C
    BY <1>2
  <2> QED
    BY <1>10, <2>1
<1>12. ASSUME NEW n \in 0..(C - 1), n \in T
       PROVE  n + 1 \in T
  <2>1. n + 1 \in 0..C /\ (n + 1) - 1 = n /\ n + 1 # 0
    BY <1>2
  <2>2. cursor[n + 1] = After(cursor[n])
    BY <1>10, <2>1
  <2> QED
    BY <1>3, <1>12, <2>1, <2>2
<1> HIDE DEF T
<1>13. \A n \in 0..C : n \in T
  BY <1>2, <1>11, <1>12, BoundedInduction, Zenon
<1>14. 0 \in 0..C /\ \A n \in 0..C : cursor[n] \in SeqNums
  BY <1>2, <1>13 DEF T
<1>15. cursor \in [0..C -> SeqNums] /\ cursor[0] = expected
  BY <1>10, <1>14
<1> QED
  BY <1>1, <1>15 DEF C, D

\* pop_contiguous walks through segments of the buffer; it takes none if the
\* expected one is not there.
LEMMA RunFacts ==
    ASSUME NEW segments, IsReassembly(segments), NEW expected \in SeqNums
    PROVE  /\ RunLength(segments, expected) \in 0..Cardinality(DOMAIN segments)
           /\ \A i \in 0..(RunLength(segments, expected) - 1) :
                 Cursor(segments, expected)[i] \in DOMAIN segments
           /\ expected \notin DOMAIN segments => RunLength(segments, expected) = 0
<1> DEFINE C == Cardinality(DOMAIN segments)
           cursor == Cursor(segments, expected)
           S == {n \in 0..C : \A i \in 0..(n - 1) : cursor[i] \in DOMAIN segments}
<1>1. C \in Nat
  BY ReassemblyFinite
<1>2. cursor[0] = expected
  BY CursorFacts
<1>3. RunLength(segments, expected) = Max(S)
  BY Zenon DEF RunLength
<1> HIDE DEF C, cursor
<1>4. S \in SUBSET (0..C) /\ 0 \in S
  BY <1>1
<1> HIDE DEF S
<1>5. Max(S) \in S
  BY <1>1, <1>4, MaxBelow
<1>6. /\ Max(S) \in 0..C
      /\ \A i \in 0..(Max(S) - 1) : cursor[i] \in DOMAIN segments
  BY <1>5 DEF S
<1>7. ASSUME expected \notin DOMAIN segments
      PROVE  Max(S) = 0
  BY <1>1, <1>2, <1>6, <1>7
<1> QED
  BY <1>3, <1>6, <1>7 DEF C, cursor

\* What pop_contiguous returns and what it leaves.
LEMMA PopContiguousFacts ==
    ASSUME NEW segments, IsReassembly(segments), NEW expected \in SeqNums
    PROVE  /\ Contiguous(segments, expected) \in Seq(Segments)
           /\ IsReassembly(Rest(segments, expected))
           /\ DOMAIN Rest(segments, expected) \subseteq DOMAIN segments
           /\ expected \notin DOMAIN segments => Contiguous(segments, expected) = <<>>
<1> DEFINE cursor == Cursor(segments, expected)
           R == RunLength(segments, expected)
           taken == {cursor[i] : i \in 0..(R - 1)}
<1>1. /\ R \in Nat
      /\ \A i \in 0..(R - 1) : cursor[i] \in DOMAIN segments
      /\ expected \notin DOMAIN segments => R = 0
  BY RunFacts, ReassemblyFinite
<1>2. Contiguous(segments, expected) = [i \in 1..R |-> segments[cursor[i - 1]]]
  BY DEF Contiguous
<1>3. Rest(segments, expected) = [s \in DOMAIN segments \ taken |-> segments[s]]
  BY Zenon DEF Rest
<1> HIDE DEF cursor, R, taken
<1>4. Contiguous(segments, expected) \in Seq(Segments)
  <2>1. ASSUME NEW i \in 1..R
        PROVE  segments[cursor[i - 1]] \in Segments
    <3>1. i - 1 \in 0..(R - 1)
      BY <1>1
    <3> QED
      BY <1>1, <3>1 DEF IsReassembly
  <2> QED
    BY <1>1, <1>2, <2>1
<1>5. IsReassembly(Rest(segments, expected))
      /\ DOMAIN Rest(segments, expected) \subseteq DOMAIN segments
  BY <1>3 DEF IsReassembly
<1>6. ASSUME expected \notin DOMAIN segments
      PROVE  Contiguous(segments, expected) = <<>>
  BY <1>1, <1>2, <1>6
<1> QED
  BY <1>4, <1>5, <1>6

\* insert keeps the buffer a buffer.
LEMMA InsertFacts ==
    ASSUME NEW segments, IsReassembly(segments), NEW seq \in SeqNums,
           NEW len \in Nat, NEW payload \in Requests
    PROVE  /\ IsReassembly(Insert(segments, seq, len, payload))
           /\ DOMAIN Insert(segments, seq, len, payload)
                 \subseteq DOMAIN segments \cup {seq}
<1>1. CASE len = 0 \/ seq \in DOMAIN segments
  BY <1>1 DEF Insert
<1>2. CASE len # 0 /\ seq \notin DOMAIN segments
  <2> DEFINE new == [s \in DOMAIN segments \cup {seq} |->
                       IF s \in DOMAIN segments THEN segments[s]
                       ELSE [len |-> len, payload |-> payload]]
  <2>1. Insert(segments, seq, len, payload) = new
    BY <1>2, Zenon DEF Insert
  <2>2. [len |-> len, payload |-> payload] \in Segments
    BY <1>2 DEF Segments
  <2>3. IsReassembly(new)
    BY <2>2 DEF IsReassembly
  <2> QED
    BY <2>1, <2>3
<1> QED
  BY <1>1, <1>2

\* What process_order_payload makes of one payload.
ProcessedOne(b, segment) ==
    LET moved == [b.tcp EXCEPT !.recv_seq = Advance(@, segment.len)]
    IN  IF segment.len < OrderLen
        THEN b
        ELSE [tcp |-> moved,
              live |-> Table(b.live, segment.payload),
              acks |-> Append(b.acks,
                         DataFrame(moved, AckLen,
                                   Ack(segment.payload,
                                       Accepted(b.live, segment.payload)))),
              done |-> Append(b.done, segment.payload)]

\* What the gateway has after some payloads: state is that of the connection's
\* state machine, which no payload changes.
Results(state) ==
    [tcp : {t \in TcpConnections : t.state = state}, live : SUBSET OrderIds,
     acks : Seq(DownFrames), done : Seq(Requests)]

\* One payload keeps the results results.
LEMMA ProcessedOneType ==
    ASSUME NEW state, NEW b \in Results(state), NEW segment \in Segments
    PROVE  ProcessedOne(b, segment) \in Results(state)
<1> DEFINE req == segment.payload
           moved == [b.tcp EXCEPT !.recv_seq = Advance(@, segment.len)]
           ack == DataFrame(moved, AckLen, Ack(req, Accepted(b.live, req)))
<1>1. /\ b.tcp \in TcpConnections /\ b.tcp.state = state
      /\ b.live \in SUBSET OrderIds
      /\ b.acks \in Seq(DownFrames) /\ b.done \in Seq(Requests)
      /\ req \in Requests /\ segment.len \in Nat
  BY DEF Results, Segments
<1>2. Advance(b.tcp.recv_seq, segment.len) \in SeqNums
  <2>1. b.tcp.recv_seq \in Nat
    BY <1>1, SeqModAssumption DEF TcpConnections, SeqNums
  <2> QED
    BY <1>1, <2>1, AdvanceInRange
<1>3. moved \in TcpConnections /\ moved.state = state
  BY <1>1, <1>2 DEF TcpConnections
<1>4. Ack(req, Accepted(b.live, req)) \in Acks
  <2>1. Accepted(b.live, req) \in BOOLEAN
    BY DEF Accepted
  <2>2. req.id \in OrderIds
    BY <1>1 DEF Requests
  <2> HIDE DEF req
  <2> QED
    BY <2>1, <2>2 DEF Ack, Acks
<1> HIDE DEF moved
<1>5. ack \in DownFrames
  <2>1. moved.send_seq \in SeqNums /\ moved.recv_seq \in SeqNums
    BY <1>3 DEF TcpConnections
  <2> QED
    BY <1>4, <2>1 DEF DataFrame, Frame, DownFrames, Headers
<1>6. Table(b.live, req) \in SUBSET OrderIds
  BY <1>1, TableIds DEF Requests
<1>7. CASE segment.len < OrderLen
  BY <1>7 DEF ProcessedOne
<1>8. CASE ~(segment.len < OrderLen)
  <2>1. ProcessedOne(b, segment)
          = [tcp |-> moved, live |-> Table(b.live, req),
             acks |-> Append(b.acks, ack), done |-> Append(b.done, req)]
    BY <1>8, Zenon DEF ProcessedOne, moved
  <2> HIDE DEF ack, req
  <2>2. Append(b.acks, ack) \in Seq(DownFrames) /\ Append(b.done, req) \in Seq(Requests)
    BY <1>1, <1>5
  <2> QED
    BY <1>3, <1>6, <2>1, <2>2 DEF Results
<1> QED
  BY <1>7, <1>8

\* Processed goes through the payloads one by one.
LEMMA ProcessedFacts ==
    ASSUME live_orders \in SUBSET OrderIds, NEW tcp \in TcpConnections,
           NEW segments \in Seq(Segments)
    PROVE  /\ Processed(tcp, segments) \in Results(tcp.state)
           /\ Len(segments) = 1 =>
                 Processed(tcp, segments) =
                    ProcessedOne([tcp |-> tcp, live |-> live_orders,
                                  acks |-> <<>>, done |-> <<>>], segments[1])
<1> DEFINE N == Len(segments)
           R == Results(tcp.state)
           first == [tcp |-> tcp, live |-> live_orders, acks |-> <<>>, done |-> <<>>]
           Defines(u) ==
             u = [n \in 0..N |->
                    IF n = 0
                    THEN [tcp |-> tcp, live |-> live_orders, acks |-> <<>>, done |-> <<>>]
                    ELSE LET b == u[n - 1]
                             req == segments[n].payload
                             moved == [b.tcp EXCEPT
                                         !.recv_seq = Advance(@, segments[n].len)]
                         IN  IF segments[n].len < OrderLen
                             THEN b
                             ELSE [tcp |-> moved,
                                   live |-> Table(b.live, req),
                                   acks |-> Append(b.acks,
                                              DataFrame(moved, AckLen,
                                                Ack(req, Accepted(b.live, req)))),
                                   done |-> Append(b.done, req)]]
           Stepwise(u) == u = [n \in 0..N |->
                                 IF n = 0 THEN first
                                 ELSE ProcessedOne(u[n - 1], segments[n])]
           after == CHOOSE u : Defines(u)
           step == [x \in (1..N) \X R |-> ProcessedOne(x[2], segments[x[1]])]
<1>1. Processed(tcp, segments) = after[N]
  BY Zenon DEF Processed
<1>2. \A u : Defines(u) <=> Stepwise(u)
  BY Zenon DEF ProcessedOne
<1>3. N \in Nat /\ \A n \in 1..N : segments[n] \in Segments
  OBVIOUS
<1>4. first \in R
  <2>1. <<>> \in Seq(DownFrames) /\ <<>> \in Seq(Requests)
    OBVIOUS
  <2> QED
    BY <2>1 DEF Results
<1> HIDE DEF Defines, N
<1>5. step \in [(1..N) \X R -> R]
  BY <1>3, ProcessedOneType
<1> HIDE DEF step, R, first
<1>6. PICK f : f \in Iterations(N, R, first, step)
  BY <1>3, <1>4, <1>5, RecursionExists, Zenon
<1>7. /\ f \in [0..N -> R] /\ f[0] = first
      /\ \A n \in 1..N : f[n] = step[<<n, f[n - 1]>>]
  BY <1>6 DEF Iterations
<1>8. ASSUME NEW n \in 1..N
      PROVE  f[n] = ProcessedOne(f[n - 1], segments[n])
  <2>1. n - 1 \in 0..N
    BY <1>3
  <2>2. f[n - 1] \in R /\ f[n] = step[<<n, f[n - 1]>>]
    BY <1>7, <2>1
  <2> QED
    BY <2>2 DEF step
<1>9. Stepwise(f)
  <2>1. ASSUME NEW n \in 0..N
        PROVE  f[n] = IF n = 0 THEN first ELSE ProcessedOne(f[n - 1], segments[n])
    <3>1. n = 0 \/ n \in 1..N
      BY <1>3
    <3> QED
      BY <1>7, <1>8, <3>1, Zenon
  <2>2. f = [n \in 0..N |-> f[n]]
    BY <1>7
  <2> QED
    BY <2>1, <2>2, Zenon
<1> HIDE DEF Stepwise
<1>10. Stepwise(after)
  BY <1>2, <1>9, Zenon
<1> HIDE DEF after
<1>11. \A n \in 0..N : after[n] = IF n = 0 THEN first
                                  ELSE ProcessedOne(after[n - 1], segments[n])
  BY <1>10, Zenon DEF Stepwise
<1> DEFINE T == {n \in 0..N : after[n] \in R}
<1>12. 0 \in 0..N /\ after[0] = first
  BY <1>3, <1>11
<1>13. 0 \in T
  BY <1>4, <1>12
<1>14. ASSUME NEW n \in 0..(N - 1), n \in T
       PROVE  n + 1 \in T
  <2>1. n + 1 \in 0..N /\ n + 1 \in 1..N /\ (n + 1) - 1 = n /\ n + 1 # 0
    BY <1>3
  <2>2. after[n + 1] = ProcessedOne(after[n], segments[n + 1])
    BY <1>11, <2>1
  <2>3. after[n] \in R /\ segments[n + 1] \in Segments
    BY <1>3, <1>14, <2>1
  <2>4. after[n + 1] \in R
    BY <2>2, <2>3, ProcessedOneType DEF R
  <2> QED
    BY <2>1, <2>4
<1> HIDE DEF T
<1>15. \A n \in 0..N : n \in T
  BY <1>3, <1>13, <1>14, BoundedInduction, Zenon
<1>16. after[N] \in R
  BY <1>3, <1>15 DEF T
<1>17. ASSUME N = 1
       PROVE  after[N] = ProcessedOne(first, segments[1])
  <2>1. 1 \in 0..N /\ 1 # 0 /\ 1 - 1 = 0
    BY <1>17
  <2>2. after[1] = ProcessedOne(after[0], segments[1])
    BY <1>11, <2>1
  <2> QED
    BY <1>12, <1>17, <2>2
<1> QED
  BY <1>1, <1>16, <1>17, Zenon DEF R, N, first

\* A frame without payload leaves a connection that is CLOSED there.
LEMMA ControlKeepsClosed ==
    ASSUME NEW tcp \in TcpConnections, tcp.state = "CLOSED", NEW h \in UpFrames
    PROVE  /\ HandleIncoming(tcp, h, 0) \in TcpConnections
           /\ HandleIncoming(tcp, h, 0).state = "CLOSED"
           /\ HandleIncoming(tcp, h, 0).recv_seq = tcp.recv_seq
<1>1. h.ack \in SeqNums /\ h.syn = FALSE /\ h.has_ack = TRUE /\ h.fin = FALSE
  BY FrameFields
<1> DEFINE heard == [tcp EXCEPT !.recv_ack = h.ack]
<1>2. /\ heard \in TcpConnections /\ heard.state = "CLOSED"
      /\ heard.recv_seq = tcp.recv_seq
  BY <1>1 DEF TcpConnections
<1>3. HandlePayload(heard, h, 0) = heard
  <2>1. HandleFin(heard, h, 0) = heard
    BY <1>1, Zenon DEF HandleFin
  <2> QED
    BY <2>1 DEF HandlePayload
<1>4. HandleIncoming(tcp, h, 0) = HandleAck(tcp, h, 0)
  BY <1>1, Zenon DEF HandleIncoming
<1>5. HandleAck(tcp, h, 0) \in {tcp, heard}
  <2>1. CASE h.ack <= tcp.recv_ack
    BY <1>1, <2>1 DEF HandleAck
  <2>2. CASE ~(h.ack <= tcp.recv_ack)
    <3> HIDE DEF heard
    <3>1. HandleAck(tcp, h, 0) = HandlePayload(heard, h, 0)
      BY <1>1, <1>2, <2>2, Zenon DEF HandleAck, heard
    <3> QED
      BY <1>3, <3>1
  <2> QED
    BY <2>1, <2>2
<1> QED
  BY <1>2, <1>4, <1>5

-----------------------------------------------------------------------------
(***************************************************************************)
(* Steps of the clients.                                                   *)
(***************************************************************************)

\* The fields of a client.
LEMMA ClientFields ==
    ASSUME TypeOK, NEW c \in Clients
    PROVE  /\ client[c] \in ClientStates
           /\ client[c].idles \in BOOLEAN
           /\ client[c].fd \in 0..MaxConns /\ client[c].made \in 0..MaxConns
           /\ client[c].conn \in TcpConnections
           /\ client[c].order_id \in 1..(MaxOrders + 1)
           /\ client[c].req \in Requests
           /\ client[c].shadow \in SUBSET (1..MaxOrders)
           /\ client[c].queue \in Seq(Entries)
           /\ client[c].outstanding \in SUBSET OrderFrames
           /\ client[c].left \in 0..Burst
  BY DEF TypeOK, ClientStates

\* The fields of a link.
LEMMA LinkFields ==
    ASSUME TypeOK, NEW k \in Conns
    PROVE  /\ link[k] \in Links
           /\ link[k].up \in Seq(UpFrames) /\ link[k].down \in Seq(DownFrames)
           /\ link[k].client_end \in {"none", "open", "closed"}
           /\ link[k].gateway_end \in {"none", "backlog", "open", "closed"}
  BY DEF TypeOK, Links

\* The packets of the ring.
LEMMA RingFields ==
    ASSUME TypeOK
    PROVE  \A i \in 1..Len(ring) :
              ring[i] \in Packets /\ ring[i].conn \in Conns /\ ring[i].len \in Nat
<1>1. \A i \in 1..Len(ring) : ring[i] \in Packets
  BY DEF TypeOK
<1>2. \A pkt \in Packets : pkt.conn \in Conns /\ pkt.len \in Nat
  BY DEF Packets
<1> QED
  BY <1>1, <1>2

\* What an end of a link does to it.
LEMMA LinkOperations ==
    ASSUME NEW l \in Links, NEW up \in Seq(UpFrames), NEW down \in Seq(DownFrames)
    PROVE  /\ SentUp(l, up) \in Links /\ SentDown(l, down) \in Links
           /\ ClosedByClient(l) \in Links /\ ClosedByGateway(l) \in Links
           /\ Opened(l) \in Links
           /\ SentUp(l, up).client_end = l.client_end
           /\ SentUp(l, up).gateway_end = l.gateway_end
           /\ l.up # <<>> => SentUp(l, up).up # <<>>
           /\ \A i \in 1..Len(SentUp(l, up).up) :
                 \/ i \in 1..Len(l.up) /\ SentUp(l, up).up[i] = l.up[i]
                 \/ \E j \in 1..Len(up) : SentUp(l, up).up[i] = up[j]
           /\ SentDown(l, down).up = l.up
           /\ SentDown(l, down).client_end = l.client_end
           /\ SentDown(l, down).gateway_end = l.gateway_end
<1>1. /\ l.up \in Seq(UpFrames) /\ l.down \in Seq(DownFrames)
      /\ l.up \o up \in Seq(UpFrames) /\ l.down \o down \in Seq(DownFrames)
  BY DEF Links
<1>2. /\ SentUp(l, up) \in Links /\ SentDown(l, down) \in Links
      /\ ClosedByClient(l) \in Links /\ ClosedByGateway(l) \in Links
      /\ Opened(l) \in Links
  <2>1. <<>> \in Seq(UpFrames) /\ <<>> \in Seq(DownFrames)
    OBVIOUS
  <2>2. SentUp(l, up) \in Links
    BY <1>1 DEF Links, SentUp
  <2>3. SentDown(l, down) \in Links
    BY <1>1 DEF Links, SentDown
  <2>4. ClosedByClient(l) \in Links
    BY <2>1 DEF Links, ClosedByClient
  <2>5. ClosedByGateway(l) \in Links
    BY <2>1 DEF Links, ClosedByGateway
  <2>6. Opened(l) \in Links
    BY DEF Links, Opened
  <2> QED
    BY <2>2, <2>3, <2>4, <2>5, <2>6
<1>3. /\ SentUp(l, up).client_end = l.client_end
      /\ SentUp(l, up).gateway_end = l.gateway_end
      /\ SentUp(l, up).up \in {l.up, l.up \o up}
  BY DEF Links, SentUp
<1>4. /\ SentDown(l, down).up = l.up
      /\ SentDown(l, down).client_end = l.client_end
      /\ SentDown(l, down).gateway_end = l.gateway_end
  BY DEF Links, SentDown
<1>5. /\ Len(l.up \o up) = Len(l.up) + Len(up)
      /\ \A i \in 1..(Len(l.up) + Len(up)) :
            (l.up \o up)[i] = IF i <= Len(l.up) THEN l.up[i] ELSE up[i - Len(l.up)]
  BY <1>1, ConcatProperties
<1>6. l.up # <<>> => SentUp(l, up).up # <<>>
  BY <1>1, <1>3, <1>5
<1>7. ASSUME NEW i \in 1..Len(SentUp(l, up).up)
      PROVE  \/ i \in 1..Len(l.up) /\ SentUp(l, up).up[i] = l.up[i]
             \/ \E j \in 1..Len(up) : SentUp(l, up).up[i] = up[j]
  <2>1. CASE SentUp(l, up).up = l.up
    BY <2>1
  <2>2. CASE SentUp(l, up).up = l.up \o up
    <3>1. Len(l.up) \in Nat /\ Len(up) \in Nat
      BY <1>1
    <3>2. i \in 1..(Len(l.up) + Len(up))
      BY <1>5, <2>2
    <3>3. CASE i <= Len(l.up)
      BY <1>5, <2>2, <3>1, <3>2, <3>3
    <3>4. CASE ~(i <= Len(l.up))
      <4>1. i - Len(l.up) \in 1..Len(up)
        BY <3>1, <3>2, <3>4
      <4> QED
        BY <1>5, <2>2, <3>2, <3>4, <4>1
    <3> QED
      BY <3>3, <3>4
  <2> QED
    BY <1>3, <2>1, <2>2
<1> QED
  BY <1>2, <1>3, <1>4, <1>6, <1>7

\* The connection of a client at work is one it has made.
LEMMA ConnOfFacts ==
    ASSUME IndInv, NEW c \in Clients
    PROVE  /\ HasConn(c) => ConnOf(c) \in Conns /\ client[c].fd = client[c].made
           /\ ConnOf(c) \in Conns => HasConn(c)
           /\ HasConn(c) => link[ConnOf(c)].client_end = "open"
           /\ HasConn(c) => link[ConnOf(c)].gateway_end # "none"
<1>1. client[c].fd \in 0..MaxConns /\ client[c].made \in 0..MaxConns
      /\ client[c].fd \in {0, client[c].made}
  BY ClientFields DEF IndInv, ClientInv
<1>2. HasConn(c) => ConnOf(c) \in Conns /\ client[c].fd = client[c].made
  BY <1>1, NumbersAssumption DEF HasConn, ConnOf, Conns
<1>3. ConnOf(c) \in Conns => HasConn(c)
  BY <1>1 DEF HasConn, ConnOf, Conns
<1>4. ASSUME HasConn(c)
      PROVE  link[ConnOf(c)].client_end = "open" /\ link[ConnOf(c)].gateway_end # "none"
  <2>1. ConnOf(c) \in Conns /\ ConnOf(c)[1] = c /\ ConnOf(c)[2] = client[c].fd
        /\ client[c].fd <= client[c].made
    BY <1>1, <1>2, <1>4 DEF ConnOf
  <2> QED
    BY <2>1 DEF IndInv, LinkInv
<1> QED
  BY <1>2, <1>3, <1>4

\* The other clients, and the connections of the client itself that are not its
\* newest, are not touched: a step of a client that makes no connection.
LEMMA ClientMoves ==
    ASSUME IndInv, NEW c \in Clients, NEW r \in ClientStates,
           client' = [client EXCEPT ![c] = r],
           r.idles = client[c].idles, r.made = client[c].made,
           r.fd \in {0, client[c].fd},
           r.pc # "start",
           r.pc \in {"loop", "burst", "wait"} => r.fd # 0,
           r.pc = "burst" => r.left > 0,
           r.pc = "wait" => r.req.id \in 1..MaxOrders,
           r.conn.state = "CLOSED",
           link' \in [Conns -> Links],
           \A k \in Conns : k # ConnOf(c) => link'[k] = link[k],
           HasConn(c) =>
              LET old == link[ConnOf(c)]
                  new == link'[ConnOf(c)]
              IN  /\ new.gateway_end = old.gateway_end
                  /\ new.client_end = IF r.fd = 0 THEN "closed" ELSE "open"
                  /\ old.up # <<>> => new.up # <<>>
                  /\ client[c].idles
                     \/ \A i \in 1..Len(new.up) : new.up[i].len = OrderLen,
           UNCHANGED <<backlog, gateway, dropping>>
    PROVE  IndInv'
<1> USE DEF gateway
<1>1. TypeOK'
  BY DEF IndInv, TypeOK
<1>2. client'[c] = r /\ \A d \in Clients : d # c => client'[d] = client[d]
  BY DEF IndInv, TypeOK
<1>3. ClientInv'
  <2>1. r.fd \in {0, r.made}
    BY DEF IndInv, ClientInv
  <2>2. ASSUME NEW d \in Clients
        PROVE  /\ client'[d].fd \in {0, client'[d].made}
               /\ client'[d].pc = "start" => client'[d].made = 0
               /\ client'[d].pc \in {"loop", "burst", "wait"} => client'[d].fd # 0
               /\ client'[d].pc = "burst" => client'[d].left > 0
               /\ client'[d].pc = "wait" => client'[d].req.id \in 1..MaxOrders
               /\ client'[d].conn.state = "CLOSED"
    BY <1>2, <2>1 DEF IndInv, ClientInv, HasConn
  <2> QED
    BY <2>2 DEF ClientInv, HasConn
<1>4. \A k \in Conns : /\ link'[k].gateway_end = link[k].gateway_end
                       /\ link[k].client_end = "closed" => link'[k].client_end = "closed"
                       /\ link[k].up # <<>> => link'[k].up # <<>>
                       /\ client'[k[1]].idles = client[k[1]].idles
  <2>1. \A d \in Clients : client'[d].idles = client[d].idles
    BY <1>2
  <2>2. \A k \in Conns : k[1] \in Clients
    BY DEF Conns
  <2> QED
    BY <2>1, <2>2, ConnOfFacts
<1>5. LinkInv'
  <2> SUFFICES ASSUME NEW k \in Conns
               PROVE  /\ ctx[k].tcp.state = "CLOSED"
                      /\ k[2] > client'[k[1]].made => link'[k] = NoLink
                      /\ k[2] <= client'[k[1]].made =>
                            /\ link'[k].gateway_end # "none"
                            /\ link'[k].client_end =
                                  IF k[2] = client'[k[1]].fd THEN "open" ELSE "closed"
                      /\ client'[k[1]].idles
                         \/ \A i \in 1..Len(link'[k].up) : link'[k].up[i].len = OrderLen
    BY DEF LinkInv
  <2>1. k = <<k[1], k[2]>> /\ k[1] \in Clients /\ k[2] \in 1..MaxConns
    BY DEF Conns
  <2>2. CASE k = ConnOf(c)
    <3>1. k[1] = c /\ k[2] = client[c].fd /\ HasConn(c) /\ client[c].fd = client[c].made
      BY <2>2, ConnOfFacts DEF ConnOf
    <3>2. client'[k[1]] = r
      BY <1>2, <3>1
    <3>3. k[2] \in Nat /\ r.made = k[2] /\ r.fd \in {0, k[2]} /\ k[2] # 0
      BY <2>1, <3>1
    <3>4. link[k].gateway_end # "none" /\ ctx[k].tcp.state = "CLOSED"
      BY <2>2, <3>1, ConnOfFacts DEF IndInv, LinkInv
    <3>5. ~(k[2] > r.made)
      BY <3>3
    <3> QED
      BY <2>2, <3>1, <3>2, <3>3, <3>4, <3>5
  <2>3. CASE k # ConnOf(c)
    <3>1. link'[k] = link[k]
      BY <2>3
    <3>2. client'[k[1]].idles = client[k[1]].idles
          /\ client'[k[1]].made = client[k[1]].made
      BY <1>2, <2>1
    <3>3. k[2] = client'[k[1]].fd <=> k[2] = client[k[1]].fd
      <4>1. CASE k[1] = c
        <5>1. k[2] # client[c].fd
          BY <2>1, <2>3, <4>1 DEF ConnOf
        <5>2. k[2] # 0
          BY <2>1
        <5> QED
          BY <1>2, <4>1, <5>1, <5>2
      <4>2. CASE k[1] # c
        BY <1>2, <2>1, <4>2
      <4> QED
        BY <4>1, <4>2
    <3> QED
      BY <3>1, <3>2, <3>3 DEF IndInv, LinkInv
  <2> QED
    BY <2>2, <2>3
<1>6. EventInv'
  <2>1. \A i \in 1..Len(backlog) : backlog[i] \in Conns
    BY DEF IndInv, TypeOK
  <2>2. batch \ {ListenFd} \subseteq Conns
    BY DEF IndInv, TypeOK
  <2> QED
    BY <1>4, <2>1, <2>2 DEF IndInv, EventInv
<1>7. RingInv'
  BY <1>4, RingFields DEF IndInv, RingInv
<1>8. ClosedOnlyByClient'
  BY <1>4 DEF IndInv, ClosedOnlyByClient
<1> QED
  BY <1>1, <1>3, <1>5, <1>6, <1>7, <1>8 DEF IndInv

\* A step of a client that makes its next connection, and closes the one it had.
LEMMA ClientConnects ==
    ASSUME IndInv, NEW c \in Clients, NEW r \in ClientStates,
           client' = [client EXCEPT ![c] = r],
           r.idles = client[c].idles, client[c].made < MaxConns,
           r.made = client[c].made + 1, r.fd = r.made,
           r.pc \in {"top", "loop"},
           r.conn.state = "CLOSED",
           link' = [LinksAfterClose(c) EXCEPT ![NextConn(c)] = Opened(@)],
           backlog' = Append(backlog, NextConn(c)),
           UNCHANGED <<gateway, dropping>>
    PROVE  IndInv'
<1> USE DEF gateway
<1> DEFINE n == NextConn(c)
           m == client[c].made
<1>1. /\ m \in Nat /\ m + 1 \in 1..MaxConns
      /\ n \in Conns /\ n[1] = c /\ n[2] = m + 1
  BY ClientFields, NumbersAssumption, SMTT(30) DEF IndInv, NextConn, Conns
<1>2. client'[c] = r /\ \A d \in Clients : d # c => client'[d] = client[d]
  BY DEF IndInv, TypeOK
<1>3. link[n] = NoLink
  BY <1>1 DEF IndInv, LinkInv
<1>4. n # ConnOf(c)
  BY <1>1, ConnOfFacts DEF IndInv, ClientInv, ConnOf, HasConn
<1> HIDE DEF n
<1>5. /\ LinksAfterClose(c) \in [Conns -> Links]
      /\ \A k \in Conns : k # ConnOf(c) => LinksAfterClose(c)[k] = link[k]
      /\ HasConn(c) => LinksAfterClose(c)[ConnOf(c)] = ClosedByClient(link[ConnOf(c)])
  <2>1. CASE HasConn(c)
    <3>1. ConnOf(c) \in Conns /\ link \in [Conns -> Links]
      BY <2>1, ConnOfFacts DEF IndInv, TypeOK
    <3>2. <<>> \in Seq(UpFrames) /\ <<>> \in Seq(DownFrames)
      OBVIOUS
    <3>3. ClosedByClient(link[ConnOf(c)]) \in Links
      BY <3>1, <3>2, LinkOperations
    <3> QED
      BY <2>1, <3>1, <3>3 DEF LinksAfterClose
  <2>2. CASE ~HasConn(c)
    BY <2>2 DEF LinksAfterClose, IndInv, TypeOK
  <2> QED
    BY <2>1, <2>2
<1>6. /\ link'[n] = Opened(NoLink)
      /\ \A k \in Conns : k # n => link'[k] = LinksAfterClose(c)[k]
  BY <1>1, <1>3, <1>4, <1>5 DEF n
<1>7. NoLink \in Links /\ Opened(NoLink) \in Links
      /\ Opened(NoLink).gateway_end = "backlog" /\ Opened(NoLink).client_end = "open"
      /\ Opened(NoLink).up = <<>>
  <2>1. <<>> \in Seq(UpFrames) /\ <<>> \in Seq(DownFrames)
    OBVIOUS
  <2>2. NoLink \in Links
    BY <2>1 DEF Links, NoLink
  <2>3. Opened(NoLink) \in Links
    BY <2>1, <2>2, LinkOperations
  <2>4. /\ Opened(NoLink).gateway_end = "backlog" /\ Opened(NoLink).client_end = "open"
        /\ Opened(NoLink).up = <<>>
    BY DEF NoLink, Opened
  <2> QED
    BY <2>2, <2>3, <2>4
<1>8. link' \in [Conns -> Links]
  <2>1. link' = [LinksAfterClose(c) EXCEPT ![n] = link'[n]]
    BY <1>1, <1>5, <1>6 DEF n
  <2> QED
    BY <1>5, <1>6, <1>7, <2>1
<1>9. TypeOK'
  BY <1>1, <1>8 DEF IndInv, TypeOK, n
<1>10. ClientInv'
  <2>1. ASSUME NEW d \in Clients
        PROVE  /\ client'[d].fd \in {0, client'[d].made}
               /\ client'[d].pc = "start" => client'[d].made = 0
               /\ client'[d].pc \in {"loop", "burst", "wait"} => client'[d].fd # 0
               /\ client'[d].pc = "burst" => client'[d].left > 0
               /\ client'[d].pc = "wait" => client'[d].req.id \in 1..MaxOrders
               /\ client'[d].conn.state = "CLOSED"
    BY <1>1, <1>2 DEF IndInv, ClientInv, HasConn
  <2> QED
    BY <2>1 DEF ClientInv, HasConn
<1>11. ASSUME NEW k \in Conns, k # n
       PROVE  /\ link'[k].gateway_end = link[k].gateway_end
              /\ link'[k].up = link[k].up
              /\ link[k].client_end = "closed" => link'[k].client_end = "closed"
              /\ k # ConnOf(c) => link'[k] = link[k]
              /\ k = ConnOf(c) => link'[k].client_end = "closed"
  <2>1. CASE k = ConnOf(c)
    <3>1. link'[k] = ClosedByClient(link[k])
      BY <1>5, <1>6, <1>11, <2>1, ConnOfFacts
    <3>2. link[k] \in Links
      BY LinkFields DEF IndInv
    <3>3. /\ ClosedByClient(link[k]).gateway_end = link[k].gateway_end
          /\ ClosedByClient(link[k]).up = link[k].up
          /\ ClosedByClient(link[k]).client_end = "closed"
      BY <3>2 DEF ClosedByClient, Links
    <3> QED
      BY <2>1, <3>1, <3>3, Zenon
  <2>2. CASE k # ConnOf(c)
    BY <1>5, <1>6, <1>11, <2>2
  <2> QED
    BY <2>1, <2>2
<1>12. \A k \in Conns : client'[k[1]].idles = client[k[1]].idles
  <2>1. \A k \in Conns : k[1] \in Clients
    BY DEF Conns
  <2> QED
    BY <1>2, <2>1
<1>13. LinkInv'
  <2> SUFFICES ASSUME NEW k \in Conns
               PROVE  /\ ctx[k].tcp.state = "CLOSED"
                      /\ k[2] > client'[k[1]].made => link'[k] = NoLink
                      /\ k[2] <= client'[k[1]].made =>
                            /\ link'[k].gateway_end # "none"
                            /\ link'[k].client_end =
                                  IF k[2] = client'[k[1]].fd THEN "open" ELSE "closed"
                      /\ client'[k[1]].idles
                         \/ \A i \in 1..Len(link'[k].up) : link'[k].up[i].len = OrderLen
    BY DEF LinkInv
  <2>1. k = <<k[1], k[2]>> /\ k[1] \in Clients /\ k[2] \in 1..MaxConns
    BY DEF Conns
  <2>2. ctx[k].tcp.state = "CLOSED"
    BY DEF IndInv, LinkInv
  <2>3. client'[k[1]].idles
        \/ \A i \in 1..Len(link'[k].up) : link'[k].up[i].len = OrderLen
    <3>1. CASE k = n
      BY <1>6, <1>7, <3>1
    <3>2. CASE k # n
      BY <1>11, <1>12, <3>2 DEF IndInv, LinkInv
    <3> QED
      BY <3>1, <3>2
  <2>4. CASE k = n
    <3>1. client'[k[1]] = r /\ k[2] = r.made /\ k[2] \in Nat
      BY <1>1, <1>2, <2>4
    <3> QED
      BY <1>6, <1>7, <2>2, <2>3, <2>4, <3>1
  <2>5. CASE k # n /\ k[1] # c
    <3>1. client'[k[1]] = client[k[1]] /\ k # ConnOf(c)
      BY <1>2, <2>1, <2>5 DEF ConnOf
    <3>2. link'[k] = link[k]
      BY <1>11, <2>5, <3>1
    <3> QED
      BY <2>2, <2>3, <3>1, <3>2 DEF IndInv, LinkInv
  <2>6. CASE k # n /\ k[1] = c
    <3>1. k[2] # m + 1 /\ client'[k[1]] = r /\ r.made = m + 1 /\ r.fd = m + 1
      BY <1>1, <1>2, <2>1, <2>6 DEF NextConn, n
    <3>2. k[2] > m + 1 \/ k[2] <= m
      BY <1>1, <2>1, <3>1
    <3>3. /\ k[2] > m => link[k] = NoLink
          /\ k[2] <= m => /\ link[k].gateway_end # "none"
                          /\ link[k].client_end =
                                IF k[2] = client[c].fd THEN "open" ELSE "closed"
      BY <2>6 DEF IndInv, LinkInv
    <3>4. k = ConnOf(c) <=> k[2] = client[c].fd
      BY <2>1, <2>6 DEF ConnOf
    <3>5. CASE k[2] > m + 1
      <4>1. k[2] > m /\ k # ConnOf(c) /\ k[2] > r.made /\ ~(k[2] <= r.made)
        BY <1>1, <2>1, <3>1, <3>4, <3>5 DEF IndInv, ClientInv
      <4> QED
        BY <1>11, <2>2, <2>3, <2>6, <3>1, <3>3, <4>1
    <3>6. CASE k[2] <= m
      <4>1. k[2] <= r.made /\ ~(k[2] > r.made) /\ k[2] # r.fd
        BY <1>1, <2>1, <3>1, <3>6
      <4>2. link'[k].gateway_end # "none" /\ link'[k].client_end = "closed"
        BY <1>11, <2>6, <3>3, <3>4, <3>6
      <4> QED
        BY <2>2, <2>3, <3>1, <4>1, <4>2
    <3> QED
      BY <3>2, <3>5, <3>6
  <2> QED
    BY <2>4, <2>5, <2>6
<1>14. \A k \in Conns : link[k].gateway_end # "none" => k # n
  BY <1>3 DEF NoLink
<1>15. EventInv'
  <2>1. \A i \in 1..Len(backlog) :
           backlog[i] \in Conns /\ link[backlog[i]].gateway_end = "backlog"
    BY DEF IndInv, TypeOK, EventInv
  <2>2. \A k \in batch \ {ListenFd} :
           k \in Conns /\ link[k].gateway_end = "open"
           /\ (link[k].up # <<>> \/ link[k].client_end = "closed")
    BY DEF IndInv, TypeOK, EventInv
  <2>3. \A k \in batch' \ {ListenFd} :
           link'[k].gateway_end = "open"
           /\ (link'[k].up # <<>> \/ link'[k].client_end = "closed")
    BY <1>11, <1>14, <2>2
  <2>4. Len(backlog) \in Nat /\ Len(backlog') = Len(backlog) + 1
        /\ \A i \in 1..Len(backlog') :
              backlog'[i] = IF i = Len(backlog) + 1 THEN n ELSE backlog[i]
    BY DEF IndInv, TypeOK, n
  <2>5. ASSUME NEW i \in 1..Len(backlog'), NEW j \in 1..Len(backlog')
        PROVE  /\ link'[backlog'[i]].gateway_end = "backlog"
               /\ backlog'[i] = backlog'[j] => i = j
    <3>1. \A x \in 1..Len(backlog) : backlog[x] # n
                                     /\ link'[backlog[x]].gateway_end = "backlog"
      BY <1>11, <1>14, <2>1
    <3>2. \A x, y \in 1..Len(backlog) : backlog[x] = backlog[y] => x = y
      BY DEF IndInv, EventInv
    <3>3. link'[n].gateway_end = "backlog"
      BY <1>6, <1>7
    <3>4. /\ i \in 1..Len(backlog) \/ i = Len(backlog) + 1
          /\ j \in 1..Len(backlog) \/ j = Len(backlog) + 1
          /\ \A x \in 1..Len(backlog) : x # Len(backlog) + 1
      BY <2>4
    <3> QED
      BY <2>4, <3>1, <3>2, <3>3, <3>4
  <2>6. backlog' # <<>>
    BY <2>4
  <2> QED
    BY <2>3, <2>5, <2>6 DEF EventInv
<1>16. RingInv'
  <2>1. \A i \in 1..Len(ring) :
           ring[i].conn \in Conns /\ link[ring[i].conn].gateway_end = "open"
    BY RingFields DEF IndInv, RingInv
  <2>2. \A i \in 1..Len(ring) : link'[ring[i].conn].gateway_end = "open"
    BY <1>11, <1>14, <2>1
  <2> QED
    BY <1>12, <2>1, <2>2 DEF IndInv, RingInv
<1>17. ClosedOnlyByClient'
  <2>1. ASSUME NEW k \in Conns, link'[k].gateway_end = "closed"
        PROVE  link'[k].client_end = "closed" \/ dropping' \/ client'[k[1]].idles
    <3>1. k # n
      BY <1>6, <1>7, <2>1
    <3> QED
      BY <1>11, <1>12, <2>1, <3>1 DEF IndInv, ClosedOnlyByClient
  <2> QED
    BY <2>1 DEF ClosedOnlyByClient
<1> QED
  BY <1>9, <1>10, <1>13, <1>15, <1>16, <1>17 DEF IndInv

\* The first connect, made or failed.
LEMMA ConnectKeeps ==
    ASSUME IndInv, NEW c \in Clients, Connect(c)
    PROVE  IndInv'
<1> DEFINE r == [client[c] EXCEPT !.pc = "top", !.state = "ACTIVE", !.fd = 1, !.made = 1]
<1>1. client[c].made = 0 /\ client[c].fd = 0 /\ ~HasConn(c) /\ client[c].conn.state = "CLOSED"
  BY DEF Connect, IndInv, ClientInv, HasConn
<1>2. 0 < MaxConns /\ 1 \in 0..MaxConns
  BY NumbersAssumption
<1>3. r \in ClientStates
  BY <1>2, ClientFields, ZenonT(60) DEF IndInv, ClientStates
<1>4. /\ r.idles = client[c].idles /\ r.made = 1 /\ r.fd = 1 /\ r.pc = "top"
      /\ r.conn.state = "CLOSED"
  BY <1>1, ClientFields DEF IndInv, ClientStates
<1>5. client' = [client EXCEPT ![c] = r]
  BY DEF Connect
<1>6. link' = [LinksAfterClose(c) EXCEPT ![NextConn(c)] = Opened(@)]
  BY <1>1 DEF Connect, LinksAfterClose
<1> HIDE DEF r
<1>7. client[c].made < MaxConns /\ r.made = client[c].made + 1 /\ r.fd = r.made
      /\ r.pc \in {"top", "loop"}
  BY <1>1, <1>2, <1>4
<1>8. backlog' = Append(backlog, NextConn(c)) /\ UNCHANGED <<gateway, dropping>>
  BY DEF Connect
<1> QED
  BY <1>3, <1>4, <1>5, <1>6, <1>7, <1>8, ClientConnects, Zenon

\* The client gives up when its first connect fails.
LEMMA ConnectFailsKeeps ==
    ASSUME IndInv, NEW c \in Clients, ConnectFails(c)
    PROVE  IndInv'
<1> DEFINE r == [client[c] EXCEPT !.pc = "stopped", !.state = "STOPPED"]
<1>1. client[c].made = 0 /\ client[c].fd = 0 /\ ~HasConn(c) /\ client[c].conn.state = "CLOSED"
  BY DEF ConnectFails, IndInv, ClientInv, HasConn
<1>2. r \in ClientStates
  BY ClientFields, ZenonT(60) DEF IndInv, ClientStates
<1>3. /\ r.idles = client[c].idles /\ r.made = client[c].made /\ r.fd = 0
      /\ r.pc = "stopped" /\ r.conn.state = "CLOSED"
  BY <1>1, ClientFields DEF IndInv, ClientStates
<1>4. client' = [client EXCEPT ![c] = r] /\ link' \in [Conns -> Links] /\ link' = link
  BY DEF ConnectFails, IndInv, TypeOK
<1> HIDE DEF r
<1> QED
  BY <1>1, <1>2, <1>3, <1>4, ClientMoves DEF ConnectFails

\* Close and connect again.
LEMMA ReconnectKeeps ==
    ASSUME IndInv, NEW c \in Clients, Reconnect(c)
    PROVE  IndInv'
<1> DEFINE r == [client[c] EXCEPT !.pc = "loop", !.state = "ACTIVE",
                                  !.fd = client[c].made + 1,
                                  !.made = client[c].made + 1]
<1>1. client[c].made < MaxConns /\ client[c].conn.state = "CLOSED"
  BY DEF Reconnect, IndInv, ClientInv
<1>2. client[c].made + 1 \in 0..MaxConns
  BY <1>1, ClientFields, NumbersAssumption DEF IndInv
<1>3. r \in ClientStates
  BY <1>2, ClientFields, ZenonT(60) DEF IndInv, ClientStates
<1>4. /\ r.idles = client[c].idles /\ r.made = client[c].made + 1 /\ r.fd = r.made
      /\ r.pc = "loop" /\ r.conn.state = "CLOSED"
  BY <1>1, ClientFields DEF IndInv, ClientStates
<1>5. client' = [client EXCEPT ![c] = r]
  BY DEF Reconnect
<1> HIDE DEF r
<1> QED
  BY <1>1, <1>3, <1>4, <1>5, ClientConnects DEF Reconnect

\* What a close leaves of the links.
LEMMA CloseLinks ==
    ASSUME IndInv, NEW c \in Clients
    PROVE  /\ LinksAfterClose(c) \in [Conns -> Links]
           /\ \A k \in Conns : k # ConnOf(c) => LinksAfterClose(c)[k] = link[k]
           /\ HasConn(c) =>
                /\ LinksAfterClose(c)[ConnOf(c)].gateway_end = link[ConnOf(c)].gateway_end
                /\ LinksAfterClose(c)[ConnOf(c)].client_end = "closed"
                /\ LinksAfterClose(c)[ConnOf(c)].up = link[ConnOf(c)].up
                /\ \/ client[c].idles
                   \/ \A i \in 1..Len(link[ConnOf(c)].up) :
                         link[ConnOf(c)].up[i].len = OrderLen
<1>1. CASE HasConn(c)
  <2>1. ConnOf(c) \in Conns /\ link \in [Conns -> Links] /\ link[ConnOf(c)] \in Links
    BY <1>1, ConnOfFacts, LinkFields DEF IndInv, TypeOK
  <2>2. <<>> \in Seq(UpFrames) /\ <<>> \in Seq(DownFrames)
    OBVIOUS
  <2>3. ClosedByClient(link[ConnOf(c)]) \in Links
    BY <2>1, <2>2, LinkOperations
  <2>4. LinksAfterClose(c) = [link EXCEPT ![ConnOf(c)] = ClosedByClient(link[ConnOf(c)])]
    BY <1>1 DEF LinksAfterClose
  <2>5. /\ ClosedByClient(link[ConnOf(c)]).gateway_end = link[ConnOf(c)].gateway_end
        /\ ClosedByClient(link[ConnOf(c)]).client_end = "closed"
        /\ ClosedByClient(link[ConnOf(c)]).up = link[ConnOf(c)].up
    BY <2>1 DEF ClosedByClient, Links
  <2>6. \/ client[c].idles
        \/ \A i \in 1..Len(link[ConnOf(c)].up) : link[ConnOf(c)].up[i].len = OrderLen
    <3>1. ConnOf(c)[1] = c
      BY DEF ConnOf
    <3> QED
      BY <2>1, <3>1 DEF IndInv, LinkInv
  <2>7. LinksAfterClose(c)[ConnOf(c)] = ClosedByClient(link[ConnOf(c)])
    BY <2>1, <2>4
  <2> QED
    BY <2>1, <2>3, <2>4, <2>5, <2>6, <2>7
<1>2. CASE ~HasConn(c)
  BY <1>2 DEF LinksAfterClose, IndInv, TypeOK
<1> QED
  BY <1>1, <1>2

\* Close, and fail to connect again.
LEMMA ReconnectFailsKeeps ==
    ASSUME IndInv, NEW c \in Clients, ReconnectFails(c)
    PROVE  IndInv'
<1> DEFINE r == [client[c] EXCEPT !.state = "RETRYING", !.fd = 0]
<1>1. client[c].pc = "top" /\ client[c].conn.state = "CLOSED"
  BY DEF ReconnectFails, IndInv, ClientInv
<1>2. r \in ClientStates
  <2>1. 0 \in 0..MaxConns
    BY NumbersAssumption
  <2> QED
    BY <2>1, ClientFields, ZenonT(60) DEF IndInv, ClientStates
<1>3. /\ r.idles = client[c].idles /\ r.made = client[c].made /\ r.fd = 0
      /\ r.pc = "top" /\ r.conn.state = "CLOSED"
  BY <1>1, ClientFields DEF IndInv, ClientStates
<1>4. client' = [client EXCEPT ![c] = r] /\ link' = LinksAfterClose(c)
  BY DEF ReconnectFails
<1> HIDE DEF r
<1>5. /\ r.fd \in {0, client[c].fd} /\ r.pc # "start"
      /\ r.pc \in {"loop", "burst", "wait"} => r.fd # 0
      /\ r.pc = "burst" => r.left > 0
      /\ r.pc = "wait" => r.req.id \in 1..MaxOrders
  BY <1>3
<1>6. /\ link' \in [Conns -> Links]
      /\ \A k \in Conns : k # ConnOf(c) => link'[k] = link[k]
      /\ HasConn(c) =>
            /\ link'[ConnOf(c)].gateway_end = link[ConnOf(c)].gateway_end
            /\ link'[ConnOf(c)].client_end = IF r.fd = 0 THEN "closed" ELSE "open"
            /\ link[ConnOf(c)].up # <<>> => link'[ConnOf(c)].up # <<>>
            /\ client[c].idles \/ \A i \in 1..Len(link'[ConnOf(c)].up) :
                                     link'[ConnOf(c)].up[i].len = OrderLen
  BY <1>3, <1>4, CloseLinks
<1>7. UNCHANGED <<backlog, gateway, dropping>>
  BY DEF ReconnectFails
<1> QED
  BY <1>2, <1>3, <1>4, <1>5, <1>6, <1>7, ClientMoves, Zenon

\* The end of a client: it never sends a FIN, since its state machine is CLOSED.
LEMMA StopKeeps ==
    ASSUME IndInv, NEW c \in Clients, Stop(c)
    PROVE  IndInv'
<1> DEFINE r == [client[c] EXCEPT !.pc = "stopped", !.state = "STOPPED", !.fd = 0]
           fin == IF client[c].state = "ACTIVE" /\ ClosesActively(client[c].conn)
                  THEN <<FinFrame(InitiateClose(client[c].conn))>> ELSE <<>>
<1>1. client[c].conn.state = "CLOSED" /\ client[c].conn \in TcpConnections
  BY ClientFields DEF IndInv, ClientInv
<1>2. r \in ClientStates
  <2>1. 0 \in 0..MaxConns
    BY NumbersAssumption
  <2> QED
    BY <2>1, ClientFields, ZenonT(60) DEF IndInv, ClientStates
<1>3. /\ r.idles = client[c].idles /\ r.made = client[c].made /\ r.fd = 0
      /\ r.pc = "stopped" /\ r.conn.state = "CLOSED"
  BY <1>1, ClientFields DEF IndInv, ClientStates
<1>4. client' = [client EXCEPT ![c] = r]
  BY DEF Stop
<1>5. fin = <<>>
  <2>1. ~ClosesActively(client[c].conn)
    BY <1>1, Zenon DEF ClosesActively, InitiateClose
  <2> QED
    BY <2>1
<1>6. link' = LinksAfterClose(c)
  <2>1. CASE HasConn(c)
    <3>1. link' = [link EXCEPT ![ConnOf(c)] = ClosedByClient(SentUp(@, <<>>))]
      BY <1>5, <2>1 DEF Stop
    <3>2. link[ConnOf(c)] \in Links
      BY <2>1, ConnOfFacts, LinkFields DEF IndInv
    <3>3. link[ConnOf(c)].up \o <<>> = link[ConnOf(c)].up
      BY <3>2 DEF Links
    <3>4. SentUp(link[ConnOf(c)], <<>>) = link[ConnOf(c)]
      BY <3>2, <3>3 DEF SentUp, Links
    <3> QED
      BY <2>1, <3>1, <3>4 DEF LinksAfterClose
  <2>2. CASE ~HasConn(c)
    BY <2>2 DEF Stop, LinksAfterClose
  <2> QED
    BY <2>1, <2>2
<1> HIDE DEF r, fin
<1>7. /\ r.fd \in {0, client[c].fd} /\ r.pc # "start"
      /\ r.pc \in {"loop", "burst", "wait"} => r.fd # 0
      /\ r.pc = "burst" => r.left > 0
      /\ r.pc = "wait" => r.req.id \in 1..MaxOrders
  BY <1>3
<1>8. /\ link' \in [Conns -> Links]
      /\ \A k \in Conns : k # ConnOf(c) => link'[k] = link[k]
      /\ HasConn(c) =>
            /\ link'[ConnOf(c)].gateway_end = link[ConnOf(c)].gateway_end
            /\ link'[ConnOf(c)].client_end = IF r.fd = 0 THEN "closed" ELSE "open"
            /\ link[ConnOf(c)].up # <<>> => link'[ConnOf(c)].up # <<>>
            /\ client[c].idles \/ \A i \in 1..Len(link'[ConnOf(c)].up) :
                                     link'[ConnOf(c)].up[i].len = OrderLen
  BY <1>3, <1>6, CloseLinks
<1>9. UNCHANGED <<backlog, gateway, dropping>>
  BY DEF Stop
<1> QED
  BY <1>2, <1>3, <1>4, <1>7, <1>8, <1>9, ClientMoves, Zenon

\* Frames written to the client's connection.
LEMMA SentLinks ==
    ASSUME IndInv, NEW c \in Clients, HasConn(c), NEW frames \in Seq(UpFrames),
           client[c].idles \/ \A i \in 1..Len(frames) : frames[i].len = OrderLen,
           link' = [link EXCEPT ![ConnOf(c)] = SentUp(@, frames)]
    PROVE  /\ link' \in [Conns -> Links]
           /\ \A k \in Conns : k # ConnOf(c) => link'[k] = link[k]
           /\ link'[ConnOf(c)].gateway_end = link[ConnOf(c)].gateway_end
           /\ link'[ConnOf(c)].client_end = "open"
           /\ link[ConnOf(c)].up # <<>> => link'[ConnOf(c)].up # <<>>
           /\ \/ client[c].idles
              \/ \A i \in 1..Len(link'[ConnOf(c)].up) :
                    link'[ConnOf(c)].up[i].len = OrderLen
<1> DEFINE l == link[ConnOf(c)]
<1>1. ConnOf(c) \in Conns /\ link \in [Conns -> Links] /\ l \in Links
      /\ l.client_end = "open" /\ ConnOf(c)[1] = c
  BY ConnOfFacts, LinkFields DEF IndInv, TypeOK, ConnOf
<1>2. <<>> \in Seq(DownFrames)
  OBVIOUS
<1>3. /\ SentUp(l, frames) \in Links
      /\ SentUp(l, frames).client_end = l.client_end
      /\ SentUp(l, frames).gateway_end = l.gateway_end
      /\ l.up # <<>> => SentUp(l, frames).up # <<>>
      /\ \A i \in 1..Len(SentUp(l, frames).up) :
            \/ i \in 1..Len(l.up) /\ SentUp(l, frames).up[i] = l.up[i]
            \/ \E j \in 1..Len(frames) : SentUp(l, frames).up[i] = frames[j]
  <2> HIDE DEF l
  <2> QED
    BY <1>1, <1>2, LinkOperations
<1>4. client[c].idles \/ \A i \in 1..Len(l.up) : l.up[i].len = OrderLen
  BY <1>1 DEF IndInv, LinkInv
<1>5. link'[ConnOf(c)] = SentUp(l, frames)
  BY <1>1
<1>6. link' \in [Conns -> Links] /\ \A k \in Conns : k # ConnOf(c) => link'[k] = link[k]
  BY <1>1, <1>3
<1> HIDE DEF l
<1>7. \/ client[c].idles
      \/ \A i \in 1..Len(link'[ConnOf(c)].up) : link'[ConnOf(c)].up[i].len = OrderLen
  BY <1>3, <1>4, <1>5
<1> QED
  BY <1>1, <1>3, <1>5, <1>6, <1>7 DEF l

\* A keepalive.
LEMMA SendKeepaliveKeeps ==
    ASSUME IndInv, NEW c \in Clients, SendKeepalive(c)
    PROVE  IndInv'
<1> DEFINE r == [client[c] EXCEPT !.pc = "burst", !.left = Burst]
           frames == <<KeepaliveFrame(client[c].conn)>>
<1>1. /\ HasConn(c) /\ client[c].idles /\ client[c].conn.state = "CLOSED"
      /\ client[c].conn \in TcpConnections
  BY ClientFields DEF SendKeepalive, InLoop, IndInv, ClientInv
<1>2. Burst \in 0..Burst /\ Burst > 0
  BY NumbersAssumption
<1>3. r \in ClientStates
  BY <1>2, ClientFields, ZenonT(60) DEF IndInv, ClientStates
<1>4. /\ r.idles = client[c].idles /\ r.made = client[c].made /\ r.fd = client[c].fd
      /\ r.pc = "burst" /\ r.conn.state = "CLOSED" /\ r.left > 0 /\ r.fd # 0
  BY <1>1, <1>2, ClientFields, Zenon DEF IndInv, ClientStates, HasConn
<1>5. frames \in Seq(UpFrames)
  <2>1. KeepaliveFrame(client[c].conn) \in UpFrames
    BY <1>1 DEF KeepaliveFrame, AckFrame, Frame, UpFrames, Headers, TcpConnections
  <2> QED
    BY <2>1
<1>6. client' = [client EXCEPT ![c] = r]
      /\ link' = [link EXCEPT ![ConnOf(c)] = SentUp(@, frames)]
  BY DEF SendKeepalive
<1> HIDE DEF r, frames
<1> QED
  BY <1>1, <1>3, <1>4, <1>5, <1>6, SentLinks, ClientMoves DEF SendKeepalive

\* A new order.
LEMMA SendOrderKeeps ==
    ASSUME IndInv, NEW c \in Clients, NEW req \in NextRequests(c), SendOrder(c, req)
    PROVE  IndInv'
<1> DEFINE conn == client[c].conn
           frame == DataFrame(conn, OrderLen, req)
           left == OrdersLeft(c) - 1
<1>1. /\ HasConn(c) /\ conn.state = "CLOSED" /\ conn \in TcpConnections
      /\ client[c].fd # 0 /\ client[c].order_id \in 1..MaxOrders
  BY ClientFields DEF SendOrder, InLoop, IndInv, ClientInv, HasConn
<1>2. left \in 0..Burst
  BY NumbersAssumption, ClientFields DEF OrdersLeft, IndInv, ClientInv
<1>3. req \in Requests /\ req.id \in 1..MaxOrders
  <2>1. PICK action \in Actions, target \in client[c].shadow \cup {0} :
           req = Request(c, client[c].order_id, action, target)
    BY DEF NextRequests
  <2>2. target \in 0..MaxOrders
    BY ClientFields, NumbersAssumption DEF IndInv
  <2>3. action \in {"New", "Cancel", "Replace", "none"}
    BY ActionsAssumption
  <2>4. target \in OrderIds /\ client[c].order_id \in OrderIds
    BY <1>1, <2>2 DEF OrderIds
  <2> QED
    BY <1>1, <2>1, <2>3, <2>4 DEF Request, Requests
<1>4. frame \in OrderFrames /\ frame \in UpFrames /\ frame.len = OrderLen
  BY <1>1, <1>3 DEF DataFrame, Frame, OrderFrames, UpFrames, Headers, TcpConnections
<1>5. CASE WindowOpen(c)
  <2> DEFINE sent == [conn EXCEPT !.send_seq = Advance(@, OrderLen)]
             queue == TrackSegment(client[c].queue, conn.send_seq, OrderLen)
             outstanding == {f \in client[c].outstanding : f.seq # conn.send_seq}
                            \cup {frame}
             r == [client[c] EXCEPT !.pc = "wait",
                                    !.order_id = client[c].order_id + 1,
                                    !.req = req,
                                    !.left = left,
                                    !.conn = sent,
                                    !.queue = queue,
                                    !.outstanding = outstanding]
  <2>1. Advance(conn.send_seq, OrderLen) \in SeqNums /\ conn.send_seq \in SeqNums
    <3>1. conn.send_seq \in SeqNums /\ conn.send_seq \in Nat /\ OrderLen \in Nat
      BY <1>1, SeqModAssumption DEF TcpConnections, SeqNums, OrderLen
    <3> QED
      BY <3>1, AdvanceInRange
  <2>2. sent \in TcpConnections /\ sent.state = "CLOSED"
    BY <1>1, <2>1 DEF TcpConnections
  <2>3. queue \in Seq(Entries)
    <3>1. [seq_start |-> conn.send_seq, seq_end |-> Advance(conn.send_seq, OrderLen),
           retries |-> 0] \in Entries
      BY <2>1, NumbersAssumption DEF Entries
    <3> QED
      BY <3>1, ClientFields DEF IndInv, TrackSegment
  <2>4. outstanding \in SUBSET OrderFrames
    BY <1>4, ClientFields DEF IndInv
  <2>5. client[c].order_id + 1 \in 1..(MaxOrders + 1)
    BY <1>1, NumbersAssumption
  <2>6. client' = [client EXCEPT ![c] = r]
    BY <1>5 DEF SendOrder
  <2>7. link' = [link EXCEPT ![ConnOf(c)] = SentUp(@, <<frame>>)]
        /\ UNCHANGED <<backlog, gateway, dropping>>
    BY <1>5 DEF SendOrder
  <2> HIDE DEF sent, queue, outstanding, left, frame
  <2>8. r \in ClientStates
    BY <1>2, <1>3, <2>2, <2>3, <2>4, <2>5, ClientFields, ZenonT(60) DEF IndInv, ClientStates
  <2>9. /\ r.idles = client[c].idles /\ r.made = client[c].made /\ r.fd = client[c].fd
        /\ r.pc = "wait" /\ r.conn = sent /\ r.req = req
    BY ClientFields DEF IndInv, ClientStates
  <2> HIDE DEF r
  <2>10. <<frame>> \in Seq(UpFrames) /\ \A i \in 1..Len(<<frame>>) : <<frame>>[i].len = OrderLen
    BY <1>4
  <2> QED
    BY <1>1, <1>3, <2>2, <2>6, <2>7, <2>8, <2>9, <2>10, SentLinks, ClientMoves
<1>6. CASE ~WindowOpen(c)
  <2> DEFINE pc == AfterOrder(left)
             r == [client[c] EXCEPT !.pc = pc,
                                    !.order_id = client[c].order_id + 1,
                                    !.left = left]
  <2>1. client[c].order_id + 1 \in 1..(MaxOrders + 1)
    BY <1>1, NumbersAssumption
  <2>2. pc \in {"top", "burst"} /\ (pc = "burst" => left > 0)
    <3> HIDE DEF left
    <3> QED
      BY <1>2, NumbersAssumption DEF AfterOrder
  <2>3. client' = [client EXCEPT ![c] = r] /\ link' = link
        /\ UNCHANGED <<backlog, gateway, dropping>>
    BY <1>6 DEF SendOrder
  <2> HIDE DEF pc, left
  <2>4. r \in ClientStates
    BY <1>2, <2>1, <2>2, ClientFields, ZenonT(60) DEF IndInv, ClientStates
  <2>5. /\ r.idles = client[c].idles /\ r.made = client[c].made /\ r.fd = client[c].fd
        /\ r.pc = pc /\ r.conn = conn /\ r.left = left
    BY ClientFields DEF IndInv, ClientStates
  <2> HIDE DEF r
  <2>6. /\ link' \in [Conns -> Links]
        /\ link'[ConnOf(c)].client_end = "open"
        /\ client[c].idles \/ \A i \in 1..Len(link'[ConnOf(c)].up) :
                                 link'[ConnOf(c)].up[i].len = OrderLen
    BY <1>1, <2>3, ConnOfFacts, CloseLinks DEF IndInv, TypeOK
  <2> QED
    BY <1>1, <2>2, <2>3, <2>4, <2>5, <2>6, ClientMoves
<1> QED
  BY <1>5, <1>6

\* The answer to an order.
LEMMA ReadAckKeeps ==
    ASSUME IndInv, NEW c \in Clients, ReadAck(c)
    PROVE  IndInv'
<1> DEFINE l == link[ConnOf(c)]
           ack == l.down[1].ack
           pc == AfterOrder(client[c].left)
           conn == [client[c].conn EXCEPT !.recv_ack = ack]
           queue == AckUpTo(client[c].queue, ack)
           outstanding == {f \in client[c].outstanding : Advance(f.seq, OrderLen) > ack}
           shadow == ShadowAfter(client[c].shadow, client[c].req)
           r == [client[c] EXCEPT !.pc = pc, !.conn = conn, !.queue = queue,
                                  !.outstanding = outstanding, !.shadow = shadow]
<1>1. HasConn(c) /\ client[c].fd # 0 /\ ConnOf(c) \in Conns /\ l \in Links
      /\ l.down # <<>>
  BY ConnOfFacts, LinkFields DEF ReadAck, IndInv, ClientInv, HasConn
<1>2. ack \in SeqNums
  <2>1. l.down \in Seq(DownFrames)
    BY <1>1 DEF Links
  <2>2. l.down[1] \in DownFrames
    BY <1>1, <2>1
  <2> QED
    BY <2>2 DEF DownFrames, Headers
<1>3. pc \in {"top", "burst"} /\ (pc = "burst" => client[c].left > 0)
  BY ClientFields DEF AfterOrder, IndInv
<1>4. conn \in TcpConnections /\ conn.state = "CLOSED"
  BY <1>2, ClientFields DEF IndInv, ClientInv, TcpConnections
<1>5. queue \in Seq(Entries)
  BY <1>2, ClientFields, AckUpToFacts DEF IndInv
<1>6. outstanding \in SUBSET OrderFrames
  BY ClientFields DEF IndInv
<1>7. shadow \in SUBSET (1..MaxOrders)
  <2>1. client[c].req.id \in 1..MaxOrders
    BY DEF ReadAck, IndInv, ClientInv
  <2>2. client[c].shadow \in SUBSET (1..MaxOrders)
    BY ClientFields DEF IndInv
  <2>3. Table(client[c].shadow, client[c].req) \in SUBSET (1..MaxOrders)
    BY <2>1, <2>2, TableIds, Zenon
  <2> QED
    BY <2>3, Zenon DEF ShadowAfter
<1>8. client' = [client EXCEPT ![c] = r]
      /\ link' = [link EXCEPT ![ConnOf(c)] = [l EXCEPT !.down = <<>>]]
      /\ UNCHANGED <<backlog, gateway, dropping>>
  BY DEF ReadAck
<1>9. /\ link' \in [Conns -> Links]
      /\ \A k \in Conns : k # ConnOf(c) => link'[k] = link[k]
      /\ link'[ConnOf(c)].gateway_end = l.gateway_end
      /\ link'[ConnOf(c)].client_end = "open"
      /\ link'[ConnOf(c)].up = l.up
      /\ client[c].idles \/ \A i \in 1..Len(link'[ConnOf(c)].up) :
                               link'[ConnOf(c)].up[i].len = OrderLen
  <2> DEFINE new == [l EXCEPT !.down = <<>>]
  <2>1. new \in Links
    <3>1. <<>> \in Seq(DownFrames)
      OBVIOUS
    <3> QED
      BY <1>1, <3>1 DEF Links
  <2>2. new.gateway_end = l.gateway_end /\ new.client_end = l.client_end /\ new.up = l.up
    BY <1>1 DEF Links
  <2>3. link'[ConnOf(c)] = new
    BY <1>1, <1>8 DEF IndInv, TypeOK
  <2> HIDE DEF new
  <2>4. link' \in [Conns -> Links] /\ \A k \in Conns : k # ConnOf(c) => link'[k] = link[k]
    BY <1>1, <1>8, <2>1 DEF IndInv, TypeOK, new
  <2> QED
    BY <1>1, <2>2, <2>3, <2>4, ConnOfFacts, CloseLinks
<1> HIDE DEF pc, conn, queue, outstanding, shadow
<1>10. r \in ClientStates
  BY <1>3, <1>4, <1>5, <1>6, <1>7, ClientFields, ZenonT(60) DEF IndInv, ClientStates
<1>11. /\ r.idles = client[c].idles /\ r.made = client[c].made /\ r.fd = client[c].fd
       /\ r.pc = pc /\ r.conn = conn /\ r.left = client[c].left
  BY ClientFields DEF IndInv, ClientStates
<1> HIDE DEF r
<1> QED
  BY <1>1, <1>3, <1>4, <1>8, <1>9, <1>10, <1>11, ClientMoves, ZenonT(60)

\* collect_due returns and leaves entries of the queue.
LEMMA CollectDueFacts ==
    ASSUME NEW queue \in Seq(Entries), NEW due
    PROVE  /\ AfterCollectDue(queue, due, MaxRetries) \in Seq(Entries)
           /\ Due(queue, due, MaxRetries) \in Seq(Entries)
<1> DEFINE keep == {i \in 1..Len(queue) :
                      queue[i].seq_start \notin due \/ queue[i].retries < MaxRetries}
           again == {i \in 1..Len(queue) :
                       queue[i].seq_start \in due /\ queue[i].retries < MaxRetries}
           kept == Picked(queue, keep)
           K == {queue[i] : i \in keep \cap (1..Len(queue))}
           D == {queue[i] : i \in again \cap (1..Len(queue))}
<1>1. kept \in Seq(K) /\ Picked(queue, again) \in Seq(D)
  BY PickedFacts
<1>2. \A e \in K : e \in Entries /\ (e.seq_start \in due => e.retries < MaxRetries)
  OBVIOUS
<1>3. D \subseteq Entries
  OBVIOUS
<1>4. Due(queue, due, MaxRetries) = Picked(queue, again)
  BY DEF Due
<1>5. AfterCollectDue(queue, due, MaxRetries)
        = [i \in 1..Len(kept) |-> IF kept[i].seq_start \in due
                                  THEN [kept[i] EXCEPT !.retries = @ + 1]
                                  ELSE kept[i]]
  BY Zenon DEF AfterCollectDue
<1> HIDE DEF keep, again, kept, K, D
<1>6. ASSUME NEW i \in 1..Len(kept)
      PROVE  (IF kept[i].seq_start \in due
              THEN [kept[i] EXCEPT !.retries = @ + 1] ELSE kept[i]) \in Entries
  <2>1. kept[i] \in K
    BY <1>1
  <2>2. kept[i] \in Entries /\ (kept[i].seq_start \in due => kept[i].retries < MaxRetries)
    BY <1>2, <2>1
  <2>3. ASSUME kept[i].seq_start \in due
        PROVE  [kept[i] EXCEPT !.retries = @ + 1] \in Entries
    <3>1. kept[i].retries + 1 \in 0..MaxRetries
      BY <2>2, <2>3, NumbersAssumption DEF Entries
    <3> QED
      BY <2>2, <3>1 DEF Entries
  <2> QED
    BY <2>2, <2>3
<1>7. Len(kept) \in Nat
  BY <1>1
<1>8. AfterCollectDue(queue, due, MaxRetries) \in Seq(Entries)
  BY <1>5, <1>6, <1>7
<1>9. Picked(queue, again) \in Seq(Entries)
  BY <1>1, <1>3
<1> QED
  BY <1>4, <1>8, <1>9

\* A timeout: what is sent again are frames the client kept.
LEMMA ReadTimeoutKeeps ==
    ASSUME IndInv, NEW c \in Clients, NEW due, ReadTimeout(c, due)
    PROVE  IndInv'
<1> DEFINE queue == AfterCollectDue(client[c].queue, due, MaxRetries)
           kept == {f \in client[c].outstanding : Contains(queue, f.seq)}
           entries == Due(client[c].queue, due, MaxRetries)
           listed == {i \in 1..Len(entries) :
                        \E f \in kept : f.seq = entries[i].seq_start}
           again == Picked(entries, listed)
           frames == [i \in 1..Len(again) |->
                        CHOOSE f \in kept : f.seq = again[i].seq_start]
           r == [client[c] EXCEPT !.queue = queue, !.outstanding = kept]
<1>1. HasConn(c) /\ client[c].pc = "wait" /\ client[c].conn.state = "CLOSED"
      /\ client[c].fd # 0 /\ client[c].req.id \in 1..MaxOrders
  BY DEF ReadTimeout, IndInv, ClientInv, HasConn
<1>2. queue \in Seq(Entries) /\ entries \in Seq(Entries)
  BY ClientFields, CollectDueFacts DEF IndInv
<1>3. kept \in SUBSET OrderFrames
  BY ClientFields DEF IndInv
<1>4. client' = [client EXCEPT ![c] = r]
      /\ link' = [link EXCEPT ![ConnOf(c)] = SentUp(@, frames)]
      /\ UNCHANGED <<backlog, gateway, dropping>>
  BY Zenon DEF ReadTimeout
<1> HIDE DEF queue, kept, entries
<1>5. again \in Seq({entries[i] : i \in listed \cap (1..Len(entries))})
  <2> HIDE DEF listed
  <2> QED
    BY <1>2, PickedFacts
<1>6. \A e \in {entries[i] : i \in listed \cap (1..Len(entries))} :
         \E f \in kept : f.seq = e.seq_start
  OBVIOUS
<1> HIDE DEF again, listed
<1>7. ASSUME NEW i \in 1..Len(again)
      PROVE  (CHOOSE f \in kept : f.seq = again[i].seq_start) \in kept
  <2>1. again[i] \in {entries[j] : j \in listed \cap (1..Len(entries))}
    BY <1>5
  <2>2. \E f \in kept : f.seq = again[i].seq_start
    BY <1>6, <2>1
  <2> QED
    BY <2>2
<1>8. /\ Len(again) \in Nat
      /\ \A f \in kept : f \in UpFrames /\ f.len = OrderLen
  <2>1. \A f \in OrderFrames : f \in UpFrames /\ f.len = OrderLen
    BY DEF UpFrames, OrderFrames, Headers
  <2> QED
    BY <1>3, <1>5, <2>1
<1>9. frames \in Seq(UpFrames) /\ \A i \in 1..Len(frames) : frames[i].len = OrderLen
  BY <1>7, <1>8
<1> HIDE DEF frames
<1>10. r \in ClientStates
  BY <1>2, <1>3, ClientFields, ZenonT(60) DEF IndInv, ClientStates
<1>11. /\ r.idles = client[c].idles /\ r.made = client[c].made /\ r.fd = client[c].fd
       /\ r.pc = "wait" /\ r.conn = client[c].conn /\ r.req = client[c].req
  BY <1>1, ClientFields DEF IndInv, ClientStates
<1> HIDE DEF r
<1> QED
  BY <1>1, <1>4, <1>9, <1>10, <1>11, SentLinks, ClientMoves, ZenonT(60)

\* Every step of a client keeps the invariant.
LEMMA ClientStepKeeps ==
    ASSUME IndInv, NEW c \in Clients, ClientStep(c)
    PROVE  IndInv'
<1>1. CASE Interrupted(c) \/ WriteFails(c) \/ ReadEof(c)
  BY <1>1, StopKeeps DEF Interrupted, WriteFails, ReadEof
<1> QED
  BY <1>1, ConnectKeeps, ConnectFailsKeeps, ReconnectKeeps, ReconnectFailsKeeps,
     SendKeepaliveKeeps, SendOrderKeeps, ReadAckKeeps, ReadTimeoutKeeps
     DEF ClientStep, ReadReturns

-----------------------------------------------------------------------------
(***************************************************************************)
(* Steps of the gateway.                                                   *)
(***************************************************************************)

\* The order of the fields of a connection's context.
LEMMA CtxFields ==
    ASSUME TypeOK, NEW k \in Conns
    PROVE  /\ ctx[k] = [tcp |-> ctx[k].tcp, reassembly |-> ctx[k].reassembly]
           /\ ctx[k].tcp \in TcpConnections /\ IsReassembly(ctx[k].reassembly)
  BY DEF TypeOK

\* One context is replaced.
LEMMA CtxReplaced ==
    ASSUME TypeOK, NEW k \in Conns, NEW tcp \in TcpConnections,
           NEW reassembly, IsReassembly(reassembly),
           ctx' = [ctx EXCEPT ![k] = [tcp |-> tcp, reassembly |-> reassembly]]
    PROVE  /\ ctx' = [j \in Conns |-> [tcp |-> ctx'[j].tcp,
                                       reassembly |-> ctx'[j].reassembly]]
           /\ \A j \in Conns : ctx'[j].tcp \in TcpConnections
                               /\ IsReassembly(ctx'[j].reassembly)
           /\ ctx'[k].tcp = tcp
           /\ \A j \in Conns : j # k => ctx'[j] = ctx[j]
<1>1. DOMAIN ctx = Conns /\ ctx' = [j \in Conns |-> ctx'[j]]
  BY DEF TypeOK
<1>2. /\ ctx'[k] = [tcp |-> tcp, reassembly |-> reassembly]
      /\ \A j \in Conns : j # k => ctx'[j] = ctx[j]
  BY <1>1
<1>3. ASSUME NEW j \in Conns
      PROVE  /\ ctx'[j] = [tcp |-> ctx'[j].tcp, reassembly |-> ctx'[j].reassembly]
             /\ ctx'[j].tcp \in TcpConnections /\ IsReassembly(ctx'[j].reassembly)
  <2>1. CASE j = k
    <3>1. ctx'[j].tcp = tcp /\ ctx'[j].reassembly = reassembly
      BY <1>2, <2>1
    <3> QED
      BY <1>2, <2>1, <3>1
  <2>2. CASE j # k
    BY <1>2, <2>2, CtxFields
  <2> QED
    BY <2>1, <2>2
<1>4. ctx' = [j \in Conns |-> [tcp |-> ctx'[j].tcp, reassembly |-> ctx'[j].reassembly]]
  BY <1>1, <1>3, Zenon
<1> QED
  BY <1>2, <1>3, <1>4

\* A batch of events.
LEMMA EpollWaitKeeps ==
    ASSUME IndInv, EpollWait
    PROVE  IndInv'
<1> DEFINE ready == Readable \cup {fd \in {ListenFd} : backlog # <<>>}
<1>1. ListenFd \notin Conns /\ batch' \subseteq ready
  <2>1. batch' \in Reported(ready)
    BY DEF EpollWait
  <2> HIDE DEF ready
  <2> QED
    BY <2>1, ListenFdAssumption DEF Reported
<1>2. TypeOK'
  BY <1>1 DEF EpollWait, Readable, IndInv, TypeOK
<1>3. ClientInv' /\ LinkInv' /\ ClosedOnlyByClient'
  BY DEF EpollWait, IndInv, ClientInv, HasConn, LinkInv, ClosedOnlyByClient
<1>4. EventInv'
  BY <1>1 DEF EpollWait, Readable, IndInv, EventInv
<1>5. RingInv'
  BY DEF EpollWait, IndInv, RingInv
<1> QED
  BY <1>2, <1>3, <1>4, <1>5 DEF IndInv

\* A connection is accepted: the oldest of the backlog.
LEMMA AcceptKeeps ==
    ASSUME IndInv, Accept
    PROVE  IndInv'
<1> DEFINE k == Head(backlog)
           new == [link[k] EXCEPT !.gateway_end = "open"]
<1>1. /\ backlog # <<>> /\ backlog \in Seq(Conns) /\ k \in Conns /\ backlog[1] = k
      /\ Len(backlog) \in Nat \ {0}
      /\ link[k].gateway_end = "backlog"
  <2>1. backlog # <<>> /\ backlog \in Seq(Conns)
    BY DEF Accept, IndInv, EventInv, TypeOK
  <2>2. k \in Conns /\ backlog[1] = k /\ Len(backlog) \in Nat \ {0}
    BY <2>1
  <2>3. 1 \in 1..Len(backlog)
    BY <2>2
  <2> QED
    BY <2>1, <2>2, <2>3 DEF IndInv, EventInv
<1>2. /\ backlog' = Tail(backlog) /\ backlog' \in Seq(Conns)
      /\ Len(backlog') = Len(backlog) - 1
      /\ \A i \in 1..Len(backlog') : backlog'[i] = backlog[i + 1] /\ i + 1 \in 1..Len(backlog)
  BY <1>1 DEF Accept
<1>3. /\ new \in Links /\ new.gateway_end = "open" /\ new.up = link[k].up
      /\ new.client_end = link[k].client_end
  BY <1>1, LinkFields DEF IndInv, Links
<1>4. link' = [link EXCEPT ![k] = new] /\ batch' = batch \ {ListenFd}
      /\ UNCHANGED <<client, ring, buf, live_orders, dropping, applied>>
  BY DEF Accept
<1>5. ctx' = [ctx EXCEPT ![k] = [tcp |-> NewConnection, reassembly |-> NoSegments]]
  BY DEF Accept
<1> HIDE DEF k, new
<1>6. /\ link' \in [Conns -> Links] /\ link'[k] = new
      /\ \A j \in Conns : j # k => link'[j] = link[j]
  BY <1>1, <1>3, <1>4 DEF IndInv, TypeOK
<1>7. NewConnection \in TcpConnections /\ NewConnection.state = "CLOSED"
      /\ IsReassembly(NoSegments)
  <2>1. 0 \in SeqNums /\ 1 \in SeqNums
    BY SeqModAssumption DEF SeqNums
  <2>2. NewConnection \in TcpConnections /\ NewConnection.state = "CLOSED"
    BY <2>1 DEF NewConnection, TcpConnections, TcpStates
  <2>3. DOMAIN NoSegments = {}
    BY DEF NoSegments
  <2> QED
    BY <2>2, <2>3 DEF IsReassembly
<1>8. /\ ctx' = [j \in Conns |-> [tcp |-> ctx'[j].tcp, reassembly |-> ctx'[j].reassembly]]
      /\ \A j \in Conns : ctx'[j].tcp \in TcpConnections
                          /\ IsReassembly(ctx'[j].reassembly)
      /\ ctx'[k].tcp = NewConnection
      /\ \A j \in Conns : j # k => ctx'[j] = ctx[j]
  <2>1. TypeOK
    BY DEF IndInv
  <2> QED
    BY <1>1, <1>5, <1>7, <2>1, CtxReplaced, Zenon
<1>9. TypeOK'
  BY <1>2, <1>4, <1>6, <1>8 DEF IndInv, TypeOK
<1>10. ClientInv'
  BY <1>4 DEF IndInv, ClientInv, HasConn
<1>11. LinkInv'
  <2> SUFFICES ASSUME NEW j \in Conns
               PROVE  /\ ctx'[j].tcp.state = "CLOSED"
                      /\ j[2] > client[j[1]].made => link'[j] = NoLink
                      /\ j[2] <= client[j[1]].made =>
                            /\ link'[j].gateway_end # "none"
                            /\ link'[j].client_end =
                                  IF j[2] = client[j[1]].fd THEN "open" ELSE "closed"
                      /\ client[j[1]].idles
                         \/ \A i \in 1..Len(link'[j].up) : link'[j].up[i].len = OrderLen
    BY <1>4 DEF LinkInv
  <2>1. CASE j = k
    <3>1. link[k] # NoLink
      BY <1>1 DEF NoLink
    <3> QED
      BY <1>3, <1>6, <1>7, <1>8, <2>1, <3>1 DEF IndInv, LinkInv
  <2>2. CASE j # k
    BY <1>6, <1>8, <2>2 DEF IndInv, LinkInv
  <2> QED
    BY <2>1, <2>2
<1>12. EventInv'
  <2>1. ListenFd \notin batch'
    BY <1>4
  <2>2. ASSUME NEW j \in batch' \ {ListenFd}
        PROVE  link'[j].gateway_end = "open"
               /\ (link'[j].up # <<>> \/ link'[j].client_end = "closed")
    <3>1. j \in Conns /\ j # k
      BY <1>1, <1>4 DEF IndInv, TypeOK, EventInv
    <3> QED
      BY <1>4, <1>6, <3>1 DEF IndInv, EventInv
  <2>3. ASSUME NEW i \in 1..Len(backlog'), NEW j \in 1..Len(backlog')
        PROVE  /\ link'[backlog'[i]].gateway_end = "backlog"
               /\ backlog'[i] = backlog'[j] => i = j
    <3>1. /\ i + 1 \in 1..Len(backlog) /\ backlog'[i] = backlog[i + 1]
          /\ j + 1 \in 1..Len(backlog) /\ backlog'[j] = backlog[j + 1]
          /\ i + 1 # 1 /\ 1 \in 1..Len(backlog) /\ (i + 1 = j + 1 => i = j)
      BY <1>1, <1>2
    <3>2. \A x, y \in 1..Len(backlog) : /\ link[backlog[x]].gateway_end = "backlog"
                                        /\ backlog[x] = backlog[y] => x = y
      BY DEF IndInv, EventInv
    <3>3. backlog[i + 1] \in Conns /\ backlog[i + 1] # k
      BY <1>1, <3>1, <3>2
    <3> QED
      BY <1>6, <3>1, <3>2, <3>3
  <2> QED
    BY <2>1, <2>2, <2>3 DEF EventInv
<1>13. RingInv'
  <2>1. \A i \in 1..Len(ring) : ring[i].conn \in Conns /\ ring[i].conn # k
    BY <1>1, RingFields DEF IndInv, RingInv
  <2> QED
    BY <1>4, <1>6, <2>1 DEF IndInv, RingInv
<1>14. ClosedOnlyByClient'
  BY <1>3, <1>4, <1>6 DEF IndInv, ClosedOnlyByClient
<1> QED
  BY <1>9, <1>10, <1>11, <1>12, <1>13, <1>14 DEF IndInv

\* A step that changes the link of one connection and no context, and takes its
\* event off the batch: the part of the invariant that is not about the ring.
LEMMA EventHandled ==
    ASSUME IndInv, NEW k \in Conns, k \in batch, NEW new \in Links,
           link' = [link EXCEPT ![k] = new],
           batch' = batch \ {k},
           new.client_end = link[k].client_end,
           new.gateway_end \in {link[k].gateway_end, "closed"},
           new.gateway_end = "closed" => new.client_end = "closed",
           new.up = <<>>,
           UNCHANGED <<client, backlog, ctx, live_orders, dropping, applied>>
    PROVE  /\ link' \in [Conns -> Links] /\ link'[k] = new
           /\ \A j \in Conns : j # k => link'[j] = link[j]
           /\ ClientInv' /\ LinkInv' /\ EventInv' /\ ClosedOnlyByClient'
<1>1. /\ link' \in [Conns -> Links] /\ link'[k] = new
      /\ \A j \in Conns : j # k => link'[j] = link[j]
  BY DEF IndInv, TypeOK
<1>2. link[k].gateway_end = "open" /\ ListenFd # k
  BY ListenFdAssumption DEF IndInv, EventInv
<1>3. ClientInv'
  BY DEF IndInv, ClientInv, HasConn
<1>4. LinkInv'
  <2> SUFFICES ASSUME NEW j \in Conns
               PROVE  /\ ctx[j].tcp.state = "CLOSED"
                      /\ j[2] > client[j[1]].made => link'[j] = NoLink
                      /\ j[2] <= client[j[1]].made =>
                            /\ link'[j].gateway_end # "none"
                            /\ link'[j].client_end =
                                  IF j[2] = client[j[1]].fd THEN "open" ELSE "closed"
                      /\ client[j[1]].idles
                         \/ \A i \in 1..Len(link'[j].up) : link'[j].up[i].len = OrderLen
    BY DEF LinkInv
  <2>1. CASE j = k
    <3>1. link[k] # NoLink
      BY <1>2 DEF NoLink
    <3> QED
      BY <1>1, <1>2, <2>1, <3>1 DEF IndInv, LinkInv
  <2>2. CASE j # k
    BY <1>1, <2>2 DEF IndInv, LinkInv
  <2> QED
    BY <2>1, <2>2
<1>5. EventInv'
  <2>1. ASSUME NEW j \in batch' \ {ListenFd}
        PROVE  link'[j].gateway_end = "open"
               /\ (link'[j].up # <<>> \/ link'[j].client_end = "closed")
    <3>1. j \in Conns /\ j # k /\ j \in batch \ {ListenFd}
      BY DEF IndInv, TypeOK
    <3> QED
      BY <1>1, <3>1 DEF IndInv, EventInv
  <2>2. \A i \in 1..Len(backlog) : backlog[i] \in Conns /\ backlog[i] # k
    BY <1>2 DEF IndInv, TypeOK, EventInv
  <2> QED
    BY <1>1, <2>1, <2>2 DEF IndInv, EventInv
<1>6. ClosedOnlyByClient'
  BY <1>1, <1>2 DEF IndInv, ClosedOnlyByClient
<1> QED
  BY <1>1, <1>3, <1>4, <1>5, <1>6

\* A read: the packet goes to the ring behind the others.
LEMMA ReadFramesKeeps ==
    ASSUME IndInv, NEW k \in Conns, ReadFrames(k)
    PROVE  IndInv'
<1> DEFINE new == [link[k] EXCEPT !.up = <<>>]
           up == link[k].up
           pkt == [conn |-> k, len |-> ByteCount(up)]
<1>1. /\ up \in Seq(UpFrames) /\ up # <<>> /\ k \in batch
      /\ link[k].gateway_end = "open"
  BY LinkFields, ListenFdAssumption DEF ReadFrames, IndInv, EventInv
<1>2. /\ new \in Links /\ new.client_end = link[k].client_end
      /\ new.gateway_end = "open" /\ new.up = <<>>
  <2>1. <<>> \in Seq(UpFrames)
    OBVIOUS
  <2> QED
    BY <1>1, <2>1, LinkFields DEF IndInv, Links
<1>3. /\ ByteCount(up) \in Nat /\ ByteCount(up) >= HeaderLen
      /\ client[k[1]].idles \/ ByteCount(up) > HeaderLen
  <2>1. ByteCount(up) \in Nat /\ ByteCount(up) >= HeaderLen + up[1].len
    BY <1>1, ByteCountFacts
  <2>2. up[1].len \in Nat /\ 1 \in 1..Len(up)
    <3>1. 1 \in 1..Len(up) /\ up[1] \in UpFrames
      BY <1>1
    <3>2. up[1].len = OrderLen \/ up[1].len = 0
      BY <3>1, FrameFields, Zenon
    <3> QED
      BY <3>1, <3>2 DEF OrderLen
  <2>3. client[k[1]].idles \/ up[1].len = OrderLen
    BY <2>2 DEF IndInv, LinkInv
  <2> HIDE DEF up
  <2> QED
    BY <2>1, <2>2, <2>3 DEF HeaderLen, OrderLen
<1>4. /\ link' = [link EXCEPT ![k] = new] /\ batch' = batch \ {k} /\ buf' = up
      /\ ring' = IF Len(ring) < RingCapacity THEN Append(ring, pkt) ELSE ring
      /\ UNCHANGED <<client, backlog, ctx, live_orders, dropping, applied>>
  BY DEF ReadFrames
<1> HIDE DEF new
<1>5. /\ link' \in [Conns -> Links] /\ link'[k] = new
      /\ \A j \in Conns : j # k => link'[j] = link[j]
      /\ ClientInv' /\ LinkInv' /\ EventInv' /\ ClosedOnlyByClient'
  BY <1>1, <1>2, <1>4, EventHandled
<1> HIDE DEF up
<1>6. pkt \in Packets /\ pkt.conn = k /\ pkt.len = ByteCount(up)
  BY <1>3 DEF Packets
<1> HIDE DEF pkt
<1>7. ring' \in Seq(Packets)
  BY <1>4, <1>6 DEF IndInv, TypeOK
<1>8. TypeOK'
  BY <1>1, <1>4, <1>5, <1>7 DEF IndInv, TypeOK
<1>9. \A i \in 1..Len(ring) :
         /\ ring[i].conn \in Conns /\ ring[i].conn # k
         /\ link'[ring[i].conn].gateway_end = "open"
         /\ ring[i].conn \notin batch'
  BY <1>1, <1>4, <1>5, RingFields DEF IndInv, RingInv
<1>10. CASE Len(ring) < RingCapacity
  <2>1. /\ Len(ring) \in Nat /\ Len(ring') = Len(ring) + 1
        /\ \A i \in 1..Len(ring') : ring'[i] = IF i = Len(ring) + 1 THEN pkt ELSE ring[i]
    BY <1>4, <1>10 DEF IndInv, TypeOK
  <2>2. ASSUME NEW i \in 1..Len(ring'), NEW j \in 1..Len(ring')
        PROVE  /\ link'[ring'[i].conn].gateway_end = "open"
               /\ ring'[i].conn \notin batch'
               /\ ring'[i].conn = ring'[j].conn => i = j
               /\ ring'[i].len >= HeaderLen
               /\ client[ring'[i].conn[1]].idles \/ ring'[i].len > HeaderLen
    <3>1. /\ i \in 1..Len(ring) \/ i = Len(ring) + 1
          /\ j \in 1..Len(ring) \/ j = Len(ring) + 1
          /\ \A x \in 1..Len(ring) : x # Len(ring) + 1
      BY <2>1
    <3>2. link'[k].gateway_end = "open" /\ k \notin batch'
      BY <1>2, <1>4, <1>5
    <3>3. \A x, y \in 1..Len(ring) :
             /\ ring[x].conn = ring[y].conn => x = y
             /\ ring[x].len >= HeaderLen
             /\ client[ring[x].conn[1]].idles \/ ring[x].len > HeaderLen
      BY DEF IndInv, RingInv
    <3> QED
      BY <1>3, <1>6, <1>9, <2>1, <3>1, <3>2, <3>3
  <2> QED
    BY <1>1, <1>4, <1>5, <1>8, <2>2 DEF IndInv, RingInv
<1>11. CASE ~(Len(ring) < RingCapacity)
  <2>1. RingInv'
    BY <1>1, <1>4, <1>9, <1>11 DEF IndInv, RingInv
  <2> QED
    BY <1>5, <1>8, <2>1 DEF IndInv
<1> QED
  BY <1>10, <1>11

\* The end of a stream.
LEMMA ReadEndKeeps ==
    ASSUME IndInv, NEW k \in Conns, ReadEnd(k)
    PROVE  IndInv'
<1> DEFINE new == ClosedByGateway(link[k])
<1>1. /\ k \in batch /\ link[k].gateway_end = "open" /\ link[k].client_end = "closed"
  BY ListenFdAssumption DEF ReadEnd, IndInv, EventInv
<1>2. new \in Links
  <2>1. <<>> \in Seq(UpFrames) /\ <<>> \in Seq(DownFrames) /\ link[k] \in Links
    BY LinkFields DEF IndInv
  <2> QED
    BY <2>1, LinkOperations
<1>3. new.client_end = link[k].client_end /\ new.gateway_end = "closed" /\ new.up = <<>>
  BY LinkFields DEF IndInv, Links, ClosedByGateway
<1>4. /\ link' = [link EXCEPT ![k] = new] /\ batch' = batch \ {k}
      /\ UNCHANGED <<client, backlog, ctx, ring, live_orders, dropping, applied>>
      /\ buf' \in Seq(UpFrames)
  BY DEF ReadEnd
<1> HIDE DEF new
<1>5. /\ link' \in [Conns -> Links] /\ link'[k] = new
      /\ \A j \in Conns : j # k => link'[j] = link[j]
      /\ ClientInv' /\ LinkInv' /\ EventInv' /\ ClosedOnlyByClient'
  BY <1>1, <1>2, <1>3, <1>4, EventHandled
<1>6. TypeOK'
  BY <1>4, <1>5 DEF IndInv, TypeOK
<1>7. RingInv'
  <2>1. \A i \in 1..Len(ring) : ring[i].conn \in Conns /\ ring[i].conn # k
    BY <1>1, RingFields DEF IndInv, RingInv
  <2> QED
    BY <1>4, <1>5, <2>1 DEF IndInv, RingInv
<1> QED
  BY <1>5, <1>6, <1>7 DEF IndInv

\* The packet that leaves the ring.
LEMMA PoppingFacts ==
    ASSUME IndInv, NEW k, NEW len, Popping(k, len)
    PROVE  /\ k \in Conns /\ len \in Nat
           /\ link[k].gateway_end = "open"
           /\ client[k[1]].idles \/ len > 0
           /\ buf \in Seq(UpFrames) /\ (buf # <<>> => buf[1] \in UpFrames)
           /\ ring' \in Seq(Packets)
           /\ \A i \in 1..Len(ring') :
                 /\ i + 1 \in 1..Len(ring) /\ ring'[i] = ring[i + 1]
                 /\ ring'[i].conn \in Conns /\ ring'[i].conn # k
<1>1. ring \in Seq(Packets) /\ ring # <<>> /\ ring' = Tail(ring)
      /\ k = Head(ring).conn /\ len = Head(ring).len - HeaderLen
  BY DEF Popping, IndInv, TypeOK
<1>2. Len(ring) \in Nat \ {0} /\ Head(ring) = ring[1] /\ 1 \in 1..Len(ring)
  BY <1>1
<1>3. /\ ring[1].conn \in Conns /\ ring[1].len \in Nat
      /\ link[ring[1].conn].gateway_end = "open"
      /\ ring[1].len >= HeaderLen
      /\ client[ring[1].conn[1]].idles \/ ring[1].len > HeaderLen
  BY <1>2, RingFields DEF IndInv, RingInv
<1>4. /\ k \in Conns /\ len \in Nat /\ link[k].gateway_end = "open"
      /\ client[k[1]].idles \/ len > 0
  BY <1>1, <1>2, <1>3 DEF HeaderLen
<1>5. buf \in Seq(UpFrames)
  BY DEF IndInv, TypeOK
<1>6. buf # <<>> => buf[1] \in UpFrames
  BY <1>5
<1>7. /\ ring' \in Seq(Packets) /\ Len(ring') = Len(ring) - 1
      /\ \A i \in 1..Len(ring') : i + 1 \in 1..Len(ring) /\ ring'[i] = ring[i + 1]
  BY <1>1, <1>2
<1>8. ASSUME NEW i \in 1..Len(ring')
      PROVE  ring'[i].conn \in Conns /\ ring'[i].conn # k
  <2>1. i + 1 \in 1..Len(ring) /\ ring'[i] = ring[i + 1] /\ i + 1 # 1
    BY <1>7
  <2>2. ring[i + 1].conn \in Conns
    BY <2>1, RingFields DEF IndInv
  <2>3. ring[i + 1].conn = ring[1].conn => i + 1 = 1
    BY <1>2, <2>1 DEF IndInv, RingInv
  <2> QED
    BY <1>1, <1>2, <2>1, <2>2, <2>3
<1> QED
  BY <1>4, <1>5, <1>6, <1>7, <1>8

\* A packet is handled: its connection may be answered, or closed for a reason
\* that the property names, and the other connections are not touched.
LEMMA PacketHandled ==
    ASSUME IndInv, NEW k, NEW len, Popping(k, len), NEW new \in Links,
           link' = [link EXCEPT ![k] = new],
           new.client_end = link[k].client_end,
           new.up \in {link[k].up, <<>>},
           \/ new.gateway_end = link[k].gateway_end
           \/ new.gateway_end = "closed" /\ (dropping \/ client[k[1]].idles),
           ctx' = [j \in Conns |-> [tcp |-> ctx'[j].tcp,
                                    reassembly |-> ctx'[j].reassembly]],
           \A j \in Conns : /\ ctx'[j].tcp \in TcpConnections
                            /\ IsReassembly(ctx'[j].reassembly)
                            /\ ctx'[j].tcp.state = "CLOSED",
           live_orders' \in SUBSET OrderIds,
           applied' \in Seq(Requests),
           UNCHANGED <<client, backlog, batch, buf, dropping>>
    PROVE  IndInv'
<1>1. /\ k \in Conns /\ link[k].gateway_end = "open"
      /\ ring' \in Seq(Packets) /\ batch = {}
      /\ \A i \in 1..Len(ring') :
            /\ i + 1 \in 1..Len(ring) /\ ring'[i] = ring[i + 1]
            /\ ring'[i].conn \in Conns /\ ring'[i].conn # k
  BY PoppingFacts DEF Popping
<1>2. /\ link' \in [Conns -> Links] /\ link'[k] = new
      /\ \A j \in Conns : j # k => link'[j] = link[j]
  BY <1>1 DEF IndInv, TypeOK
<1>3. TypeOK'
  BY <1>1, <1>2 DEF IndInv, TypeOK
<1>4. ClientInv'
  BY DEF IndInv, ClientInv, HasConn
<1>5. LinkInv'
  <2> SUFFICES ASSUME NEW j \in Conns
               PROVE  /\ ctx'[j].tcp.state = "CLOSED"
                      /\ j[2] > client[j[1]].made => link'[j] = NoLink
                      /\ j[2] <= client[j[1]].made =>
                            /\ link'[j].gateway_end # "none"
                            /\ link'[j].client_end =
                                  IF j[2] = client[j[1]].fd THEN "open" ELSE "closed"
                      /\ client[j[1]].idles
                         \/ \A i \in 1..Len(link'[j].up) : link'[j].up[i].len = OrderLen
    BY DEF LinkInv
  <2>1. CASE j = k
    <3>1. link[k] # NoLink
      BY <1>1 DEF NoLink
    <3> QED
      BY <1>1, <1>2, <2>1, <3>1 DEF IndInv, LinkInv
  <2>2. CASE j # k
    BY <1>2, <2>2 DEF IndInv, LinkInv
  <2> QED
    BY <2>1, <2>2
<1>6. EventInv'
  <2>1. \A i \in 1..Len(backlog) : backlog[i] \in Conns /\ backlog[i] # k
    BY <1>1 DEF IndInv, TypeOK, EventInv
  <2> QED
    BY <1>1, <1>2, <2>1 DEF IndInv, EventInv
<1>7. RingInv'
  <2>1. ASSUME NEW i \in 1..Len(ring'), NEW j \in 1..Len(ring')
        PROVE  /\ link'[ring'[i].conn].gateway_end = "open"
               /\ ring'[i].conn \notin batch'
               /\ ring'[i].conn = ring'[j].conn => i = j
               /\ ring'[i].len >= HeaderLen
               /\ client[ring'[i].conn[1]].idles \/ ring'[i].len > HeaderLen
    <3>1. /\ i + 1 \in 1..Len(ring) /\ ring'[i] = ring[i + 1]
          /\ j + 1 \in 1..Len(ring) /\ ring'[j] = ring[j + 1]
          /\ ring'[i].conn \in Conns /\ ring'[i].conn # k
      BY <1>1
    <3>2. \A x, y \in 1..Len(ring) :
             /\ link[ring[x].conn].gateway_end = "open"
             /\ ring[x].conn = ring[y].conn => x = y
             /\ ring[x].len >= HeaderLen
             /\ client[ring[x].conn[1]].idles \/ ring[x].len > HeaderLen
      BY DEF IndInv, RingInv
    <3>3. i + 1 = j + 1 => i = j
      BY <1>1
    <3> QED
      BY <1>1, <1>2, <3>1, <3>2, <3>3
  <2> QED
    BY <1>1, <2>1 DEF RingInv
<1>8. ClosedOnlyByClient'
  BY <1>1, <1>2 DEF IndInv, ClosedOnlyByClient
<1> QED
  BY <1>3, <1>4, <1>5, <1>6, <1>7, <1>8 DEF IndInv

\* The state of a context's state machine is CLOSED, and a step that leaves the
\* contexts alone leaves it so.
LEMMA CtxKept ==
    ASSUME IndInv, ctx' = ctx
    PROVE  /\ ctx' = [j \in Conns |-> [tcp |-> ctx'[j].tcp,
                                       reassembly |-> ctx'[j].reassembly]]
           /\ \A j \in Conns : /\ ctx'[j].tcp \in TcpConnections
                               /\ IsReassembly(ctx'[j].reassembly)
                               /\ ctx'[j].tcp.state = "CLOSED"
  BY DEF IndInv, TypeOK, LinkInv

\* One context is replaced by one whose state machine is CLOSED.
LEMMA CtxStaysClosed ==
    ASSUME IndInv, NEW k \in Conns, NEW tcp \in TcpConnections, tcp.state = "CLOSED",
           NEW reassembly, IsReassembly(reassembly),
           ctx' = [ctx EXCEPT ![k] = [tcp |-> tcp, reassembly |-> reassembly]]
    PROVE  /\ ctx' = [j \in Conns |-> [tcp |-> ctx'[j].tcp,
                                       reassembly |-> ctx'[j].reassembly]]
           /\ \A j \in Conns : /\ ctx'[j].tcp \in TcpConnections
                               /\ IsReassembly(ctx'[j].reassembly)
                               /\ ctx'[j].tcp.state = "CLOSED"
<1>1. TypeOK
  BY DEF IndInv
<1>2. /\ ctx' = [j \in Conns |-> [tcp |-> ctx'[j].tcp, reassembly |-> ctx'[j].reassembly]]
      /\ \A j \in Conns : ctx'[j].tcp \in TcpConnections
                          /\ IsReassembly(ctx'[j].reassembly)
      /\ ctx'[k].tcp = tcp
      /\ \A j \in Conns : j # k => ctx'[j] = ctx[j]
  BY <1>1, CtxReplaced, Zenon
<1>3. \A j \in Conns : ctx[j].tcp.state = "CLOSED"
  BY DEF IndInv, LinkInv
<1> QED
  BY <1>2, <1>3

\* A packet that only closes its connection, and one that is skipped.
LEMMA DropPacketKeeps ==
    ASSUME IndInv, NEW k, NEW len, DropPacket(k, len) \/ SkipPacket(k, len)
    PROVE  IndInv'
<1>1. Popping(k, len) /\ k \in Conns
      /\ UNCHANGED <<client, backlog, batch, buf, dropping, ctx, live_orders, applied>>
  BY PoppingFacts DEF DropPacket, SkipPacket
<1>2. link[k] \in Links /\ <<>> \in Seq(UpFrames) /\ <<>> \in Seq(DownFrames)
  BY <1>1, LinkFields DEF IndInv
<1>3. live_orders' \in SUBSET OrderIds /\ applied' \in Seq(Requests)
  BY <1>1 DEF IndInv, TypeOK
<1>4. CASE DropPacket(k, len)
  <2> DEFINE new == ClosedByGateway(link[k])
  <2>1. new \in Links
    BY <1>2, LinkOperations
  <2>2. new.client_end = link[k].client_end /\ new.gateway_end = "closed" /\ new.up = <<>>
    BY <1>2 DEF Links, ClosedByGateway
  <2>3. link' = [link EXCEPT ![k] = new] /\ dropping
    BY <1>4 DEF DropPacket
  <2> HIDE DEF new
  <2> QED
    BY <1>1, <1>3, <2>1, <2>2, <2>3, CtxKept, PacketHandled
<1>5. CASE SkipPacket(k, len)
  <2>1. link' = [link EXCEPT ![k] = link[k]]
    BY <1>1, <1>5 DEF SkipPacket, IndInv, TypeOK
  <2> QED
    BY <1>1, <1>2, <1>3, <2>1, CtxKept, PacketHandled
<1> QED
  BY <1>4, <1>5

\* A frame without payload: the state machine is CLOSED and stays so, and the
\* connection, whose client sends keepalives, is closed.
LEMMA ControlFrameKeeps ==
    ASSUME IndInv, NEW k, NEW len, ControlFrame(k, len)
    PROVE  IndInv'
<1> DEFINE h == buf[1]
           handled == HandleIncoming(ctx[k].tcp, h, len)
           new == ClosedByGateway(link[k])
<1>1. Popping(k, len) /\ k \in Conns /\ len = 0 /\ h \in UpFrames
      /\ client[k[1]].idles
  <2>1. Popping(k, len) /\ len = 0 /\ buf # <<>>
    BY DEF ControlFrame, Parsing
  <2> QED
    BY <2>1, PoppingFacts
<1>2. /\ ctx[k].tcp \in TcpConnections /\ ctx[k].tcp.state = "CLOSED"
      /\ ctx[k] = [tcp |-> ctx[k].tcp, reassembly |-> ctx[k].reassembly]
      /\ IsReassembly(ctx[k].reassembly)
  BY <1>1, CtxFields DEF IndInv, LinkInv
<1>3. h.fin = FALSE
  BY <1>1, FrameFields
<1> HIDE DEF h
<1>4. handled \in TcpConnections /\ handled.state = "CLOSED"
  BY <1>1, <1>2, ControlKeepsClosed
<1>5. link[k] \in Links /\ <<>> \in Seq(UpFrames) /\ <<>> \in Seq(DownFrames)
  BY <1>1, LinkFields DEF IndInv
<1>6. SentDown(link[k], <<>> \o <<>>) = link[k]
  <2>1. <<>> \o <<>> = <<>>
    OBVIOUS
  <2>2. link[k].down \o <<>> = link[k].down
    BY <1>5 DEF Links
  <2> QED
    BY <1>5, <2>1, <2>2 DEF SentDown, Links
<1>7. /\ ctx' = [ctx EXCEPT ![k] = [ctx[k] EXCEPT !.tcp = handled]]
      /\ link' = [link EXCEPT ![k] = IF handled.state = "CLOSED"
                                     THEN ClosedByGateway(SentDown(link[k], <<>> \o <<>>))
                                     ELSE SentDown(link[k], <<>> \o <<>>)]
      /\ UNCHANGED <<client, backlog, batch, buf, live_orders, dropping, applied>>
  BY <1>3, Zenon DEF ControlFrame, h
<1> HIDE DEF handled
<1>8. link' = [link EXCEPT ![k] = new]
  BY <1>4, <1>6, <1>7
<1>9. ctx' = [ctx EXCEPT ![k] = [tcp |-> handled, reassembly |-> ctx[k].reassembly]]
  <2>1. [ctx[k] EXCEPT !.tcp = handled] = [tcp |-> handled, reassembly |-> ctx[k].reassembly]
    BY <1>2
  <2> QED
    BY <1>7, <2>1, Zenon
<1>10. new \in Links
  BY <1>5, LinkOperations
<1>11. new.client_end = link[k].client_end /\ new.gateway_end = "closed" /\ new.up = <<>>
  BY <1>5 DEF Links, ClosedByGateway
<1>12. /\ ctx' = [j \in Conns |-> [tcp |-> ctx'[j].tcp, reassembly |-> ctx'[j].reassembly]]
       /\ \A j \in Conns : /\ ctx'[j].tcp \in TcpConnections
                           /\ IsReassembly(ctx'[j].reassembly)
                           /\ ctx'[j].tcp.state = "CLOSED"
  BY <1>1, <1>2, <1>4, <1>9, CtxStaysClosed, Zenon
<1>13. live_orders' \in SUBSET OrderIds /\ applied' \in Seq(Requests)
  BY <1>7 DEF IndInv, TypeOK
<1> HIDE DEF new
<1> QED
  BY <1>1, <1>7, <1>8, <1>10, <1>11, <1>12, <1>13, PacketHandled, ZenonT(60)

\* A payload that waits for its turn.
LEMMA BufferSegmentKeeps ==
    ASSUME IndInv, NEW k, NEW len, BufferSegment(k, len)
    PROVE  IndInv'
<1> DEFINE kept == Insert(ctx[k].reassembly, buf[1].seq, len, PayloadOf(buf))
<1>1. Popping(k, len) /\ buf # <<>>
  BY DEF BufferSegment, Parsing
<1>2. k \in Conns /\ len \in Nat /\ buf \in Seq(UpFrames) /\ buf # <<>>
      /\ buf[1] \in UpFrames
  BY <1>1, PoppingFacts
<1>3. /\ ctx[k].tcp \in TcpConnections /\ ctx[k].tcp.state = "CLOSED"
      /\ ctx[k] = [tcp |-> ctx[k].tcp, reassembly |-> ctx[k].reassembly]
      /\ IsReassembly(ctx[k].reassembly)
  BY <1>2, CtxFields DEF IndInv, LinkInv
<1>4. buf[1].seq \in SeqNums /\ PayloadOf(buf) \in Requests
  BY <1>2, FrameFields, PayloadIsRequest
<1>5. IsReassembly(kept)
  BY <1>2, <1>3, <1>4, InsertFacts
<1>6. /\ ctx' = [ctx EXCEPT ![k] = [ctx[k] EXCEPT !.reassembly = kept]]
      /\ UNCHANGED <<client, link, backlog, batch, buf, live_orders, dropping, applied>>
  BY DEF BufferSegment
<1> HIDE DEF kept
<1>7. ctx' = [ctx EXCEPT ![k] = [tcp |-> ctx[k].tcp, reassembly |-> kept]]
  <2>1. [ctx[k] EXCEPT !.reassembly = kept] = [tcp |-> ctx[k].tcp, reassembly |-> kept]
    BY <1>3
  <2> QED
    BY <1>6, <2>1, Zenon
<1>8. /\ ctx' = [j \in Conns |-> [tcp |-> ctx'[j].tcp, reassembly |-> ctx'[j].reassembly]]
      /\ \A j \in Conns : /\ ctx'[j].tcp \in TcpConnections
                          /\ IsReassembly(ctx'[j].reassembly)
                          /\ ctx'[j].tcp.state = "CLOSED"
  BY <1>2, <1>3, <1>5, <1>7, CtxStaysClosed, Zenon
<1>9. link' = [link EXCEPT ![k] = link[k]] /\ link[k] \in Links
  BY <1>2, <1>6, LinkFields DEF IndInv, TypeOK
<1>10. live_orders' \in SUBSET OrderIds /\ applied' \in Seq(Requests)
  BY <1>6 DEF IndInv, TypeOK
<1> QED
  BY <1>1, <1>6, <1>8, <1>9, <1>10, PacketHandled

\* The next payload, and the buffered ones behind it.
LEMMA ProcessOrderKeeps ==
    ASSUME IndInv, NEW k, NEW len, ProcessOrder(k, len)
    PROVE  IndInv'
<1> DEFINE tcp == ctx[k].tcp
           segments == ctx[k].reassembly
           first == <<[len |-> len, payload |-> PayloadOf(buf)]>>
           expected == Processed(tcp, first).tcp.recv_seq
           result == Processed(tcp, first \o Contiguous(segments, expected))
           rest == Rest(segments, expected)
           new == SentDown(link[k], result.acks)
<1>1. Popping(k, len) /\ buf # <<>>
  BY DEF ProcessOrder, Parsing
<1>2. k \in Conns /\ len \in Nat /\ buf \in Seq(UpFrames) /\ buf # <<>>
  BY <1>1, PoppingFacts
<1>3. tcp \in TcpConnections /\ tcp.state = "CLOSED" /\ IsReassembly(segments)
  BY <1>2, CtxFields DEF IndInv, LinkInv
<1>4. PayloadOf(buf) \in Requests /\ len # 0
  <2>1. len > 0
    BY DEF ProcessOrder
  <2> QED
    BY <1>2, <2>1, PayloadIsRequest
<1>5. first \in Seq(Segments)
  <2>1. [len |-> len, payload |-> PayloadOf(buf)] \in Segments
    BY <1>2, <1>4, ZenonT(60) DEF Segments
  <2> QED
    BY <2>1
<1>6. /\ ctx' = [ctx EXCEPT ![k] = [tcp |-> result.tcp, reassembly |-> rest]]
      /\ live_orders' = result.live
      /\ applied' = applied \o result.done
      /\ link' = [link EXCEPT ![k] = new]
      /\ UNCHANGED <<client, backlog, batch, buf, dropping>>
  BY DEF ProcessOrder
<1>7. live_orders \in SUBSET OrderIds /\ applied \in Seq(Requests)
  BY DEF IndInv, TypeOK
<1> HIDE DEF first, tcp, segments
<1>8. Processed(tcp, first) \in Results("CLOSED")
  BY <1>3, <1>5, <1>7, ProcessedFacts
<1>9. expected \in SeqNums
  <2>1. \A b \in Results("CLOSED") : b.tcp.recv_seq \in SeqNums
    BY DEF Results, TcpConnections
  <2> QED
    BY <1>8, <2>1
<1> HIDE DEF expected
<1>10. Contiguous(segments, expected) \in Seq(Segments) /\ IsReassembly(rest)
  BY <1>3, <1>9, PopContiguousFacts
<1>11. first \o Contiguous(segments, expected) \in Seq(Segments)
  BY <1>5, <1>10
<1>12. result \in Results("CLOSED")
  BY <1>3, <1>7, <1>11, ProcessedFacts
<1> HIDE DEF result, rest
<1>13. /\ result.tcp \in TcpConnections /\ result.tcp.state = "CLOSED"
       /\ result.live \in SUBSET OrderIds
       /\ result.acks \in Seq(DownFrames) /\ result.done \in Seq(Requests)
  BY <1>12 DEF Results
<1>14. link[k] \in Links /\ <<>> \in Seq(UpFrames)
  BY <1>2, LinkFields DEF IndInv
<1>15. /\ new \in Links /\ new.up = link[k].up /\ new.client_end = link[k].client_end
       /\ new.gateway_end = link[k].gateway_end
  BY <1>13, <1>14, LinkOperations
<1> HIDE DEF new
<1>16. /\ ctx' = [j \in Conns |-> [tcp |-> ctx'[j].tcp, reassembly |-> ctx'[j].reassembly]]
       /\ \A j \in Conns : /\ ctx'[j].tcp \in TcpConnections
                           /\ IsReassembly(ctx'[j].reassembly)
                           /\ ctx'[j].tcp.state = "CLOSED"
  BY <1>2, <1>6, <1>10, <1>13, CtxStaysClosed, Zenon
<1>17. live_orders' \in SUBSET OrderIds /\ applied' \in Seq(Requests)
  BY <1>6, <1>7, <1>13
<1> QED
  BY <1>1, <1>6, <1>15, <1>16, <1>17, PacketHandled

\* Every step of the gateway keeps the invariant.
LEMMA GatewayStepKeeps ==
    ASSUME IndInv, GatewayStep
    PROVE  IndInv'
<1>1. CASE \E pkt \in Range(ring) : HandlePacket(pkt.conn, pkt.len - HeaderLen)
  BY <1>1, DropPacketKeeps, ControlFrameKeeps, BufferSegmentKeeps, ProcessOrderKeeps
     DEF HandlePacket
<1> QED
  BY <1>1, EpollWaitKeeps, AcceptKeeps, ReadFramesKeeps, ReadEndKeeps DEF GatewayStep

-----------------------------------------------------------------------------
(***************************************************************************)
(* The theorems.                                                           *)
(***************************************************************************)

\* The programs start with the invariant.
LEMMA InitHolds == Init => IndInv
<1> SUFFICES ASSUME Init PROVE IndInv
  OBVIOUS
<1>1. PICK idles \in Keepalives :
         client = [c \in Clients |->
                     [idles |-> idles, pc |-> "start", state |-> "CONNECTING",
                      fd |-> 0, made |-> 0, conn |-> NewConnection, order_id |-> 1,
                      req |-> NoRequest, shadow |-> {}, queue |-> <<>>,
                      outstanding |-> {}, left |-> 0]]
  BY DEF Init
<1>2. NewConnection \in TcpConnections /\ NewConnection.state = "CLOSED"
      /\ IsReassembly(NoSegments)
  <2>1. 0 \in SeqNums /\ 1 \in SeqNums
    BY SeqModAssumption DEF SeqNums
  <2>2. NewConnection \in TcpConnections /\ NewConnection.state = "CLOSED"
    BY <2>1 DEF NewConnection, TcpConnections, TcpStates
  <2>3. DOMAIN NoSegments = {}
    BY DEF NoSegments
  <2> QED
    BY <2>2, <2>3 DEF IsReassembly
<1>3. NoRequest \in Requests
  BY NumbersAssumption DEF NoRequest, Request, Requests, OrderIds
<1>4. /\ 0 \in 0..MaxConns /\ 1 \in 1..(MaxOrders + 1) /\ 0 \in 0..Burst
      /\ {} \in SUBSET (1..MaxOrders) /\ <<>> \in Seq(Entries)
      /\ {} \in SUBSET OrderFrames /\ idles \in BOOLEAN
  BY NumbersAssumption, SwitchesAssumption
<1>5. client \in [Clients -> ClientStates]
  BY <1>1, <1>2, <1>3, <1>4 DEF ClientStates
<1>6. /\ NoLink \in Links /\ NoLink.gateway_end = "none" /\ NoLink.up = <<>>
  <2>1. <<>> \in Seq(UpFrames) /\ <<>> \in Seq(DownFrames)
    OBVIOUS
  <2> QED
    BY <2>1 DEF Links, NoLink
<1>7. TypeOK
  <2>1. /\ <<>> \in Seq(Conns) /\ <<>> \in Seq(Packets) /\ <<>> \in Seq(UpFrames)
        /\ <<>> \in Seq(Requests)
    OBVIOUS
  <2>2. /\ ctx = [k \in Conns |-> [tcp |-> ctx[k].tcp, reassembly |-> ctx[k].reassembly]]
        /\ \A k \in Conns : ctx[k].tcp \in TcpConnections
                            /\ IsReassembly(ctx[k].reassembly)
    BY <1>2 DEF Init
  <2> QED
    BY <1>5, <1>6, <2>1, <2>2 DEF Init, TypeOK
<1>8. ClientInv
  BY <1>1, <1>2 DEF ClientInv, HasConn
<1>9. LinkInv
  <2>1. \A k \in Conns : k[1] \in Clients /\ k[2] \in Nat /\ k[2] > 0
    BY DEF Conns
  <2>2. \A k \in Conns : client[k[1]].made = 0
    BY <1>1, <2>1
  <2> QED
    BY <1>2, <1>6, <2>1, <2>2 DEF Init, LinkInv
<1>10. EventInv /\ RingInv
  BY DEF Init, EventInv, RingInv
<1>11. ClosedOnlyByClient
  BY <1>6 DEF Init, ClosedOnlyByClient
<1> QED
  BY <1>7, <1>8, <1>9, <1>10, <1>11 DEF IndInv

\* Every step keeps the invariant.
LEMMA StepHolds ==
    ASSUME IndInv, [Next]_vars
    PROVE  IndInv'
<1>1. CASE \E c \in Clients : ClientStep(c)
  BY <1>1, ClientStepKeeps
<1>2. CASE GatewayStep
  BY <1>2, GatewayStepKeeps
<1>3. CASE DropDeadline
  BY <1>3 DEF DropDeadline, gateway, IndInv, TypeOK, ClientInv, HasConn, LinkInv,
              EventInv, RingInv, ClosedOnlyByClient
<1>4. CASE UNCHANGED vars
  BY <1>4 DEF vars, gateway, IndInv, TypeOK, ClientInv, HasConn, LinkInv,
              EventInv, RingInv, ClosedOnlyByClient
<1> QED
  BY <1>1, <1>2, <1>3, <1>4 DEF Next

\* The order client and the order gateway keep the invariant, for any number of
\* clients, orders, connections and retransmissions, whatever is left in the
\* gateway's buffer, and with sequence numbers that wrap.
THEOREM OrderPathInvariant == Spec => []IndInv
<1>1. Init => IndInv
  BY InitHolds
<1>2. IndInv /\ [Next]_vars => IndInv'
  BY StepHolds
<1> QED
  BY <1>1, <1>2, PTL DEF Spec

\* The gateway closes only what its client has closed, what the drop deadline
\* tells it to, and the connections of clients that send keepalives.
THEOREM GatewayClosesOnCause == Spec => []ClosedOnlyByClient
<1>1. IndInv => ClosedOnlyByClient
  BY DEF IndInv
<1> QED
  BY <1>1, OrderPathInvariant, PTL

\* Every step keeps the room: an epoll_wait makes no more events than it has room
\* for, a read takes one of them off for the packet it adds.
LEMMA RoomKept ==
    ASSUME IndInv, RoomInv, [Next]_vars
    PROVE  RoomInv'
<1>1. /\ ring \in Seq(Packets) /\ Len(ring) \in Nat /\ MaxEvents \in Nat
      /\ IsFiniteSet(batch) /\ Cardinality(batch \ {ListenFd}) + Len(ring) <= MaxEvents
  BY NumbersAssumption DEF IndInv, TypeOK, RoomInv
<1>2. \A T \in SUBSET batch : IsFiniteSet(T) /\ Cardinality(T) \in Nat
  BY <1>1, FS_Subset, FS_CardinalityType
<1>3. CASE UNCHANGED <<batch, ring>>
  BY <1>3 DEF RoomInv
<1>4. CASE EpollWait
  <2> DEFINE ready == Readable \cup {fd \in {ListenFd} : backlog # <<>>}
  <2>1. IsFiniteSet(ready)
    <3>1. 1 \in Int /\ MaxConns \in Int
      BY NumbersAssumption
    <3>2. IsFiniteSet(1..MaxConns)
      BY <3>1, FS_Interval
    <3>3. IsFiniteSet(Conns)
      BY <3>2, ClientsAssumption, FS_Product DEF Conns
    <3>4. IsFiniteSet(Readable)
      BY <3>3, FS_Subset DEF Readable
    <3>5. {fd \in {ListenFd} : backlog # <<>>} \subseteq {ListenFd} /\ IsFiniteSet({ListenFd})
      BY FS_Singleton
    <3>6. IsFiniteSet({fd \in {ListenFd} : backlog # <<>>})
      BY <3>5, FS_Subset
    <3> QED
      BY <3>4, <3>6, FS_Union
  <2>2. batch' \in Reported(ready) /\ ring = <<>> /\ ring' = ring
    BY <1>4 DEF EpollWait
  <2> HIDE DEF ready
  <2>3. batch' \subseteq ready /\ Cardinality(batch') <= MaxEvents
    BY <1>1, <2>2 DEF Reported
  <2>4. IsFiniteSet(batch')
    BY <2>1, <2>3, FS_Subset
  <2>5. /\ Cardinality(batch' \ {ListenFd}) <= Cardinality(batch')
        /\ Cardinality(batch' \ {ListenFd}) \in Nat /\ Cardinality(batch') \in Nat
    <3>1. batch' \ {ListenFd} \subseteq batch'
      OBVIOUS
    <3>2. IsFiniteSet(batch' \ {ListenFd})
      BY <2>4, <3>1, FS_Subset
    <3> QED
      BY <2>4, <3>1, <3>2, FS_Subset, FS_CardinalityType
  <2>6. Len(ring') = 0
    BY <2>2
  <2> QED
    BY <1>1, <2>3, <2>4, <2>5, <2>6 DEF RoomInv
<1>5. CASE Accept
  <2>1. batch' = batch \ {ListenFd} /\ ring' = ring
    BY <1>5 DEF Accept
  <2>2. batch' \ {ListenFd} = batch \ {ListenFd} /\ IsFiniteSet(batch')
    BY <1>2, <2>1
  <2> QED
    BY <1>1, <2>1, <2>2 DEF RoomInv
<1>6. ASSUME NEW k \in Conns, ReadFrames(k) \/ ReadEnd(k)
      PROVE  RoomInv'
  <2> DEFINE left == batch \ {ListenFd}
  <2>1. k \in left /\ batch' = batch \ {k}
    BY <1>6, ListenFdAssumption DEF ReadFrames, ReadEnd
  <2>2. Len(ring') <= Len(ring) + 1 /\ Len(ring') \in Nat
    <3>1. \/ ring' = ring
          \/ ring' = Append(ring, [conn |-> k, len |-> ByteCount(link[k].up)])
      BY <1>6 DEF ReadFrames, ReadEnd
    <3> QED
      BY <1>1, <3>1
  <2>3. IsFiniteSet(left) /\ Cardinality(left) \in Nat /\ IsFiniteSet(batch')
    BY <1>2, <2>1
  <2>4. batch' \ {ListenFd} = left \ {k}
    BY <2>1
  <2> HIDE DEF left
  <2>5. Cardinality(left \ {k}) = Cardinality(left) - 1
    BY <2>1, <2>3, FS_RemoveElement
  <2>6. Cardinality(left) + Len(ring) <= MaxEvents
    BY <1>1 DEF left
  <2>7. Cardinality(batch' \ {ListenFd}) + Len(ring') <= MaxEvents
    <3> DEFINE n == Cardinality(left)
               m == Cardinality(batch' \ {ListenFd})
    <3>1. n \in Nat /\ m = n - 1 /\ n + Len(ring) <= MaxEvents
      BY <2>3, <2>4, <2>5, <2>6
    <3> HIDE DEF n, m
    <3>2. m + Len(ring') <= MaxEvents
      BY <1>1, <2>2, <3>1
    <3> QED
      BY <3>2 DEF m
  <2> QED
    BY <2>3, <2>7 DEF RoomInv
<1>7. ASSUME NEW pkt, HandlePacket(pkt.conn, pkt.len - HeaderLen)
      PROVE  RoomInv'
  <2>1. ring' = Tail(ring) /\ ring # <<>> /\ batch' = batch
    <3> DEFINE k == pkt.conn
               len == pkt.len - HeaderLen
    <3> HIDE DEF k, len
    <3>1. HandlePacket(k, len)
      BY <1>7 DEF k, len
    <3>2. Popping(k, len) /\ batch' = batch
      BY <3>1, Zenon DEF HandlePacket, DropPacket, SkipPacket, ControlFrame, BufferSegment,
                         ProcessOrder, Parsing
    <3> QED
      BY <3>2 DEF Popping
  <2>2. Len(ring') <= Len(ring) /\ Len(ring') \in Nat
    BY <1>1, <2>1
  <2>3. Cardinality(batch \ {ListenFd}) \in Nat
    BY <1>2
  <2> QED
    BY <1>1, <2>1, <2>2, <2>3 DEF RoomInv
<1>8. ASSUME NEW c \in Clients, ClientStep(c)
      PROVE  UNCHANGED <<batch, ring>>
  <2>1. Stop(c) => UNCHANGED gateway
    BY Zenon DEF Stop
  <2>2. \A req : SendOrder(c, req) => UNCHANGED gateway
    BY DEF SendOrder
  <2>3. \A due : ReadTimeout(c, due) => UNCHANGED gateway
    BY DEF ReadTimeout
  <2>4. UNCHANGED gateway
    BY <1>8, <2>1, <2>2, <2>3, Zenon
       DEF ClientStep, Connect, ConnectFails, Reconnect, ReconnectFails, SendKeepalive,
           WriteFails, ReadReturns, ReadAck, ReadEof, Interrupted
  <2> QED
    BY <2>4 DEF gateway
<1>9. DropDeadline \/ UNCHANGED vars => UNCHANGED <<batch, ring>>
  BY DEF DropDeadline, vars, gateway
<1> QED
  BY <1>3, <1>4, <1>5, <1>6, <1>7, <1>8, <1>9 DEF Next, GatewayStep

\* Whatever the number of clients and connections, with at least as many places in
\* req_ring as kMaxEvents: a packet in it is always that of an open connection,
\* one per connection, and no packet is lost for want of room.
THEOREM RingServesOpenConns == Spec => []RingHoldsOpenConns
<1>1. Init => RoomInv
  <2> SUFFICES ASSUME Init PROVE RoomInv
    OBVIOUS
  <2>1. batch \ {ListenFd} = {} /\ batch = {} /\ Len(ring) = 0
    BY DEF Init
  <2> QED
    BY <2>1, FS_EmptySet, NumbersAssumption DEF RoomInv
<1>2. IndInv /\ RoomInv /\ [Next]_vars => RoomInv'
  BY RoomKept
<1>3. ASSUME IndInv, RoomInv
      PROVE  RingHoldsOpenConns
  <2>1. \A i, j \in 1..Len(ring) :
           /\ link[ring[i].conn].gateway_end = "open"
           /\ ring[i].conn = ring[j].conn => i = j
    BY <1>3 DEF IndInv, RingInv
  <2>2. ASSUME batch \ {ListenFd} # {}
        PROVE  Len(ring) < RingCapacity
    <3>1. IsFiniteSet(batch \ {ListenFd})
      BY <1>3, FS_Subset DEF RoomInv
    <3>2. Cardinality(batch \ {ListenFd}) \in Nat /\ Cardinality(batch \ {ListenFd}) # 0
      BY <2>2, <3>1, FS_CardinalityType, FS_EmptySet
    <3>3. Len(ring) \in Nat /\ Cardinality(batch \ {ListenFd}) + Len(ring) <= MaxEvents
      BY <1>3 DEF IndInv, TypeOK, RoomInv
    <3> QED
      BY <3>2, <3>3, NumbersAssumption, RingAssumption
  <2> QED
    BY <2>1, <2>2 DEF RingHoldsOpenConns
<1> QED
  BY <1>1, <1>2, <1>3, OrderPathInvariant, PTL DEF Spec

-----------------------------------------------------------------------------
(***************************************************************************)
(* One client.                                                             *)
(***************************************************************************)

\* The connections of the only client are told apart by their numbers.
LEMMA SoloConns ==
    ASSUME NEW c, Clients = {c}
    PROVE  /\ c \in Clients
           /\ \A k \in Conns : k = <<c, k[2]>> /\ k[1] = c /\ k[2] \in 1..MaxConns
           /\ \A j \in 1..MaxConns : <<c, j>> \in Conns /\ <<c, j>>[2] = j
           /\ \A k, j \in Conns : k[2] = j[2] => k = j
<1>1. c \in Clients
  OBVIOUS
<1>2. ASSUME NEW k \in Conns
      PROVE  k = <<c, k[2]>> /\ k[1] = c /\ k[2] \in 1..MaxConns
  BY DEF Conns
<1>3. ASSUME NEW j \in 1..MaxConns
      PROVE  <<c, j>> \in Conns /\ <<c, j>>[2] = j
  BY DEF Conns
<1>4. ASSUME NEW k \in Conns, NEW j \in Conns, k[2] = j[2]
      PROVE  k = j
  <2>1. k = <<c, k[2]>> /\ j = <<c, j[2]>>
    BY <1>2
  <2> QED
    BY <1>4, <2>1, Zenon
<1> QED
  BY <1>1, <1>2, <1>3, <1>4

\* The sequence numbers of the orders do not wrap, and neither does recv_seq behind
\* a read that begins with an order.
LEMMA SeqOfFacts ==
    ASSUME NoWrap
    PROVE  /\ MaxFrames \in Nat \ {0}
           /\ \A j \in Int : SeqOf(j) \in Int /\ SeqOf(j + 1) = SeqOf(j) + OrderLen
           /\ \A i, j \in Int : (i < j => SeqOf(i) + OrderLen <= SeqOf(j))
                                /\ (i = j <=> SeqOf(i) = SeqOf(j))
           /\ \A j \in 1..(MaxOrders + 1) : SeqOf(j) \in SeqNums
           /\ \A j \in 1..MaxOrders : \A n \in 0..((HeaderLen + OrderLen) * MaxFrames) :
                 Advance(SeqOf(j), n) = SeqOf(j) + n
           /\ \A j \in 1..MaxOrders : Advance(SeqOf(j), OrderLen) = SeqOf(j + 1)
<1>1. MaxRetries \in Nat /\ MaxOrders \in Nat \ {0} /\ SeqMod \in Nat \ {0, 1}
  BY NumbersAssumption, SeqModAssumption
<1> DEFINE top == SeqOf(MaxOrders + 1)
           room == (HeaderLen + OrderLen) * MaxFrames
<1>2. MaxFrames \in Nat \ {0} /\ room \in Nat /\ room >= OrderLen
  BY <1>1 DEF MaxFrames, HeaderLen, OrderLen
<1>3. \A j \in Int : SeqOf(j) \in Int /\ SeqOf(j + 1) = SeqOf(j) + OrderLen
  BY DEF SeqOf, OrderLen
<1>4. \A i, j \in Int : (i < j => SeqOf(i) + OrderLen <= SeqOf(j))
                        /\ (i = j <=> SeqOf(i) = SeqOf(j))
  BY DEF SeqOf, OrderLen
<1>5. \A j \in 1..(MaxOrders + 1) : SeqOf(j) \in Nat /\ SeqOf(j) <= top
  BY <1>1 DEF SeqOf, OrderLen
<1>6. top + room < SeqMod
  BY DEF NoWrap
<1>7. top \in Int /\ OrderLen = 40
  BY <1>1, <1>3 DEF OrderLen
<1> HIDE DEF top, room
<1>8. \A j \in 1..(MaxOrders + 1) : SeqOf(j) \in SeqNums
  BY <1>1, <1>2, <1>5, <1>6, <1>7 DEF SeqNums
<1>9. ASSUME NEW j \in 1..MaxOrders, NEW n \in 0..room
      PROVE  Advance(SeqOf(j), n) = SeqOf(j) + n
  <2>1. j \in 1..(MaxOrders + 1)
    BY <1>1
  <2>2. SeqOf(j) + n \in 0..(SeqMod - 1)
    BY <1>1, <1>2, <1>5, <1>6, <1>7, <2>1
  <2> QED
    BY <1>1, <2>2 DEF Advance
<1>10. ASSUME NEW j \in 1..MaxOrders
       PROVE  Advance(SeqOf(j), OrderLen) = SeqOf(j + 1)
  <2>1. OrderLen \in 0..room
    BY <1>2, <1>7
  <2>2. j \in Int
    OBVIOUS
  <2> QED
    BY <1>3, <1>9, <2>1, <2>2
<1> QED
  BY <1>2, <1>3, <1>4, <1>8, <1>9, <1>10 DEF room

\* Nothing to read is nothing beyond any number.
LEMMA PastNothing ==
    ASSUME NoWrap, NEW last, NEW sent, NEW req
    PROVE  Past(<<>>, last, sent, req)
  BY SeqOfFacts DEF Past

\* Frames that are past stay past while the client sends on.
LEMMA PastGrows ==
    ASSUME NEW frames \in Seq(UpFrames), NEW last \in Int, NEW sent \in Int, NEW req,
           Past(frames, last, sent, req),
           NEW last2 \in Int, NEW sent2 \in Int, NEW req2, last <= last2,
           sent < sent2 \/ (sent = sent2 /\ req = req2)
    PROVE  Past(frames, last2, sent2, req2)
<1>1. ASSUME NEW i \in 1..Len(frames)
      PROVE  /\ frames[i].seq <= last2
             /\ frames[i].len = OrderLen =>
                   /\ frames[i].seq <= sent2
                   /\ frames[i].seq = sent2 => frames[i].payload = req2
  <2>1. frames[i].seq \in Int
    <3>1. frames[i] \in UpFrames
      OBVIOUS
    <3>2. frames[i].seq \in SeqNums
      BY <3>1, FrameFields, Zenon
    <3> QED
      BY <3>2 DEF SeqNums
  <2>2. /\ frames[i].seq <= last
        /\ frames[i].len = OrderLen =>
              /\ frames[i].seq <= sent
              /\ frames[i].seq = sent => frames[i].payload = req
    BY DEF Past
  <2> QED
    BY <2>1, <2>2
<1> QED
  BY <1>1 DEF Past

\* One more frame.
LEMMA PastSent ==
    ASSUME NEW frames \in Seq(UpFrames), NEW last, NEW sent, NEW req,
           Past(frames, last, sent, req), Len(frames) < MaxFrames, MaxFrames \in Nat,
           NEW f, f.seq <= last,
           f.len = OrderLen =>
              f.seq <= sent /\ (f.seq = sent => f.payload = req)
    PROVE  Past(frames \o <<f>>, last, sent, req)
<1>1. Len(frames \o <<f>>) = Len(frames) + 1
  OBVIOUS
<1>2. \A i \in 1..Len(frames) : (frames \o <<f>>)[i] = frames[i]
  OBVIOUS
<1>3. (frames \o <<f>>)[Len(frames) + 1] = f
  OBVIOUS
<1> DEFINE more == frames \o <<f>>
<1> HIDE DEF more
<1>4. ASSUME NEW i \in 1..(Len(frames) + 1)
      PROVE  i \in 1..Len(frames) \/ i = Len(frames) + 1
  OBVIOUS
<1>5. Len(more) <= MaxFrames
  BY <1>1 DEF more
<1>6. ASSUME NEW i \in 1..Len(more)
      PROVE  /\ more[i].seq <= last
             /\ more[i].len = OrderLen =>
                   more[i].seq <= sent /\ (more[i].seq = sent => more[i].payload = req)
  <2>1. CASE i \in 1..Len(frames)
    <3>1. more[i] = frames[i]
      BY <1>2, <2>1 DEF more
    <3> QED
      BY <2>1, <3>1 DEF Past
  <2>2. CASE i = Len(frames) + 1
    BY <1>3, <2>2 DEF more
  <2> QED
    BY <1>1, <1>4, <2>1, <2>2 DEF more
<1> QED
  BY <1>5, <1>6 DEF Past, more

-----------------------------------------------------------------------------
(***************************************************************************)
(* The gateway's steps that process no order.                              *)
(***************************************************************************)

\* Reading and dropping frames brings no new ones.
LEMMA FramesAfterGateway ==
    ASSUME NEW c, NoWrap, NEW last, FramesUpTo(c, last), client' = client,
           buf' \in {buf, <<>>} \/ \E k \in Conns : buf' = link[k].up,
           client[c].idles \/ \A k \in Conns : \A i \in 1..Len(link[k].up) :
                                 link[k].up[i].len = OrderLen,
           \A k \in Conns :
              /\ link'[k].up \in {link[k].up, <<>>}
              /\ ctx'[k].tcp.recv_seq = ctx[k].tcp.recv_seq
              /\ \A s \in DOMAIN ctx'[k].reassembly :
                    \/ s \in DOMAIN ctx[k].reassembly
                    \/ s <= last /\ s # ctx[k].tcp.recv_seq
    PROVE  FramesUpTo(c, last)'
<1> DEFINE P(frames) == Past(frames, last, SeqOf(Sent(c)), client[c].req)
<1>1. P(<<>>)
  BY PastNothing
<1>2. P(buf) /\ \A k \in Conns : P(link[k].up)
  BY DEF FramesUpTo
<1>3. SeqOf(Sent(c))' = SeqOf(Sent(c)) /\ client'[c].req = client[c].req
      /\ client'[c].idles = client[c].idles
  BY DEF SeqOf, Sent
<1> HIDE DEF P
<1>4. P(buf')
  BY <1>1, <1>2
<1>5. \A k \in Conns : P(link'[k].up)
  BY <1>1, <1>2
<1>6. client[c].idles \/ \A i \in 1..Len(buf') : buf'[i].len = OrderLen
  BY DEF FramesUpTo
<1>7. ASSUME NEW k \in Conns, NEW s \in DOMAIN ctx'[k].reassembly
      PROVE  s <= last /\ s # ctx'[k].tcp.recv_seq
  BY <1>7 DEF FramesUpTo
<1>8. /\ Past(buf', last, SeqOf(Sent(c))', client'[c].req)
      /\ \A k \in Conns : Past(link'[k].up, last, SeqOf(Sent(c))', client'[c].req)
  BY <1>3, <1>4, <1>5 DEF P
<1> QED
  BY <1>3, <1>6, <1>7, <1>8 DEF FramesUpTo

\* Where the last order is does not change when nothing is processed.
LEMMA PhaseAfterGateway ==
    ASSUME NEW c, Clients = {c}, NoWrap, TypeOK, TypeOK', PhaseInv(c),
           client' = client, live_orders' = live_orders, applied' = applied,
           buf' \in {buf, <<>>} \/ \E k \in Conns : buf' = link[k].up,
           client[c].idles \/ \A k \in Conns : \A i \in 1..Len(link[k].up) :
                                 link[k].up[i].len = OrderLen,
           \A k \in Conns :
              /\ link'[k].down = link[k].down
              /\ link'[k].up \in {link[k].up, <<>>}
              /\ ctx'[k].tcp.recv_seq = ctx[k].tcp.recv_seq
              /\ \A s \in DOMAIN ctx'[k].reassembly :
                    \/ s \in DOMAIN ctx[k].reassembly
                    \/ \E i \in 1..Len(buf) :
                          s = buf[i].seq /\ s # ctx[k].tcp.recv_seq
              /\ InRing(k)' => \/ InRing(k) /\ buf' = buf
                               \/ buf' = <<>>
                               \/ buf' = link[k].up /\ link'[k].up = <<>>
    PROVE  PhaseInv(c)'
<1>0. c \in Clients
  BY SoloConns
<1>1. ASSUME NEW last, FramesUpTo(c, last)
      PROVE  FramesUpTo(c, last)'
  <2>1. \A i \in 1..Len(buf) : buf[i].seq <= last
    BY <1>1 DEF FramesUpTo, Past
  <2> QED
    BY <1>1, <2>1, FramesAfterGateway
<1>2. \A j : AppliedBelow(c, j) => AppliedBelow(c, j)'
  BY DEF AppliedBelow
<1>3. \A s : Dead(<<>>, s) /\ Stale(<<>>, s)
  BY DEF Dead, Stale
<1>4. \A k \in Conns : Idle(k) => Idle(k)'
  <2>1. ASSUME NEW k \in Conns, Idle(k)
        PROVE  Idle(k)'
    <3>1. Dead(link'[k].up, ctx'[k].tcp.recv_seq)
      BY <1>3, <2>1 DEF Idle
    <3>2. ASSUME InRing(k)'
          PROVE  Dead(buf', ctx'[k].tcp.recv_seq)
      BY <1>3, <2>1, <3>2 DEF Idle
    <3> QED
      BY <3>1, <3>2 DEF Idle
  <2> QED
    BY <2>1
<1>5. ASSUME NEW k \in Conns
      PROVE  /\ Len(link'[k].up) \in Nat /\ Len(link[k].up) \in Nat
             /\ Len(link'[k].up) <= Len(link[k].up)
  <2>1. link[k].up \in Seq(UpFrames) /\ link'[k].up \in {link[k].up, <<>>}
    BY LinkFields
  <2> QED
    BY <2>1
<1>6. MaxRetries \in Nat /\ client[c].queue \in Seq(Entries)
  BY <1>0, ClientFields, NumbersAssumption
<1>7. Resent(c) \in Nat /\ Resent(c)' = Resent(c)
  <2>1. ASSUME client[c].queue # <<>>
        PROVE  client[c].queue[1] \in Entries
    BY <1>6, <2>1
  <2>2. ASSUME NEW e \in Entries
        PROVE  e.retries \in Nat
    BY <1>6 DEF Entries
  <2> QED
    BY <1>6, <2>1, <2>2 DEF Resent
<1>8. \A k \in Conns : k[2] < client[c].made => Idle(k)'
  BY <1>4 DEF PhaseInv
<1>9. SeqOf(Sent(c))' = SeqOf(Sent(c)) /\ Sent(c)' = Sent(c)
      /\ SeqOf(client[c].order_id)' = SeqOf(client[c].order_id)
  BY DEF SeqOf, Sent
<1>10. CASE AtRest(c)
  <2>1. FramesUpTo(c, SeqOf(IF client[c].pc = "burst" THEN client[c].order_id ELSE Sent(c)))'
    <3> DEFINE a == SeqOf(IF client[c].pc = "burst" THEN client[c].order_id ELSE Sent(c))
    <3>1. PICK b : b = a
      OBVIOUS
    <3>2. a' = a
      BY DEF SeqOf, Sent
    <3>3. FramesUpTo(c, a)
      BY <1>10 DEF AtRest
    <3> HIDE DEF a
    <3>4. FramesUpTo(c, b)
      BY <3>1, <3>3
    <3>5. FramesUpTo(c, b)'
      BY <1>1, <3>4
    <3>6. FramesUpTo(c, a)' <=> FramesUpTo(c, b)'
      BY <3>1, <3>2 DEF FramesUpTo
    <3> QED
      BY <3>5, <3>6 DEF a
  <2>2. ASSUME NEW k \in Conns, k[2] = client[c].made
        PROVE  LET up == link'[k].up
                   stale == Stale(up, ctx'[k].tcp.recv_seq)
               IN  /\ link'[k].down = <<>>
                   /\ Idle(k)'
                   /\ \/ stale /\ Len(up) <= MaxRetries
                      \/ /\ client[c].pc = "burst"
                         /\ stale \/ up[1].seq = SeqOf(client[c].order_id)
                         /\ Len(up) <= MaxRetries + 1
    <3>1. /\ link[k].down = <<>> /\ Idle(k)
          /\ \/ Stale(link[k].up, ctx[k].tcp.recv_seq) /\ Len(link[k].up) <= MaxRetries
             \/ /\ client[c].pc = "burst"
                /\ \/ Stale(link[k].up, ctx[k].tcp.recv_seq)
                   \/ link[k].up[1].seq = SeqOf(client[c].order_id)
                /\ Len(link[k].up) <= MaxRetries + 1
      BY <1>10, <2>2 DEF AtRest
    <3>2. Idle(k)' /\ link'[k].down = <<>>
      BY <1>4, <3>1
    <3>3. CASE link'[k].up = <<>>
      BY <1>3, <1>5, <1>6, <3>2, <3>3
    <3>4. CASE link'[k].up = link[k].up
      BY <3>1, <3>2, <3>4
    <3> QED
      BY <3>3, <3>4
  <2>3. AppliedBelow(c, client[c].order_id)'
    BY <1>2, <1>10 DEF AtRest, AppliedBelow
  <2>4. AtRest(c)'
    BY <1>9, <1>10, <2>1, <2>2, <2>3 DEF AtRest
  <2> QED
    BY <1>8, <2>4 DEF PhaseInv
<1>14. FramesUpTo(c, SeqOf(Sent(c))) => FramesUpTo(c, SeqOf(Sent(c)))'
  <2>1. PICK b : b = SeqOf(Sent(c))
    OBVIOUS
  <2>2. FramesUpTo(c, SeqOf(Sent(c))) => FramesUpTo(c, b)'
    BY <1>1, <2>1
  <2> QED
    BY <1>9, <2>1, <2>2 DEF FramesUpTo
<1>11. CASE Unanswered(c)
  <2>2. ASSUME NEW k \in Conns, k[2] = client[c].made
        PROVE  LET up == link'[k].up
                   dead == Dead(buf', ctx'[k].tcp.recv_seq)
               IN  /\ link'[k].down = <<>>
                   /\ Stale(up, ctx'[k].tcp.recv_seq) \/ up[1].seq = SeqOf(Sent(c))
                   /\ InRing(k)' => dead \/ buf'[1].seq = SeqOf(Sent(c))
                   /\ client[c].pc = "wait" =>
                         /\ Len(up) <= MaxRetries + 2 + Resent(c)
                         /\ InRing(k)' /\ ~dead => Len(up) <= Resent(c)
    <3> DEFINE up == link[k].up
               expected == ctx[k].tcp.recv_seq
    <3>1. /\ link[k].down = <<>>
          /\ Stale(up, expected) \/ up[1].seq = SeqOf(Sent(c))
          /\ InRing(k) => Dead(buf, expected) \/ buf[1].seq = SeqOf(Sent(c))
          /\ client[c].pc = "wait" =>
                /\ Len(up) <= MaxRetries + 2 + Resent(c)
                /\ InRing(k) /\ ~Dead(buf, expected) => Len(up) <= Resent(c)
      BY <1>11, <2>2 DEF Unanswered
    <3>2. link'[k].down = <<>> /\ ctx'[k].tcp.recv_seq = expected
      BY <3>1
    <3>3. Stale(link'[k].up, expected) \/ link'[k].up[1].seq = SeqOf(Sent(c))
      BY <1>3, <3>1
    <3>4. client[c].pc = "wait" => Len(link'[k].up) <= MaxRetries + 2 + Resent(c)
      BY <1>5, <1>6, <1>7, <3>1
    <3>5. ASSUME InRing(k)', ~Dead(buf', expected)
          PROVE  /\ buf'[1].seq = SeqOf(Sent(c))
                 /\ client[c].pc = "wait" => Len(link'[k].up) <= Resent(c)
      <4>1. CASE InRing(k) /\ buf' = buf
        BY <1>5, <1>7, <3>1, <3>5, <4>1
      <4>2. CASE buf' = up /\ link'[k].up = <<>>
        <5>1. ~Stale(up, expected)
          BY <3>5, <4>2 DEF Dead
        <5>2. Len(<<>>) = 0
          OBVIOUS
        <5> QED
          BY <1>7, <3>1, <4>2, <5>1, <5>2
      <4> QED
        BY <1>3, <3>5, <4>1, <4>2
    <3> QED
      BY <3>2, <3>3, <3>4, <3>5
  <2>3. AppliedBelow(c, Sent(c))'
    BY <1>9, <1>11 DEF Unanswered, AppliedBelow
  <2>4. Unanswered(c)'
    BY <1>7, <1>9, <1>11, <1>14, <2>2, <2>3 DEF Unanswered
  <2> QED
    BY <1>8, <2>4 DEF PhaseInv
<1>12. CASE Answered(c)
  <2>2. ASSUME NEW k \in Conns, k[2] = client[c].made
        PROVE  LET down == link'[k].down
               IN  /\ Len(down) = 1
                   /\ down[1].ack >= SeqOf(client[c].order_id)
                   /\ client[c].idles \/ down[1].payload = Ack(client[c].req, TRUE)
                   /\ Idle(k)' /\ Stale(link'[k].up, ctx'[k].tcp.recv_seq)
                   /\ Len(link'[k].up) <= Resent(c)
    <3>1. /\ Len(link[k].down) = 1
          /\ link[k].down[1].ack >= SeqOf(client[c].order_id)
          /\ client[c].idles \/ link[k].down[1].payload = Ack(client[c].req, TRUE)
          /\ Idle(k) /\ Stale(link[k].up, ctx[k].tcp.recv_seq)
          /\ Len(link[k].up) <= Resent(c)
      BY <1>12, <2>2 DEF Answered
    <3>2. Idle(k)' /\ Stale(link'[k].up, ctx'[k].tcp.recv_seq)
      BY <1>3, <1>4, <3>1
    <3>3. Len(link'[k].up) <= Resent(c)
      BY <1>5, <1>7, <3>1
    <3> QED
      BY <3>1, <3>2, <3>3
  <2>3. AppliedBelow(c, client[c].order_id)'
    BY <1>12 DEF Answered, AppliedBelow
  <2>4. Answered(c)'
    BY <1>7, <1>9, <1>12, <1>14, <2>2, <2>3 DEF Answered
  <2> QED
    BY <1>8, <2>4 DEF PhaseInv
<1>13. CASE Over(c)
  <2>1. FramesUpTo(c, SeqOf(client[c].order_id))'
    <3>1. PICK b : b = SeqOf(client[c].order_id)
      OBVIOUS
    <3>2. FramesUpTo(c, b)'
      BY <1>1, <1>13, <3>1 DEF Over
    <3> QED
      BY <1>9, <3>1, <3>2 DEF FramesUpTo
  <2>2. \A k \in Conns : k[2] = client[c].made => Idle(k)'
    BY <1>4, <1>13 DEF Over
  <2>3. AppliedBelow(c, client[c].order_id)'
    BY <1>13 DEF Over, AppliedBelow
  <2>4. Over(c)'
    BY <1>13, <2>1, <2>2, <2>3 DEF Over
  <2> QED
    BY <1>8, <2>4 DEF PhaseInv
<1> QED
  BY <1>10, <1>11, <1>12, <1>13 DEF PhaseInv


-----------------------------------------------------------------------------
(***************************************************************************)
(* An order is processed.                                                  *)
(***************************************************************************)

\* A larger bound.
LEMMA FramesWiden ==
    ASSUME TypeOK, NEW c \in Clients, NEW a \in Int, NEW b \in Int, a <= b,
           FramesUpTo(c, a)
    PROVE  FramesUpTo(c, b)
<1> DEFINE sent == SeqOf(Sent(c))
           req == client[c].req
<1>1. sent \in Int
  BY ClientFields DEF SeqOf, Sent, OrderLen
<1>2. buf \in Seq(UpFrames) /\ \A k \in Conns : link[k].up \in Seq(UpFrames)
  BY LinkFields DEF TypeOK
<1>3. Past(buf, a, sent, req) /\ \A k \in Conns : Past(link[k].up, a, sent, req)
  BY DEF FramesUpTo
<1> HIDE DEF sent, req
<1>4. Past(buf, b, sent, req)
  BY <1>1, <1>2, <1>3, PastGrows
<1>5. \A k \in Conns : Past(link[k].up, b, sent, req)
  BY <1>1, <1>2, <1>3, PastGrows
<1>6. ASSUME NEW k \in Conns, NEW s \in DOMAIN ctx[k].reassembly
      PROVE  s <= b /\ s # ctx[k].tcp.recv_seq
  <2>1. s \in Int
    <3>1. s \in SeqNums
      BY CtxFields DEF IsReassembly
    <3> QED
      BY <3>1 DEF SeqNums
  <2>2. s <= a /\ s # ctx[k].tcp.recv_seq
    BY DEF FramesUpTo
  <2> QED
    BY <2>1, <2>2
<1> QED
  BY <1>4, <1>5, <1>6 DEF FramesUpTo, sent, req

\* The packet the gateway handles is the only one, and buf, unless it was zeroed,
\* holds what was read with it.
LEMMA SoloPacket ==
    ASSUME NEW c, Clients = {c}, IndInv, SerialInv(c), NEW k, NEW len, Popping(k, len)
    PROVE  /\ k \in Conns /\ k[2] \in 1..MaxConns /\ k[2] <= client[c].made
           /\ InRing(k) /\ ring' = <<>>
           /\ buf # <<>> => len = ByteCount(buf) - HeaderLen
<1>1. k \in Conns /\ link[k].gateway_end = "open"
  BY PoppingFacts
<1>2. k[1] = c /\ k[2] \in 1..MaxConns /\ c \in Clients
  BY <1>1, SoloConns
<1>3. k[2] <= client[c].made
  <2>1. link[k] # NoLink
    BY <1>1 DEF NoLink
  <2>2. client[c].made \in 0..MaxConns
    BY <1>2, ClientFields DEF IndInv
  <2>3. ~(k[2] > client[c].made)
    BY <1>1, <1>2, <2>1 DEF IndInv, LinkInv
  <2> QED
    BY <1>2, <2>2, <2>3
<1>4. ring \in Seq(Packets) /\ ring # <<>> /\ ring' = Tail(ring) /\ k = Head(ring).conn
      /\ len = Head(ring).len - HeaderLen
  BY DEF IndInv, TypeOK, Popping
<1>5. Len(ring) <= 1 /\ (buf # <<>> => ring[1].len = ByteCount(buf))
  BY <1>4 DEF SerialInv
<1>6. Head(ring) = ring[1] /\ Len(ring) = 1
  <2>1. Len(ring) \in Nat \ {0} /\ Head(ring) = ring[1]
    BY <1>4
  <2>2. Len(ring) <= 1
    BY <1>5
  <2>3. \A n \in Nat \ {0} : n <= 1 => n = 1
    OBVIOUS
  <2>4. Len(ring) = 1
    BY <2>1, <2>2, <2>3, Zenon
  <2> QED
    BY <2>1, <2>4
<1>7. ring' = <<>>
  BY <1>4, <1>6
<1> QED
  BY <1>1, <1>2, <1>3, <1>4, <1>5, <1>6, <1>7 DEF InRing

\* A payload that is the next one is that of the order the client waits for, or
\* was waiting for when it stopped.
LEMMA NextPayload ==
    ASSUME NEW c, Clients = {c}, IndInv, SerialInv(c), PhaseInv(c),
           NEW k, NEW len, Popping(k, len), len > 0,
           buf # <<>>, buf[1].seq = ctx[k].tcp.recv_seq
    PROVE  /\ k[2] = client[c].made /\ Unanswered(c)
           /\ ~Dead(buf, ctx[k].tcp.recv_seq)
           /\ buf[1].seq = SeqOf(Sent(c))
<1>1. /\ k \in Conns /\ k[2] \in 1..MaxConns /\ k[2] <= client[c].made
      /\ InRing(k) /\ len = ByteCount(buf) - HeaderLen
  BY SoloPacket
<1>2. buf \in Seq(UpFrames) /\ buf # <<>>
  BY PoppingFacts
<1>3. ~Dead(buf, ctx[k].tcp.recv_seq)
  <2>1. ~Stale(buf, ctx[k].tcp.recv_seq)
    BY <1>2 DEF Stale
  <2>2. ASSUME Len(buf) = 1, buf[1].len = 0
        PROVE  FALSE
    <3>1. ByteCount(buf) = HeaderLen + 0
      BY <1>2, <2>2, ByteCountFacts
    <3> QED
      BY <1>1, <3>1 DEF HeaderLen
  <2> QED
    BY <2>1, <2>2 DEF Dead
<1>4. ~Idle(k)
  BY <1>1, <1>3 DEF Idle
<1>5. k[2] = client[c].made
  <2>1. ~(k[2] < client[c].made)
    BY <1>1, <1>4 DEF PhaseInv
  <2>2. client[c].made \in 0..MaxConns
    BY SoloConns, ClientFields DEF IndInv
  <2> QED
    BY <1>1, <2>1, <2>2
<1>6. Unanswered(c)
  BY <1>1, <1>4, <1>5 DEF PhaseInv, AtRest, Answered, Over
<1>7. buf[1].seq = SeqOf(Sent(c))
  BY <1>1, <1>3, <1>5, <1>6 DEF Unanswered
<1> QED
  BY <1>3, <1>5, <1>6, <1>7

\* What is behind the header of such a read: the order itself or, when a
\* keepalive came before it, bytes that are no order of the client.
LEMMA PayloadFacts ==
    ASSUME NEW c \in Clients, NoWrap, NEW frames \in Seq(UpFrames), frames # <<>>,
           NEW last, NEW req, Past(frames, last, frames[1].seq, req)
    PROVE  \/ frames[1].len = OrderLen /\ PayloadOf(frames) = req
           \/ /\ frames[1].len = 0
              /\ \/ PayloadOf(frames).client # c
                 \/ ~(PayloadOf(frames).id <= MaxOrders)
<1>1. 1 \in 1..Len(frames) /\ frames[1] \in UpFrames
  OBVIOUS
<1>2. frames[1].len = OrderLen \/ frames[1].len = 0
  BY <1>1, FrameFields, Zenon
<1>3. CASE frames[1].len = OrderLen
  <2>1. frames[1].payload = req
    BY <1>1, <1>3 DEF Past
  <2>2. frames[1].len > 0
    BY <1>3 DEF OrderLen
  <2> QED
    BY <1>3, <2>1, <2>2 DEF PayloadOf
<1>4. CASE frames[1].len = 0
  <2>0. ~(frames[1].len > 0)
    BY <1>4
  <2>1. CASE Len(frames) > 1 /\ frames[2].len > 0
    <3>1. PayloadOf(frames) = FrameAsRequest(frames[2])
      BY <1>4, <2>0, <2>1, Zenon DEF PayloadOf
    <3>2. frames[2].seq \in SeqNums
      <4>1. frames[2] \in UpFrames
        BY <2>1
      <4> QED
        BY <4>1, FrameFields, Zenon
    <3>3. FrameAsRequest(frames[2]).id = JunkId(frames[2].seq)
      BY DEF FrameAsRequest, Request
    <3>4. ~(JunkId(frames[2].seq) <= MaxOrders)
      BY <3>2, NumbersAssumption, SMTT(30) DEF JunkId, NoWrap, SeqNums
    <3> QED
      BY <1>4, <3>1, <3>3, <3>4
  <2>2. CASE ~(Len(frames) > 1 /\ frames[2].len > 0)
    <3>1. PayloadOf(frames) = NoRequest
      BY <1>4, <2>0, <2>2, Zenon DEF PayloadOf
    <3>2. NoRequest.client # c
      BY ListenFdAssumption DEF NoRequest, Request
    <3> QED
      BY <1>4, <3>1, <3>2
  <2> QED
    BY <2>1, <2>2
<1> QED
  BY <1>2, <1>3, <1>4

\* A payload with nothing behind it in the reassembly buffer, as the gateway
\* processes it: too short for an order it changes nothing, else it is applied and
\* answered, and recv_seq is beyond it.
LEMMA OneProcessed ==
    ASSUME IndInv, NEW k, NEW len, ProcessOrder(k, len), NEW s, Advance(ctx[k].tcp.recv_seq, len) = s,
           ctx[k].tcp.recv_seq \notin DOMAIN ctx[k].reassembly,
           s \notin DOMAIN ctx[k].reassembly
    PROVE  /\ k \in Conns /\ UNCHANGED <<client, backlog, batch, buf, dropping>>
           /\ \A j \in Conns : j # k => link'[j] = link[j] /\ ctx'[j] = ctx[j]
           /\ link'[k].up = link[k].up
           /\ link'[k].client_end = link[k].client_end
           /\ link'[k].gateway_end = link[k].gateway_end
           /\ DOMAIN ctx'[k].reassembly \subseteq DOMAIN ctx[k].reassembly
           /\ len < OrderLen =>
                 /\ ctx'[k].tcp.recv_seq = ctx[k].tcp.recv_seq
                 /\ link'[k].down = link[k].down
                 /\ live_orders' = live_orders /\ applied' = applied
           /\ ~(len < OrderLen) =>
                 /\ ctx'[k].tcp.recv_seq = s
                 /\ live_orders' = Table(live_orders, PayloadOf(buf))
                 /\ applied' = Append(applied, PayloadOf(buf))
                 /\ link[k].client_end = "open" /\ link[k].down = <<>> =>
                       /\ Len(link'[k].down) = 1
                       /\ link'[k].down[1].ack = s
                       /\ link'[k].down[1].payload =
                             Ack(PayloadOf(buf), Accepted(live_orders, PayloadOf(buf)))
<1> DEFINE tcp == ctx[k].tcp
           segments == ctx[k].reassembly
           segment == [len |-> len, payload |-> PayloadOf(buf)]
           first == <<segment>>
           start == [tcp |-> tcp, live |-> live_orders, acks |-> <<>>, done |-> <<>>]
           expected == Processed(tcp, first).tcp.recv_seq
           result == Processed(tcp, first \o Contiguous(segments, expected))
           rest == Rest(segments, expected)
<1>1. Popping(k, len) /\ buf # <<>>
  BY DEF ProcessOrder, Parsing
<1>2. k \in Conns /\ len \in Nat /\ buf \in Seq(UpFrames) /\ buf # <<>>
  BY <1>1, PoppingFacts
<1>3. tcp \in TcpConnections /\ IsReassembly(segments)
  BY <1>2, CtxFields DEF IndInv
<1>4. segment \in Segments
  <2>1. len > 0 /\ PayloadOf(buf) \in Requests
    BY <1>2, PayloadIsRequest DEF ProcessOrder
  <2> QED
    BY <1>2, <2>1 DEF Segments
<1>5. /\ ctx' = [ctx EXCEPT ![k] = [tcp |-> result.tcp, reassembly |-> rest]]
      /\ live_orders' = result.live
      /\ applied' = applied \o result.done
      /\ link' = [link EXCEPT ![k] = SentDown(link[k], result.acks)]
      /\ UNCHANGED <<client, backlog, batch, buf, dropping>>
  BY DEF ProcessOrder
<1>6. live_orders \in SUBSET OrderIds /\ applied \in Seq(Requests)
  BY DEF IndInv, TypeOK
<1>7. tcp.recv_seq \in SeqNums
  BY <1>3 DEF TcpConnections
<1>8. segment.len = len /\ segment.payload = PayloadOf(buf)
  OBVIOUS
<1>9. start.tcp = tcp /\ start.live = live_orders /\ start.acks = <<>> /\ start.done = <<>>
  OBVIOUS
<1> HIDE DEF segment, start
<1>10. first \in Seq(Segments) /\ Len(first) = 1 /\ first[1] = segment
  BY <1>4
<1> HIDE DEF first
<1>11. Processed(tcp, first) = ProcessedOne(start, segment)
  BY <1>3, <1>6, <1>10, ProcessedFacts DEF start
<1> HIDE DEF tcp, segments
<1>12. /\ len < OrderLen => ProcessedOne(start, segment) = start
       /\ ~(len < OrderLen) =>
            LET moved == [tcp EXCEPT !.recv_seq = s]
            IN  /\ ProcessedOne(start, segment).tcp = moved
                /\ ProcessedOne(start, segment).live = Table(live_orders, PayloadOf(buf))
                /\ ProcessedOne(start, segment).acks =
                      <<DataFrame(moved, AckLen,
                           Ack(PayloadOf(buf), Accepted(live_orders, PayloadOf(buf))))>>
                /\ ProcessedOne(start, segment).done = <<PayloadOf(buf)>>
  <2>1. [tcp EXCEPT !.recv_seq = Advance(@, len)] = [tcp EXCEPT !.recv_seq = s]
    BY DEF tcp
  <2>2. \A x : Append(<<>>, x) = <<x>>
    OBVIOUS
  <2>3. ASSUME len < OrderLen
        PROVE  ProcessedOne(start, segment) = start
    BY <1>8, <2>3, Zenon DEF ProcessedOne
  <2>4. ASSUME ~(len < OrderLen)
        PROVE  ProcessedOne(start, segment) =
                 [tcp |-> [tcp EXCEPT !.recv_seq = s],
                  live |-> Table(live_orders, PayloadOf(buf)),
                  acks |-> Append(<<>>,
                             DataFrame([tcp EXCEPT !.recv_seq = s], AckLen,
                               Ack(PayloadOf(buf), Accepted(live_orders, PayloadOf(buf))))),
                  done |-> Append(<<>>, PayloadOf(buf))]
    BY <1>8, <1>9, <2>1, <2>4, Zenon DEF ProcessedOne
  <2> QED
    BY <2>2, <2>3, <2>4
<1>13. ([tcp EXCEPT !.recv_seq = s]).recv_seq = s
  BY <1>3 DEF TcpConnections
<1>14. expected = IF len < OrderLen THEN tcp.recv_seq ELSE s
  BY <1>9, <1>11, <1>12, <1>13
<1>15. expected \in SeqNums /\ expected \notin DOMAIN segments
  <2>1. s \in SeqNums
    <3>1. tcp.recv_seq \in Nat /\ len \in Nat
      BY <1>2, <1>7 DEF SeqNums
    <3>2. Advance(tcp.recv_seq, len) \in SeqNums
      BY <3>1, AdvanceInRange, Zenon
    <3> QED
      BY <3>2 DEF tcp
  <2> QED
    BY <1>7, <1>14, <2>1 DEF tcp, segments
<1> HIDE DEF expected
<1>16. Contiguous(segments, expected) = <<>> /\ DOMAIN rest \subseteq DOMAIN segments
  BY <1>3, <1>15, PopContiguousFacts
<1>17. result = ProcessedOne(start, segment)
  <2>1. first \o <<>> = first
    BY <1>10
  <2> QED
    BY <1>11, <1>16, <2>1
<1> HIDE DEF result, rest
<1>18. /\ ctx'[k].tcp = result.tcp /\ ctx'[k].reassembly = rest
       /\ \A j \in Conns : j # k => link'[j] = link[j] /\ ctx'[j] = ctx[j]
       /\ link'[k] = SentDown(link[k], result.acks)
  <2>1. DOMAIN ctx = Conns /\ DOMAIN link = Conns
    BY DEF IndInv, TypeOK
  <2> QED
    BY <1>2, <1>5, <2>1
<1>19. link[k] \in Links /\ link[k].down \in Seq(DownFrames)
  BY <1>2, LinkFields DEF IndInv
<1>20. result.acks \in Seq(DownFrames)
  <2>1. Processed(tcp, first) \in Results(tcp.state)
    BY <1>3, <1>6, <1>10, ProcessedFacts
  <2> QED
    BY <1>11, <1>17, <2>1 DEF Results
<1>21. /\ link'[k].up = link[k].up /\ link'[k].client_end = link[k].client_end
       /\ link'[k].gateway_end = link[k].gateway_end
       /\ link'[k].down = IF link[k].client_end = "closed" THEN link[k].down
                                                           ELSE link[k].down \o result.acks
  BY <1>18, <1>19, <1>20 DEF SentDown, Links
<1>22. CASE len < OrderLen
  <2>1. result = start
    BY <1>12, <1>17, <1>22
  <2>2. applied \o <<>> = applied /\ link[k].down \o <<>> = link[k].down
    BY <1>6, <1>19
  <2> QED
    BY <1>2, <1>5, <1>9, <1>16, <1>18, <1>21, <1>22, <2>1, <2>2 DEF tcp, segments
<1>23. CASE ~(len < OrderLen)
  <2> DEFINE ack == Ack(PayloadOf(buf), Accepted(live_orders, PayloadOf(buf)))
             frame == DataFrame([tcp EXCEPT !.recv_seq = s], AckLen, ack)
  <2>1. /\ result.tcp.recv_seq = s /\ result.live = Table(live_orders, PayloadOf(buf))
        /\ result.acks = <<frame>> /\ result.done = <<PayloadOf(buf)>>
    BY <1>12, <1>13, <1>17, <1>23
  <2>2. frame.ack = s /\ frame.payload = ack
    BY <1>13 DEF DataFrame, Frame
  <2> HIDE DEF frame, ack
  <2>3. applied \o <<PayloadOf(buf)>> = Append(applied, PayloadOf(buf))
    BY <1>6
  <2>4. <<>> \o <<frame>> = <<frame>> /\ Len(<<frame>>) = 1 /\ <<frame>>[1] = frame
    OBVIOUS
  <2>5. ASSUME link[k].client_end = "open", link[k].down = <<>>
        PROVE  Len(link'[k].down) = 1 /\ link'[k].down[1] = frame
    BY <1>21, <2>1, <2>4, <2>5
  <2>6. /\ DOMAIN ctx'[k].reassembly \subseteq DOMAIN ctx[k].reassembly
        /\ ctx'[k].tcp.recv_seq = s
        /\ live_orders' = Table(live_orders, PayloadOf(buf))
        /\ applied' = Append(applied, PayloadOf(buf))
    BY <1>5, <1>16, <1>18, <2>1, <2>3 DEF segments
  <2> QED
    BY <1>2, <1>5, <1>18, <1>21, <1>23, <2>2, <2>5, <2>6 DEF ack
<1> QED
  BY <1>22, <1>23, Zenon

\* Appending what is the last order, or no order of the client.
LEMMA AppliedAppend ==
    ASSUME NEW c \in Clients, applied \in Seq(Requests), NEW req, NEW j \in Int,
           applied' = Append(applied, req), AppliedBelow(c, j),
           req.client = c /\ req.id <= MaxOrders => req.id = j
    PROVE  /\ AppliedBelow(c, j + 1)'
           /\ \A m, n \in 1..Len(applied') :
                 /\ m < n
                 /\ applied'[m].client = c /\ applied'[m].id <= MaxOrders
                 /\ applied'[n].client = c /\ applied'[n].id <= MaxOrders
                 => \/ m \in 1..Len(applied) /\ n \in 1..Len(applied)
                    \/ applied'[m].id < applied'[n].id
           /\ \A m \in 1..Len(applied) : applied'[m] = applied[m]
<1>1. /\ Len(applied) \in Nat /\ Len(applied') = Len(applied) + 1
      /\ applied'[Len(applied) + 1] = req
      /\ \A m \in 1..Len(applied) : applied'[m] = applied[m] /\ applied[m] \in Requests
  OBVIOUS
<1>2. \A m \in 1..Len(applied') : m \in 1..Len(applied) \/ m = Len(applied) + 1
  BY <1>1
<1>3. ASSUME NEW m \in 1..Len(applied), applied[m].client = c, applied[m].id <= MaxOrders
      PROVE  applied[m].id < j /\ applied[m].id \in Int
  <2>1. applied[m].id \in OrderIds
    BY <1>1 DEF Requests
  <2>2. applied[m].id \in Int
    BY <2>1, NumbersAssumption, SeqModAssumption DEF OrderIds, JunkId
  <2> QED
    BY <1>3, <2>2 DEF AppliedBelow
<1>4. ASSUME NEW m \in 1..Len(applied'),
             applied'[m].client = c, applied'[m].id <= MaxOrders
      PROVE  applied'[m].id < j + 1
  <2>1. CASE m \in 1..Len(applied)
    BY <1>1, <1>3, <1>4, <2>1
  <2>2. CASE m = Len(applied) + 1
    BY <1>1, <1>4, <2>2
  <2> QED
    BY <1>2, <2>1, <2>2
<1>5. ASSUME NEW m \in 1..Len(applied'), NEW n \in 1..Len(applied'), m < n,
             applied'[m].client = c, applied'[m].id <= MaxOrders,
             applied'[n].client = c, applied'[n].id <= MaxOrders,
             ~(m \in 1..Len(applied) /\ n \in 1..Len(applied))
      PROVE  applied'[m].id < applied'[n].id
  <2>1. n = Len(applied) + 1 /\ m \in 1..Len(applied)
    BY <1>1, <1>2, <1>5
  <2>2. applied'[n] = req /\ applied'[m] = applied[m]
    BY <1>1, <2>1
  <2> QED
    BY <1>3, <1>5, <2>1, <2>2
<1> QED
  BY <1>1, <1>4, <1>5 DEF AppliedBelow

\* An order is applied: once, after the ones before it, and its answer is on its
\* way when the client waits for it.
LEMMA ProcessOrderPhase ==
    ASSUME NEW c, Clients = {c}, NoWrap, IndInv, IndInv', AppliedInOrder,
           NumberInv(c), SerialInv(c), PhaseInv(c),
           NEW k, NEW len, ProcessOrder(k, len)
    PROVE  PhaseInv(c)' /\ AppliedInOrder'
<1> DEFINE S == SeqOf(Sent(c))
           E == SeqOf(client[c].order_id)
           r == ctx[k].tcp.recv_seq
           p == PayloadOf(buf)
<1>1. Popping(k, len) /\ len > 0 /\ buf # <<>> /\ buf[1].seq = r
  BY DEF ProcessOrder, Parsing
<1>2. /\ k \in Conns /\ k[2] \in 1..MaxConns /\ InRing(k) /\ ring' = <<>>
      /\ len = ByteCount(buf) - HeaderLen
  BY <1>1, SoloPacket
<1>3. /\ k[2] = client[c].made /\ Unanswered(c) /\ ~Dead(buf, r) /\ buf[1].seq = S
  BY <1>1, NextPayload
<1>4. buf \in Seq(UpFrames) /\ buf # <<>> /\ len \in Nat
  BY <1>1, PoppingFacts
<1>5. c \in Clients /\ client[c].order_id \in 2..(MaxOrders + 1) /\ Sent(c) \in 1..MaxOrders
  <2>1. c \in Clients
    BY SoloConns
  <2>2. client[c].order_id \in 1..(MaxOrders + 1) /\ client[c].order_id > 1
    BY <1>3, <2>1, ClientFields DEF IndInv, Unanswered
  <2> QED
    BY <2>1, <2>2, NumbersAssumption DEF Sent
<1>6. S \in Int /\ E \in Int /\ E = S + OrderLen /\ S < E
  <2>1. Sent(c) \in Int /\ client[c].order_id = Sent(c) + 1
    BY <1>5 DEF Sent
  <2>2. S \in Int /\ E = S + OrderLen
    BY <2>1, SeqOfFacts
  <2> QED
    BY <2>2 DEF OrderLen
<1>7. FramesUpTo(c, S)
  BY <1>3 DEF Unanswered
<1>8. len <= (HeaderLen + OrderLen) * MaxFrames
  <2>1. ByteCount(buf) \in Nat /\ ByteCount(buf) <= (HeaderLen + OrderLen) * Len(buf)
    BY <1>4, ByteCountFacts
  <2>2. Len(buf) <= MaxFrames /\ Len(buf) \in Nat
    BY <1>4, <1>7 DEF FramesUpTo, Past
  <2>3. MaxFrames \in Nat
    BY SeqOfFacts
  <2>4. (HeaderLen + OrderLen) * Len(buf) <= (HeaderLen + OrderLen) * MaxFrames
    BY <2>2, <2>3 DEF HeaderLen, OrderLen
  <2> QED
    BY <1>2, <2>1, <2>2, <2>3, <2>4 DEF HeaderLen, OrderLen
<1>9. Advance(r, len) = S + len
  <2>1. len \in 0..((HeaderLen + OrderLen) * MaxFrames)
    BY <1>4, <1>8, SeqOfFacts DEF HeaderLen, OrderLen
  <2>2. Advance(S, len) = S + len
    BY <1>5, <2>1, SeqOfFacts
  <2> QED
    BY <1>1, <1>3, <2>2
<1>10. \A j \in Conns : \A s \in DOMAIN ctx[j].reassembly :
          s <= S /\ s # ctx[j].tcp.recv_seq /\ s \in Int
  <2>1. ASSUME NEW j \in Conns, NEW s \in DOMAIN ctx[j].reassembly
        PROVE  s \in Int
    <3>1. s \in SeqNums
      BY CtxFields DEF IndInv, IsReassembly
    <3> QED
      BY <3>1 DEF SeqNums
  <2> QED
    BY <1>7, <2>1 DEF FramesUpTo
<1>11. r \notin DOMAIN ctx[k].reassembly /\ (S + len) \notin DOMAIN ctx[k].reassembly
  <2>1. ~(S + len <= S)
    BY <1>1, <1>4, <1>6
  <2> QED
    BY <1>2, <1>10, <2>1
<1>12. /\ UNCHANGED <<client, backlog, batch, buf, dropping>>
       /\ \A j \in Conns : j # k => link'[j] = link[j] /\ ctx'[j] = ctx[j]
       /\ link'[k].up = link[k].up
       /\ DOMAIN ctx'[k].reassembly \subseteq DOMAIN ctx[k].reassembly
       /\ len < OrderLen =>
                 /\ ctx'[k].tcp.recv_seq = r
                 /\ link'[k].down = link[k].down
                 /\ live_orders' = live_orders /\ applied' = applied
       /\ ~(len < OrderLen) =>
                 /\ ctx'[k].tcp.recv_seq = S + len
                 /\ live_orders' = Table(live_orders, p)
                 /\ applied' = Append(applied, p)
                 /\ link[k].client_end = "open" /\ link[k].down = <<>> =>
                       /\ Len(link'[k].down) = 1
                       /\ link'[k].down[1].ack = S + len
                       /\ link'[k].down[1].payload = Ack(p, Accepted(live_orders, p))
  BY <1>9, <1>11, OneProcessed
<1>13. \A j \in Conns : ~InRing(j)'
  BY <1>2 DEF InRing
<1>14. CASE len < OrderLen
  <2>1. client[c].idles \/ \A j \in Conns : \A i \in 1..Len(link[j].up) :
                                 link[j].up[i].len = OrderLen
    BY SoloConns DEF IndInv, LinkInv
  <2>2. \A j \in Conns :
              /\ link'[j].down = link[j].down
              /\ link'[j].up \in {link[j].up, <<>>}
              /\ ctx'[j].tcp.recv_seq = ctx[j].tcp.recv_seq
              /\ \A s \in DOMAIN ctx'[j].reassembly : s \in DOMAIN ctx[j].reassembly
    BY <1>12, <1>14
  <2>3. PhaseInv(c)'
    BY <1>12, <1>13, <1>14, <2>1, <2>2, PhaseAfterGateway DEF IndInv
  <2> QED
    BY <1>12, <1>14, <2>3 DEF AppliedInOrder
<1>15. CASE ~(len < OrderLen)
  <2>0. S + len >= E /\ S + len > S /\ S + len \in Int
    BY <1>4, <1>6, <1>15 DEF OrderLen
  <2>1. \/ buf[1].len = OrderLen /\ p = client[c].req
        \/ /\ buf[1].len = 0
           /\ p.client # c \/ ~(p.id <= MaxOrders)
    <3>1. Past(buf, S, buf[1].seq, client[c].req)
      BY <1>3, <1>7 DEF FramesUpTo
    <3> QED
      BY <1>4, <1>5, <3>1, PayloadFacts
  <2>2. client[c].idles \/ p = client[c].req
    <3>1. client[c].idles \/ buf[1].len = OrderLen
      <4>1. 1 \in 1..Len(buf)
        BY <1>4
      <4> QED
        BY <1>7, <4>1 DEF FramesUpTo
    <3>2. OrderLen # 0
      BY DEF OrderLen
    <3> QED
      BY <2>1, <3>1, <3>2
  <2>3. client[c].req.id = Sent(c) /\ client[c].req.client = c
    BY <1>5 DEF NumberInv
  <2>4. AppliedBelow(c, Sent(c)) /\ applied \in Seq(Requests) /\ applied' = Append(applied, p)
    BY <1>3, <1>12, <1>15 DEF Unanswered, IndInv, TypeOK
  <2>5. p.client = c /\ p.id <= MaxOrders => p.id = Sent(c)
    BY <2>1, <2>3
  <2>6. PICK b : b = Sent(c)
    OBVIOUS
  <2> HIDE DEF p, r, S, E
  <2>7. /\ AppliedBelow(c, b + 1)'
        /\ \A m, n \in 1..Len(applied') :
                 /\ m < n
                 /\ applied'[m].client = c /\ applied'[m].id <= MaxOrders
                 /\ applied'[n].client = c /\ applied'[n].id <= MaxOrders
                 => \/ m \in 1..Len(applied) /\ n \in 1..Len(applied)
                    \/ applied'[m].id < applied'[n].id
        /\ \A m \in 1..Len(applied) : applied'[m] = applied[m]
    <3>1. b \in Int /\ AppliedBelow(c, b) /\ (p.client = c /\ p.id <= MaxOrders => p.id = b)
      BY <1>5, <2>4, <2>5, <2>6
    <3> QED
      BY <1>5, <2>4, <3>1, AppliedAppend
  <2>8. AppliedInOrder'
    BY <2>7 DEF AppliedInOrder
  <2>9. AppliedBelow(c, client[c].order_id)'
    <3>1. client'[c].order_id = b + 1
      BY <1>5, <1>12, <2>6 DEF Sent
    <3> QED
      BY <2>7, <3>1 DEF AppliedBelow
  <2>10. ASSUME NEW x, FramesUpTo(c, x)
         PROVE  FramesUpTo(c, x)'
    <3>1. S' = S /\ client' = client /\ buf' = buf
      BY <1>12 DEF S, SeqOf, Sent
    <3>2. \A j \in Conns : link'[j].up = link[j].up
      BY <1>12
    <3>3. ASSUME NEW j \in Conns, NEW s \in DOMAIN ctx'[j].reassembly
          PROVE  s <= x /\ s # ctx'[j].tcp.recv_seq
      <4>0. s \in DOMAIN ctx[j].reassembly
        BY <1>12
      <4>3. s <= x
        BY <2>10, <4>0 DEF FramesUpTo
      <4>1. CASE j = k
        <5>1. s <= S /\ s \in Int /\ ctx'[j].tcp.recv_seq = S + len
          BY <1>10, <1>12, <1>15, <4>1
        <5> QED
          BY <1>6, <2>0, <4>3, <5>1
      <4>2. CASE j # k
        BY <1>10, <1>12, <4>2, <4>3
      <4> QED
        BY <4>1, <4>2
    <3>4. Sent(c)' = Sent(c) /\ SeqOf(Sent(c))' = SeqOf(Sent(c))
      BY <1>12 DEF SeqOf, Sent
    <3> QED
      BY <2>10, <3>1, <3>2, <3>3, <3>4 DEF FramesUpTo
  <2>11. \A i \in 1..Len(link[k].up) : link[k].up[i].seq # S + len
    <3>1. ASSUME NEW i \in 1..Len(link[k].up)
          PROVE  link[k].up[i].seq <= S /\ link[k].up[i].seq \in Int
      <4>1. link[k].up[i] \in UpFrames
        BY <1>2, LinkFields DEF IndInv
      <4>2. link[k].up[i].seq \in SeqNums
        BY <4>1, FrameFields, Zenon
      <4> QED
        BY <1>2, <1>7, <4>2 DEF FramesUpTo, Past, SeqNums
    <3> QED
      BY <1>6, <2>0, <3>1
  <2>12. Stale(link'[k].up, ctx'[k].tcp.recv_seq)
    <3>1. link[k].up # <<>> => 1 \in 1..Len(link[k].up)
      <4>1. link[k].up \in Seq(UpFrames)
        BY <1>2, LinkFields DEF IndInv
      <4> QED
        BY <4>1
    <3> QED
      BY <1>12, <1>15, <2>11, <3>1 DEF Stale
  <2>13. Idle(k)'
    BY <1>13, <1>2, <2>12 DEF Idle, Dead
  <2>14. \A j \in Conns : j[2] = client[c].made => j = k
    BY <1>2, <1>3, SoloConns
  <2>15. \A j \in Conns : j[2] < client[c].made => Idle(j)'
    <3>1. ASSUME NEW j \in Conns, j[2] < client[c].made
          PROVE  Idle(j)'
      <4>1. Idle(j) /\ j # k
        <5>1. j[2] \in Int /\ client[c].made \in Int
          <6>1. j[2] \in 1..MaxConns
            BY SoloConns
          <6> QED
            BY <1>2, <1>3, <6>1
        <5>2. j[2] # client[c].made
          BY <3>1, <5>1
        <5> QED
          BY <1>3, <3>1, <5>2 DEF PhaseInv
      <4> QED
        BY <1>12, <1>13, <4>1 DEF Idle
    <3> QED
      BY <3>1
  <2>16. /\ client[c].idles \/ live_orders = client[c].shadow
         /\ Accepted(client[c].shadow, client[c].req) /\ link[k].down = <<>>
         /\ client[c].pc = "wait" => Len(link[k].up) <= Resent(c)
         /\ client[c].pc \in {"wait", "stopped"}
    BY <1>2, <1>3 DEF Unanswered, r
  <2>17. client[c].idles \/ live_orders' = Table(client[c].shadow, client[c].req)
    BY <1>12, <1>15, <2>2, <2>16
  <2>18. SeqOf(Sent(c))' = S /\ SeqOf(client[c].order_id)' = E /\ Resent(c)' = Resent(c)
    BY <1>12 DEF S, E, SeqOf, Sent, Resent
  <2>19. CASE client[c].pc = "wait"
    <3>1. link[k].client_end = "open"
      <4>1. client[c].fd = client[c].made
        BY <1>5, <2>19, ConnOfFacts DEF IndInv, ClientInv
      <4>2. k[1] = c /\ k[2] = client[c].fd
        BY <1>2, <1>3, <4>1, SoloConns
      <4>3. k[2] <= client[k[1]].made
        BY <1>2, <1>3, <4>2
      <4> QED
        BY <1>2, <4>2, <4>3 DEF IndInv, LinkInv
    <3>2. /\ Len(link'[k].down) = 1 /\ link'[k].down[1].ack = S + len
          /\ link'[k].down[1].payload = Ack(p, Accepted(live_orders, p))
      BY <1>12, <1>15, <2>16, <3>1
    <3>3. client[c].idles \/ link'[k].down[1].payload = Ack(client[c].req, TRUE)
      <4>1. Accepted(client[c].shadow, client[c].req) = TRUE
        BY <2>16 DEF Accepted
      <4> QED
        BY <2>2, <2>16, <3>2, <4>1
    <3>4. FramesUpTo(c, SeqOf(Sent(c)))'
      <4>1. PICK x : x = S
        OBVIOUS
      <4>2. FramesUpTo(c, x)'
        BY <1>7, <2>10, <4>1
      <4> QED
        BY <2>18, <4>1, <4>2 DEF FramesUpTo
    <3>5. ASSUME NEW j \in Conns, j[2] = client[c].made
          PROVE  LET down == link'[j].down
                 IN  /\ Len(down) = 1
                     /\ down[1].ack >= E
                     /\ client[c].idles \/ down[1].payload = Ack(client[c].req, TRUE)
                     /\ Idle(j)' /\ Stale(link'[j].up, ctx'[j].tcp.recv_seq)
                     /\ Len(link'[j].up) <= Resent(c)
      BY <1>12, <2>0, <2>12, <2>13, <2>14, <2>16, <2>19, <3>2, <3>3, <3>5
    <3>6. Answered(c)'
      BY <1>12, <2>9, <2>17, <2>18, <2>19, <3>4, <3>5 DEF Answered
    <3> QED
      BY <1>12, <2>8, <2>15, <3>6 DEF PhaseInv
  <2>20. CASE client[c].pc = "stopped"
    <3>1. FramesUpTo(c, SeqOf(client[c].order_id))'
      <4>1. PICK x : x = E
        OBVIOUS
      <4>2. TypeOK /\ S <= E
        BY <1>6 DEF IndInv
      <4>3. FramesUpTo(c, x)
        BY <1>5, <1>6, <1>7, <4>1, <4>2, FramesWiden
      <4>4. FramesUpTo(c, x)'
        BY <2>10, <4>3
      <4> QED
        BY <2>18, <4>1, <4>4 DEF FramesUpTo
    <3>2. Over(c)'
      BY <1>12, <2>9, <2>13, <2>14, <2>17, <2>20, <3>1 DEF Over
    <3> QED
      BY <1>12, <2>8, <2>15, <3>2 DEF PhaseInv
  <2> QED
    BY <2>16, <2>19, <2>20
<1> QED
  BY <1>14, <1>15, ZenonT(60)

-----------------------------------------------------------------------------
(***************************************************************************)
(* The steps of the gateway.                                               *)
(***************************************************************************)

\* The connections the gateway knows are not younger than the newest, and the
\* newest is none of the older ones.
LEMMA SoloOpen ==
    ASSUME NEW c, Clients = {c}, IndInv
    PROVE  /\ client[c].made \in 0..MaxConns
           /\ \A k \in Conns : k = Newest(c) <=> k[2] = client[c].made
           /\ \A k \in Conns :
                 \/ link[k].gateway_end # "none" \/ link[k].up # <<>> \/ k \in batch
                    \/ InRing(k)
                 => k[2] < client[c].made \/ k = Newest(c)
           /\ ListenFd \notin Conns
           /\ \A k \in Conns : k[2] < client[c].made => Newest(c) \in Conns
<1>1. c \in Clients /\ client[c].made \in 0..MaxConns
  BY SoloConns, ClientFields DEF IndInv
<1>2. ASSUME NEW k \in Conns
      PROVE  k = Newest(c) <=> k[2] = client[c].made
  <2>1. k = <<c, k[2]>>
    BY SoloConns
  <2> QED
    BY <2>1 DEF Newest
<1>3. ASSUME NEW k \in Conns,
             \/ link[k].gateway_end # "none" \/ link[k].up # <<>> \/ k \in batch
             \/ InRing(k)
      PROVE  k[2] < client[c].made \/ k = Newest(c)
  <2>1. k[1] = c /\ k[2] \in 1..MaxConns
    BY SoloConns
  <2>2. k \in batch => link[k].gateway_end = "open"
    BY ListenFdAssumption DEF IndInv, EventInv
  <2>3. InRing(k) => link[k].gateway_end = "open"
    <3>1. ring # <<>> => 1 \in 1..Len(ring)
      BY DEF IndInv, TypeOK
    <3> QED
      BY <3>1 DEF InRing, IndInv, RingInv
  <2>4. link[k] # NoLink
    BY <1>3, <2>2, <2>3 DEF NoLink
  <2>5. ~(k[2] > client[c].made)
    BY <2>1, <2>4 DEF IndInv, LinkInv
  <2> QED
    BY <1>1, <1>2, <2>1, <2>5
<1>4. ListenFd \notin Conns
  BY ListenFdAssumption
<1>5. ASSUME NEW k \in Conns, k[2] < client[c].made
      PROVE  Newest(c) \in Conns
  <2>1. k[2] \in 1..MaxConns
    BY SoloConns
  <2>2. client[c].made \in 1..MaxConns
    BY <1>1, <1>5, <2>1
  <2> QED
    BY <2>2, SoloConns DEF Newest
<1> QED
  BY <1>1, <1>2, <1>3, <1>4, <1>5

\* A packet is handled: the ring is empty then, and only the connection of the
\* packet has changed.
LEMMA SerialAfterPacket ==
    ASSUME NEW c, Clients = {c}, IndInv, SerialInv(c), NEW k, NEW len, Popping(k, len),
           \A j \in Conns : j # k => link'[j] = link[j] /\ ctx'[j] = ctx[j],
           link'[k].gateway_end \in {"open", "closed"},
           link'[k].up # <<>> =>
              link[k].up # <<>> /\ link'[k].gateway_end = "open",
           client' = client, batch' = batch, backlog' = backlog
    PROVE  SerialInv(c)'
<1>1. k \in Conns /\ InRing(k) /\ ring' = <<>> /\ batch = {}
  BY SoloPacket DEF Popping
<1>2. Len(ring') = 0 /\ \A j \in Conns : ~InRing(j)'
  BY <1>1 DEF InRing
<1>3. Newest(c)' = Newest(c)
  BY DEF Newest
<1>4. ASSUME NEW j \in Conns, link'[j].gateway_end \in {"none", "backlog"}
      PROVE  /\ ctx'[j] = [tcp |-> NewConnection, reassembly |-> NoSegments]
             /\ link'[j].down = <<>>
             /\ client[c].pc = "top" => link'[j].up = <<>>
  <2>1. j # k
    BY <1>4
  <2> QED
    BY <1>4, <2>1 DEF SerialInv
<1>5. ASSUME NEW j \in Conns, j[2] < client[c].made, Pending(j)'
      PROVE  /\ j[2] = client[c].made - 1
             /\ client[c].pc # "top"
             /\ link'[j].gateway_end = "open"
             /\ link'[Newest(c)].down = <<>>
             /\ Newest(c) \notin batch
             /\ link'[Newest(c)].gateway_end = "backlog"
  <2>1. link'[j].up # <<>>
    BY <1>2, <1>5 DEF Pending
  <2>2. link[j].up # <<>> /\ Pending(j)
    BY <2>1 DEF Pending
  <2>3. /\ j[2] = client[c].made - 1 /\ client[c].pc # "top"
        /\ link[j].gateway_end = "open"
        /\ link[Newest(c)].down = <<>>
        /\ Newest(c) \notin batch /\ ~InRing(Newest(c))
        /\ link[Newest(c)].gateway_end = "backlog"
    BY <1>1, <1>5, <2>2 DEF SerialInv
  <2>4. Newest(c) \in Conns /\ Newest(c) # k
    BY <1>1, <1>5, <2>3, SoloOpen
  <2> QED
    BY <2>1, <2>3, <2>4
<1>6. ~InRing(Newest(c))'
  BY <1>1 DEF InRing
<1>7. ListenFd \notin batch
  BY <1>1
<1> QED
  BY <1>1, <1>2, <1>3, <1>4, <1>5, <1>6, <1>7 DEF SerialInv

-----------------------------------------------------------------------------
\* The connections that are accepted, in numbers.
LEMMA SoloAccepted ==
    ASSUME NEW c, Clients = {c}, IndInv
    PROVE  /\ AcceptedOf(c) \in Int /\ Len(backlog) \in Nat
           /\ client[c].made \in Nat /\ client[c].made = AcceptedOf(c) + Len(backlog)
           /\ ListenFd \in batch => Len(backlog) > 0
           /\ \A k \in Conns : k[2] \in Nat
<1>1. client[c].made \in Nat
  BY SoloOpen
<1>2. backlog \in Seq(Conns) /\ Len(backlog) \in Nat /\ (backlog # <<>> => Len(backlog) > 0)
  BY DEF IndInv, TypeOK
<1>3. ListenFd \in batch => backlog # <<>>
  BY DEF IndInv, EventInv
<1>4. \A k \in Conns : k[2] \in Nat
  BY SoloConns
<1> QED
  BY <1>1, <1>2, <1>3, <1>4 DEF AcceptedOf

\* epoll_wait has room for all that is ready, which is at most the listening socket
\* and the two connections accepted last.
LEMMA AllReported ==
    ASSUME NEW c, Clients = {c}, RoomForAll, IndInv, AcceptInv(c), EpollWait
    PROVE  batch' = Readable \cup {fd \in {ListenFd} : backlog # <<>>}
<1> DEFINE A == AcceptedOf(c)
           ready == Readable \cup {fd \in {ListenFd} : backlog # <<>>}
           three == {<<c, A - 1>>, <<c, A>>, ListenFd}
<1>1. batch = {} /\ batch' \in Reported(ready) /\ A \in Int
  BY SoloAccepted DEF EpollWait
<1>2. ASSUME NEW k \in Readable
      PROVE  k \in three
  <2>1. k \in Conns /\ link[k].gateway_end = "open"
    BY DEF Readable
  <2>2. k[2] \in Nat /\ k = <<c, k[2]>> /\ k[2] <= A
    <3>1. k[2] \in Nat /\ k = <<c, k[2]>>
      BY <2>1, SoloConns
    <3>2. k[2] <= A
      BY <2>1 DEF AcceptInv
    <3> QED
      BY <3>1, <3>2
  <2>3. ~(k[2] < A - 1)
    BY <1>1, <2>1 DEF AcceptInv
  <2>4. k[2] = A - 1 \/ k[2] = A
    BY <1>1, <2>2, <2>3
  <2> QED
    BY <2>2, <2>4
<1>3. ready \subseteq three
  BY <1>2
<1>4. IsFiniteSet(three) /\ Cardinality(three) <= 3
  <2> DEFINE one == {ListenFd}
             two == one \cup {<<c, A>>}
  <2>1. IsFiniteSet(one) /\ Cardinality(one) = 1
    BY FS_Singleton
  <2>2. IsFiniteSet(two) /\ (Cardinality(two) = 1 \/ Cardinality(two) = 2)
    BY <2>1, FS_AddElement
  <2>3. three = two \cup {<<c, A - 1>>}
    OBVIOUS
  <2> HIDE DEF two, three
  <2>4. /\ IsFiniteSet(three)
        /\ Cardinality(three) = Cardinality(two) \/ Cardinality(three) = Cardinality(two) + 1
    BY <2>2, <2>3, FS_AddElement
  <2> QED
    BY <2>2, <2>4
<1> HIDE DEF three, ready
<1>5. IsFiniteSet(ready) /\ Cardinality(ready) <= Cardinality(three)
      /\ Cardinality(ready) \in Nat /\ Cardinality(three) \in Nat
  BY <1>3, <1>4, FS_Subset, FS_CardinalityType
<1>6. Cardinality(ready) <= MaxEvents
  BY <1>4, <1>5, NumbersAssumption DEF RoomForAll
<1>7. Reported(ready) = {ready}
  BY <1>6 DEF Reported
<1>8. batch' = ready
  BY <1>1, <1>7
<1> QED
  BY <1>8 DEF ready

\* No connection is made or accepted: the gateway at most closes one, and nothing
\* is written to the connections before the newest.
LEMMA AcceptKept ==
    ASSUME NEW c, Clients = {c}, IndInv, AcceptInv(c),
           batch' = batch, backlog' = backlog, client'[c].made = client[c].made,
           \A k \in Conns :
              \/ link'[k].gateway_end = link[k].gateway_end
              \/ link[k].gateway_end = "open" /\ link'[k].gateway_end = "closed",
           \A k \in Conns : k[2] < client[c].made => link'[k].up \in {link[k].up, <<>>}
    PROVE  AcceptInv(c)'
<1> DEFINE A == AcceptedOf(c)
           last == A + (IF ListenFd \in batch THEN 1 ELSE 0)
<1>1. AcceptedOf(c)' = A
  BY DEF AcceptedOf
<1>2. A \in Int /\ last \in Int /\ last <= client[c].made /\ client[c].made \in Nat
      /\ \A k \in Conns : k[2] \in Nat
  BY SoloAccepted
<1>3. /\ \A i \in 1..Len(backlog) : backlog[i] = <<c, A + i>>
      /\ \A k \in Conns :
            /\ link[k].gateway_end \in {"open", "closed"} <=> k[2] <= A
            /\ link[k].gateway_end = "open" =>
                  /\ k[2] < last => k \in batch \/ link[k].up = <<>>
                  /\ k[2] < last - 1 => k \in batch /\ link[k].up = <<>>
  BY DEF AcceptInv
<1> HIDE DEF A, last
<1>4. ASSUME NEW k \in Conns
      PROVE  /\ link'[k].gateway_end \in {"open", "closed"} <=> k[2] <= A
             /\ link'[k].gateway_end = "open" =>
                   /\ k[2] < last => k \in batch \/ link'[k].up = <<>>
                   /\ k[2] < last - 1 => k \in batch /\ link'[k].up = <<>>
  <2>1. k[2] < last => link'[k].up \in {link[k].up, <<>>}
    BY <1>2
  <2>2. k[2] < last - 1 => k[2] < last
    BY <1>2
  <2>3. link'[k].gateway_end = "open" => link[k].gateway_end = "open"
    OBVIOUS
  <2>4. link'[k].gateway_end \in {"open", "closed"} <=> link[k].gateway_end \in {"open", "closed"}
    OBVIOUS
  <2> QED
    BY <1>3, <2>1, <2>2, <2>3, <2>4
<1> QED
  BY <1>1, <1>3, <1>4 DEF AcceptInv, last

\* A connection is made: it goes behind the ones that wait to be accepted.
LEMMA AcceptAfterConnect ==
    ASSUME NEW c, Clients = {c}, IndInv, AcceptInv(c),
           batch' = batch, NEW n \in Conns, n = NextConn(c),
           client'[c].made = client[c].made + 1, backlog' = Append(backlog, n),
           link'[n].gateway_end = "backlog",
           \A k \in Conns : k # n =>
              link'[k].gateway_end = link[k].gateway_end /\ link'[k].up = link[k].up
    PROVE  AcceptInv(c)'
<1> DEFINE A == AcceptedOf(c)
           last == A + (IF ListenFd \in batch THEN 1 ELSE 0)
<1>1. A \in Int /\ client[c].made = A + Len(backlog) /\ client[c].made \in Nat
      /\ Len(backlog) \in Nat
  BY SoloAccepted
<1>2. backlog \in Seq(Conns)
  BY DEF IndInv, TypeOK
<1>3. Len(backlog') = Len(backlog) + 1
  BY <1>2
<1>4. AcceptedOf(c)' = A
  <2>1. A = client[c].made - Len(backlog) /\ AcceptedOf(c)' = client'[c].made - Len(backlog')
    BY DEF AcceptedOf
  <2> QED
    BY <1>1, <1>3, <2>1
<1>5. n = <<c, client[c].made + 1>> /\ n[2] = client[c].made + 1
  BY DEF NextConn
<1>6. ASSUME NEW i \in 1..Len(backlog')
      PROVE  backlog'[i] = <<c, A + i>>
  <2>1. CASE i = Len(backlog) + 1
    <3>1. backlog'[i] = n
      BY <1>2, <2>1
    <3> QED
      BY <1>1, <1>5, <2>1, <3>1
  <2>2. CASE i # Len(backlog) + 1
    <3>1. i \in 1..Len(backlog)
      BY <1>1, <1>3, <2>2
    <3>2. backlog'[i] = backlog[i]
      BY <1>2, <3>1
    <3> QED
      BY <3>1, <3>2 DEF AcceptInv
  <2> QED
    BY <2>1, <2>2
<1>7. ~(n[2] <= A)
  BY <1>1, <1>5
<1>8. \A k \in Conns :
         /\ link[k].gateway_end \in {"open", "closed"} <=> k[2] <= A
         /\ link[k].gateway_end = "open" =>
               /\ k[2] < last => k \in batch \/ link[k].up = <<>>
               /\ k[2] < last - 1 => k \in batch /\ link[k].up = <<>>
  BY DEF AcceptInv
<1> HIDE DEF A, last
<1>9. \A k \in Conns :
         /\ link'[k].gateway_end \in {"open", "closed"} <=> k[2] <= A
         /\ link'[k].gateway_end = "open" =>
               /\ k[2] < last => k \in batch \/ link'[k].up = <<>>
               /\ k[2] < last - 1 => k \in batch /\ link'[k].up = <<>>
  BY <1>7, <1>8
<1> QED
  BY <1>4, <1>6, <1>9 DEF AcceptInv, last

\* A batch is reported: what was left unread in the connections accepted before the
\* last is in it, and they were closed by their client.
LEMMA EpollWaitAccepted ==
    ASSUME NEW c, Clients = {c}, RoomForAll, IndInv, AcceptInv(c), EpollWait
    PROVE  AcceptInv(c)'
<1> DEFINE A == AcceptedOf(c)
           last == A + (IF ListenFd \in batch' THEN 1 ELSE 0)
<1>1. /\ batch = {}
      /\ batch' = Readable \cup {fd \in {ListenFd} : backlog # <<>>}
      /\ UNCHANGED <<client, link, backlog>>
  BY AllReported DEF EpollWait
<1>2. AcceptedOf(c)' = A
  BY <1>1 DEF AcceptedOf
<1>3. A \in Int /\ client[c].made = A + Len(backlog) /\ Len(backlog) \in Nat
      /\ \A k \in Conns : k[2] \in Nat
  BY SoloAccepted
<1>4. ListenFd \in batch' => Len(backlog) > 0
  <2>1. ListenFd \notin Conns
    BY SoloOpen
  <2>2. ListenFd \in batch' => backlog # <<>>
    BY <1>1, <2>1 DEF Readable
  <2>3. backlog \in Seq(Conns)
    BY DEF IndInv, TypeOK
  <2> QED
    BY <2>2, <2>3
<1>5. last \in Int /\ last <= client[c].made /\ (last = A \/ last = A + 1)
  BY <1>3, <1>4
<1>6. /\ \A i \in 1..Len(backlog) : backlog[i] = <<c, A + i>>
      /\ \A k \in Conns :
            /\ link[k].gateway_end \in {"open", "closed"} <=> k[2] <= A
            /\ link[k].gateway_end = "open" => k[2] >= A - 1 /\ (k[2] < A => link[k].up = <<>>)
  BY <1>1, <1>3 DEF AcceptInv
<1> HIDE DEF A, last
<1>7. ASSUME NEW k \in Conns, link[k].gateway_end = "open"
      PROVE  /\ k[2] < last => k \in batch' \/ link[k].up = <<>>
             /\ k[2] < last - 1 => k \in batch' /\ link[k].up = <<>>
  <2>1. link[k].up # <<>> => k \in batch'
    BY <1>1, <1>7 DEF Readable
  <2>2. ASSUME k[2] < last - 1
        PROVE  k \in batch' /\ link[k].up = <<>>
    <3>1. k[2] < client[c].made /\ k[2] < A
      BY <1>3, <1>5, <2>2
    <3>2. k[1] = c /\ client[c].fd \in {0, client[c].made} /\ k[2] \in 1..MaxConns
      BY SoloConns DEF IndInv, ClientInv
    <3>3. k[2] <= client[k[1]].made /\ k[2] # client[k[1]].fd
      BY <1>3, <3>1, <3>2
    <3>4. link[k].client_end = "closed"
      BY <3>3 DEF IndInv, LinkInv
    <3> QED
      BY <1>1, <1>6, <1>7, <3>1, <3>4 DEF Readable
  <2> QED
    BY <2>1, <2>2
<1> QED
  BY <1>1, <1>2, <1>6, <1>7 DEF AcceptInv, last

\* The oldest connection of the backlog is accepted, as the event said.
LEMMA AcceptAccepted ==
    ASSUME NEW c, Clients = {c}, IndInv, AcceptInv(c), Accept
    PROVE  AcceptInv(c)'
<1> DEFINE A == AcceptedOf(c)
           last == A + (IF ListenFd \in batch THEN 1 ELSE 0)
           next == AcceptedOf(c)' + (IF ListenFd \in batch' THEN 1 ELSE 0)
           k == Head(backlog)
<1>1. /\ ListenFd \in batch /\ batch' = batch \ {ListenFd} /\ backlog' = Tail(backlog)
      /\ link' = [link EXCEPT ![k] = [link[k] EXCEPT !.gateway_end = "open"]]
      /\ client' = client
  BY DEF Accept
<1>2. backlog \in Seq(Conns) /\ backlog # <<>>
  BY <1>1 DEF IndInv, TypeOK, EventInv
<1>3. k \in Conns /\ k = backlog[1] /\ 1 \in 1..Len(backlog)
  BY <1>2
<1>4. A \in Int /\ client[c].made = A + Len(backlog) /\ Len(backlog) \in Nat
      /\ \A j \in Conns : j[2] \in Nat /\ j = <<c, j[2]>>
  BY SoloAccepted, SoloConns
<1>5. k = <<c, A + 1>> /\ k[2] = A + 1
  <2>1. k = <<c, A + 1>>
    BY <1>3 DEF AcceptInv
  <2> QED
    BY <2>1
<1>6. Len(backlog') = Len(backlog) - 1 /\ \A i \in 1..Len(backlog') : backlog'[i] = backlog[i + 1]
  BY <1>1, <1>2
<1>7. AcceptedOf(c)' = A + 1
  BY <1>1, <1>4, <1>6 DEF AcceptedOf
<1>8. \A i \in 1..Len(backlog') : backlog'[i] = <<c, A + 1 + i>>
  <2> SUFFICES ASSUME NEW i \in 1..Len(backlog') PROVE backlog'[i] = <<c, A + 1 + i>>
    OBVIOUS
  <2>1. i + 1 \in 1..Len(backlog) /\ A + (i + 1) = A + 1 + i
    BY <1>4, <1>6
  <2> QED
    BY <1>6, <2>1 DEF AcceptInv
<1>9. /\ \A j \in Conns : j # k => link'[j] = link[j] /\ j[2] # A + 1
      /\ link'[k].gateway_end = "open"
  <2>1. DOMAIN link = Conns /\ link[k] \in Links
    BY <1>3, LinkFields DEF IndInv, TypeOK
  <2> QED
    BY <1>1, <1>3, <1>4, <1>5, <2>1 DEF Links
<1>10. ListenFd \notin batch' /\ \A j \in Conns : j \in batch' <=> j \in batch
  BY <1>1, SoloOpen
<1>11. \A j \in Conns :
          /\ link[j].gateway_end \in {"open", "closed"} <=> j[2] <= A
          /\ link[j].gateway_end = "open" =>
                /\ j[2] < last => j \in batch \/ link[j].up = <<>>
                /\ j[2] < last - 1 => j \in batch /\ link[j].up = <<>>
  BY DEF AcceptInv
<1>12. last = A + 1 /\ next = A + 1
  BY <1>1, <1>4, <1>7, <1>10
<1> HIDE DEF A, k, last, next
<1>13. ASSUME NEW j \in Conns
       PROVE  /\ link'[j].gateway_end \in {"open", "closed"} <=> j[2] <= A + 1
              /\ link'[j].gateway_end = "open" =>
                    /\ j[2] < next => j \in batch' \/ link'[j].up = <<>>
                    /\ j[2] < next - 1 => j \in batch' /\ link'[j].up = <<>>
  <2>1. CASE j = k
    BY <1>4, <1>5, <1>9, <1>12, <2>1
  <2>2. CASE j # k
    <3>1. j[2] <= A + 1 <=> j[2] <= A
      BY <1>4, <1>9, <2>2
    <3> QED
      BY <1>9, <1>10, <1>11, <1>12, <2>2, <3>1
  <2> QED
    BY <2>1, <2>2
<1> QED
  BY <1>7, <1>8, <1>13 DEF AcceptInv, next

\* A stream is read, or its end: there is nothing left in it, and it has no event.
LEMMA ReadAccepted ==
    ASSUME NEW c, Clients = {c}, IndInv, AcceptInv(c), NEW k \in Conns,
           ReadFrames(k) \/ ReadEnd(k)
    PROVE  AcceptInv(c)'
<1> DEFINE A == AcceptedOf(c)
           last == A + (IF ListenFd \in batch THEN 1 ELSE 0)
<1>1. k \in batch /\ batch' = batch \ {k} /\ UNCHANGED <<client, backlog>>
  BY DEF ReadFrames, ReadEnd
<1>2. AcceptedOf(c)' = A
  BY <1>1 DEF AcceptedOf
<1>3. DOMAIN link = Conns /\ link[k] \in Links /\ k # ListenFd
      /\ link[k].gateway_end = "open"
  BY <1>1, LinkFields, ListenFdAssumption DEF IndInv, TypeOK, EventInv
<1>4. /\ \A j \in Conns : j # k => link'[j] = link[j]
      /\ link'[k].up = <<>>
      /\ \/ link'[k].gateway_end = "open" /\ link[k].up # <<>>
         \/ link'[k].gateway_end = "closed"
  <2>1. CASE ReadFrames(k)
    <3>1. link' = [link EXCEPT ![k] = [link[k] EXCEPT !.up = <<>>]] /\ link[k].up # <<>>
      BY <2>1 DEF ReadFrames
    <3> QED
      BY <1>3, <3>1 DEF Links
  <2>2. CASE ReadEnd(k)
    <3>1. link' = [link EXCEPT ![k] = ClosedByGateway(link[k])]
      BY <2>2 DEF ReadEnd
    <3> QED
      BY <1>3, <3>1 DEF Links, ClosedByGateway
  <2> QED
    BY <2>1, <2>2
<1>5. /\ \A i \in 1..Len(backlog) : backlog[i] = <<c, A + i>>
      /\ \A j \in Conns :
            /\ link[j].gateway_end \in {"open", "closed"} <=> j[2] <= A
            /\ link[j].gateway_end = "open" =>
                  /\ j[2] < last => j \in batch \/ link[j].up = <<>>
                  /\ j[2] < last - 1 => j \in batch /\ link[j].up = <<>>
  BY DEF AcceptInv
<1>6. ListenFd \in batch' <=> ListenFd \in batch
  BY <1>1, <1>3
<1> HIDE DEF A, last
<1>7. ASSUME NEW j \in Conns
      PROVE  /\ link'[j].gateway_end \in {"open", "closed"} <=> j[2] <= A
             /\ link'[j].gateway_end = "open" =>
                   /\ j[2] < last => j \in batch' \/ link'[j].up = <<>>
                   /\ j[2] < last - 1 => j \in batch' /\ link'[j].up = <<>>
  <2>1. CASE j = k
    BY <1>3, <1>4, <1>5, <2>1
  <2>2. CASE j # k
    BY <1>1, <1>4, <1>5, <2>2
  <2> QED
    BY <2>1, <2>2
<1> QED
  BY <1>1, <1>2, <1>5, <1>6, <1>7 DEF AcceptInv, last

\* A packet is handled: nothing is read, and its connection at most closed.
LEMMA PacketAccepted ==
    ASSUME NEW c, Clients = {c}, IndInv, AcceptInv(c), NEW k, NEW len, HandlePacket(k, len)
    PROVE  AcceptInv(c)'
<1>1. Popping(k, len) /\ UNCHANGED <<client, backlog, batch>>
  <2>1. CASE DropPacket(k, len) \/ SkipPacket(k, len)
    BY <2>1 DEF DropPacket, SkipPacket
  <2>2. CASE ControlFrame(k, len)
    BY <2>2, ZenonT(60) DEF ControlFrame, Parsing
  <2>3. CASE BufferSegment(k, len)
    BY <2>3 DEF BufferSegment, Parsing
  <2>4. CASE ProcessOrder(k, len)
    BY <2>4, ZenonT(60) DEF ProcessOrder, Parsing
  <2> QED
    BY <2>1, <2>2, <2>3, <2>4 DEF HandlePacket
<1>2. k \in Conns /\ link[k].gateway_end = "open" /\ link[k] \in Links /\ DOMAIN link = Conns
  BY <1>1, PoppingFacts, LinkFields DEF IndInv, TypeOK
<1>3. \A frames : SentDown(link[k], frames).gateway_end = "open"
                  /\ SentDown(link[k], frames).up = link[k].up
                  /\ ClosedByGateway(SentDown(link[k], frames)).gateway_end = "closed"
                  /\ ClosedByGateway(SentDown(link[k], frames)).up = <<>>
  BY <1>2 DEF SentDown, ClosedByGateway, Links
<1>4. ClosedByGateway(link[k]).gateway_end = "closed" /\ ClosedByGateway(link[k]).up = <<>>
  BY <1>2 DEF ClosedByGateway, Links
<1>5. \E l : /\ link' = [link EXCEPT ![k] = l]
             /\ \/ l.gateway_end = "open" /\ l.up = link[k].up
                \/ l.gateway_end = "closed" /\ l.up = <<>>
  <2>1. CASE DropPacket(k, len)
    BY <1>2, <1>4, <2>1 DEF DropPacket
  <2>2. CASE SkipPacket(k, len) \/ BufferSegment(k, len)
    <3>1. link' = link
      BY <2>2 DEF SkipPacket, BufferSegment
    <3>2. link' = [link EXCEPT ![k] = link[k]]
      BY <1>2, <3>1 DEF IndInv, TypeOK
    <3> QED
      BY <1>2, <3>2
  <2>3. CASE ControlFrame(k, len)
    <3>1. \E frames : link' = [link EXCEPT ![k] = SentDown(link[k], frames)]
                      \/ link' = [link EXCEPT ![k] = ClosedByGateway(SentDown(link[k], frames))]
      BY <2>3, ZenonT(60) DEF ControlFrame
    <3> QED
      BY <1>3, <3>1
  <2>4. CASE ProcessOrder(k, len)
    <3>1. \E frames : link' = [link EXCEPT ![k] = SentDown(link[k], frames)]
      BY <2>4, ZenonT(60) DEF ProcessOrder
    <3> QED
      BY <1>3, <3>1
  <2> QED
    BY <2>1, <2>2, <2>3, <2>4 DEF HandlePacket
<1>6. /\ \A j \in Conns : j # k => link'[j] = link[j]
      /\ \/ link'[k].gateway_end = "open" /\ link'[k].up = link[k].up
         \/ link'[k].gateway_end = "closed" /\ link'[k].up = <<>>
  BY <1>2, <1>5
<1>7. /\ \A j \in Conns :
            \/ link'[j].gateway_end = link[j].gateway_end
            \/ link[j].gateway_end = "open" /\ link'[j].gateway_end = "closed"
      /\ \A j \in Conns : link'[j].up \in {link[j].up, <<>>}
  BY <1>2, <1>6
<1> QED
  BY <1>1, <1>7, AcceptKept

\* Every step of the gateway keeps the order in which connections are accepted.
LEMMA GatewayAccepted ==
    ASSUME NEW c, Clients = {c}, RoomForAll, IndInv, AcceptInv(c), GatewayStep
    PROVE  AcceptInv(c)'
  BY EpollWaitAccepted, AcceptAccepted, ReadAccepted, PacketAccepted DEF GatewayStep

-----------------------------------------------------------------------------
\* epoll_wait reports the older connection without the newest, which is still in
\* the backlog.
LEMMA EpollWaitSerial ==
    ASSUME NEW c, Clients = {c}, RoomForAll, IndInv, AcceptInv(c), SerialInv(c), EpollWait
    PROVE  SerialInv(c)'
<1>1. /\ batch = {} /\ ring = <<>> /\ ring' = <<>>
      /\ batch' = Readable \cup {fd \in {ListenFd} : backlog # <<>>}
      /\ UNCHANGED <<client, link, backlog, ctx, buf>>
  BY AllReported DEF EpollWait
<1>2. Newest(c)' = Newest(c) /\ \A j \in Conns : Pending(j)' <=> Pending(j)
  BY <1>1 DEF Newest, Pending, InRing
<1>3. ASSUME NEW j \in Conns, j[2] < client[c].made, Pending(j)
      PROVE  /\ j[2] = client[c].made - 1
             /\ client[c].pc # "top"
             /\ link[j].gateway_end = "open"
             /\ link[Newest(c)].down = <<>>
             /\ Newest(c) \notin batch'
             /\ j \in batch'
  <2>1. link[j].up # <<>>
    BY <1>1, <1>3 DEF Pending, InRing
  <2>2. /\ j[2] = client[c].made - 1 /\ client[c].pc # "top"
        /\ link[j].gateway_end = "open"
        /\ link[Newest(c)].down = <<>>
        /\ link[Newest(c)].gateway_end = "backlog"
    BY <1>1, <1>3, <2>1 DEF SerialInv
  <2>3. Newest(c) \in Conns /\ ListenFd \notin Conns
    BY <1>3, SoloOpen
  <2> QED
    BY <1>1, <2>1, <2>2, <2>3 DEF Readable
<1>4. ~InRing(Newest(c))'
  BY <1>1 DEF InRing
<1> QED
  BY <1>1, <1>2, <1>3, <1>4 DEF SerialInv

\* The oldest connection of the backlog is accepted.
LEMMA AcceptSerial ==
    ASSUME NEW c, Clients = {c}, IndInv, SerialInv(c), Accept
    PROVE  SerialInv(c)'
<1> DEFINE k == Head(backlog)
<1>1. /\ ListenFd \in batch /\ batch' = batch \ {ListenFd}
      /\ link' = [link EXCEPT ![k] = [link[k] EXCEPT !.gateway_end = "open"]]
      /\ ctx' = [ctx EXCEPT ![k] = [tcp |-> NewConnection, reassembly |-> NoSegments]]
      /\ UNCHANGED <<client, ring, buf>>
  BY DEF Accept
<1>2. k \in Conns
  BY <1>1 DEF IndInv, TypeOK, EventInv
<1> HIDE DEF k
<1>3. /\ \A j \in Conns : j # k => link'[j] = link[j] /\ ctx'[j] = ctx[j]
      /\ link'[k].gateway_end = "open" /\ link'[k].up = link[k].up
      /\ link'[k].down = link[k].down
  <2>1. DOMAIN link = Conns /\ DOMAIN ctx = Conns
    BY DEF IndInv, TypeOK
  <2>2. link[k] \in Links
    BY <1>2, LinkFields DEF IndInv
  <2> QED
    BY <1>1, <1>2, <2>1, <2>2 DEF Links
<1>4. /\ Newest(c)' = Newest(c)
      /\ \A j \in Conns : (Pending(j)' <=> Pending(j)) /\ (InRing(j)' <=> InRing(j))
                          /\ link'[j].up = link[j].up /\ link'[j].down = link[j].down
  BY <1>1, <1>3 DEF Newest, Pending, InRing
<1>5. ASSUME NEW j \in Conns, j[2] < client[c].made, Pending(j)
      PROVE  /\ j[2] = client[c].made - 1
             /\ client[c].pc # "top"
             /\ link'[j].gateway_end = "open"
             /\ link'[Newest(c)].down = <<>>
             /\ Newest(c) \notin batch' /\ ~InRing(Newest(c))'
             /\ link'[j].up # <<>> =>
                   j \in batch' \/ link'[Newest(c)].gateway_end = "backlog"
  <2>1. /\ j[2] = client[c].made - 1 /\ client[c].pc # "top"
        /\ link[j].gateway_end = "open"
        /\ link[Newest(c)].down = <<>>
        /\ Newest(c) \notin batch /\ ~InRing(Newest(c))
        /\ link[j].up # <<>> =>
              \/ j \in batch
              \/ link[Newest(c)].gateway_end = "backlog" /\ k # Newest(c)
    BY <1>1, <1>5 DEF SerialInv, k
  <2>2. Newest(c) \in Conns /\ ListenFd \notin Conns
    BY <1>5, SoloOpen
  <2> QED
    BY <1>1, <1>3, <1>4, <2>1, <2>2
<1>6. ListenFd \notin batch'
  BY <1>1
<1>7. ASSUME NEW j \in Conns, link'[j].gateway_end \in {"none", "backlog"}
      PROVE  link'[j] = link[j] /\ ctx'[j] = ctx[j]
  BY <1>3, <1>7
<1> QED
  BY <1>1, <1>4, <1>5, <1>6, <1>7 DEF SerialInv

\* No other packet waits when a stream is read.
LEMMA ReadAlone ==
    ASSUME NEW c, Clients = {c}, IndInv, SerialInv(c), NEW k \in Conns, ReadFrames(k)
    PROVE  /\ ring = <<>>
           /\ \A j \in Conns : j[2] < client[c].made /\ link[j].up # <<>> => j = k
<1>1. k \in batch /\ link[k].up # <<>> /\ Pending(k)
  BY DEF ReadFrames, Pending
<1>2. k[2] < client[c].made \/ k = Newest(c)
  BY <1>1, SoloOpen
<1>3. ASSUME NEW j \in Conns, j[2] < client[c].made, Pending(j), j # k
      PROVE  FALSE
  <2>1. j[2] = client[c].made - 1 /\ Newest(c) \notin batch
    BY <1>3 DEF SerialInv
  <2>2. k[2] < client[c].made
    BY <1>1, <1>2, <2>1
  <2>3. k[2] = client[c].made - 1
    BY <1>1, <2>2 DEF SerialInv
  <2> QED
    BY <1>3, <2>1, <2>3, SoloConns
<1>4. ASSUME ring # <<>>
      PROVE  FALSE
  <2> DEFINE j == ring[1].conn
  <2>1. 1 \in 1..Len(ring)
    BY <1>4 DEF IndInv, TypeOK
  <2>2. j \in Conns /\ j \notin batch /\ InRing(j)
    BY <1>4, <2>1, RingFields DEF IndInv, RingInv, InRing
  <2> HIDE DEF j
  <2>3. j[2] < client[c].made \/ j = Newest(c)
    BY <2>2, SoloOpen
  <2>4. j # k /\ Pending(j)
    BY <1>1, <2>2 DEF Pending
  <2>5. j = Newest(c)
    BY <1>3, <2>2, <2>3, <2>4
  <2>6. k[2] < client[c].made
    BY <1>2, <2>4, <2>5
  <2> QED
    BY <1>1, <2>2, <2>5, <2>6 DEF SerialInv
<1> QED
  BY <1>3, <1>4 DEF Pending

\* A read: its packet is the only one in the ring.
LEMMA ReadFramesSerial ==
    ASSUME NEW c, Clients = {c}, IndInv, SerialInv(c), NEW k \in Conns, ReadFrames(k)
    PROVE  /\ SerialInv(c)' /\ InRing(k)'
           /\ \A j \in Conns : InRing(j)' => j = k
<1>1. /\ ring = <<>>
      /\ \A j \in Conns : j[2] < client[c].made /\ link[j].up # <<>> => j = k
  BY ReadAlone
<1>2. /\ k \in batch /\ batch' = batch \ {k} /\ buf' = link[k].up /\ link[k].up # <<>>
      /\ link' = [link EXCEPT ![k] = [link[k] EXCEPT !.up = <<>>]]
      /\ UNCHANGED <<client, backlog, ctx>>
  BY DEF ReadFrames
<1>3. ring' = <<[conn |-> k, len |-> ByteCount(link[k].up)]>>
  <2>1. Len(ring) = 0 /\ RingCapacity > 0
    BY <1>1, NumbersAssumption
  <2>2. Len(ring) < RingCapacity
    BY <2>1, NumbersAssumption
  <2>3. ring' = Append(<<>>, [conn |-> k, len |-> ByteCount(link[k].up)])
    BY <1>1, <2>2 DEF ReadFrames
  <2> QED
    BY <2>3
<1>4. /\ Len(ring') <= 1 /\ ring' # <<>> /\ ring'[1].conn = k
      /\ ring'[1].len = ByteCount(buf)'
  <2>1. ByteCount(buf)' = ByteCount(link[k].up)
    BY <1>2 DEF ByteCount
  <2> QED
    BY <1>3, <2>1
<1>5. \A j : InRing(j)' <=> j = k
  BY <1>4 DEF InRing
<1>6. link[k].gateway_end = "open" /\ k # ListenFd
  BY <1>2, ListenFdAssumption DEF IndInv, EventInv
<1>7. /\ \A j \in Conns : j # k => link'[j] = link[j]
      /\ link'[k].gateway_end = "open" /\ link'[k].up = <<>>
  <2>1. DOMAIN link = Conns
    BY DEF IndInv, TypeOK
  <2>2. link[k] \in Links
    BY LinkFields DEF IndInv
  <2> QED
    BY <1>2, <1>6, <2>1, <2>2 DEF Links
<1>8. Newest(c)' = Newest(c)
  BY <1>2 DEF Newest
<1>9. ASSUME NEW j \in Conns, j[2] < client[c].made, Pending(j)'
      PROVE  /\ j[2] = client[c].made - 1
             /\ client[c].pc # "top"
             /\ link'[j].gateway_end = "open"
             /\ link'[Newest(c)].down = <<>>
             /\ Newest(c) \notin batch' /\ ~InRing(Newest(c))'
             /\ link'[j].up = <<>>
  <2>1. j = k
    <3>1. link'[j].up # <<>> \/ j = k
      BY <1>5, <1>9 DEF Pending
    <3> QED
      BY <1>1, <1>7, <1>9, <3>1
  <2>2. Pending(j)
    BY <1>2, <2>1 DEF Pending
  <2>3. /\ j[2] = client[c].made - 1 /\ client[c].pc # "top"
        /\ link[Newest(c)].down = <<>> /\ Newest(c) \notin batch
    BY <1>9, <2>2 DEF SerialInv
  <2>4. Newest(c) \in Conns
    BY <1>9, SoloOpen
  <2>5. Newest(c) # k
    BY <1>2, <2>3
  <2>6. link'[Newest(c)] = link[Newest(c)] /\ ~InRing(Newest(c))'
    <3>1. link'[Newest(c)] = link[Newest(c)]
      BY <1>7, <2>4, <2>5, Zenon
    <3>2. ring'[1].conn # Newest(c)'
      BY <1>4, <1>8, <2>5
    <3> QED
      BY <3>1, <3>2 DEF InRing
  <2>7. Newest(c) \notin batch'
    BY <1>2, <2>3
  <2> QED
    BY <1>7, <2>1, <2>3, <2>6, <2>7
<1>10. ASSUME NEW j \in Conns, link'[j].gateway_end \in {"none", "backlog"}
       PROVE  link'[j] = link[j] /\ ctx'[j] = ctx[j]
  BY <1>2, <1>7, <1>10
<1> QED
  BY <1>2, <1>4, <1>5, <1>8, <1>9, <1>10 DEF SerialInv

\* The end of a stream.
LEMMA ReadEndSerial ==
    ASSUME NEW c, Clients = {c}, IndInv, SerialInv(c), NEW k \in Conns, ReadEnd(k)
    PROVE  SerialInv(c)'
<1>1. /\ k \in batch /\ batch' = batch \ {k}
      /\ link' = [link EXCEPT ![k] = ClosedByGateway(link[k])]
      /\ UNCHANGED <<client, backlog, ctx, ring>> /\ buf' = <<>>
  BY DEF ReadEnd
<1>2. /\ \A j \in Conns : j # k => link'[j] = link[j]
      /\ link'[k].gateway_end = "closed" /\ link'[k].up = <<>>
  <2>1. DOMAIN link = Conns
    BY DEF IndInv, TypeOK
  <2>2. link[k] \in Links
    BY LinkFields DEF IndInv
  <2> QED
    BY <1>1, <2>1, <2>2 DEF Links, ClosedByGateway
<1>3. Newest(c)' = Newest(c) /\ \A j : InRing(j)' <=> InRing(j)
  BY <1>1 DEF Newest, InRing
<1>4. ~InRing(k)
  <2>1. ring # <<>> => 1 \in 1..Len(ring)
    BY DEF IndInv, TypeOK
  <2> QED
    BY <1>1, <2>1 DEF IndInv, RingInv, InRing
<1>5. ASSUME NEW j \in Conns, j[2] < client[c].made, Pending(j)'
      PROVE  /\ j[2] = client[c].made - 1
             /\ client[c].pc # "top"
             /\ link'[j].gateway_end = "open"
             /\ link'[Newest(c)].down = <<>>
             /\ Newest(c) \notin batch' /\ ~InRing(Newest(c))'
             /\ link'[j].up # <<>> =>
                   \/ j \in batch'
                   \/ /\ link'[Newest(c)].gateway_end = "backlog"
                      /\ ListenFd \in batch' => Head(backlog) # Newest(c)
  <2>1. j # k
    BY <1>2, <1>3, <1>4, <1>5 DEF Pending
  <2>2. Pending(j)
    BY <1>2, <1>3, <1>5, <2>1 DEF Pending
  <2>3. /\ j[2] = client[c].made - 1 /\ client[c].pc # "top"
        /\ link[j].gateway_end = "open"
        /\ link[Newest(c)].down = <<>>
        /\ Newest(c) \notin batch /\ ~InRing(Newest(c))
        /\ link[j].up # <<>> =>
              \/ j \in batch
              \/ /\ link[Newest(c)].gateway_end = "backlog"
                 /\ ListenFd \in batch => Head(backlog) # Newest(c)
    BY <1>5, <2>2 DEF SerialInv
  <2>4. Newest(c) \in Conns /\ Newest(c) # k
    BY <1>1, <1>5, <2>3, SoloOpen
  <2> QED
    BY <1>1, <1>2, <1>3, <2>1, <2>3, <2>4
<1>6. ASSUME NEW j \in Conns, link'[j].gateway_end \in {"none", "backlog"}
      PROVE  link'[j] = link[j] /\ ctx'[j] = ctx[j]
  BY <1>1, <1>2, <1>6
<1>7. \A j \in Conns : link'[j].gateway_end = "closed" => link'[j].up = <<>>
  BY <1>2 DEF SerialInv
<1> QED
  BY <1>1, <1>3, <1>5, <1>6, <1>7 DEF SerialInv

-----------------------------------------------------------------------------
\* Without orders of keepalives all frames have a payload.
LEMMA SoloUps ==
    ASSUME NEW c, Clients = {c}, IndInv
    PROVE  client[c].idles \/ \A k \in Conns : \A i \in 1..Len(link[k].up) :
                                 link[k].up[i].len = OrderLen
  BY SoloConns, ZenonT(60) DEF IndInv, LinkInv

\* Events: a batch, a connection, frames, the end of a stream.
LEMMA EventPhase ==
    ASSUME NEW c, Clients = {c}, NoWrap, RoomForAll, IndInv, IndInv',
           AcceptInv(c), SerialInv(c), PhaseInv(c),
           \/ EpollWait \/ Accept
           \/ \E k \in Conns : ReadFrames(k) \/ ReadEnd(k)
    PROVE  PhaseInv(c)' /\ SerialInv(c)'
<1>1. client[c].idles \/ \A k \in Conns : \A i \in 1..Len(link[k].up) :
                            link[k].up[i].len = OrderLen
  BY SoloUps
<1>2. TypeOK /\ TypeOK' /\ DOMAIN link = Conns /\ DOMAIN ctx = Conns
  BY DEF IndInv, TypeOK
<1>3. CASE EpollWait
  <2>1. UNCHANGED <<client, link, ctx, ring, buf, live_orders, applied>>
    BY <1>3 DEF EpollWait
  <2>2. \A k \in Conns : InRing(k)' <=> InRing(k)
    BY <2>1 DEF InRing
  <2>3. PhaseInv(c)'
    BY <1>1, <1>2, <2>1, <2>2, PhaseAfterGateway
  <2> QED
    BY <1>3, <2>3, EpollWaitSerial
<1>4. CASE Accept
  <2> DEFINE k == Head(backlog)
             fresh == [tcp |-> NewConnection, reassembly |-> NoSegments]
  <2>1. /\ link' = [link EXCEPT ![k] = [link[k] EXCEPT !.gateway_end = "open"]]
        /\ ctx' = [ctx EXCEPT ![k] = fresh]
        /\ UNCHANGED <<client, ring, buf, live_orders, applied>>
    BY <1>4 DEF Accept
  <2>2. k \in Conns /\ link[k].gateway_end = "backlog"
    <3>1. backlog \in Seq(Conns) /\ backlog # <<>>
      BY <1>4 DEF Accept, IndInv, TypeOK, EventInv
    <3>2. k \in Conns /\ k = backlog[1] /\ 1 \in 1..Len(backlog)
      BY <3>1
    <3> QED
      BY <3>2 DEF IndInv, EventInv
  <2> HIDE DEF k
  <2>3. ctx[k] = fresh
    BY <2>2 DEF SerialInv
  <2>4. link[k] \in Links
    BY <1>2, <2>2, LinkFields
  <2> HIDE DEF fresh
  <2>5. \A j \in Conns : /\ link'[j].down = link[j].down /\ link'[j].up = link[j].up
                         /\ ctx'[j] = ctx[j]
    BY <1>2, <2>1, <2>2, <2>3, <2>4 DEF Links
  <2>6. \A j \in Conns : InRing(j)' <=> InRing(j)
    BY <2>1 DEF InRing
  <2>7. PhaseInv(c)'
    BY <1>1, <1>2, <2>1, <2>5, <2>6, PhaseAfterGateway
  <2> QED
    BY <1>4, <2>7, AcceptSerial
<1>5. ASSUME NEW k \in Conns, ReadFrames(k)
      PROVE  PhaseInv(c)' /\ SerialInv(c)'
  <2>1. /\ link' = [link EXCEPT ![k] = [link[k] EXCEPT !.up = <<>>]]
        /\ buf' = link[k].up
        /\ UNCHANGED <<client, ctx, live_orders, applied>>
    BY <1>5 DEF ReadFrames
  <2>2. SerialInv(c)' /\ \A j \in Conns : InRing(j)' => j = k
    BY <1>5, ReadFramesSerial
  <2>3. link[k] \in Links
    BY <1>2, LinkFields
  <2>4. /\ link'[k].up = <<>>
        /\ \A j \in Conns : /\ link'[j].down = link[j].down
                            /\ link'[j].up \in {link[j].up, <<>>}
    BY <1>2, <2>1, <2>3 DEF Links
  <2>5. PhaseInv(c)'
    BY <1>1, <1>2, <2>1, <2>2, <2>4, PhaseAfterGateway
  <2> QED
    BY <2>2, <2>5
<1>6. ASSUME NEW k \in Conns, ReadEnd(k)
      PROVE  PhaseInv(c)' /\ SerialInv(c)'
  <2>1. /\ link' = [link EXCEPT ![k] = ClosedByGateway(link[k])]
        /\ UNCHANGED <<client, ctx, ring, live_orders, applied>> /\ buf' = <<>>
    BY <1>6 DEF ReadEnd
  <2>2. link[k] \in Links
    BY <1>2, LinkFields
  <2>3. \A j \in Conns : /\ link'[j].down = link[j].down
                         /\ link'[j].up \in {link[j].up, <<>>}
    BY <1>2, <2>1, <2>2 DEF Links, ClosedByGateway
  <2>4. PhaseInv(c)'
    BY <1>1, <1>2, <2>1, <2>3, PhaseAfterGateway
  <2> QED
    BY <1>6, <2>4, ReadEndSerial
<1> QED
  BY <1>3, <1>4, <1>5, <1>6

\* A packet that leads to no order.
LEMMA PacketPhase ==
    ASSUME NEW c, Clients = {c}, NoWrap, IndInv, IndInv', SerialInv(c), PhaseInv(c),
           NEW k, NEW len,
           \/ DropPacket(k, len) \/ SkipPacket(k, len)
           \/ ControlFrame(k, len) \/ BufferSegment(k, len)
    PROVE  PhaseInv(c)' /\ SerialInv(c)'
<1>1. client[c].idles \/ \A j \in Conns : \A i \in 1..Len(link[j].up) :
                            link[j].up[i].len = OrderLen
  BY SoloUps
<1>2. TypeOK /\ TypeOK' /\ DOMAIN link = Conns /\ DOMAIN ctx = Conns
  BY DEF IndInv, TypeOK
<1>3. Popping(k, len) /\ UNCHANGED <<client, backlog, batch, buf, live_orders, applied>>
  BY DEF DropPacket, SkipPacket, ControlFrame, BufferSegment, Parsing
<1>4. /\ k \in Conns /\ ring' = <<>> /\ link[k].gateway_end = "open" /\ link[k] \in Links
      /\ buf \in Seq(UpFrames) /\ (buf # <<>> => buf[1] \in UpFrames)
  BY <1>2, <1>3, SoloPacket, PoppingFacts, LinkFields
<1>5. \A j \in Conns : ~InRing(j)'
  BY <1>4 DEF InRing
<1>6. ASSUME NEW new,
             link' = [link EXCEPT ![k] = new],
             new = link[k] \/ new = ClosedByGateway(link[k]),
             \A j \in Conns : j # k => ctx'[j] = ctx[j],
             ctx'[k].tcp.recv_seq = ctx[k].tcp.recv_seq,
             \A s \in DOMAIN ctx'[k].reassembly :
                \/ s \in DOMAIN ctx[k].reassembly
                \/ buf # <<>> /\ s = buf[1].seq /\ s # ctx[k].tcp.recv_seq
      PROVE  PhaseInv(c)' /\ SerialInv(c)'
  <2>1. /\ link'[k] = new /\ \A j \in Conns : j # k => link'[j] = link[j]
    BY <1>2, <1>4, <1>6
  <2>2. /\ new.down = link[k].down /\ new.up \in {link[k].up, <<>>}
        /\ new.gateway_end \in {"open", "closed"}
        /\ new.up # <<>> => link[k].up # <<>> /\ new.gateway_end = "open"
    BY <1>4, <1>6 DEF Links, ClosedByGateway
  <2>3. buf # <<>> => 1 \in 1..Len(buf)
    BY <1>4
  <2>4. ASSUME NEW j \in Conns
        PROVE  /\ link'[j].down = link[j].down
               /\ link'[j].up \in {link[j].up, <<>>}
               /\ ctx'[j].tcp.recv_seq = ctx[j].tcp.recv_seq
               /\ \A s \in DOMAIN ctx'[j].reassembly :
                    \/ s \in DOMAIN ctx[j].reassembly
                    \/ \E i \in 1..Len(buf) :
                          s = buf[i].seq /\ s # ctx[j].tcp.recv_seq
    <3>1. CASE j = k
      BY <1>6, <2>1, <2>2, <2>3, <3>1
    <3>2. CASE j # k
      BY <1>6, <2>1, <3>2
    <3> QED
      BY <3>1, <3>2
  <2>5. PhaseInv(c)'
    BY <1>1, <1>2, <1>3, <1>5, <2>4, PhaseAfterGateway
  <2>6. SerialInv(c)'
    BY <1>3, <1>6, <2>1, <2>2, SerialAfterPacket
  <2> QED
    BY <2>5, <2>6
<1>7. CASE DropPacket(k, len)
  <2>1. link' = [link EXCEPT ![k] = ClosedByGateway(link[k])] /\ ctx' = ctx
    BY <1>7 DEF DropPacket
  <2> QED
    BY <1>6, <2>1
<1>8. CASE SkipPacket(k, len)
  <2>1. link' = [link EXCEPT ![k] = link[k]] /\ ctx' = ctx
    BY <1>2, <1>4, <1>8 DEF SkipPacket, TypeOK
  <2> QED
    BY <1>6, <2>1
<1>9. CASE BufferSegment(k, len)
  <2> DEFINE kept == Insert(ctx[k].reassembly, buf[1].seq, len, PayloadOf(buf))
  <2>0. link' = [link EXCEPT ![k] = link[k]]
    BY <1>2, <1>4, <1>9 DEF BufferSegment, TypeOK
  <2>1. /\ ctx' = [ctx EXCEPT ![k] = [ctx[k] EXCEPT !.reassembly = kept]]
        /\ buf[1].seq # ctx[k].tcp.recv_seq /\ buf # <<>>
    BY <1>9 DEF BufferSegment, Parsing
  <2>2. DOMAIN kept \subseteq DOMAIN ctx[k].reassembly \cup {buf[1].seq}
    <3>1. buf[1].seq \in SeqNums /\ PayloadOf(buf) \in Requests
      BY <1>4, <2>1, FrameFields, PayloadIsRequest
    <3>2. len \in Nat /\ IsReassembly(ctx[k].reassembly)
      BY <1>2, <1>3, <1>4, PoppingFacts, CtxFields
    <3> QED
      BY <3>1, <3>2, InsertFacts
  <2>3. ctx[k] = [tcp |-> ctx[k].tcp, reassembly |-> ctx[k].reassembly]
    BY <1>2, <1>4, CtxFields
  <2> HIDE DEF kept
  <2>4. /\ ctx'[k].tcp = ctx[k].tcp /\ ctx'[k].reassembly = kept
        /\ \A j \in Conns : j # k => ctx'[j] = ctx[j]
    BY <1>2, <1>4, <2>1, <2>3
  <2> QED
    BY <1>6, <2>0, <2>1, <2>2, <2>4
<1>10. CASE ControlFrame(k, len)
  <2> DEFINE h == buf[1]
             handled == HandleIncoming(ctx[k].tcp, h, len)
  <2>1. h.fin = FALSE /\ len = 0 /\ h \in UpFrames
    <3>1. buf # <<>> /\ len = 0
      BY <1>10 DEF ControlFrame, Parsing
    <3> QED
      BY <1>4, <3>1, FrameFields
  <2>2. ctx[k].tcp \in TcpConnections /\ ctx[k].tcp.state = "CLOSED"
        /\ ctx[k] = [tcp |-> ctx[k].tcp, reassembly |-> ctx[k].reassembly]
    BY <1>4, CtxFields DEF IndInv, LinkInv
  <2> HIDE DEF h
  <2>3. handled.state = "CLOSED" /\ handled.recv_seq = ctx[k].tcp.recv_seq
    BY <1>4, <2>1, <2>2, ControlKeepsClosed DEF h
  <2>4. /\ ctx' = [ctx EXCEPT ![k] = [ctx[k] EXCEPT !.tcp = handled]]
        /\ link' = [link EXCEPT ![k] = IF handled.state = "CLOSED"
                                       THEN ClosedByGateway(SentDown(link[k], <<>> \o <<>>))
                                       ELSE SentDown(link[k], <<>> \o <<>>)]
    BY <1>10, <2>1, Zenon DEF ControlFrame, h
  <2> HIDE DEF handled
  <2>5. SentDown(link[k], <<>> \o <<>>) = link[k]
    <3>1. <<>> \o <<>> = <<>>
      OBVIOUS
    <3>2. link[k].down \o <<>> = link[k].down
      BY <1>4 DEF Links
    <3> QED
      BY <1>4, <3>1, <3>2 DEF SentDown, Links
  <2>6. link' = [link EXCEPT ![k] = ClosedByGateway(link[k])]
    BY <2>3, <2>4, <2>5
  <2>7. /\ ctx'[k].tcp = handled /\ ctx'[k].reassembly = ctx[k].reassembly
        /\ \A j \in Conns : j # k => ctx'[j] = ctx[j]
    BY <1>2, <1>4, <2>2, <2>4
  <2> QED
    BY <1>6, <2>3, <2>6, <2>7
<1> QED
  BY <1>7, <1>8, <1>9, <1>10

\* Every step of the gateway keeps the invariant.
LEMMA GatewaySolo ==
    ASSUME NEW c, Clients = {c}, NoWrap, RoomForAll, IndInv, IndInv', AppliedInOrder,
           NumberInv(c), SegmentInv(c), AcceptInv(c), SerialInv(c), PhaseInv(c), GatewayStep
    PROVE  /\ AppliedInOrder'
           /\ NumberInv(c)' /\ SegmentInv(c)' /\ AcceptInv(c)' /\ SerialInv(c)'
           /\ PhaseInv(c)'
<1>1. client' = client
  BY DEF GatewayStep, EpollWait, Accept, ReadFrames, ReadEnd, HandlePacket, DropPacket,
         SkipPacket, ControlFrame, BufferSegment, ProcessOrder
<1>2. NumberInv(c)' /\ SegmentInv(c)' /\ AcceptInv(c)'
  <2>1. Sent(c)' = Sent(c) /\ SeqOf(Sent(c))' = SeqOf(Sent(c))
        /\ SeqOf(client[c].order_id)' = SeqOf(client[c].order_id)
    BY <1>1 DEF Sent, SeqOf
  <2>2. AcceptInv(c)'
    BY GatewayAccepted
  <2> QED
    BY <1>1, <2>1, <2>2 DEF NumberInv, SegmentInv
<1>3. CASE \/ EpollWait \/ Accept
           \/ \E k \in Conns : ReadFrames(k) \/ ReadEnd(k)
  <2>1. applied' = applied
    BY <1>3 DEF EpollWait, Accept, ReadFrames, ReadEnd
  <2>2. AppliedInOrder'
    BY <2>1 DEF AppliedInOrder
  <2> QED
    BY <1>2, <1>3, <2>2, EventPhase
<1>4. ASSUME NEW k, NEW len,
             \/ DropPacket(k, len) \/ SkipPacket(k, len)
             \/ ControlFrame(k, len) \/ BufferSegment(k, len)
      PROVE  AppliedInOrder' /\ SerialInv(c)' /\ PhaseInv(c)'
  <2>1. applied' = applied
    BY <1>4 DEF DropPacket, SkipPacket, ControlFrame, BufferSegment
  <2>2. AppliedInOrder'
    BY <2>1 DEF AppliedInOrder
  <2> QED
    BY <1>4, <2>2, PacketPhase
<1>5. ASSUME NEW k, NEW len, ProcessOrder(k, len)
      PROVE  AppliedInOrder' /\ SerialInv(c)' /\ PhaseInv(c)'
  <2>1. PhaseInv(c)' /\ AppliedInOrder'
    BY <1>5, ProcessOrderPhase, Zenon
  <2>2. Popping(k, len)
    BY <1>5, ZenonT(60) DEF ProcessOrder, Parsing
  <2> DEFINE result == Processed(ctx[k].tcp,
                         <<[len |-> len, payload |-> PayloadOf(buf)]>> \o
                         Contiguous(ctx[k].reassembly,
                           Processed(ctx[k].tcp,
                             <<[len |-> len, payload |-> PayloadOf(buf)]>>).tcp.recv_seq))
  <2>3. /\ UNCHANGED <<client, backlog, batch>>
        /\ link' = [link EXCEPT ![k] = SentDown(link[k], result.acks)]
        /\ \E x : ctx' = [ctx EXCEPT ![k] = x]
    BY <1>5 DEF ProcessOrder
  <2>4. k \in Conns /\ link[k].gateway_end = "open" /\ link[k] \in Links
    BY <2>2, PoppingFacts, LinkFields DEF IndInv
  <2> HIDE DEF result
  <2>5. SentDown(link[k], result.acks).gateway_end = "open"
        /\ SentDown(link[k], result.acks).up = link[k].up
    BY <2>4 DEF SentDown, Links
  <2>6. DOMAIN link = Conns /\ DOMAIN ctx = Conns
    BY DEF IndInv, TypeOK
  <2>7. /\ \A j \in Conns : j # k => link'[j] = link[j] /\ ctx'[j] = ctx[j]
        /\ link'[k].gateway_end = "open" /\ link'[k].up = link[k].up
    BY <2>3, <2>4, <2>5, <2>6
  <2>8. SerialInv(c)'
    BY <2>2, <2>3, <2>7, SerialAfterPacket
  <2> QED
    BY <2>1, <2>8
<1> QED
  BY <1>2, <1>3, <1>4, <1>5, SMTT(30) DEF GatewayStep, HandlePacket

-----------------------------------------------------------------------------
(***************************************************************************)
(* The steps of the client.                                                *)
(***************************************************************************)

\* A client that makes no connection keeps the order of the connections.
LEMMA SerialAfterClient ==
    ASSUME NEW c, Clients = {c}, IndInv, AcceptInv(c), SerialInv(c), UNCHANGED <<gateway, backlog>>,
           client'[c].made = client[c].made,
           \A k \in Conns :
              /\ link'[k].gateway_end = link[k].gateway_end
              /\ link'[k].down \in {link[k].down, <<>>}
              /\ link[k].gateway_end = "closed" => link'[k].up = link[k].up
              /\ k # Newest(c) => link'[k].up = link[k].up,
           client'[c].pc = "top" =>
              /\ \A k \in Conns : link'[k].up = link[k].up
              /\ client[c].pc = "top" \/ link[Newest(c)].down # <<>>
    PROVE  AcceptInv(c)' /\ SerialInv(c)'
<1>1. UNCHANGED <<ctx, batch, ring, buf, backlog>> /\ Newest(c)' = Newest(c)
  BY DEF gateway, Newest
<1>2. ByteCount(buf)' = ByteCount(buf) /\ \A k : InRing(k)' <=> InRing(k)
  BY <1>1 DEF ByteCount, InRing
<1>3. ASSUME NEW k \in Conns, k[2] < client[c].made, Pending(k)'
      PROVE  /\ k[2] = client[c].made - 1
             /\ client'[c].pc # "top"
             /\ link'[k].gateway_end = "open"
             /\ link'[Newest(c)].down = <<>>
             /\ Newest(c) \notin batch /\ ~InRing(Newest(c))
             /\ link'[k].up # <<>> =>
                   \/ k \in batch
                   \/ /\ link'[Newest(c)].gateway_end = "backlog"
                      /\ ListenFd \in batch => Head(backlog) # Newest(c)
  <2>1. Newest(c) \in Conns /\ k # Newest(c)
    <3>1. k[2] \in 1..MaxConns /\ client[c].made \in 0..MaxConns
      BY SoloConns, SoloOpen
    <3>2. k[2] # client[c].made
      BY <1>3, <3>1
    <3> QED
      BY <1>3, <3>2, SoloOpen
  <2>2. Pending(k) /\ link'[k].up = link[k].up
    BY <1>2, <1>3, <2>1 DEF Pending
  <2>3. /\ k[2] = client[c].made - 1 /\ client[c].pc # "top"
        /\ link[k].gateway_end = "open"
        /\ link[Newest(c)].down = <<>>
        /\ Newest(c) \notin batch /\ ~InRing(Newest(c))
        /\ link[k].up # <<>> =>
              \/ k \in batch
              \/ /\ link[Newest(c)].gateway_end = "backlog"
                 /\ ListenFd \in batch => Head(backlog) # Newest(c)
    BY <1>3, <2>2 DEF SerialInv
  <2>4. client'[c].pc # "top"
    BY <2>3
  <2> QED
    BY <2>1, <2>2, <2>3, <2>4
<1>4. ASSUME NEW k \in Conns, link[k].gateway_end \in {"none", "backlog"},
             client'[c].pc = "top"
      PROVE  link'[k].up = <<>>
  <2>1. CASE client[c].pc = "top"
    BY <1>4, <2>1 DEF SerialInv
  <2>2. CASE link[Newest(c)].down # <<>>
    <3>1. k # Newest(c)
      BY <1>4, <2>2 DEF SerialInv
    <3>2. ASSUME link[k].up # <<>>
          PROVE  FALSE
      <4>1. k[2] < client[c].made /\ Pending(k)
        BY <3>1, <3>2, SoloOpen DEF Pending
      <4> QED
        BY <1>4, <4>1 DEF SerialInv
    <3> QED
      BY <1>4, <3>2
  <2> QED
    BY <1>4, <2>1, <2>2
<1>5. \A k \in Conns : link'[k].gateway_end \in {"none", "backlog"} =>
         /\ ctx'[k] = [tcp |-> NewConnection, reassembly |-> NoSegments]
         /\ link'[k].down = <<>>
         /\ client'[c].pc = "top" => link'[k].up = <<>>
  BY <1>1, <1>4 DEF SerialInv
<1>6. \A k \in Conns : link'[k].gateway_end = "closed" => link'[k].up = <<>>
  BY DEF SerialInv
<1>7. AcceptInv(c)'
  <2>1. \A k \in Conns : k[2] < client[c].made => k # Newest(c)
    <3>1. \A k \in Conns : k[2] \in Nat
      BY SoloConns
    <3>2. client[c].made \in Nat
      BY SoloOpen
    <3> QED
      BY <3>1, <3>2, SoloOpen
  <2> QED
    BY <1>1, <2>1, AcceptKept
<1>8. SerialInv(c)'
  BY <1>1, <1>2, <1>3, <1>5, <1>6 DEF SerialInv
<1> QED
  BY <1>7, <1>8

\* A connection that is made goes behind the ones in the backlog, and only from
\* the top of the loop, where the newest one is not waiting there with frames.
LEMMA SerialAfterConnect ==
    ASSUME NEW c, Clients = {c}, IndInv, AcceptInv(c), SerialInv(c), UNCHANGED gateway,
           client[c].pc \in {"start", "top"},
           client'[c].pc = "top" => client[c].pc = "start",
           client'[c].made = client[c].made + 1, NEW n \in Conns, n = NextConn(c),
           \A k \in Conns : k # n =>
              /\ link'[k].gateway_end = link[k].gateway_end
              /\ link'[k].down \in {link[k].down, <<>>}
              /\ link'[k].up = link[k].up,
           link'[n] = Opened(NoLink), backlog' = Append(backlog, n)
    PROVE  AcceptInv(c)' /\ SerialInv(c)'
<1>1. UNCHANGED <<ctx, batch, ring, buf>>
  BY DEF gateway
<1>2. ByteCount(buf)' = ByteCount(buf) /\ \A k : InRing(k)' <=> InRing(k)
  BY <1>1 DEF ByteCount, InRing
<1>3. Newest(c)' = n /\ n[2] = client[c].made + 1 /\ client[c].made \in 0..MaxConns
  BY SoloOpen DEF Newest, NextConn
<1>4. c \in Clients /\ n[1] = c /\ link[n] = NoLink
  <2>1. c \in Clients /\ n[1] = c
    BY SoloConns
  <2>2. n[2] > client[n[1]].made
    BY <1>3, <2>1
  <2> QED
    BY <2>1, <2>2 DEF IndInv, LinkInv
<1>5. NoLink.gateway_end = "none" /\ NoLink.up = <<>>
      /\ link'[n].gateway_end = "backlog" /\ link'[n].up = <<>> /\ link'[n].down = <<>>
  BY DEF NoLink, Opened
<1>6. client[c].pc = "start" => client[c].made = 0
  BY <1>4 DEF IndInv, ClientInv
<1>7. n \notin batch /\ ~InRing(n)
  <2>1. ~(n[2] < client[c].made)
    BY <1>3
  <2>2. n # Newest(c)
    BY <1>3, SoloOpen
  <2> QED
    BY <2>1, <2>2, SoloOpen
<1>8. \A k \in Conns : link'[k].gateway_end \in {"none", "backlog"} =>
         /\ ctx'[k] = [tcp |-> NewConnection, reassembly |-> NoSegments]
         /\ link'[k].down = <<>>
         /\ client'[c].pc = "top" => link'[k].up = <<>>
  <2> SUFFICES ASSUME NEW k \in Conns, link'[k].gateway_end \in {"none", "backlog"}
               PROVE  /\ ctx[k] = [tcp |-> NewConnection, reassembly |-> NoSegments]
                      /\ link'[k].down = <<>>
                      /\ client'[c].pc = "top" => link'[k].up = <<>>
    BY <1>1
  <2>1. CASE k = n
    BY <1>4, <1>5, <2>1 DEF SerialInv
  <2>2. CASE k # n
    <3>1. ASSUME client'[c].pc = "top"
          PROVE  link'[k].up = <<>>
      <4>1. client[c].made = 0 /\ k[1] = c /\ k[2] \in 1..MaxConns
        BY <1>6, <3>1, SoloConns
      <4>2. k[2] > client[k[1]].made
        BY <4>1
      <4> QED
        BY <1>5, <2>2, <4>2 DEF IndInv, LinkInv
    <3> QED
      BY <2>2, <3>1 DEF SerialInv
  <2> QED
    BY <2>1, <2>2
<1>9. ASSUME NEW k \in Conns, k[2] < client[c].made + 1, Pending(k)'
      PROVE  /\ k[2] = client[c].made
             /\ client'[c].pc # "top"
             /\ link'[k].gateway_end = "open"
  <2>1. k # n
    BY <1>3, <1>9
  <2>2. Pending(k) /\ link'[k].up = link[k].up
    BY <1>2, <1>9, <2>1 DEF Pending
  <2>3. k[2] \in 1..MaxConns
    BY SoloConns
  <2>4. client[c].pc = "top"
    BY <1>3, <1>6, <1>9, <2>3
  <2>5. k[2] = client[c].made
    <3>1. ~(k[2] < client[c].made)
      BY <2>2, <2>4 DEF SerialInv
    <3> QED
      BY <1>3, <1>9, <2>3, <3>1
  <2>6. link[k].gateway_end = "open"
    <3>1. CASE link[k].up # <<>>
      <4>1. link[k].gateway_end \notin {"none", "backlog", "closed"}
        BY <2>4, <3>1 DEF SerialInv
      <4> QED
        BY <4>1, LinkFields DEF IndInv
    <3>2. CASE InRing(k)
      <4>1. 1 \in 1..Len(ring)
        BY <3>2 DEF InRing, IndInv, TypeOK
      <4> QED
        BY <3>2, <4>1 DEF InRing, IndInv, RingInv
    <3> QED
      BY <2>2, <3>1, <3>2 DEF Pending
  <2> QED
    BY <2>1, <2>4, <2>5, <2>6
<1>10. ListenFd \in batch => Head(backlog') # n
  <2> SUFFICES ASSUME ListenFd \in batch PROVE Head(backlog') # n
    OBVIOUS
  <2>1. backlog \in Seq(Conns) /\ backlog # <<>>
    BY DEF IndInv, TypeOK, EventInv
  <2>2. Head(backlog') = backlog[1] /\ 1 \in 1..Len(backlog)
    BY <2>1
  <2>3. link[backlog[1]].gateway_end = "backlog"
    BY <2>2 DEF IndInv, EventInv
  <2> QED
    BY <1>4, <1>5, <2>2, <2>3
<1>11. \A k \in Conns : link'[k].gateway_end = "closed" => link'[k].up = <<>>
  BY <1>5 DEF SerialInv
<1>12. \A k \in Conns : k[2] < client'[c].made /\ Pending(k)' =>
          /\ k[2] = client'[c].made - 1
          /\ client'[c].pc # "top"
          /\ link'[k].gateway_end = "open"
  BY <1>3, <1>9
<1>13. AcceptInv(c)'
  BY <1>1, <1>5, AcceptAfterConnect
<1>14. SerialInv(c)'
  BY <1>1, <1>2, <1>3, <1>5, <1>7, <1>8, <1>10, <1>11, <1>12 DEF SerialInv
<1> QED
  BY <1>13, <1>14

\* What the client has sent so far when it sends more, or nothing.
LEMMA FramesAfterClient ==
    ASSUME TypeOK, NEW c \in Clients, UNCHANGED gateway,
           client'[c].idles = client[c].idles,
           NEW last \in Int, FramesUpTo(c, last), NEW last2 \in Int, last <= last2,
           NEW j \in Int, client'[c].order_id = j + 1, Sent(c) <= j,
           Sent(c) = j => client'[c].req = client[c].req,
           \A k \in Conns : \/ link'[k].up = link[k].up
                            \/ Past(link'[k].up, last2, SeqOf(j), client'[c].req)
    PROVE  FramesUpTo(c, last2)'
<1> DEFINE req == client[c].req
           req2 == client'[c].req
<1>1. Sent(c) \in Int /\ SeqOf(Sent(c)) \in Int /\ SeqOf(j) \in Int
      /\ SeqOf(Sent(c))' = SeqOf(j)
  <2>1. client[c].order_id \in Int
    BY ClientFields
  <2>2. Sent(c)' = j
    BY DEF Sent
  <2> QED
    BY <2>1, <2>2 DEF SeqOf, Sent, OrderLen
<1>2. SeqOf(Sent(c)) < SeqOf(j) \/ (SeqOf(Sent(c)) = SeqOf(j) /\ req = req2)
  <2>1. CASE Sent(c) = j
    BY <2>1
  <2>2. CASE Sent(c) < j
    BY <1>1, <2>2 DEF SeqOf, OrderLen
  <2> QED
    BY <1>1, <2>1, <2>2
<1>3. UNCHANGED <<ctx, buf>>
  BY DEF gateway
<1>4. buf \in Seq(UpFrames) /\ \A k \in Conns : link[k].up \in Seq(UpFrames)
  BY LinkFields DEF TypeOK
<1>5. Past(buf, last, SeqOf(Sent(c)), req)
      /\ \A k \in Conns : Past(link[k].up, last, SeqOf(Sent(c)), req)
  BY DEF FramesUpTo
<1> HIDE DEF req, req2
<1>6. Past(buf, last2, SeqOf(j), req2)
  BY <1>1, <1>2, <1>4, <1>5, PastGrows
<1>7. \A k \in Conns : Past(link[k].up, last2, SeqOf(j), req2)
  BY <1>1, <1>2, <1>4, <1>5, PastGrows
<1>8. \A k \in Conns : Past(link'[k].up, last2, SeqOf(j), req2)
  BY <1>7 DEF req2
<1>9. ASSUME NEW k \in Conns, NEW s \in DOMAIN ctx'[k].reassembly
      PROVE  s <= last2 /\ s # ctx'[k].tcp.recv_seq
  <2>1. s \in DOMAIN ctx[k].reassembly /\ ctx'[k] = ctx[k]
    BY <1>3, <1>9
  <2>2. s \in Int
    <3>1. s \in SeqNums
      BY <2>1, CtxFields DEF IsReassembly
    <3> QED
      BY <3>1 DEF SeqNums
  <2>3. s <= last /\ s # ctx[k].tcp.recv_seq
    BY <2>1 DEF FramesUpTo
  <2> QED
    BY <2>1, <2>2, <2>3
<1>10. client[c].idles \/ \A i \in 1..Len(buf) : buf[i].len = OrderLen
  BY DEF FramesUpTo
<1> QED
  BY <1>1, <1>3, <1>6, <1>8, <1>9, <1>10 DEF FramesUpTo, req2

\* The bounds of the phases, and what is not touched by a step of the client.
LEMMA ClientSide ==
    ASSUME NEW c, Clients = {c}, NoWrap, IndInv, UNCHANGED gateway
    PROVE  /\ c \in Clients /\ TypeOK /\ client[c].order_id \in 1..(MaxOrders + 1)
           /\ Sent(c) \in Int /\ client[c].order_id = Sent(c) + 1
           /\ SeqOf(Sent(c)) \in Int /\ SeqOf(client[c].order_id) \in Int
           /\ SeqOf(Sent(c)) <= SeqOf(client[c].order_id)
           /\ UNCHANGED <<ctx, batch, ring, buf, live_orders, applied>>
           /\ \A k : InRing(k)' <=> InRing(k)
           /\ \A j : AppliedBelow(c, j)' <=> AppliedBelow(c, j)
           /\ \A k \in Conns : link'[k].up = link[k].up => (Idle(k)' <=> Idle(k))
           /\ MaxRetries \in Nat
<1>1. c \in Clients /\ TypeOK /\ client[c].order_id \in 1..(MaxOrders + 1)
  BY SoloConns, ClientFields DEF IndInv
<1>2. Sent(c) \in Int /\ client[c].order_id = Sent(c) + 1
  BY <1>1 DEF Sent
<1>3. /\ SeqOf(Sent(c)) \in Int /\ SeqOf(client[c].order_id) \in Int
      /\ SeqOf(Sent(c)) <= SeqOf(client[c].order_id)
  BY <1>2 DEF SeqOf, OrderLen
<1>4. UNCHANGED <<ctx, batch, ring, buf, live_orders, applied>>
  BY DEF gateway
<1>5. \A k : InRing(k)' <=> InRing(k)
  BY <1>4 DEF InRing
<1>6. \A j : AppliedBelow(c, j)' <=> AppliedBelow(c, j)
  BY <1>4 DEF AppliedBelow
<1>7. \A k \in Conns : link'[k].up = link[k].up => (Idle(k)' <=> Idle(k))
  BY <1>4, <1>5 DEF Idle
<1> QED
  BY <1>1, <1>2, <1>3, <1>4, <1>5, <1>6, <1>7, NumbersAssumption

\* The client stops, or stays at the top of its loop without a connection: what
\* it sent stays where it is.
LEMMA SilentPhase ==
    ASSUME NEW c, Clients = {c}, NoWrap, IndInv, PhaseInv(c), UNCHANGED gateway,
           client'[c].idles = client[c].idles, client'[c].made = client[c].made,
           client'[c].order_id = client[c].order_id, client'[c].req = client[c].req,
           client'[c].shadow = client[c].shadow, client'[c].queue = client[c].queue,
           \/ client'[c].pc = "stopped"
           \/ client'[c].pc = "top" /\ client[c].pc = "top",
           \A k \in Conns : /\ link'[k].up = link[k].up
                            /\ link'[k].down \in {link[k].down, <<>>}
    PROVE  PhaseInv(c)'
<1>1. /\ c \in Clients /\ TypeOK /\ client[c].order_id \in 1..(MaxOrders + 1)
      /\ Sent(c) \in Int /\ client[c].order_id = Sent(c) + 1
      /\ SeqOf(Sent(c)) \in Int /\ SeqOf(client[c].order_id) \in Int
      /\ SeqOf(Sent(c)) <= SeqOf(client[c].order_id)
      /\ UNCHANGED <<ctx, batch, ring, buf, live_orders, applied>>
      /\ \A k : InRing(k)' <=> InRing(k)
      /\ \A j : AppliedBelow(c, j)' <=> AppliedBelow(c, j)
      /\ \A k \in Conns : Idle(k)' <=> Idle(k)
  BY ClientSide
<1>2. ASSUME NEW last \in Int, FramesUpTo(c, last), NEW last2 \in Int, last <= last2
      PROVE  FramesUpTo(c, last2)'
  <2>1. client'[c].order_id = Sent(c) + 1 /\ Sent(c) <= Sent(c)
    BY <1>1
  <2> QED
    BY <1>1, <1>2, <2>1, FramesAfterClient
<1>3. /\ Sent(c)' = Sent(c) /\ SeqOf(Sent(c))' = SeqOf(Sent(c)) /\ Resent(c)' = Resent(c)
      /\ SeqOf(client[c].order_id)' = SeqOf(client[c].order_id)
  BY DEF Sent, SeqOf, Resent
<1>4. PICK sent, next : sent = SeqOf(Sent(c)) /\ next = SeqOf(client[c].order_id)
  OBVIOUS
<1>5. sent \in Int /\ next \in Int /\ sent <= next
  BY <1>1, <1>4
<1>6. \A k \in Conns : k[2] < client'[c].made => Idle(k)'
  BY <1>1 DEF PhaseInv
<1>7. ASSUME FramesUpTo(c, sent)
      PROVE  FramesUpTo(c, SeqOf(Sent(c)))' /\ FramesUpTo(c, SeqOf(client[c].order_id))'
  <2>1. FramesUpTo(c, sent)' /\ FramesUpTo(c, next)'
    BY <1>2, <1>5, <1>7
  <2> QED
    BY <1>3, <1>4, <2>1 DEF FramesUpTo
<1>8. ASSUME FramesUpTo(c, next)
      PROVE  FramesUpTo(c, SeqOf(client[c].order_id))'
  <2>1. FramesUpTo(c, next)'
    BY <1>2, <1>5, <1>8
  <2> QED
    BY <1>3, <1>4, <2>1 DEF FramesUpTo
<1>9. CASE AtRest(c)
  <2>1. \A k \in Conns : k[2] = client[c].made => Idle(k)
    BY <1>9 DEF AtRest
  <2>2. CASE client'[c].pc = "stopped"
    <3>1. FramesUpTo(c, sent) \/ FramesUpTo(c, next)
      BY <1>4, <1>9 DEF AtRest
    <3>2. FramesUpTo(c, SeqOf(client[c].order_id))'
      BY <1>7, <1>8, <3>1
    <3>3. Over(c)'
      BY <1>1, <1>9, <2>1, <2>2, <3>2 DEF AtRest, Over, AppliedBelow
    <3> QED
      BY <1>6, <3>3 DEF PhaseInv
  <2>3. CASE client'[c].pc = "top" /\ client[c].pc = "top"
    <3>1. FramesUpTo(c, sent)
      BY <1>4, <1>9, <2>3 DEF AtRest
    <3>2. FramesUpTo(c, SeqOf(Sent(c)))'
      BY <1>7, <3>1
    <3>3. AtRest(c)'
      BY <1>1, <1>9, <2>3, <3>2 DEF AtRest, AppliedBelow
    <3> QED
      BY <1>6, <3>3 DEF PhaseInv
  <2> QED
    BY <2>2, <2>3
<1>10. CASE Unanswered(c)
  <2>1. FramesUpTo(c, SeqOf(Sent(c)))'
    BY <1>4, <1>7, <1>10 DEF Unanswered
  <2>2. client'[c].pc = "stopped"
    BY <1>10 DEF Unanswered
  <2>3. AppliedBelow(c, Sent(c))'
    BY <1>1, <1>3, <1>10 DEF Unanswered, AppliedBelow
  <2>4. Unanswered(c)'
    BY <1>1, <1>3, <1>10, <2>1, <2>2, <2>3 DEF Unanswered
  <2> QED
    BY <1>6, <2>4 DEF PhaseInv
<1>11. CASE Answered(c)
  <2>1. FramesUpTo(c, SeqOf(client[c].order_id))'
    BY <1>4, <1>7, <1>11 DEF Answered
  <2>2. client'[c].pc = "stopped"
    BY <1>11 DEF Answered
  <2>3. Over(c)'
    BY <1>1, <1>11, <2>1, <2>2 DEF Answered, Over, AppliedBelow
  <2> QED
    BY <1>6, <2>3 DEF PhaseInv
<1>12. CASE Over(c)
  <2>1. FramesUpTo(c, SeqOf(client[c].order_id))'
    BY <1>4, <1>8, <1>12 DEF Over
  <2>2. client'[c].pc = "stopped"
    BY <1>12 DEF Over
  <2>3. Over(c)'
    BY <1>1, <1>12, <2>1, <2>2 DEF Over, AppliedBelow
  <2> QED
    BY <1>6, <2>3 DEF PhaseInv
<1> QED
  BY <1>9, <1>10, <1>11, <1>12 DEF PhaseInv

\* A new connection has nothing to read on either side.
LEMMA ConnectPhase ==
    ASSUME NEW c, Clients = {c}, NoWrap, IndInv, PhaseInv(c), UNCHANGED gateway,
           client[c].pc \in {"start", "top"}, client'[c].pc \in {"top", "loop"},
           client'[c].idles = client[c].idles, client'[c].made = client[c].made + 1,
           client'[c].order_id = client[c].order_id, client'[c].req = client[c].req,
           client'[c].shadow = client[c].shadow, client'[c].queue = client[c].queue,
           NEW n \in Conns, n[2] = client[c].made + 1,
           \A k \in Conns : k # n => link'[k].up = link[k].up,
           link'[n].up = <<>>, link'[n].down = <<>>
    PROVE  PhaseInv(c)'
<1>1. /\ c \in Clients /\ TypeOK /\ client[c].order_id \in 1..(MaxOrders + 1)
      /\ Sent(c) \in Int /\ client[c].order_id = Sent(c) + 1
      /\ SeqOf(Sent(c)) \in Int
      /\ UNCHANGED <<ctx, batch, ring, buf, live_orders, applied>>
      /\ \A k : InRing(k)' <=> InRing(k)
      /\ \A j : AppliedBelow(c, j)' <=> AppliedBelow(c, j)
      /\ \A k \in Conns : link'[k].up = link[k].up => (Idle(k)' <=> Idle(k))
      /\ MaxRetries \in Nat
  BY ClientSide
<1>2. AtRest(c)
  BY DEF PhaseInv, Unanswered, Answered, Over
<1>3. client[c].made \in 0..MaxConns /\ \A k \in Conns : k[2] \in 1..MaxConns
  BY SoloOpen, SoloConns
<1>4. link[n].up = <<>> /\ ~InRing(n)
  <2>1. ~(n[2] < client[c].made) /\ n # Newest(c)
    <3>1. n[2] # client[c].made
      BY <1>3
    <3> QED
      BY <1>3, <3>1, SoloOpen
  <2> QED
    BY <2>1, SoloOpen
<1>5. \A k \in Conns : k[2] < client'[c].made => Idle(k)'
  <2> SUFFICES ASSUME NEW k \in Conns, k[2] < client[c].made + 1 PROVE Idle(k)'
    OBVIOUS
  <2>1. k # n
    BY <1>3
  <2>2. k[2] < client[c].made \/ k[2] = client[c].made
    BY <1>3
  <2>3. Idle(k)
    BY <1>2, <2>2 DEF AtRest, PhaseInv
  <2> QED
    BY <1>1, <2>1, <2>3
<1>6. FramesUpTo(c, SeqOf(Sent(c)))'
  <2>1. PICK sent : sent = SeqOf(Sent(c))
    OBVIOUS
  <2>2. FramesUpTo(c, sent) /\ sent \in Int /\ sent <= sent
    BY <1>1, <1>2, <2>1 DEF AtRest
  <2>3. client'[c].order_id = Sent(c) + 1 /\ Sent(c) <= Sent(c)
    BY <1>1
  <2>4. \A k \in Conns : link'[k].up = link[k].up
    BY <1>4
  <2>5. FramesUpTo(c, sent)'
    BY <1>1, <2>2, <2>3, <2>4, FramesAfterClient
  <2>6. SeqOf(Sent(c))' = SeqOf(Sent(c))
    BY DEF SeqOf, Sent
  <2> QED
    BY <2>1, <2>5, <2>6 DEF FramesUpTo
<1>7. ASSUME NEW k \in Conns, k[2] = client'[c].made
      PROVE  /\ link'[k].down = <<>> /\ Idle(k)'
             /\ Stale(link'[k].up, ctx'[k].tcp.recv_seq) /\ Len(link'[k].up) <= MaxRetries
  <2>1. k = n
    <3>1. k[2] = n[2]
      BY <1>7
    <3> QED
      BY <3>1, SoloConns
  <2>2. ~InRing(n)' /\ Len(<<>>) = 0
    BY <1>1, <1>4
  <2>3. Stale(<<>>, ctx'[k].tcp.recv_seq)
    BY DEF Stale
  <2> QED
    BY <1>1, <2>1, <2>2, <2>3 DEF Idle, Dead
<1>8. AtRest(c)'
  BY <1>1, <1>2, <1>6, <1>7 DEF AtRest, AppliedBelow
<1> QED
  BY <1>5, <1>8 DEF PhaseInv

\* What the client sends goes to the newest connection.
LEMMA SoloSends ==
    ASSUME NEW c, Clients = {c}, IndInv, HasConn(c), NEW frames,
           link' = [link EXCEPT ![ConnOf(c)] = SentUp(@, frames)]
    PROVE  /\ ConnOf(c) = Newest(c) /\ Newest(c) \in Conns
           /\ \A k \in Conns : k # Newest(c) => link'[k] = link[k]
           /\ link'[Newest(c)].gateway_end = link[Newest(c)].gateway_end
           /\ link'[Newest(c)].down = link[Newest(c)].down
           /\ link'[Newest(c)].up = IF link[Newest(c)].gateway_end = "closed"
                                    THEN link[Newest(c)].up
                                    ELSE link[Newest(c)].up \o frames
<1>1. ConnOf(c) = Newest(c) /\ Newest(c) \in Conns
  <2>1. ConnOf(c) \in Conns /\ client[c].fd = client[c].made
    BY SoloConns, ConnOfFacts
  <2> QED
    BY <2>1 DEF ConnOf, Newest
<1>2. DOMAIN link = Conns /\ link[Newest(c)] \in Links
  BY <1>1, LinkFields DEF IndInv, TypeOK
<1> DEFINE n == Newest(c)
<1>3. link'[n] = SentUp(link[n], frames) /\ \A k \in Conns : k # n => link'[k] = link[k]
  BY <1>1, <1>2
<1> HIDE DEF n
<1>4. /\ SentUp(link[n], frames).gateway_end = link[n].gateway_end
      /\ SentUp(link[n], frames).down = link[n].down
      /\ SentUp(link[n], frames).up = IF link[n].gateway_end = "closed"
                                      THEN link[n].up ELSE link[n].up \o frames
  BY <1>2 DEF SentUp, Links, n
<1> QED
  BY <1>1, <1>3, <1>4 DEF n

\* A keepalive: read alone it leads to no order, read in front of an order it
\* hides it.
LEMMA SendKeepaliveSolo ==
    ASSUME NEW c, Clients = {c}, NoWrap, IndInv, NumberInv(c), SegmentInv(c),
           AcceptInv(c), SerialInv(c), PhaseInv(c), SendKeepalive(c)
    PROVE  NumberInv(c)' /\ SegmentInv(c)' /\ AcceptInv(c)' /\ SerialInv(c)'
           /\ PhaseInv(c)'
<1>0. PICK n : n = Newest(c)
  OBVIOUS
<1> DEFINE f == KeepaliveFrame(client[c].conn)
           up == link[n].up
           next == SeqOf(client[c].order_id)
<1>1. /\ HasConn(c) /\ client[c].pc \in {"top", "loop"} /\ client[c].idles
      /\ client' = [client EXCEPT ![c] = [client[c] EXCEPT !.pc = "burst", !.left = Burst]]
      /\ link' = [link EXCEPT ![ConnOf(c)] = SentUp(@, <<f>>)]
      /\ UNCHANGED <<gateway, backlog>>
  BY DEF SendKeepalive, InLoop
<1>2. /\ c \in Clients /\ TypeOK /\ client[c].order_id \in 1..(MaxOrders + 1)
      /\ Sent(c) \in Int /\ client[c].order_id = Sent(c) + 1
      /\ SeqOf(Sent(c)) \in Int /\ next \in Int /\ SeqOf(Sent(c)) <= next
      /\ UNCHANGED <<ctx, batch, ring, buf, live_orders, applied>>
      /\ \A k : InRing(k)' <=> InRing(k)
      /\ \A j : AppliedBelow(c, j)' <=> AppliedBelow(c, j)
      /\ \A k \in Conns : link'[k].up = link[k].up => (Idle(k)' <=> Idle(k))
      /\ MaxRetries \in Nat
  BY <1>1, ClientSide
<1>3. /\ client'[c].pc = "burst" /\ client'[c].idles = client[c].idles
      /\ client'[c].made = client[c].made /\ client'[c].order_id = client[c].order_id
      /\ client'[c].req = client[c].req /\ client'[c].shadow = client[c].shadow
      /\ client'[c].queue = client[c].queue /\ client'[c].conn = client[c].conn
      /\ client'[c].outstanding = client[c].outstanding
  <2>1. client[c] \in ClientStates /\ DOMAIN client = Clients
    BY <1>2, ClientFields DEF TypeOK
  <2> QED
    BY <1>1, <1>2, <2>1 DEF ClientStates
<1>4. /\ n \in Conns /\ \A k \in Conns : k # n => link'[k] = link[k]
      /\ link'[n].gateway_end = link[n].gateway_end
      /\ link'[n].down = link[n].down
      /\ link'[n].up = IF link[n].gateway_end = "closed" THEN up ELSE up \o <<f>>
  BY <1>0, <1>1, SoloSends, ZenonT(60)
<1>5. f.seq = next /\ f.len = 0
  BY DEF NumberInv, KeepaliveFrame, AckFrame, Frame
<1>6. AtRest(c)
  BY <1>1 DEF PhaseInv, Unanswered, Answered, Over
<1>7. Sent(c)' = Sent(c) /\ SeqOf(Sent(c))' = SeqOf(Sent(c))
      /\ SeqOf(client[c].order_id)' = next
  BY <1>3 DEF Sent, SeqOf
<1>8. NumberInv(c)'
  BY <1>1, <1>3, <1>7 DEF NumberInv
<1>9. SegmentInv(c)'
  BY <1>1, <1>3 DEF SegmentInv
<1>10. AcceptInv(c)' /\ SerialInv(c)'
  BY <1>0, <1>1, <1>3, <1>4, SerialAfterClient
<1>11. n[2] = client[c].made /\ \A k \in Conns : k[2] = client[c].made => k = n
  BY <1>0, <1>4, SoloOpen
<1>12. /\ link[n].down = <<>> /\ Idle(n) /\ Stale(up, ctx[n].tcp.recv_seq)
       /\ Len(up) <= MaxRetries /\ up \in Seq(UpFrames) /\ Len(up) \in Nat
  <2>1. up \in Seq(UpFrames)
    BY <1>2, <1>4, LinkFields
  <2> QED
    BY <1>1, <1>4, <1>6, <1>11, <2>1 DEF AtRest
<1>13. FramesUpTo(c, SeqOf(client[c].order_id))'
  <2>1. PICK x : x = next
    OBVIOUS
  <2>2. FramesUpTo(c, SeqOf(Sent(c)))
    BY <1>1, <1>6 DEF AtRest
  <2>3. Past(up \o <<f>>, x, SeqOf(Sent(c)), client[c].req)
    <3>1. Past(up, SeqOf(Sent(c)), SeqOf(Sent(c)), client[c].req)
      BY <1>4, <2>2 DEF FramesUpTo
    <3>2. Past(up, x, SeqOf(Sent(c)), client[c].req)
      BY <1>2, <1>12, <2>1, <3>1, PastGrows
    <3>3. Len(up) < MaxFrames /\ MaxFrames \in Nat
      BY <1>2, <1>12 DEF MaxFrames
    <3>4. f.seq <= x /\ f.len # OrderLen
      BY <1>2, <1>5, <2>1 DEF OrderLen
    <3> HIDE DEF f, up
    <3> QED
      BY <1>12, <3>2, <3>3, <3>4, PastSent
  <2>4. \A k \in Conns : \/ link'[k].up = link[k].up
                         \/ Past(link'[k].up, x, SeqOf(Sent(c)), client'[c].req)
    BY <1>3, <1>4, <2>3
  <2>5. client'[c].order_id = Sent(c) + 1 /\ Sent(c) <= Sent(c) /\ x \in Int
        /\ SeqOf(Sent(c)) <= x
    BY <1>2, <1>3, <2>1
  <2>6. FramesUpTo(c, x)'
    BY <1>1, <1>2, <1>3, <2>2, <2>4, <2>5, FramesAfterClient
  <2> QED
    BY <1>7, <2>1, <2>6 DEF FramesUpTo
<1>14. \A k \in Conns : k[2] < client'[c].made => Idle(k)'
  <2>1. \A k \in Conns : k[2] < client[c].made => k # n /\ Idle(k)
    <3>1. \A k \in Conns : k[2] \in 1..MaxConns
      BY SoloConns
    <3>2. \A k \in Conns : k[2] < client[c].made => k # n
      BY <1>11, <3>1
    <3> QED
      BY <3>2 DEF PhaseInv
  <2> QED
    BY <1>2, <1>3, <1>4, <2>1
<1>15. /\ link'[n].down = <<>> /\ Idle(n)'
       /\ \/ Stale(link'[n].up, ctx'[n].tcp.recv_seq)
          \/ link'[n].up[1].seq = next
       /\ Len(link'[n].up) <= MaxRetries + 1
  <2> DEFINE expected == ctx[n].tcp.recv_seq
             more == up \o <<f>>
  <2>1. ctx'[n].tcp.recv_seq = expected /\ (InRing(n)' => Dead(buf', expected))
    BY <1>2, <1>12 DEF Idle
  <2>2. CASE link'[n].up = up
    <3>1. Idle(n)'
      BY <1>2, <1>4, <1>12, <2>2
    <3> QED
      BY <1>2, <1>4, <1>12, <2>1, <2>2, <3>1
  <2>3. CASE link'[n].up = more
    <3>1. Len(more) = Len(up) + 1 /\ more # <<>>
      BY <1>12
    <3>2. CASE up = <<>>
      <4>1. more[1] = f /\ Len(more) = 1
        BY <1>12, <3>2
      <4>2. Dead(more, expected)
        BY <1>5, <4>1 DEF Dead
      <4>3. Idle(n)'
        BY <2>1, <2>3, <4>2 DEF Idle
      <4> QED
        BY <1>2, <1>4, <1>5, <1>12, <2>3, <4>1, <4>3, SMTT(30)
    <3>3. CASE up # <<>>
      <4>1. more[1] = up[1]
        BY <1>12, <3>3
      <4>2. Stale(more, expected)
        BY <1>12, <3>3, <4>1 DEF Stale
      <4>3. Idle(n)'
        BY <2>1, <2>3, <4>2 DEF Idle, Dead
      <4> QED
        BY <1>2, <1>4, <1>12, <2>1, <2>3, <3>1, <4>2, <4>3
    <3> QED
      BY <3>2, <3>3
  <2> QED
    BY <1>4, <2>2, <2>3
<1>16. AtRest(c)'
  <2>1. \A k \in Conns : k[2] = client'[c].made => k = n
    BY <1>3, <1>11
  <2>2. /\ client'[c].queue = <<>> /\ AppliedBelow(c, client[c].order_id)'
    BY <1>2, <1>3, <1>6 DEF AtRest, AppliedBelow
  <2> HIDE DEF next, up
  <2> QED
    BY <1>1, <1>3, <1>7, <1>13, <1>15, <2>1, <2>2 DEF AtRest
<1>17. PhaseInv(c)'
  BY <1>14, <1>16 DEF PhaseInv
<1> QED
  BY <1>8, <1>9, <1>10, <1>17

\* An order: the window is open, since nothing is outstanding.
LEMMA SendOrderSolo ==
    ASSUME NEW c, Clients = {c}, NoWrap, IndInv, NumberInv(c), SegmentInv(c),
           AcceptInv(c), SerialInv(c), PhaseInv(c), NEW req \in NextRequests(c), SendOrder(c, req)
    PROVE  NumberInv(c)' /\ SegmentInv(c)' /\ AcceptInv(c)' /\ SerialInv(c)'
           /\ PhaseInv(c)'
<1>0. PICK n, next : n = Newest(c) /\ next = SeqOf(client[c].order_id)
  OBVIOUS
<1> DEFINE conn == client[c].conn
           f == DataFrame(conn, OrderLen, req)
           up == link[n].up
           expected == ctx[n].tcp.recv_seq
<1>1. /\ HasConn(c) /\ client[c].pc \in {"top", "loop", "burst"}
      /\ client[c].order_id <= MaxOrders /\ Buildable(c, req)
      /\ UNCHANGED <<gateway, backlog>>
  <2>1. c \in Clients
    BY SoloConns
  <2> QED
    BY <2>1 DEF SendOrder, InLoop, IndInv, ClientInv
<1>2. /\ c \in Clients /\ TypeOK /\ client[c].order_id \in 1..(MaxOrders + 1)
      /\ Sent(c) \in Int /\ client[c].order_id = Sent(c) + 1
      /\ SeqOf(Sent(c)) \in Int /\ next \in Int /\ SeqOf(Sent(c)) <= next
      /\ UNCHANGED <<ctx, batch, ring, buf, live_orders, applied>>
      /\ \A k : InRing(k)' <=> InRing(k)
      /\ \A j : AppliedBelow(c, j)' <=> AppliedBelow(c, j)
      /\ \A k \in Conns : link'[k].up = link[k].up => (Idle(k)' <=> Idle(k))
      /\ MaxRetries \in Nat
  BY <1>0, <1>1, ClientSide
<1>3. client[c].order_id \in 1..MaxOrders
  BY <1>1, <1>2, NumbersAssumption
<1>4. AtRest(c) /\ client[c].queue = <<>> /\ client[c].outstanding = {}
  <2>1. AtRest(c)
    BY <1>1 DEF PhaseInv, Unanswered, Answered, Over
  <2> QED
    BY <1>1, <2>1 DEF SegmentInv, AtRest
<1>5. WindowOpen(c)
  <2>1. Cardinality(client[c].outstanding) = 0
    BY <1>4, FS_EmptySet
  <2> QED
    BY <2>1 DEF WindowOpen, OrderLen, MinCwnd
<1>6. /\ client' = [client EXCEPT ![c] =
                     [client[c] EXCEPT
                       !.pc = "wait",
                       !.order_id = client[c].order_id + 1,
                       !.req = req,
                       !.left = OrdersLeft(c) - 1,
                       !.conn = [conn EXCEPT !.send_seq = Advance(@, OrderLen)],
                       !.queue = TrackSegment(client[c].queue, conn.send_seq, OrderLen),
                       !.outstanding =
                          {x \in client[c].outstanding : x.seq # conn.send_seq} \cup {f}]]
      /\ link' = [link EXCEPT ![ConnOf(c)] = SentUp(@, <<f>>)]
  BY <1>5 DEF SendOrder
<1>7. conn.send_seq = next /\ conn \in TcpConnections
  BY <1>0, <1>2, ClientFields DEF NumberInv
<1>8. f.seq = next /\ f.len = OrderLen /\ f.payload = req
  BY <1>7 DEF DataFrame, Frame
<1>9. [conn EXCEPT !.send_seq = Advance(@, OrderLen)].send_seq = SeqOf(client[c].order_id + 1)
      /\ Advance(next, OrderLen) = SeqOf(client[c].order_id + 1)
  <2>1. Advance(next, OrderLen) = SeqOf(client[c].order_id + 1)
    BY <1>0, <1>3, SeqOfFacts
  <2> QED
    BY <1>7, <2>1 DEF TcpConnections
<1> HIDE DEF f, conn
<1>10. /\ client'[c].pc = "wait" /\ client'[c].idles = client[c].idles
       /\ client'[c].made = client[c].made
       /\ client'[c].order_id = client[c].order_id + 1
       /\ client'[c].req = req /\ client'[c].shadow = client[c].shadow
       /\ client'[c].queue = TrackSegment(<<>>, next, OrderLen)
       /\ client'[c].conn.send_seq = SeqOf(client[c].order_id + 1)
       /\ client'[c].outstanding = {f}
  <2>1. client[c] \in ClientStates /\ DOMAIN client = Clients
    BY <1>2, ClientFields DEF TypeOK
  <2> QED
    BY <1>2, <1>4, <1>6, <1>7, <1>9, <2>1 DEF ClientStates
<1>11. /\ n \in Conns /\ \A k \in Conns : k # n => link'[k] = link[k]
       /\ link'[n].gateway_end = link[n].gateway_end
       /\ link'[n].down = link[n].down
       /\ link'[n].up = IF link[n].gateway_end = "closed" THEN up ELSE up \o <<f>>
  BY <1>0, <1>1, <1>6, SoloSends, ZenonT(60)
<1>12. /\ client'[c].queue \in Seq({client'[c].queue[1]}) /\ Len(client'[c].queue) = 1
       /\ client'[c].queue[1].seq_start = next
       /\ client'[c].queue[1].seq_end = SeqOf(client[c].order_id + 1)
       /\ client'[c].queue[1].retries = 0 /\ client'[c].queue # <<>>
  <2> DEFINE e == [seq_start |-> next, seq_end |-> Advance(next, OrderLen), retries |-> 0]
  <2>1. client'[c].queue = <<e>>
    BY <1>10 DEF TrackSegment
  <2>2. e.seq_start = next /\ e.seq_end = Advance(next, OrderLen) /\ e.retries = 0
    OBVIOUS
  <2> HIDE DEF e
  <2> QED
    BY <1>9, <2>1, <2>2
<1>13. /\ Sent(c)' = client[c].order_id /\ SeqOf(Sent(c))' = next
       /\ SeqOf(client[c].order_id)' = SeqOf(client[c].order_id + 1)
       /\ Resent(c)' = 0
  <2>1. Sent(c)' = client[c].order_id
    BY <1>2, <1>10 DEF Sent
  <2>2. SeqOf(Sent(c))' = SeqOf(client[c].order_id)
    BY <2>1 DEF SeqOf
  <2>3. SeqOf(client[c].order_id)' = SeqOf(client[c].order_id + 1)
    BY <1>10 DEF SeqOf
  <2> QED
    BY <1>0, <1>12, <2>1, <2>2, <2>3 DEF Resent
<1>14. PICK action, target : req = Request(c, client[c].order_id, action, target)
  BY DEF NextRequests
<1>15. req.id = client[c].order_id /\ req.client = c
  BY <1>14 DEF Request
<1>16. NumberInv(c)'
  <2>1. client'[c].order_id > 1
    BY <1>2, <1>10
  <2> QED
    BY <1>10, <1>13, <1>15, <2>1 DEF NumberInv
<1>17. SegmentInv(c)'
  BY <1>8, <1>10, <1>12, <1>13 DEF SegmentInv
<1>18. AcceptInv(c)' /\ SerialInv(c)'
  BY <1>0, <1>1, <1>10, <1>11, SerialAfterClient
<1>19. n[2] = client[c].made /\ \A k \in Conns : k[2] = client[c].made => k = n
  BY <1>0, <1>11, SoloOpen
<1>20. /\ link[n].down = <<>> /\ Idle(n)
       /\ Stale(up, expected) \/ up[1].seq = next
       /\ Len(up) <= MaxRetries + 1 /\ up \in Seq(UpFrames) /\ Len(up) \in Nat
  <2>1. up \in Seq(UpFrames) /\ Len(up) \in Nat
    BY <1>2, <1>11, LinkFields
  <2>2. /\ link[n].down = <<>> /\ Idle(n)
        /\ \/ Stale(up, expected) /\ Len(up) <= MaxRetries
           \/ /\ Stale(up, expected) \/ up[1].seq = next
              /\ Len(up) <= MaxRetries + 1
    BY <1>0, <1>4, <1>11, <1>19 DEF AtRest
  <2> QED
    BY <1>2, <2>1, <2>2
<1>21. FramesUpTo(c, SeqOf(Sent(c)))'
  <2>1. PICK last : /\ last = SeqOf(IF client[c].pc = "burst" THEN client[c].order_id ELSE Sent(c))
                    /\ FramesUpTo(c, last)
    BY <1>4 DEF AtRest
  <2>2. last \in Int /\ last <= next
    BY <1>0, <1>2, <2>1
  <2>3. SeqOf(Sent(c)) < next
    BY <1>0, <1>2 DEF SeqOf, OrderLen
  <2>4. Past(up \o <<f>>, next, next, req)
    <3>1. Past(up, last, SeqOf(Sent(c)), client[c].req)
      BY <1>11, <2>1 DEF FramesUpTo
    <3>2. Past(up, next, next, req)
      BY <1>2, <1>20, <2>2, <2>3, <3>1, PastGrows
    <3>3. Len(up) < MaxFrames /\ MaxFrames \in Nat
      BY <1>2, <1>20 DEF MaxFrames
    <3>4. f.seq <= next
      BY <1>2, <1>8
    <3> HIDE DEF up
    <3> QED
      BY <1>2, <1>8, <1>20, <3>2, <3>3, <3>4, PastSent
  <2>5. \A k \in Conns : \/ link'[k].up = link[k].up
                         \/ Past(link'[k].up, next, SeqOf(client[c].order_id), client'[c].req)
    BY <1>0, <1>10, <1>11, <2>4
  <2>6. /\ client[c].order_id \in Int /\ client'[c].order_id = client[c].order_id + 1
        /\ Sent(c) <= client[c].order_id /\ Sent(c) # client[c].order_id
    BY <1>2, <1>10
  <2>7. FramesUpTo(c, next)'
    BY <1>1, <1>2, <1>10, <2>1, <2>2, <2>5, <2>6, FramesAfterClient
  <2> QED
    BY <1>13, <2>7 DEF FramesUpTo
<1>22. \A k \in Conns : k[2] < client'[c].made => Idle(k)'
  <2>1. \A k \in Conns : k[2] < client[c].made => k # n /\ Idle(k)
    <3>1. \A k \in Conns : k[2] \in 1..MaxConns
      BY SoloConns
    <3>2. \A k \in Conns : k[2] < client[c].made => k # n
      BY <1>19, <3>1
    <3> QED
      BY <3>2 DEF PhaseInv
  <2> QED
    BY <1>2, <1>10, <1>11, <2>1
<1>23. /\ link'[n].down = <<>>
       /\ Stale(link'[n].up, expected) \/ link'[n].up[1].seq = next
       /\ InRing(n)' => Dead(buf', expected)
       /\ Len(link'[n].up) <= MaxRetries + 2
  <2> DEFINE more == up \o <<f>>
  <2>1. InRing(n)' => Dead(buf', expected)
    BY <1>2, <1>20 DEF Idle
  <2>2. CASE link'[n].up = up
    <3>1. Len(up) <= MaxRetries + 2
      BY <1>2, <1>20
    <3> HIDE DEF up
    <3> QED
      BY <1>11, <1>20, <2>1, <2>2, <3>1
  <2>3. CASE link'[n].up = more
    <3>1. Len(more) = Len(up) + 1
      BY <1>20
    <3>2. Len(more) <= MaxRetries + 2
      BY <1>2, <1>20, <3>1
    <3>3. CASE up = <<>>
      <4>1. more[1] = f
        BY <1>20, <3>3
      <4> QED
        BY <1>8, <1>11, <1>20, <2>1, <2>3, <3>2, <4>1
    <3>4. CASE up # <<>>
      <4>1. more[1] = up[1]
        BY <1>20, <3>4
      <4>2. Stale(more, expected) \/ more[1].seq = next
        BY <1>20, <3>4, <4>1 DEF Stale
      <4> QED
        BY <1>11, <1>20, <2>1, <2>3, <3>2, <4>2
    <3> QED
      BY <3>3, <3>4
  <2> QED
    BY <1>11, <2>2, <2>3
<1>24. Accepted(client[c].shadow, req)
  BY <1>1 DEF Buildable, Accepted
<1>25. Unanswered(c)'
  <2>1. \A k \in Conns : k[2] = client'[c].made => k = n
    BY <1>10, <1>19
  <2>2. AppliedBelow(c, Sent(c))'
    BY <1>2, <1>4, <1>13 DEF AtRest, AppliedBelow
  <2>3. client'[c].order_id > 1
    BY <1>2, <1>10
  <2>4. ctx' = ctx /\ MaxRetries + 2 + 0 = MaxRetries + 2
    BY <1>2
  <2>5. client[c].idles \/ live_orders = client[c].shadow
    BY <1>4 DEF AtRest
  <2>6. Accepted(client'[c].shadow, client'[c].req)
    BY <1>10, <1>24
  <2> HIDE DEF up
  <2>7. ASSUME NEW k \in Conns, k[2] = client'[c].made
        PROVE  LET up2 == link'[k].up
                   dead == Dead(buf', ctx'[k].tcp.recv_seq)
               IN  /\ link'[k].down = <<>>
                   /\ Stale(up2, ctx'[k].tcp.recv_seq) \/ up2[1].seq = next
                   /\ InRing(k)' => dead
                   /\ Len(up2) <= MaxRetries + 2 + 0
    BY <1>23, <2>1, <2>4, <2>7
  <2> QED
    BY <1>2, <1>10, <1>13, <1>21, <2>2, <2>3, <2>5, <2>6, <2>7 DEF Unanswered
<1>26. PhaseInv(c)'
  BY <1>22, <1>25 DEF PhaseInv
<1> QED
  BY <1>16, <1>17, <1>18, <1>26

\* The answer to an order: nothing is in flight any more.
LEMMA ReadAckSolo ==
    ASSUME NEW c, Clients = {c}, NoWrap, IndInv, NumberInv(c), SegmentInv(c),
           AcceptInv(c), SerialInv(c), PhaseInv(c), ReadAck(c)
    PROVE  NumberInv(c)' /\ SegmentInv(c)' /\ AcceptInv(c)' /\ SerialInv(c)'
           /\ PhaseInv(c)'
<1>0. PICK n, sent, next : /\ n = Newest(c) /\ sent = SeqOf(Sent(c))
                           /\ next = SeqOf(client[c].order_id)
  OBVIOUS
<1> DEFINE conn == client[c].conn
           ack == link[n].down[1].ack
           queue == AckUpTo(client[c].queue, ack)
           up == link[n].up
<1>1. client[c].pc = "wait" /\ UNCHANGED <<gateway, backlog>>
  BY DEF ReadAck
<1>2. /\ c \in Clients /\ TypeOK /\ client[c].order_id \in 1..(MaxOrders + 1)
      /\ Sent(c) \in Int /\ client[c].order_id = Sent(c) + 1
      /\ sent \in Int /\ next \in Int /\ sent <= next
      /\ UNCHANGED <<ctx, batch, ring, buf, live_orders, applied>>
      /\ \A k : InRing(k)' <=> InRing(k)
      /\ \A j : AppliedBelow(c, j)' <=> AppliedBelow(c, j)
      /\ \A k \in Conns : link'[k].up = link[k].up => (Idle(k)' <=> Idle(k))
      /\ MaxRetries \in Nat
  BY <1>0, <1>1, ClientSide
<1>3. n \in Conns /\ ConnOf(c) = n
  <2>1. HasConn(c)
    BY <1>1, <1>2 DEF IndInv, ClientInv
  <2>2. ConnOf(c) \in Conns /\ client[c].fd = client[c].made
    BY <1>2, <2>1, ConnOfFacts
  <2> QED
    BY <1>0, <2>2 DEF ConnOf, Newest
<1>4. /\ link[n].down # <<>>
      /\ client' = [client EXCEPT ![c] =
             [client[c] EXCEPT
               !.pc = AfterOrder(client[c].left),
               !.conn = [conn EXCEPT !.recv_ack = ack],
               !.queue = queue,
               !.outstanding = {f \in client[c].outstanding :
                                  Advance(f.seq, OrderLen) > ack},
               !.shadow = ShadowAfter(client[c].shadow, client[c].req)]]
      /\ link' = [link EXCEPT ![n] = [link[n] EXCEPT !.down = <<>>]]
  BY <1>3 DEF ReadAck
<1>5. n[2] = client[c].made /\ \A k \in Conns : k[2] = client[c].made => k = n
  BY <1>0, <1>3, SoloOpen
<1>6. Answered(c)
  BY <1>1, <1>3, <1>4, <1>5 DEF PhaseInv, AtRest, Unanswered, Over
<1>7. /\ FramesUpTo(c, sent)
      /\ AppliedBelow(c, client[c].order_id)
      /\ client[c].idles \/ live_orders = Table(client[c].shadow, client[c].req)
      /\ Len(link[n].down) = 1 /\ ack >= next
      /\ Idle(n) /\ Stale(up, ctx[n].tcp.recv_seq) /\ Len(up) <= Resent(c)
  BY <1>0, <1>3, <1>5, <1>6 DEF Answered
<1>8. ack \in SeqNums
  <2>1. link[n].down \in Seq(DownFrames)
    BY <1>2, <1>3, LinkFields
  <2>2. link[n].down[1] \in DownFrames
    BY <1>7, <2>1
  <2> QED
    BY <2>2 DEF DownFrames, Headers
<1>9. queue = <<>>
  <2>1. client[c].queue \in Seq(Entries)
    BY <1>2, ClientFields
  <2>2. \A i \in 1..Len(client[c].queue) : client[c].queue[i].seq_end <= ack
    <3>1. CASE client[c].queue = <<>>
      BY <3>1
    <3>2. CASE Len(client[c].queue) = 1 /\ client[c].queue[1].seq_end = next
      <4>1. next <= ack
        BY <1>2, <1>7, <1>8 DEF SeqNums
      <4>2. \A i \in 1..1 : i = 1
        OBVIOUS
      <4> QED
        BY <3>2, <4>1, <4>2
    <3> QED
      BY <1>0, <3>1, <3>2 DEF SegmentInv
  <2> HIDE DEF ack
  <2> QED
    BY <1>8, <2>1, <2>2, AckUpToFacts
<1>10. {f \in client[c].outstanding : Advance(f.seq, OrderLen) > ack} = {}
  <2> SUFFICES ASSUME NEW f \in client[c].outstanding
               PROVE  ~(Advance(f.seq, OrderLen) > ack)
    OBVIOUS
  <2>1. f.seq = sent /\ client[c].order_id > 1
    BY <1>0, <1>1 DEF SegmentInv, NumberInv
  <2>2. Sent(c) \in 1..MaxOrders
    BY <1>2, <2>1, NumbersAssumption
  <2>3. Advance(sent, OrderLen) = next
    BY <1>0, <1>2, <2>2, SeqOfFacts
  <2> QED
    BY <1>2, <1>7, <1>8, <2>1, <2>3 DEF SeqNums
<1> HIDE DEF ack, queue
<1>11. /\ client'[c].pc \in {"top", "burst"} /\ client'[c].idles = client[c].idles
       /\ client'[c].made = client[c].made
       /\ client'[c].order_id = client[c].order_id
       /\ client'[c].req = client[c].req
       /\ client'[c].shadow = Table(client[c].shadow, client[c].req)
       /\ client'[c].queue = <<>> /\ client'[c].outstanding = {}
       /\ client'[c].conn.send_seq = conn.send_seq
  <2>1. client[c] \in ClientStates /\ DOMAIN client = Clients /\ conn \in TcpConnections
    BY <1>2, ClientFields DEF TypeOK
  <2>2. AfterOrder(client[c].left) \in {"top", "burst"}
    BY DEF AfterOrder
  <2>3. [conn EXCEPT !.recv_ack = ack].send_seq = conn.send_seq
    BY <2>1 DEF TcpConnections
  <2> HIDE DEF conn
  <2> QED
    BY <1>2, <1>4, <1>9, <1>10, <2>1, <2>2, <2>3 DEF ClientStates, ShadowAfter
<1>12. /\ \A k \in Conns : /\ link'[k].up = link[k].up
                           /\ link'[k].gateway_end = link[k].gateway_end
                           /\ link'[k].down \in {link[k].down, <<>>}
       /\ link'[n].down = <<>>
  <2>1. DOMAIN link = Conns /\ link[n] \in Links
    BY <1>2, <1>3, LinkFields DEF TypeOK
  <2> QED
    BY <1>3, <1>4, <2>1 DEF Links
<1>13. SeqOf(Sent(c))' = sent /\ SeqOf(client[c].order_id)' = next /\ Sent(c)' = Sent(c)
  BY <1>0, <1>11 DEF Sent, SeqOf
<1>14. NumberInv(c)'
  BY <1>0, <1>11, <1>13 DEF NumberInv
<1>15. SegmentInv(c)'
  BY <1>11 DEF SegmentInv
<1>16. AcceptInv(c)' /\ SerialInv(c)'
  BY <1>0, <1>1, <1>4, <1>11, <1>12, SerialAfterClient
<1>17. \A k \in Conns : k[2] < client'[c].made => Idle(k)'
  BY <1>2, <1>11, <1>12 DEF PhaseInv
<1>18. FramesUpTo(c, sent)' /\ FramesUpTo(c, next)'
  <2>1. client'[c].order_id = Sent(c) + 1 /\ Sent(c) <= Sent(c) /\ sent <= sent
    BY <1>2, <1>11
  <2> QED
    BY <1>1, <1>2, <1>7, <1>11, <1>12, <2>1, FramesAfterClient
<1>19. FramesUpTo(c, SeqOf(IF client[c].pc = "burst" THEN client[c].order_id ELSE Sent(c)))'
  BY <1>13, <1>18 DEF FramesUpTo
<1>20. Len(up) <= MaxRetries
  <2>1. client[c].queue \in Seq(Entries)
    BY <1>2, ClientFields
  <2>2. ASSUME client[c].queue # <<>>
        PROVE  client[c].queue[1].retries \in 0..MaxRetries
    <3>1. client[c].queue[1] \in Entries
      BY <2>1, <2>2
    <3> QED
      BY <3>1 DEF Entries
  <2>3. Resent(c) \in 0..MaxRetries
    BY <1>2, <2>2 DEF Resent
  <2>4. up \in Seq(UpFrames)
    BY <1>2, <1>3, LinkFields
  <2>5. Len(up) \in Nat
    BY <2>4
  <2> HIDE DEF up
  <2> QED
    BY <1>2, <1>7, <2>3, <2>5
<1>21. AtRest(c)'
  <2>1. \A k \in Conns : k[2] = client'[c].made => k = n
    BY <1>5, <1>11
  <2>2. AppliedBelow(c, client[c].order_id)'
    BY <1>2, <1>7, <1>11 DEF AppliedBelow
  <2>3. /\ Idle(n)' /\ Stale(link'[n].up, ctx'[n].tcp.recv_seq)
        /\ Len(link'[n].up) <= MaxRetries
    BY <1>2, <1>3, <1>7, <1>12, <1>20
  <2>4. client'[c].idles \/ live_orders' = client'[c].shadow
    BY <1>2, <1>7, <1>11
  <2> HIDE DEF up
  <2> QED
    BY <1>11, <1>12, <1>19, <2>1, <2>2, <2>3, <2>4 DEF AtRest
<1>22. PhaseInv(c)'
  BY <1>17, <1>21 DEF PhaseInv
<1> QED
  BY <1>14, <1>15, <1>16, <1>22

\* collect_due for a queue of one segment that is past its deadline: it is sent
\* again, or given up after its last retransmission.
LEMMA OneDue ==
    ASSUME NEW queue \in Seq(Entries), Len(queue) = 1, NEW due, queue[1].seq_start \in due
    PROVE  LET e == queue[1]
           IN  /\ e \in Entries
               /\ e.retries < MaxRetries =>
                    /\ Due(queue, due, MaxRetries) = <<e>>
                    /\ AfterCollectDue(queue, due, MaxRetries)
                         = <<[e EXCEPT !.retries = @ + 1]>>
               /\ ~(e.retries < MaxRetries) =>
                    /\ Due(queue, due, MaxRetries) = <<>>
                    /\ AfterCollectDue(queue, due, MaxRetries) = <<>>
<1> DEFINE e == queue[1]
           again == {i \in 1..Len(queue) :
                       queue[i].seq_start \in due /\ queue[i].retries < MaxRetries}
           keep == {i \in 1..Len(queue) :
                      queue[i].seq_start \notin due \/ queue[i].retries < MaxRetries}
           kept == Picked(queue, keep)
<1>1. e \in Entries /\ 1 \in 1..Len(queue)
  OBVIOUS
<1>2. /\ 1 \in again <=> e.retries < MaxRetries
      /\ 1 \in keep <=> e.retries < MaxRetries
  BY <1>1
<1> HIDE DEF again, keep
<1>3. /\ Picked(queue, again) = IF 1 \in again THEN <<e>> ELSE <<>>
      /\ kept = IF 1 \in keep THEN <<e>> ELSE <<>>
  BY PickedFacts
<1>4. Due(queue, due, MaxRetries) = Picked(queue, again)
  BY DEF Due, again
<1>5. AfterCollectDue(queue, due, MaxRetries) =
         [i \in 1..Len(kept) |-> IF kept[i].seq_start \in due
                                 THEN [kept[i] EXCEPT !.retries = @ + 1] ELSE kept[i]]
  BY DEF AfterCollectDue, keep
<1> HIDE DEF kept, e
<1>6. CASE e.retries < MaxRetries
  <2>1. Due(queue, due, MaxRetries) = <<e>> /\ kept = <<e>>
    BY <1>2, <1>3, <1>4, <1>6
  <2>2. Len(kept) = 1 /\ kept[1] = e
    BY <2>1
  <2>3. AfterCollectDue(queue, due, MaxRetries) = <<[e EXCEPT !.retries = @ + 1]>>
    <3>1. \A i \in 1..1 : i = 1
      OBVIOUS
    <3>2. [i \in 1..Len(kept) |-> IF kept[i].seq_start \in due
                                  THEN [kept[i] EXCEPT !.retries = @ + 1] ELSE kept[i]]
            = [i \in 1..1 |-> [e EXCEPT !.retries = @ + 1]]
      BY <2>2, <3>1 DEF e
    <3>3. [i \in 1..1 |-> [e EXCEPT !.retries = @ + 1]] = <<[e EXCEPT !.retries = @ + 1]>>
      OBVIOUS
    <3> QED
      BY <1>5, <3>2, <3>3
  <2> QED
    BY <1>1, <1>6, <2>1, <2>3 DEF e
<1>7. CASE ~(e.retries < MaxRetries)
  <2>1. Due(queue, due, MaxRetries) = <<>> /\ kept = <<>>
    BY <1>2, <1>3, <1>4, <1>7
  <2>2. AfterCollectDue(queue, due, MaxRetries) = <<>>
    BY <1>5, <2>1
  <2> QED
    BY <1>1, <1>7, <2>1, <2>2 DEF e
<1> QED
  BY <1>6, <1>7

\* A timeout finds the last order in the queue, and sends it again or gives it up.
LEMMA TimeoutFacts ==
    ASSUME NEW c \in Clients, TypeOK, SegmentInv(c),
           NEW due \in SUBSET {e.seq_start : e \in Range(client[c].queue)},
           ReadTimeout(c, due)
    PROVE  LET e == client[c].queue[1]
           IN  /\ client[c].queue \in Seq(Entries) /\ Len(client[c].queue) = 1
               /\ e \in Entries
               /\ \E f \in client[c].outstanding :
                     /\ client[c].outstanding = {f}
                     /\ f.seq = e.seq_start /\ f.payload = client[c].req
                     /\ f.seq = SeqOf(Sent(c)) /\ f.len = OrderLen
                     /\ e.seq_end = SeqOf(client[c].order_id)
                     /\ \/ /\ e.retries < MaxRetries
                           /\ client' = [client EXCEPT ![c] =
                                [client[c] EXCEPT
                                   !.queue = <<[e EXCEPT !.retries = @ + 1]>>]]
                           /\ link' = [link EXCEPT ![ConnOf(c)] = SentUp(@, <<f>>)]
                        \/ /\ ~(e.retries < MaxRetries)
                           /\ client' = [client EXCEPT ![c] =
                                [client[c] EXCEPT !.queue = <<>>, !.outstanding = {}]]
                           /\ link' = [link EXCEPT ![ConnOf(c)] = SentUp(@, <<>>)]
<1> DEFINE queue == client[c].queue
           e == queue[1]
           after == AfterCollectDue(queue, due, MaxRetries)
           kept == {f \in client[c].outstanding : Contains(after, f.seq)}
           entries == Due(queue, due, MaxRetries)
           listed == {i \in 1..Len(entries) :
                        \E f \in kept : f.seq = entries[i].seq_start}
           again == Picked(entries, listed)
           frames == [i \in 1..Len(again) |->
                        CHOOSE f \in kept : f.seq = again[i].seq_start]
<1>1. queue \in Seq(Entries) /\ due # {} /\ client[c].outstanding \in SUBSET OrderFrames
  BY ClientFields DEF ReadTimeout
<1>2. PICK s \in due : TRUE
  BY <1>1
<1>3. PICK i \in 1..Len(queue) : s = queue[i].seq_start
  <2>1. PICK x \in Range(queue) : s = x.seq_start
    BY <1>2
  <2>2. PICK i \in DOMAIN queue : x = queue[i]
    BY <2>1 DEF Range
  <2>3. DOMAIN queue = 1..Len(queue)
    BY <1>1
  <2> QED
    BY <2>1, <2>2, <2>3
<1>4. queue # <<>>
  BY <1>1, <1>3
<1>5. /\ Len(queue) = 1 /\ e.seq_start = SeqOf(Sent(c))
      /\ e.seq_end = SeqOf(client[c].order_id)
      /\ \E f \in client[c].outstanding :
            client[c].outstanding = {f} /\ f.seq = SeqOf(Sent(c)) /\ f.payload = client[c].req
  BY <1>4 DEF SegmentInv
<1>6. PICK f \in client[c].outstanding :
         client[c].outstanding = {f} /\ f.seq = e.seq_start /\ f.payload = client[c].req
         /\ f.seq = SeqOf(Sent(c))
  BY <1>5
<1>7. f.len = OrderLen
  BY <1>1, <1>6 DEF OrderFrames, Headers
<1>8. i = 1 /\ e.seq_start \in due
  <2>1. \A j \in 1..1 : j = 1
    BY SMTT(30)
  <2> QED
    BY <1>2, <1>3, <1>5, <2>1
<1>9. /\ client' = [client EXCEPT ![c] =
                      [client[c] EXCEPT !.queue = after, !.outstanding = kept]]
      /\ link' = [link EXCEPT ![ConnOf(c)] = SentUp(@, frames)]
  BY DEF ReadTimeout
<1> HIDE DEF queue
<1>10. /\ e \in Entries
       /\ e.retries < MaxRetries => entries = <<e>> /\ after = <<[e EXCEPT !.retries = @ + 1]>>
       /\ ~(e.retries < MaxRetries) => entries = <<>> /\ after = <<>>
  BY <1>1, <1>5, <1>8, OneDue
<1> HIDE DEF e, after, entries
<1>11. CASE e.retries < MaxRetries
  <2> DEFINE e2 == [e EXCEPT !.retries = @ + 1]
  <2>1. e2.seq_start = e.seq_start
    BY <1>10 DEF Entries
  <2>2. after = <<e2>> /\ entries = <<e>>
    BY <1>10, <1>11
  <2> HIDE DEF e2
  <2>3. Len(after) = 1 /\ after[1] = e2 /\ Len(entries) = 1 /\ entries[1] = e
        /\ entries \in Seq(Entries)
    BY <1>10, <2>2
  <2>4. Contains(after, f.seq)
    <3>1. 1 \in 1..Len(after) /\ after[1].seq_start = f.seq
      BY <1>6, <2>1, <2>3
    <3> QED
      BY <3>1 DEF Contains
  <2>5. kept = {f}
    BY <1>6, <2>4
  <2> HIDE DEF kept
  <2>6. 1 \in listed
    <3>1. f \in kept
      BY <2>5
    <3>2. f.seq = entries[1].seq_start
      BY <1>6, <2>3
    <3>3. 1 \in 1..Len(entries)
      BY <2>3
    <3> QED
      BY <3>1, <3>2, <3>3
  <2> HIDE DEF listed
  <2>7. again = <<e>>
    BY <2>3, <2>6, PickedFacts
  <2>8. Len(again) = 1 /\ again[1] = e
    BY <2>7
  <2>9. (CHOOSE g \in kept : g.seq = e.seq_start) = f
    BY <1>6, <2>5
  <2>10. frames = <<f>>
    <3>1. \A j \in 1..1 : j = 1
      OBVIOUS
    <3>2. frames = [j \in 1..1 |-> f]
      BY <2>8, <2>9, <3>1
    <3>3. [j \in 1..1 |-> f] = <<f>>
      OBVIOUS
    <3> QED
      BY <3>2, <3>3
  <2> HIDE DEF frames
  <2>11. [client[c] EXCEPT !.queue = after, !.outstanding = kept]
           = [client[c] EXCEPT !.queue = <<e2>>]
    <3>1. client[c] \in ClientStates
      BY ClientFields
    <3> QED
      BY <1>6, <2>2, <2>5, <3>1 DEF ClientStates
  <2>12. client' = [client EXCEPT ![c] = [client[c] EXCEPT !.queue = <<e2>>]]
         /\ link' = [link EXCEPT ![ConnOf(c)] = SentUp(@, <<f>>)]
    BY <1>9, <2>10, <2>11
  <2> QED
    BY <1>1, <1>5, <1>6, <1>7, <1>10, <1>11, <2>12 DEF queue, e, e2
<1>12. CASE ~(e.retries < MaxRetries)
  <2>1. entries = <<>> /\ after = <<>>
    BY <1>10, <1>12
  <2>2. kept = {}
    BY <2>1 DEF Contains
  <2>3. again = <<>>
    <3>1. entries \in Seq(Entries) /\ Len(entries) = 0
      BY <2>1
    <3> HIDE DEF listed
    <3> QED
      BY <3>1, PickedFacts
  <2> HIDE DEF again
  <2>4. frames = <<>>
    BY <2>3
  <2> HIDE DEF frames, kept
  <2>5. client' = [client EXCEPT ![c] = [client[c] EXCEPT !.queue = <<>>, !.outstanding = {}]]
        /\ link' = [link EXCEPT ![ConnOf(c)] = SentUp(@, <<>>)]
    BY <1>9, <2>1, <2>2, <2>4
  <2> QED
    BY <1>1, <1>5, <1>6, <1>7, <1>10, <1>12, <2>5 DEF queue, e
<1> QED
  BY <1>11, <1>12

\* A timeout: the order is on its way once more, and still not answered.
LEMMA ReadTimeoutSolo ==
    ASSUME NEW c, Clients = {c}, NoWrap, IndInv, NumberInv(c), SegmentInv(c),
           AcceptInv(c), SerialInv(c), PhaseInv(c),
           NEW due \in SUBSET {e.seq_start : e \in Range(client[c].queue)},
           ReadTimeout(c, due)
    PROVE  NumberInv(c)' /\ SegmentInv(c)' /\ AcceptInv(c)' /\ SerialInv(c)'
           /\ PhaseInv(c)'
<1>0. PICK n, sent : n = Newest(c) /\ sent = SeqOf(Sent(c))
  BY SMTT(30)
<1> DEFINE queue == client[c].queue
           e == queue[1]
           up == link[n].up
           expected == ctx[n].tcp.recv_seq
<1>1. /\ client[c].pc = "wait" /\ link[ConnOf(c)].down = <<>>
      /\ UNCHANGED <<gateway, backlog>>
  BY DEF ReadTimeout
<1>2. /\ c \in Clients /\ TypeOK /\ client[c].order_id \in 1..(MaxOrders + 1)
      /\ Sent(c) \in Int /\ client[c].order_id = Sent(c) + 1
      /\ sent \in Int
      /\ UNCHANGED <<ctx, batch, ring, buf, live_orders, applied>>
      /\ \A k : InRing(k)' <=> InRing(k)
      /\ \A j : AppliedBelow(c, j)' <=> AppliedBelow(c, j)
      /\ \A k \in Conns : link'[k].up = link[k].up => (Idle(k)' <=> Idle(k))
      /\ MaxRetries \in Nat
  BY <1>0, <1>1, ClientSide
<1>3. HasConn(c)
  BY <1>1, <1>2 DEF IndInv, ClientInv
<1>4. PICK f \in client[c].outstanding :
         /\ client[c].outstanding = {f}
         /\ f.seq = e.seq_start /\ f.payload = client[c].req
         /\ f.seq = sent /\ f.len = OrderLen
         /\ e.seq_end = SeqOf(client[c].order_id)
         /\ \/ /\ e.retries < MaxRetries
               /\ client' = [client EXCEPT ![c] =
                    [client[c] EXCEPT !.queue = <<[e EXCEPT !.retries = @ + 1]>>]]
               /\ link' = [link EXCEPT ![ConnOf(c)] = SentUp(@, <<f>>)]
            \/ /\ ~(e.retries < MaxRetries)
               /\ client' = [client EXCEPT ![c] =
                    [client[c] EXCEPT !.queue = <<>>, !.outstanding = {}]]
               /\ link' = [link EXCEPT ![ConnOf(c)] = SentUp(@, <<>>)]
  BY <1>0, <1>2, TimeoutFacts
<1>5. /\ queue \in Seq(Entries) /\ Len(queue) = 1 /\ queue # <<>>
      /\ e \in Entries /\ e.retries \in 0..MaxRetries
  <2>1. queue \in Seq(Entries) /\ Len(queue) = 1 /\ e \in Entries
    BY <1>2, TimeoutFacts
  <2> QED
    BY <2>1 DEF Entries
<1>6. Resent(c) = e.retries
  BY <1>5 DEF Resent
<1>7. PICK frames \in {<<>>, <<f>>} :
         /\ link' = [link EXCEPT ![ConnOf(c)] = SentUp(@, frames)]
         /\ \/ /\ e.retries < MaxRetries
               /\ client' = [client EXCEPT ![c] =
                    [client[c] EXCEPT !.queue = <<[e EXCEPT !.retries = @ + 1]>>]]
               /\ frames = <<f>>
            \/ /\ ~(e.retries < MaxRetries)
               /\ client' = [client EXCEPT ![c] =
                    [client[c] EXCEPT !.queue = <<>>, !.outstanding = {}]]
               /\ frames = <<>>
  BY <1>4
<1> HIDE DEF queue, e
<1>8. /\ client'[c].pc = "wait" /\ client'[c].idles = client[c].idles
      /\ client'[c].made = client[c].made /\ client'[c].order_id = client[c].order_id
      /\ client'[c].req = client[c].req /\ client'[c].shadow = client[c].shadow
      /\ client'[c].conn = client[c].conn
      /\ \/ /\ e.retries < MaxRetries /\ frames = <<f>>
            /\ client'[c].queue = <<[e EXCEPT !.retries = @ + 1]>>
            /\ client'[c].outstanding = {f}
         \/ /\ e.retries = MaxRetries /\ frames = <<>>
            /\ client'[c].queue = <<>> /\ client'[c].outstanding = {}
  <2>1. client[c] \in ClientStates /\ DOMAIN client = Clients
    BY <1>2, ClientFields DEF TypeOK
  <2>2. ~(e.retries < MaxRetries) => e.retries = MaxRetries
    BY <1>2, <1>5
  <2>3. client[c].outstanding = {f}
    BY <1>4
  <2>4. CASE /\ e.retries < MaxRetries /\ frames = <<f>>
             /\ client' = [client EXCEPT ![c] =
                  [client[c] EXCEPT !.queue = <<[e EXCEPT !.retries = @ + 1]>>]]
    <3>1. client'[c] = [client[c] EXCEPT !.queue = <<[e EXCEPT !.retries = @ + 1]>>]
      BY <1>2, <2>1, <2>4
    <3> QED
      BY <1>1, <2>1, <2>3, <2>4, <3>1 DEF ClientStates
  <2>5. CASE /\ ~(e.retries < MaxRetries) /\ frames = <<>>
             /\ client' = [client EXCEPT ![c] =
                  [client[c] EXCEPT !.queue = <<>>, !.outstanding = {}]]
    <3>1. client'[c] = [client[c] EXCEPT !.queue = <<>>, !.outstanding = {}]
      BY <1>2, <2>1, <2>5
    <3> QED
      BY <1>1, <2>1, <2>2, <2>5, <3>1 DEF ClientStates
  <2> QED
    BY <1>7, <2>4, <2>5
<1>9. /\ n \in Conns /\ ConnOf(c) = n /\ \A k \in Conns : k # n => link'[k] = link[k]
      /\ link'[n].gateway_end = link[n].gateway_end
      /\ link'[n].down = link[n].down
      /\ link'[n].up = IF link[n].gateway_end = "closed" THEN up ELSE up \o frames
  <2>1. link' = [link EXCEPT ![ConnOf(c)] = SentUp(@, frames)]
    BY <1>7
  <2> QED
    BY <1>0, <1>3, <2>1, SoloSends, ZenonT(60)
<1>10. /\ SeqOf(Sent(c))' = sent /\ Sent(c)' = Sent(c)
       /\ SeqOf(client[c].order_id)' = SeqOf(client[c].order_id)
  BY <1>0, <1>8 DEF Sent, SeqOf
<1>11. NumberInv(c)'
  BY <1>1, <1>8, <1>10 DEF NumberInv
<1>12. /\ e.retries < MaxRetries =>
             /\ Len(client'[c].queue) = 1 /\ client'[c].queue # <<>>
             /\ client'[c].queue[1].seq_start = sent
             /\ client'[c].queue[1].seq_end = SeqOf(client[c].order_id)
             /\ client'[c].queue[1].retries = e.retries + 1
       /\ Resent(c)' = IF e.retries < MaxRetries THEN e.retries + 1 ELSE MaxRetries
  <2> DEFINE e2 == [e EXCEPT !.retries = @ + 1]
  <2>1. /\ e2.seq_start = e.seq_start /\ e2.seq_end = e.seq_end
        /\ e2.retries = e.retries + 1
    BY <1>5 DEF Entries
  <2>2. e.seq_start = sent /\ e.seq_end = SeqOf(client[c].order_id)
    BY <1>4 DEF e, queue
  <2> HIDE DEF e2
  <2>3. CASE e.retries < MaxRetries
    <3>1. e.retries # MaxRetries
      BY <1>2, <1>5, <2>3
    <3>2. client'[c].queue = <<e2>>
      BY <1>8, <3>1 DEF e2
    <3> QED
      BY <2>1, <2>2, <2>3, <3>2 DEF Resent
  <2>4. CASE ~(e.retries < MaxRetries)
    <3>1. client'[c].queue = <<>>
      BY <1>8, <2>4
    <3> QED
      BY <2>4, <3>1 DEF Resent
  <2> QED
    BY <2>3, <2>4
<1>13. SegmentInv(c)'
  <2>1. CASE e.retries < MaxRetries
    <3>1. client'[c].outstanding = {f}
      BY <1>2, <1>5, <1>8, <2>1
    <3> QED
      BY <1>4, <1>8, <1>10, <1>12, <2>1, <3>1 DEF SegmentInv
  <2>2. CASE ~(e.retries < MaxRetries)
    BY <1>8, <2>2 DEF SegmentInv
  <2> QED
    BY <2>1, <2>2
<1>14. AcceptInv(c)' /\ SerialInv(c)'
  BY <1>0, <1>1, <1>8, <1>9, SerialAfterClient
<1>15. n[2] = client[c].made /\ \A k \in Conns : k[2] = client[c].made => k = n
  BY <1>0, <1>9, SoloOpen
<1>16. Unanswered(c)
  <2>1. link[n].down = <<>>
    BY <1>1, <1>9
  <2>2. ~Answered(c)
    <3>1. Len(<<>>) # 1
      OBVIOUS
    <3> QED
      BY <1>9, <1>15, <2>1, <3>1 DEF Answered
  <2> QED
    BY <1>1, <2>2 DEF PhaseInv, AtRest, Over
<1>17. /\ link[n].down = <<>>
       /\ Stale(up, expected) \/ up[1].seq = sent
       /\ InRing(n) => Dead(buf, expected) \/ buf[1].seq = sent
       /\ Len(up) <= MaxRetries + 2 + e.retries
       /\ InRing(n) /\ ~Dead(buf, expected) => Len(up) <= e.retries
       /\ up \in Seq(UpFrames) /\ Len(up) \in Nat
  <2>1. up \in Seq(UpFrames)
    BY <1>2, <1>9, LinkFields
  <2> QED
    BY <1>0, <1>1, <1>6, <1>9, <1>15, <1>16, <2>1 DEF Unanswered
<1>18. FramesUpTo(c, sent)'
  <2>1. FramesUpTo(c, sent)
    BY <1>0, <1>16 DEF Unanswered
  <2>2. ASSUME frames = <<f>>
        PROVE  Past(up \o frames, sent, sent, client[c].req)
    <3>1. Past(up, sent, sent, client[c].req)
      BY <1>0, <1>9, <2>1 DEF FramesUpTo
    <3>2. e.retries < MaxRetries
      <4>1. <<f>> # <<>>
        OBVIOUS
      <4> QED
        BY <1>8, <2>2, <4>1
    <3>3. Len(up) < MaxFrames /\ MaxFrames \in Nat
      BY <1>2, <1>5, <1>17, <3>2 DEF MaxFrames
    <3>4. f.seq <= sent /\ f.payload = client[c].req
      BY <1>2, <1>4
    <3> HIDE DEF up
    <3>5. Past(up \o <<f>>, sent, sent, client[c].req)
      BY <1>17, <3>1, <3>3, <3>4, PastSent
    <3> QED
      BY <2>2, <3>5
  <2>3. frames = <<>> => up \o frames = up
    BY <1>17
  <2>4. \A k \in Conns : \/ link'[k].up = link[k].up
                         \/ Past(link'[k].up, sent, SeqOf(Sent(c)), client'[c].req)
    BY <1>0, <1>8, <1>9, <2>2, <2>3
  <2>5. client'[c].order_id = Sent(c) + 1 /\ Sent(c) <= Sent(c) /\ sent <= sent
    BY <1>2, <1>8
  <2> QED
    BY <1>1, <1>2, <1>8, <2>1, <2>4, <2>5, FramesAfterClient
<1>19. \A k \in Conns : k[2] < client'[c].made => Idle(k)'
  <2>1. \A k \in Conns : k[2] < client[c].made => k # n /\ Idle(k)
    <3>1. \A k \in Conns : k[2] \in 1..MaxConns
      BY SoloConns
    <3>2. \A k \in Conns : k[2] < client[c].made => k # n
      BY <1>15, <3>1
    <3> QED
      BY <3>2 DEF PhaseInv
  <2> QED
    BY <1>2, <1>8, <1>9, <2>1
<1>20. /\ link'[n].down = <<>>
       /\ Stale(link'[n].up, expected) \/ link'[n].up[1].seq = sent
       /\ Len(link'[n].up) <= MaxRetries + 2 + Resent(c)'
       /\ InRing(n) /\ ~Dead(buf, expected) => Len(link'[n].up) <= Resent(c)'
  <2> DEFINE more == up \o <<f>>
  <2>1. link'[n].down = <<>>
    BY <1>9, <1>17
  <2>2. link'[n].up = up \/ (link'[n].up = more /\ e.retries < MaxRetries)
    <3>1. frames = <<>> => up \o frames = up
      BY <1>17
    <3> QED
      BY <1>8, <1>9, <3>1
  <2>3. Resent(c)' \in Nat /\ Resent(c)' >= e.retries
        /\ (e.retries < MaxRetries => Resent(c)' = e.retries + 1)
    BY <1>2, <1>5, <1>12
  <2> DEFINE alive == InRing(n) /\ ~Dead(buf, expected)
             length == Len(up)
             retries == e.retries
             resent == Resent(c)'
  <2>a. /\ MaxRetries \in Nat /\ retries \in Nat /\ length \in Nat
        /\ length <= MaxRetries + 2 + retries /\ (alive => length <= retries)
    BY <1>2, <1>5, <1>17
  <2>b. /\ resent \in Nat /\ resent >= retries
        /\ (retries < MaxRetries => resent = retries + 1)
    BY <2>3
  <2>c. /\ length <= MaxRetries + 2 + resent /\ (alive => length <= resent)
        /\ retries < MaxRetries =>
              /\ length + 1 <= MaxRetries + 2 + resent
              /\ alive => length + 1 <= resent
    <3> HIDE DEF alive, length, retries, resent
    <3> QED
      BY <2>a, <2>b
  <2>4. CASE link'[n].up = up
    <3>1. Len(up) <= MaxRetries + 2 + Resent(c)'
      BY <2>c
    <3>2. InRing(n) /\ ~Dead(buf, expected) => Len(up) <= Resent(c)'
      BY <2>c
    <3> HIDE DEF up
    <3> QED
      BY <1>17, <2>1, <2>4, <3>1, <3>2
  <2>5. CASE link'[n].up = more /\ e.retries < MaxRetries
    <3>1. Len(more) = Len(up) + 1
      BY <1>17
    <3>2. Len(more) <= MaxRetries + 2 + Resent(c)'
      BY <2>c, <2>5, <3>1
    <3>3. InRing(n) /\ ~Dead(buf, expected) => Len(more) <= Resent(c)'
      BY <2>c, <2>5, <3>1
    <3>4. Stale(more, expected) \/ more[1].seq = sent
      <4>1. CASE up = <<>>
        <5>1. more[1] = f
          BY <1>17, <4>1
        <5> QED
          BY <1>4, <5>1
      <4>2. CASE up # <<>>
        <5>1. more[1] = up[1]
          BY <1>17, <4>2
        <5> QED
          BY <1>17, <4>2, <5>1 DEF Stale
      <4> QED
        BY <4>1, <4>2
    <3> HIDE DEF more
    <3> QED
      BY <2>1, <2>5, <3>2, <3>3, <3>4
  <2> QED
    BY <2>2, <2>4, <2>5
<1>21. Unanswered(c)'
  <2>1. \A k \in Conns : k[2] = client'[c].made => k = n
    BY <1>8, <1>15
  <2>2. AppliedBelow(c, Sent(c))'
    BY <1>2, <1>10, <1>16 DEF Unanswered, AppliedBelow
  <2>3. /\ client[c].order_id > 1 /\ Accepted(client[c].shadow, client[c].req)
        /\ client[c].idles \/ live_orders = client[c].shadow
    BY <1>16 DEF Unanswered
  <2>4. FramesUpTo(c, SeqOf(Sent(c)))'
    BY <1>10, <1>18 DEF FramesUpTo
  <2> HIDE DEF up
  <2>5. ASSUME NEW k \in Conns, k[2] = client'[c].made
        PROVE  LET up2 == link'[k].up
                   dead == Dead(buf', ctx'[k].tcp.recv_seq)
               IN  /\ link'[k].down = <<>>
                   /\ Stale(up2, ctx'[k].tcp.recv_seq) \/ up2[1].seq = sent
                   /\ InRing(k)' => dead \/ buf'[1].seq = sent
                   /\ Len(up2) <= MaxRetries + 2 + Resent(c)'
                   /\ InRing(k)' /\ ~dead => Len(up2) <= Resent(c)'
    <3>1. k = n /\ ctx' = ctx /\ buf' = buf
      BY <1>2, <2>1, <2>5
    <3> QED
      BY <1>2, <1>17, <1>20, <3>1
  <2> QED
    BY <1>2, <1>8, <1>10, <2>2, <2>3, <2>4, <2>5 DEF Unanswered
<1>22. PhaseInv(c)'
  BY <1>19, <1>21 DEF PhaseInv
<1> QED
  BY <1>11, <1>13, <1>14, <1>22

\* What a close by the client changes in the streams.
LEMMA SoloCloses ==
    ASSUME NEW c, Clients = {c}, IndInv
    PROVE  \A k \in Conns :
              /\ LinksAfterClose(c)[k].gateway_end = link[k].gateway_end
              /\ LinksAfterClose(c)[k].up = link[k].up
              /\ LinksAfterClose(c)[k].down \in {link[k].down, <<>>}
<1>1. c \in Clients
  OBVIOUS
<1>2. CASE HasConn(c)
  <2>1. ConnOf(c) \in Conns /\ link[ConnOf(c)] \in Links /\ link \in [Conns -> Links]
    BY <1>1, <1>2, ConnOfFacts, LinkFields DEF IndInv, TypeOK
  <2>2. LinksAfterClose(c) = [link EXCEPT ![ConnOf(c)] = ClosedByClient(link[ConnOf(c)])]
    BY <1>2 DEF LinksAfterClose
  <2>3. LinksAfterClose(c)[ConnOf(c)].down = <<>>
    <3>1. ClosedByClient(link[ConnOf(c)]).down = <<>>
      BY <2>1 DEF ClosedByClient, Links
    <3> QED
      BY <2>1, <2>2, <3>1
  <2> QED
    BY <1>1, <1>2, <2>3, CloseLinks
<1>3. CASE ~HasConn(c)
  BY <1>3 DEF LinksAfterClose
<1> QED
  BY <1>2, <1>3

\* A step of the client that sends nothing: a connect that fails, or the end.
LEMMA SilentSolo ==
    ASSUME NEW c, Clients = {c}, NoWrap, IndInv, NumberInv(c), SegmentInv(c),
           AcceptInv(c), SerialInv(c), PhaseInv(c), UNCHANGED <<backlog, gateway>>,
           NEW r, client' = [client EXCEPT ![c] = r],
           r.idles = client[c].idles, r.made = client[c].made,
           r.order_id = client[c].order_id, r.req = client[c].req,
           r.shadow = client[c].shadow, r.queue = client[c].queue,
           r.outstanding = client[c].outstanding, r.conn = client[c].conn,
           \/ r.pc = "stopped" /\ r.fd = 0
           \/ r.pc = "top" /\ client[c].pc = "top",
           \A k \in Conns : /\ link'[k].gateway_end = link[k].gateway_end
                            /\ link'[k].up = link[k].up
                            /\ link'[k].down \in {link[k].down, <<>>}
    PROVE  NumberInv(c)' /\ SegmentInv(c)' /\ AcceptInv(c)' /\ SerialInv(c)'
           /\ PhaseInv(c)'
<1>1. client'[c] = r /\ UNCHANGED gateway /\ UNCHANGED <<gateway, backlog>>
  BY DEF IndInv, TypeOK
<1>2. NumberInv(c)'
  BY <1>1 DEF NumberInv, SeqOf, Sent
<1>3. SegmentInv(c)'
  <2>1. \/ r.queue = <<>> /\ r.outstanding = {}
        \/ r.pc = "stopped" /\ ~(client[c].queue = <<>> /\ client[c].outstanding = {})
    BY DEF SegmentInv
  <2> QED
    BY <1>1, <2>1 DEF SegmentInv, SeqOf, Sent
<1>4. AcceptInv(c)' /\ SerialInv(c)'
  BY <1>1, SerialAfterClient
<1>5. PhaseInv(c)'
  BY <1>1, SilentPhase
<1> QED
  BY <1>2, <1>3, <1>4, <1>5

LEMMA StopSolo ==
    ASSUME NEW c, Clients = {c}, NoWrap, IndInv, NumberInv(c), SegmentInv(c),
           AcceptInv(c), SerialInv(c), PhaseInv(c), Stop(c)
    PROVE  NumberInv(c)' /\ SegmentInv(c)' /\ AcceptInv(c)' /\ SerialInv(c)'
           /\ PhaseInv(c)'
<1> DEFINE r == [client[c] EXCEPT !.pc = "stopped", !.state = "STOPPED", !.fd = 0]
           fin == IF client[c].state = "ACTIVE" /\ ClosesActively(client[c].conn)
                  THEN <<FinFrame(InitiateClose(client[c].conn))>> ELSE <<>>
<1>1. c \in Clients /\ TypeOK /\ client[c].conn.state = "CLOSED" /\ client[c] \in ClientStates
  BY ClientFields DEF IndInv, ClientInv
<1>2. fin = <<>>
  <2>1. ~ClosesActively(client[c].conn)
    BY <1>1, Zenon DEF ClosesActively, InitiateClose
  <2> QED
    BY <2>1
<1>3. client' = [client EXCEPT ![c] = r] /\ UNCHANGED <<backlog, gateway>>
  BY DEF Stop
<1>4. link' = LinksAfterClose(c)
  <2>1. CASE HasConn(c)
    <3>1. link' = [link EXCEPT ![ConnOf(c)] = ClosedByClient(SentUp(@, <<>>))]
      BY <1>2, <2>1 DEF Stop
    <3>2. link[ConnOf(c)] \in Links
      BY <1>1, <2>1, ConnOfFacts, LinkFields DEF IndInv
    <3>3. link[ConnOf(c)].up \o <<>> = link[ConnOf(c)].up
      BY <3>2 DEF Links
    <3>4. SentUp(link[ConnOf(c)], <<>>) = link[ConnOf(c)]
      BY <3>2, <3>3 DEF SentUp, Links
    <3> QED
      BY <2>1, <3>1, <3>4 DEF LinksAfterClose
  <2>2. CASE ~HasConn(c)
    BY <2>2 DEF Stop, LinksAfterClose
  <2> QED
    BY <2>1, <2>2
<1>5. /\ r.idles = client[c].idles /\ r.made = client[c].made
      /\ r.order_id = client[c].order_id /\ r.req = client[c].req
      /\ r.shadow = client[c].shadow /\ r.queue = client[c].queue
      /\ r.outstanding = client[c].outstanding /\ r.conn = client[c].conn
      /\ r.pc = "stopped" /\ r.fd = 0
  BY <1>1 DEF ClientStates
<1> HIDE DEF r, fin
<1>6. \A k \in Conns : /\ link'[k].gateway_end = link[k].gateway_end
                       /\ link'[k].up = link[k].up
                       /\ link'[k].down \in {link[k].down, <<>>}
  BY <1>4, SoloCloses
<1> QED
  BY <1>3, <1>5, <1>6, SilentSolo

LEMMA FailSolo ==
    ASSUME NEW c, Clients = {c}, NoWrap, IndInv, NumberInv(c), SegmentInv(c),
           AcceptInv(c), SerialInv(c), PhaseInv(c), ConnectFails(c) \/ ReconnectFails(c)
    PROVE  NumberInv(c)' /\ SegmentInv(c)' /\ AcceptInv(c)' /\ SerialInv(c)'
           /\ PhaseInv(c)'
<1>1. c \in Clients /\ TypeOK /\ client[c] \in ClientStates
  BY ClientFields DEF IndInv
<1>2. CASE ConnectFails(c)
  <2> DEFINE r == [client[c] EXCEPT !.pc = "stopped", !.state = "STOPPED"]
  <2>1. client[c].fd = 0
    BY <1>1, <1>2 DEF ConnectFails, IndInv, ClientInv
  <2>2. /\ r.idles = client[c].idles /\ r.made = client[c].made
        /\ r.order_id = client[c].order_id /\ r.req = client[c].req
        /\ r.shadow = client[c].shadow /\ r.queue = client[c].queue
        /\ r.outstanding = client[c].outstanding /\ r.conn = client[c].conn
        /\ r.pc = "stopped" /\ r.fd = 0
    BY <1>1, <2>1 DEF ClientStates
  <2>3. client' = [client EXCEPT ![c] = r] /\ UNCHANGED <<backlog, gateway>> /\ link' = link
    BY <1>2 DEF ConnectFails
  <2> HIDE DEF r
  <2> QED
    BY <2>2, <2>3, SilentSolo
<1>3. CASE ReconnectFails(c)
  <2> DEFINE r == [client[c] EXCEPT !.state = "RETRYING", !.fd = 0]
  <2>1. client[c].pc = "top"
    BY <1>3 DEF ReconnectFails
  <2>2. /\ r.idles = client[c].idles /\ r.made = client[c].made
        /\ r.order_id = client[c].order_id /\ r.req = client[c].req
        /\ r.shadow = client[c].shadow /\ r.queue = client[c].queue
        /\ r.outstanding = client[c].outstanding /\ r.conn = client[c].conn
        /\ r.pc = "top"
    BY <1>1, <2>1 DEF ClientStates
  <2>3. /\ client' = [client EXCEPT ![c] = r] /\ UNCHANGED <<backlog, gateway>>
        /\ link' = LinksAfterClose(c)
    BY <1>3 DEF ReconnectFails
  <2> HIDE DEF r
  <2>4. \A k \in Conns : /\ link'[k].gateway_end = link[k].gateway_end
                         /\ link'[k].up = link[k].up
                         /\ link'[k].down \in {link[k].down, <<>>}
    BY <2>3, SoloCloses
  <2> QED
    BY <2>1, <2>2, <2>3, <2>4, SilentSolo
<1> QED
  BY <1>2, <1>3

\* A new connection: nothing is on it yet.
LEMMA ConnectSolo ==
    ASSUME NEW c, Clients = {c}, NoWrap, IndInv, NumberInv(c), SegmentInv(c),
           AcceptInv(c), SerialInv(c), PhaseInv(c), Connect(c) \/ Reconnect(c)
    PROVE  NumberInv(c)' /\ SegmentInv(c)' /\ AcceptInv(c)' /\ SerialInv(c)'
           /\ PhaseInv(c)'
<1>0. PICK n : n = NextConn(c)
  OBVIOUS
<1>1. c \in Clients /\ TypeOK /\ client[c] \in ClientStates /\ client[c].made \in 0..MaxConns
  BY ClientFields, SoloOpen DEF IndInv
<1>2. PICK r :
         /\ client' = [client EXCEPT ![c] = r]
         /\ r.idles = client[c].idles /\ r.made = client[c].made + 1
         /\ r.order_id = client[c].order_id /\ r.req = client[c].req
         /\ r.shadow = client[c].shadow /\ r.queue = client[c].queue
         /\ r.outstanding = client[c].outstanding /\ r.conn = client[c].conn
         /\ r.pc \in {"top", "loop"} /\ (r.pc = "top" => client[c].pc = "start")
         /\ client[c].pc \in {"start", "top"} /\ client[c].made < MaxConns
         /\ link' = [LinksAfterClose(c) EXCEPT ![NextConn(c)] = Opened(@)]
  <2>1. CASE Connect(c)
    <3> DEFINE r == [client[c] EXCEPT !.pc = "top", !.state = "ACTIVE", !.fd = 1, !.made = 1]
    <3>1. client[c].pc = "start" /\ client' = [client EXCEPT ![c] = r]
          /\ link' = [link EXCEPT ![NextConn(c)] = Opened(@)]
      BY <2>1 DEF Connect
    <3>2. client[c].made = 0 /\ client[c].fd = 0
      BY <1>1, <3>1 DEF IndInv, ClientInv
    <3>3. LinksAfterClose(c) = link
      BY <3>2 DEF LinksAfterClose, HasConn
    <3>4. /\ r.idles = client[c].idles /\ r.made = 1
          /\ r.order_id = client[c].order_id /\ r.req = client[c].req
          /\ r.shadow = client[c].shadow /\ r.queue = client[c].queue
          /\ r.outstanding = client[c].outstanding /\ r.conn = client[c].conn
          /\ r.pc = "top"
      BY <1>1 DEF ClientStates
    <3>5. 1 = 0 + 1 /\ 0 < MaxConns
      BY NumbersAssumption
    <3> HIDE DEF r
    <3> QED
      BY <3>1, <3>2, <3>3, <3>4, <3>5
  <2>2. CASE Reconnect(c)
    <3> DEFINE r == [client[c] EXCEPT !.pc = "loop", !.state = "ACTIVE",
                                      !.fd = client[c].made + 1, !.made = client[c].made + 1]
    <3>1. client[c].pc = "top" /\ client' = [client EXCEPT ![c] = r]
          /\ link' = [LinksAfterClose(c) EXCEPT ![NextConn(c)] = Opened(@)]
          /\ client[c].made < MaxConns
      BY <2>2 DEF Reconnect
    <3>2. /\ r.idles = client[c].idles /\ r.made = client[c].made + 1
          /\ r.order_id = client[c].order_id /\ r.req = client[c].req
          /\ r.shadow = client[c].shadow /\ r.queue = client[c].queue
          /\ r.outstanding = client[c].outstanding /\ r.conn = client[c].conn
          /\ r.pc = "loop"
      BY <1>1 DEF ClientStates
    <3> HIDE DEF r
    <3> QED
      BY <3>1, <3>2
  <2> QED
    BY <2>1, <2>2
<1>3. backlog' = Append(backlog, n) /\ UNCHANGED gateway
  BY <1>0 DEF Connect, Reconnect
<1>4. client'[c] = r
  BY <1>1, <1>2 DEF TypeOK
<1>5. n \in Conns /\ n[2] = client[c].made + 1 /\ n[1] = c
  <2>1. client[c].made + 1 \in 1..MaxConns
    BY <1>1, <1>2, NumbersAssumption
  <2> QED
    BY <1>0, <2>1, SoloConns DEF NextConn
<1>6. link[n] = NoLink
  <2>1. n[2] > client[n[1]].made
    BY <1>1, <1>5
  <2> QED
    BY <1>5, <2>1 DEF IndInv, LinkInv
<1>7. n # ConnOf(c)
  <2>1. client[c].fd \in {0, client[c].made} /\ client[c].fd # client[c].made + 1
    BY <1>1 DEF IndInv, ClientInv
  <2> QED
    BY <1>5, <2>1 DEF ConnOf
<1>8. LinksAfterClose(c) \in [Conns -> Links] /\ LinksAfterClose(c)[n] = link[n]
  BY <1>1, <1>5, <1>7, CloseLinks
<1>9. link'[n] = Opened(NoLink)
  BY <1>0, <1>2, <1>5, <1>6, <1>8
<1>10. link'[n].up = <<>> /\ link'[n].down = <<>>
  BY <1>9 DEF Opened, NoLink
<1>11. \A k \in Conns : k # n =>
          /\ link'[k].gateway_end = link[k].gateway_end
          /\ link'[k].down \in {link[k].down, <<>>}
          /\ link'[k].up = link[k].up
  <2>1. \A k \in Conns : k # n => link'[k] = LinksAfterClose(c)[k]
    BY <1>0, <1>2, <1>8
  <2> QED
    BY <2>1, SoloCloses
<1>12. NumberInv(c)'
  BY <1>2, <1>4 DEF NumberInv, SeqOf, Sent
<1>13. SegmentInv(c)'
  <2>1. r.queue = <<>> /\ r.outstanding = {}
    BY <1>2 DEF SegmentInv
  <2> QED
    BY <1>4, <2>1 DEF SegmentInv
<1>14. AcceptInv(c)' /\ SerialInv(c)'
  BY <1>0, <1>2, <1>3, <1>4, <1>5, <1>9, <1>11, SerialAfterConnect
<1>15. PhaseInv(c)'
  BY <1>2, <1>3, <1>4, <1>5, <1>10, <1>11, ConnectPhase
<1> QED
  BY <1>12, <1>13, <1>14, <1>15

\* Every step of the client keeps the four parts.
LEMMA ClientSolo ==
    ASSUME NEW c, Clients = {c}, NoWrap, IndInv, NumberInv(c), SegmentInv(c),
           AcceptInv(c), SerialInv(c), PhaseInv(c), ClientStep(c)
    PROVE  NumberInv(c)' /\ SegmentInv(c)' /\ AcceptInv(c)' /\ SerialInv(c)'
           /\ PhaseInv(c)'
<1>1. CASE Connect(c) \/ Reconnect(c)
  BY <1>1, ConnectSolo
<1>2. CASE ConnectFails(c) \/ ReconnectFails(c)
  BY <1>2, FailSolo
<1>3. CASE SendKeepalive(c)
  BY <1>3, SendKeepaliveSolo
<1>4. CASE \E req \in NextRequests(c) : SendOrder(c, req)
  BY <1>4, SendOrderSolo
<1>5. CASE WriteFails(c) \/ Interrupted(c) \/ ReadEof(c)
  <2>1. Stop(c)
    BY <1>5 DEF WriteFails, Interrupted, ReadEof
  <2> QED
    BY <2>1, StopSolo
<1>6. CASE ReadAck(c)
  BY <1>6, ReadAckSolo
<1>7. CASE \E due \in SUBSET {e.seq_start : e \in Range(client[c].queue)} :
              ReadTimeout(c, due)
  BY <1>7, ReadTimeoutSolo
<1> QED
  BY <1>1, <1>2, <1>3, <1>4, <1>5, <1>6, <1>7 DEF ClientStep, ReadReturns

\* A single client starts with the invariant.
LEMMA InitSolo ==
    ASSUME NEW c, Clients = {c}, NoWrap, Init
    PROVE  SoloInv
<1>1. PICK idles \in Keepalives :
         client = [d \in Clients |->
                     [idles |-> idles, pc |-> "start", state |-> "CONNECTING",
                      fd |-> 0, made |-> 0, conn |-> NewConnection, order_id |-> 1,
                      req |-> NoRequest, shadow |-> {}, queue |-> <<>>,
                      outstanding |-> {}, left |-> 0]]
  BY DEF Init
<1>2. /\ client[c].pc = "start" /\ client[c].made = 0 /\ client[c].order_id = 1
      /\ client[c].conn = NewConnection /\ client[c].queue = <<>>
      /\ client[c].outstanding = {} /\ client[c].shadow = {}
  BY <1>1
<1>3. /\ buf = <<>> /\ ring = <<>> /\ applied = <<>> /\ live_orders = {} /\ batch = {}
      /\ backlog = <<>>
      /\ link = [k \in Conns |-> NoLink]
      /\ ctx = [k \in Conns |-> [tcp |-> NewConnection, reassembly |-> NoSegments]]
  BY DEF Init
<1>4. \A k \in Conns : /\ link[k].up = <<>> /\ link[k].down = <<>>
                       /\ link[k].gateway_end = "none"
  BY <1>3 DEF NoLink
<1>5. \A k \in Conns : k[2] \in 1..MaxConns /\ ~(k[2] < 0) /\ k[2] # 0
  <2>1. \A k \in Conns : k[2] \in 1..MaxConns
    BY SoloConns
  <2> QED
    BY <2>1
<1>6. Len(<<>>) = 0 /\ MaxFrames \in Nat /\ Len(ring) <= 1
  BY <1>3, NumbersAssumption DEF MaxFrames
<1>7. NumberInv(c)
  <2>1. SeqOf(1) = 1
    BY DEF SeqOf, OrderLen
  <2>2. NewConnection.send_seq = 1
    BY DEF NewConnection
  <2> QED
    BY <1>2, <2>1, <2>2 DEF NumberInv
<1>8. SegmentInv(c)
  BY <1>2 DEF SegmentInv
<1>9. SerialInv(c)
  <2>1. \A k \in Conns : ctx[k] = [tcp |-> NewConnection, reassembly |-> NoSegments]
    BY <1>3
  <2> QED
    BY <1>2, <1>3, <1>4, <1>5, <1>6, <2>1 DEF SerialInv
<1>10. \A last, sent, req : Past(<<>>, last, sent, req)
  BY <1>6, PastNothing
<1>11. \A k \in Conns : DOMAIN ctx[k].reassembly = {}
  <2>1. DOMAIN NoSegments = {}
    BY DEF NoSegments
  <2> QED
    BY <1>3, <2>1
<1>12. \A last : FramesUpTo(c, last)
  BY <1>3, <1>4, <1>6, <1>10, <1>11 DEF FramesUpTo
<1>13. AppliedBelow(c, 1) /\ AppliedInOrder
  BY <1>3, <1>6 DEF AppliedBelow, AppliedInOrder
<1>14. AtRest(c)
  BY <1>2, <1>3, <1>5, <1>12, <1>13 DEF AtRest
<1>15. PhaseInv(c)
  BY <1>2, <1>5, <1>14 DEF PhaseInv
<1>16. AcceptInv(c)
  <2>1. AcceptedOf(c) = 0
    <3>1. client[c].made = 0 /\ Len(backlog) = 0
      BY <1>2, <1>3, <1>6
    <3> QED
      BY <3>1 DEF AcceptedOf
  <2>2. \A k \in Conns : ~(k[2] <= 0)
    BY <1>5
  <2> QED
    BY <1>3, <1>4, <1>6, <2>1, <2>2 DEF AcceptInv
<1> QED
  BY <1>7, <1>8, <1>9, <1>13, <1>15, <1>16, InitHolds DEF SoloInv

\* Every step keeps the invariant of a single client.
LEMMA StepSolo ==
    ASSUME NEW c, Clients = {c}, NoWrap, RoomForAll, SoloInv, [Next]_vars
    PROVE  SoloInv'
<1>1. /\ IndInv /\ AppliedInOrder /\ NumberInv(c) /\ SegmentInv(c) /\ AcceptInv(c)
      /\ SerialInv(c) /\ PhaseInv(c)
  BY DEF SoloInv
<1>2. IndInv'
  BY <1>1, StepHolds
<1> SUFFICES /\ AppliedInOrder'
             /\ NumberInv(c)' /\ SegmentInv(c)' /\ AcceptInv(c)' /\ SerialInv(c)'
             /\ PhaseInv(c)'
  BY <1>2 DEF SoloInv
<1>3. CASE \E d \in Clients : ClientStep(d)
  <2>1. ClientStep(c)
    BY <1>3, ZenonT(60)
  <2>2. applied' = applied
    BY <2>1 DEF ClientStep, ReadReturns, Connect, ConnectFails, Reconnect, ReconnectFails,
                SendKeepalive, SendOrder, WriteFails, ReadAck, ReadEof, ReadTimeout,
                Interrupted, Stop, gateway
  <2>3. AppliedInOrder'
    BY <1>1, <2>2 DEF AppliedInOrder
  <2> QED
    BY <1>1, <2>1, <2>3, ClientSolo
<1>4. CASE GatewayStep
  BY <1>1, <1>2, <1>4, GatewaySolo
<1>5. CASE DropDeadline \/ UNCHANGED vars
  <2>1. UNCHANGED <<client, link, backlog, ctx, batch, ring, buf, live_orders, applied>>
    BY <1>5 DEF DropDeadline, vars, gateway
  <2>2. AppliedInOrder'
    BY <1>1, <2>1 DEF AppliedInOrder
  <2>3. NumberInv(c)' /\ SegmentInv(c)'
    BY <1>1, <2>1 DEF NumberInv, SegmentInv, Sent
  <2>4. SerialInv(c)' /\ AcceptInv(c)'
    BY <1>1, <2>1, ZenonT(60) DEF SerialInv, Pending, InRing, Newest, ByteCount, AcceptInv,
                                  AcceptedOf
  <2>5. PhaseInv(c)'
    BY <1>1, <2>1, ZenonT(60) DEF PhaseInv, AtRest, Unanswered, Answered, Over, FramesUpTo,
                      AppliedBelow, Idle, InRing, Sent, Resent
  <2> QED
    BY <2>2, <2>3, <2>4, <2>5
<1> QED
  BY <1>3, <1>4, <1>5 DEF Next

-----------------------------------------------------------------------------
(***************************************************************************)
(* The theorems about a single client.                                     *)
(***************************************************************************)

\* One client and the gateway keep the phases of the last order, the order of
\* the connections and the bookkeeping of the segments, for any number of orders,
\* connections and retransmissions, with and without keepalives, slow answers and
\* the drop deadline, as long as no sequence number wraps and an epoll_wait reports
\* three events at once.
THEOREM SoloInvariant ==
    ASSUME NEW c, Clients = {c}, NoWrap, RoomForAll
    PROVE  Spec => []SoloInv
<1>1. Init => SoloInv
  BY InitSolo
<1>2. SoloInv /\ [Next]_vars => SoloInv'
  BY StepSolo
<1> QED
  BY <1>1, <1>2, PTL DEF Spec

\* The gateway applies every order of the client at most once, and in the order
\* the client sent them.
THEOREM OrdersAppliedInOrder ==
    ASSUME NEW c, Clients = {c}, NoWrap, RoomForAll
    PROVE  Spec => []AppliedInOrder
<1>1. SoloInv => AppliedInOrder
  BY DEF SoloInv
<1> QED
  BY <1>1, SoloInvariant, PTL

\* The shadow book of a client without keepalives is the gateway's order table,
\* but for the one order that is on its way.
THEOREM ShadowIsOrderTable ==
    ASSUME NEW c, Clients = {c}, NoWrap, RoomForAll
    PROVE  Spec => []BooksAgree
<1>1. ASSUME SoloInv
      PROVE  BooksAgree
  <2>1. PhaseInv(c)
    BY <1>1 DEF SoloInv
  <2>2. ASSUME ~client[c].idles
        PROVE  /\ client[c].pc \in {"top", "loop", "burst"} => live_orders = client[c].shadow
               /\ client[c].pc \in {"wait", "stopped"} =>
                     live_orders \in {client[c].shadow,
                                      Table(client[c].shadow, client[c].req)}
    BY <2>1, <2>2 DEF PhaseInv, AtRest, Unanswered, Answered, Over
  <2> QED
    BY <2>2 DEF BooksAgree
<1> QED
  BY <1>1, SoloInvariant, PTL

\* What is on its way to a client without keepalives is the one answer, and an
\* acceptance, to the order it waits for.
THEOREM AnswersMatchRequests ==
    ASSUME NEW c, Clients = {c}, NoWrap, RoomForAll
    PROVE  Spec => []AckAnswersRequest
<1>1. ASSUME SoloInv
      PROVE  AckAnswersRequest
  <2>1. IndInv /\ PhaseInv(c) /\ NumberInv(c)
    BY <1>1 DEF SoloInv
  <2>2. ASSUME ~client[c].idles, HasConn(c), link[ConnOf(c)].down # <<>>
        PROVE  /\ client[c].pc = "wait"
               /\ Len(link[ConnOf(c)].down) = 1
               /\ link[ConnOf(c)].down[1].payload = Ack(client[c].req, TRUE)
    <3>1. ConnOf(c) \in Conns /\ client[c].fd = client[c].made
      BY <2>1, <2>2, SoloConns, ConnOfFacts
    <3>2. ConnOf(c)[2] = client[c].made
      BY <3>1 DEF ConnOf
    <3>3. client[c].pc # "stopped"
      BY <2>1, <2>2 DEF NumberInv, HasConn
    <3>4. ~AtRest(c) /\ ~Unanswered(c) /\ ~Over(c)
      BY <2>2, <3>1, <3>2, <3>3 DEF AtRest, Unanswered, Over
    <3>5. Answered(c)
      BY <2>1, <3>4 DEF PhaseInv
    <3> QED
      BY <2>2, <3>1, <3>2, <3>5 DEF Answered
  <2> QED
    BY <2>2 DEF AckAnswersRequest
<1> QED
  BY <1>1, SoloInvariant, PTL

\* retrans_q and outstanding_segments list the same segment or are both empty.
THEOREM RetransmitBooksAgree ==
    ASSUME NEW c, Clients = {c}, NoWrap, RoomForAll
    PROVE  Spec => []RetransmitBookkeeping
<1>1. ASSUME SoloInv
      PROVE  RetransmitBookkeeping
  <2> DEFINE queue == client[c].queue
             outstanding == client[c].outstanding
  <2>1. SegmentInv(c) /\ TypeOK
    BY <1>1 DEF SoloInv, IndInv
  <2>2. queue \in Seq(Entries)
    BY <2>1, ClientFields
  <2>3. /\ {e.seq_start : e \in Range(queue)} = {f.seq : f \in outstanding}
        /\ Len(queue) = Cardinality(outstanding)
        /\ Len(queue) <= IF client[c].pc \in {"wait", "stopped"} THEN 1 ELSE 0
    <3>1. CASE queue = <<>> /\ outstanding = {}
      <4>1. Range(queue) = {} /\ Len(queue) = 0
        BY <3>1 DEF Range
      <4>2. Cardinality(outstanding) = 0
        BY <3>1, FS_EmptySet
      <4> HIDE DEF queue, outstanding
      <4>3. 0 <= IF client[c].pc \in {"wait", "stopped"} THEN 1 ELSE 0
        OBVIOUS
      <4> QED
        BY <3>1, <4>1, <4>2, <4>3
    <3>2. CASE ~(queue = <<>> /\ outstanding = {})
      <4>1. PICK f \in outstanding :
               /\ outstanding = {f} /\ f.seq = SeqOf(Sent(c))
               /\ Len(queue) = 1 /\ queue[1].seq_start = SeqOf(Sent(c))
               /\ client[c].pc \in {"wait", "stopped"}
        BY <2>1, <3>2 DEF SegmentInv
      <4>2. Range(queue) = {queue[1]}
        <5>1. DOMAIN queue = 1..1 /\ \A i \in 1..1 : i = 1
          BY <2>2, <4>1
        <5> QED
          BY <5>1 DEF Range
      <4>3. Cardinality(outstanding) = 1
        BY <4>1, FS_Singleton
      <4> HIDE DEF queue, outstanding
      <4>4. {e.seq_start : e \in Range(queue)} = {g.seq : g \in outstanding}
        BY <4>1, <4>2
      <4> QED
        BY <4>1, <4>3, <4>4
    <3> QED
      BY <3>1, <3>2
  <2> QED
    BY <2>3 DEF RetransmitBookkeeping
<1> QED
  BY <1>1, SoloInvariant, PTL

=============================================================================
