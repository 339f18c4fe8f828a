------------------------------ MODULE MpscQueue ------------------------------
(***************************************************************************)
(* The multi-producer single-consumer queue of                             *)
(* include/usn/core/mpsc_queue.hpp.  A producer claims a position by a CAS *)
(* on tail_ and only then writes the slot; the consumer finds the slot     *)
(* written by looking at the engaged flag of the std::optional in it.      *)
(*                                                                         *)
(* The slot is not atomic, so the flag and the payload are two stores, and *)
(* nothing in the code orders the one before the other: the consumer's     *)
(* has_value() races with buffer_[index] = value.  WriteOrders names the   *)
(* orders a build may emit; write_order is the one this build did.  With  *)
(* the build's own flags (-O2), GCC stores the payload before the flag for *)
(* MpscQueue<int>, the only instance in the repository, and the flag       *)
(* before the payload for a structure of three words.                      *)
(***************************************************************************)
EXTENDS Integers, Sequences

CONSTANTS
    Producers,      \* the producer threads
    Reliable,       \* those that are never suspended for good inside a push
    Capacity,       \* capacity_
    SizeMod,        \* 2^w for the width w of std::size_t
    WriteOrders,    \* orders of the two stores of buffer_[index] = value
    MaxPushes       \* bound on the positions claimed in one behaviour

ASSUME ProducersAssumption == Reliable \subseteq Producers
ASSUME CapacityAssumption == Capacity \in Nat \ {0}
ASSUME BoundsAssumption ==
    MaxPushes \in Nat /\ SizeMod \in Nat /\ SizeMod >= MaxPushes + Capacity
ASSUME WriteOrdersAssumption ==
    WriteOrders \subseteq {"payload_first", "flag_first"}

VARIABLES
    head,       \* head_
    tail,       \* tail_
    write_order,\* the order the build emits, the same for every push
    engaged,    \* engaged[s]: buffer_[s].has_value()
    payload,    \* payload[s]: the storage of the value in buffer_[s]
    p_pc,       \* where each producer is
    p_tail,     \* its local tail
    p_head,     \* its local head
    p_count,    \* how many of its calls of try_push returned true
    c_pc,       \* where the consumer is
    c_head,     \* its local head
    c_value,    \* its local value
    claimed,    \* history: the value pushed at each position, oldest first
    received    \* history: every value try_pop returned, oldest first

consumer == <<c_pc, c_head, c_value>>
vars == <<head, tail, engaged, payload, p_pc, p_tail, p_head, p_count,
          consumer, claimed, received, write_order>>

Slots == 0..(Capacity - 1)

\* index = position & mask_, for a capacity that is a power of two.
Index(pos) == pos % Capacity

\* The difference of two std::size_t.
Minus(a, b) == (a - b) % SizeMod

\* What the storage of a slot holds before a value was ever written to it.
NoValue == <<>>

\* Producer p pushes the values <<p, 1>>, <<p, 2>>, ... and retries a value
\* until it is accepted.
Value(p) == <<p, p_count[p] + 1>>

\* MpscQueue(capacity)
Init ==
    /\ head = 0
    /\ tail = 0
    /\ engaged = [s \in Slots |-> FALSE]
    /\ payload = [s \in Slots |-> NoValue]
    /\ p_pc = [p \in Producers |-> "idle"]
    /\ p_tail = [p \in Producers |-> 0]
    /\ p_head = [p \in Producers |-> 0]
    /\ p_count = [p \in Producers |-> 0]
    /\ c_pc = "idle" /\ c_head = 0 /\ c_value = NoValue
    /\ claimed = <<>>
    /\ received = <<>>
    /\ write_order \in WriteOrders

-----------------------------------------------------------------------------
(***************************************************************************)
(* try_push by producer p.                                                 *)
(***************************************************************************)

\* The call, and tail = tail_.load(relaxed).
LoadTail(p) ==
    /\ p_pc[p] = "idle"
    /\ Len(claimed) < MaxPushes
    /\ p_pc' = [p_pc EXCEPT ![p] = "load_head"]
    /\ p_tail' = [p_tail EXCEPT ![p] = tail]
    /\ UNCHANGED <<head, tail, engaged, payload, p_head, p_count, consumer,
                   claimed, received>>

\* The test for a full queue one too late.
LoadHeadOffByOne(p) ==
    /\ p_pc[p] = "load_head"
    /\ p_head' = [p_head EXCEPT ![p] = head]
    /\ p_pc' = [p_pc EXCEPT ![p] =
                  IF Minus(p_tail[p], head) > Capacity THEN "idle" ELSE "cas"]
    /\ UNCHANGED <<head, tail, engaged, payload, p_tail, p_count, consumer,
                   claimed, received>>

\* head = head_.load(acquire); the call returns false if tail - head, computed
\* in std::size_t, reaches the capacity.
LoadHead(p) ==
    /\ p_pc[p] = "load_head"
    /\ p_head' = [p_head EXCEPT ![p] = head]
    /\ p_pc' = [p_pc EXCEPT ![p] =
                  IF Minus(p_tail[p], head) >= Capacity THEN "idle" ELSE "cas"]
    /\ UNCHANGED <<head, tail, engaged, payload, p_tail, p_count, consumer,
                   claimed, received>>

\* A claim without the comparison: a plain store of tail + 1.
CasSucceedBlind(p) ==
    /\ p_pc[p] = "cas"
    /\ Len(claimed) < MaxPushes
    /\ tail' = p_tail[p] + 1
    /\ claimed' = Append(claimed, Value(p))
    /\ p_pc' = [p_pc EXCEPT ![p] = "write"]
    /\ UNCHANGED <<head, engaged, payload, p_tail, p_head, p_count, consumer,
                   received>>

\* compare_exchange_weak succeeds: position p_tail[p] belongs to p.
CasSucceed(p) ==
    /\ p_pc[p] = "cas"
    /\ tail = p_tail[p]
    /\ Len(claimed) < MaxPushes
    /\ tail' = tail + 1
    /\ claimed' = Append(claimed, Value(p))
    /\ p_pc' = [p_pc EXCEPT ![p] = "write"]
    /\ UNCHANGED <<head, engaged, payload, p_tail, p_head, p_count, consumer,
                   received>>

\* compare_exchange_weak fails, because another producer moved tail_ or for no
\* reason, and reloads tail; the loop goes round.
CasFail(p) ==
    /\ p_pc[p] = "cas"
    /\ p_tail' = [p_tail EXCEPT ![p] = tail]
    /\ p_pc' = [p_pc EXCEPT ![p] = "load_head"]
    /\ UNCHANGED <<head, tail, engaged, payload, p_head, p_count, consumer,
                   claimed, received>>

\* buffer_[index] = value, first store of two.
WriteFirst(p) ==
    /\ p_pc[p] = "write"
    /\ \/ /\ write_order = "payload_first"
          /\ payload' = [payload EXCEPT ![Index(p_tail[p])] = Value(p)]
          /\ p_pc' = [p_pc EXCEPT ![p] = "write_flag"]
          /\ UNCHANGED engaged
       \/ /\ write_order = "flag_first"
          /\ engaged' = [engaged EXCEPT ![Index(p_tail[p])] = TRUE]
          /\ p_pc' = [p_pc EXCEPT ![p] = "write_payload"]
          /\ UNCHANGED payload
    /\ UNCHANGED <<head, tail, p_tail, p_head, p_count, consumer, claimed,
                   received>>

\* buffer_[index] = value, second store of two; the call returns true.
WriteSecond(p) ==
    /\ \/ /\ p_pc[p] = "write_flag"
          /\ engaged' = [engaged EXCEPT ![Index(p_tail[p])] = TRUE]
          /\ UNCHANGED payload
       \/ /\ p_pc[p] = "write_payload"
          /\ payload' = [payload EXCEPT ![Index(p_tail[p])] = Value(p)]
          /\ UNCHANGED engaged
    /\ p_pc' = [p_pc EXCEPT ![p] = "idle"]
    /\ p_count' = [p_count EXCEPT ![p] = @ + 1]
    /\ UNCHANGED <<head, tail, p_tail, p_head, consumer, claimed, received>>

-----------------------------------------------------------------------------
(***************************************************************************)
(* try_pop by the consumer.                                                *)
(***************************************************************************)

\* The call, and head = head_.load(relaxed).
PopCall ==
    /\ c_pc = "idle"
    /\ c_pc' = "load_tail"
    /\ c_head' = head
    /\ UNCHANGED <<head, tail, engaged, payload, p_pc, p_tail, p_head, p_count,
                   c_value, claimed, received>>

\* tail = tail_.load(acquire); nullopt if head >= tail.
PopLoadTail ==
    /\ c_pc = "load_tail"
    /\ c_pc' = IF c_head >= tail THEN "idle" ELSE "check"
    /\ UNCHANGED <<head, tail, engaged, payload, p_pc, p_tail, p_head, p_count,
                   c_head, c_value, claimed, received>>

\* A consumer that trusts the position and not the flag.
PopCheckSkipped ==
    /\ c_pc = "check"
    /\ c_pc' = "take"
    /\ UNCHANGED <<head, tail, engaged, payload, p_pc, p_tail, p_head, p_count,
                   c_head, c_value, claimed, received>>

\* nullopt if the slot is claimed and not yet written.
PopCheck ==
    /\ c_pc = "check"
    /\ c_pc' = IF engaged[Index(c_head)] THEN "take" ELSE "idle"
    /\ UNCHANGED <<head, tail, engaged, payload, p_pc, p_tail, p_head, p_count,
                   c_head, c_value, claimed, received>>

\* value = std::move(*slot)
PopTake ==
    /\ c_pc = "take"
    /\ c_value' = payload[Index(c_head)]
    /\ c_pc' = "clear"
    /\ UNCHANGED <<head, tail, engaged, payload, p_pc, p_tail, p_head, p_count,
                   c_head, claimed, received>>

\* A consumer that advances without emptying the slot.
PopClearSkipped ==
    /\ c_pc = "clear"
    /\ c_pc' = "advance"
    /\ UNCHANGED <<head, tail, engaged, payload, p_pc, p_tail, p_head, p_count,
                   c_head, c_value, claimed, received>>

\* slot = std::nullopt
PopClear ==
    /\ c_pc = "clear"
    /\ engaged' = [engaged EXCEPT ![Index(c_head)] = FALSE]
    /\ c_pc' = "advance"
    /\ UNCHANGED <<head, tail, payload, p_pc, p_tail, p_head, p_count,
                   c_head, c_value, claimed, received>>

\* head_.store(head + 1, release); the call returns the value.
PopAdvance ==
    /\ c_pc = "advance"
    /\ head' = c_head + 1
    /\ received' = Append(received, c_value)
    /\ c_pc' = "idle"
    /\ UNCHANGED <<tail, engaged, payload, p_pc, p_tail, p_head, p_count,
                   c_head, c_value, claimed>>

-----------------------------------------------------------------------------
\* The rest of a push that p has begun.
PushStep(p) ==
    \/ LoadHead(p)
    \/ CasSucceed(p)
    \/ CasFail(p)
    \/ WriteFirst(p)
    \/ WriteSecond(p)

PopStep ==
    \/ PopCall
    \/ PopLoadTail
    \/ PopCheck
    \/ PopTake
    \/ PopClear
    \/ PopAdvance

Next ==
    /\ \/ \E p \in Producers : LoadTail(p) \/ PushStep(p)
       \/ PopStep
    /\ UNCHANGED write_order

Spec == Init /\ [][Next]_vars

\* The consumer polls for ever and a reliable producer that has begun a push is
\* scheduled until it returns.  Nothing says that a CAS must succeed, that a
\* producer calls try_push, or that the other producers run at all.
Fairness ==
    /\ WF_vars(PopStep /\ UNCHANGED write_order)
    /\ \A p \in Reliable : WF_vars(PushStep(p) /\ UNCHANGED write_order)

FairSpec == Spec /\ Fairness

-----------------------------------------------------------------------------
(***************************************************************************)
(* Properties.                                                             *)
(***************************************************************************)

Values == {NoValue} \cup (Producers \X (Nat \ {0}))

TypeOK ==
    /\ head \in Nat
    /\ tail \in Nat
    /\ engaged \in [Slots -> BOOLEAN]
    /\ payload \in [Slots -> Values]
    /\ p_pc \in [Producers ->
          {"idle", "load_head", "cas", "write", "write_flag", "write_payload"}]
    /\ p_tail \in [Producers -> Nat]
    /\ p_head \in [Producers -> Nat]
    /\ p_count \in [Producers -> Nat]
    /\ c_pc \in {"idle", "load_tail", "check", "take", "clear", "advance"}
    /\ c_head \in Nat
    /\ c_value \in Values
    /\ claimed \in Seq(Values)
    /\ received \in Seq(Values)

\* The producers that own a position and have not finished writing its slot.
Writing == {p \in Producers :
              p_pc[p] \in {"write", "write_flag", "write_payload"}}

\* A slot being written belongs to one producer: two producers never own the
\* same slot, and a producer never owns the slot the consumer is emptying,
\* although each producer compared a tail and a head that it loaded at
\* different moments.
OneOwnerPerSlot ==
    write_order = "payload_first" =>
        /\ \A p, q \in Writing :
              p # q => Index(p_tail[p]) # Index(p_tail[q])
        /\ c_pc \in {"take", "clear", "advance"} =>
              \A p \in Writing : Index(p_tail[p]) # Index(c_head)

\* What try_pop returns is what try_push was given: the values come out in the
\* order of their claims, none lost, none twice, none read before it was
\* written, whatever producers are suspended between their CAS and their write.
ReceivedInOrder ==
    write_order = "payload_first" =>
        /\ Len(received) <= Len(claimed)
        /\ \A k \in 1..Len(received) : received[k] = claimed[k]

\* At most capacity_ positions are claimed and not yet popped: a CAS that
\* succeeds never claims a slot that is still in use.
NeverOverfull == head <= tail /\ tail - head <= Capacity

\* try_push refuses a value only at a moment when the queue is full.
RefusedOnlyWhenFull ==
    [][\A p \in Producers :
          p_pc[p] = "load_head" /\ p_pc'[p] = "idle" => tail - head >= Capacity]_vars

WasReceived(p, k) == \E i \in 1..Len(received) : received[i] = <<p, k>>

\* A producer suspended between its CAS and its write owns the oldest position.
HeldBack == \E q \in Writing \ Reliable : p_tail[q] = head

\* A value whose push has returned is received as long as the consumer polls -
\* a slot that is not yet written makes try_pop return, and the next call finds
\* it - or else the consumer is for ever behind one suspended producer: nothing
\* but the owner of the oldest position can hold a value back. That it can is
\* where the header's "non-blocking" does not hold.
ReceivedOrHeldBack ==
    \A p \in Producers : \A k \in 1..MaxPushes :
        (p_count[p] >= k /\ write_order = "payload_first")
            ~> (WasReceived(p, k) \/ []HeldBack)
-----------------------------------------------------------------------------
(***************************************************************************)
(* The inductive invariant behind the safety properties.                   *)
(***************************************************************************)

\* The positions, whatever the order of the stores to a slot.  A producer about
\* to CAS holds a tail and a head that were once less than a capacity apart.
ClaimInv ==
    /\ head <= tail
    /\ tail <= head + Capacity
    /\ tail <= MaxPushes
    /\ Len(claimed) = tail
    /\ Len(received) = head
    /\ \A p \in Producers :
          /\ p_tail[p] <= tail
          /\ p_head[p] <= head
          /\ p_pc[p] = "cas" => /\ p_head[p] <= p_tail[p]
                                /\ p_tail[p] < p_head[p] + Capacity
    /\ c_pc # "idle" => c_head = head
    /\ c_pc \in {"check", "take", "clear", "advance"} => head < tail

\* Who owns which position, and what the slots hold, when the payload is stored
\* before the flag: an unfinished slot is not engaged, an engaged slot holds the
\* value claimed for it, and the slots beyond tail_ are free.
SlotInv ==
    /\ \A p \in Writing :
          /\ p_pc[p] # "write_payload"
          /\ head <= p_tail[p] /\ p_tail[p] < tail
          /\ claimed[p_tail[p] + 1] = Value(p)
          /\ ~engaged[Index(p_tail[p])]
          /\ p_pc[p] = "write_flag" => payload[Index(p_tail[p])] = Value(p)
          /\ c_pc \in {"take", "clear", "advance"} => p_tail[p] # head
    /\ \A p, q \in Writing : p # q => p_tail[p] # p_tail[q]
    /\ \A k \in head..(tail - 1) :
          engaged[Index(k)] => payload[Index(k)] = claimed[k + 1]
    /\ \A k \in tail..(head + Capacity - 1) : ~engaged[Index(k)]
    /\ c_pc \in {"take", "clear"} => engaged[Index(head)]
    /\ c_pc = "advance" => ~engaged[Index(head)]
    /\ c_pc \in {"clear", "advance"} => c_value = claimed[head + 1]
    /\ \A k \in 1..Len(received) : received[k] = claimed[k]

\* Claims, owners and slots are consistent: an owned slot is not yet engaged,
\* an engaged one holds the value claimed for it, the rest is free.
IndInv ==
    /\ TypeOK
    /\ ClaimInv
    /\ write_order \in WriteOrders
    /\ write_order = "payload_first" => SlotInv
=============================================================================
