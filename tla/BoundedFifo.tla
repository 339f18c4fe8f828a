----------------------------- MODULE BoundedFifo -----------------------------
(***************************************************************************)
(* What a bounded queue between one producer and one consumer promises:    *)
(* pushed packets wait in a queue of at most Capacity, in push order, and  *)
(* leave it from the front into the history of what the consumer was       *)
(* handed.  A refused push and an empty pop change nothing.                *)
(*                                                                         *)
(* PacketRing implements this specification.                               *)
(***************************************************************************)
EXTENDS Naturals, Sequences

CONSTANTS
    Packet,     \* the packets a producer can push
    Capacity    \* how many packets the queue holds

VARIABLES
    queue,      \* packets pushed and not yet popped, oldest first
    popped      \* every packet handed to the consumer so far, oldest first

fifoVars == <<queue, popped>>

FifoInit ==
    /\ queue = <<>>
    /\ popped = <<>>

\* One call of push makes a run of packets visible at once.
Push(batch) ==
    /\ Len(queue) + Len(batch) <= Capacity
    /\ queue' = queue \o batch
    /\ UNCHANGED popped

\* One call of pop takes the n oldest packets at once.
Pop(n) ==
    /\ popped' = popped \o SubSeq(queue, 1, n)
    /\ queue' = SubSeq(queue, n + 1, Len(queue))

FifoNext ==
    \/ \E n \in 1..Capacity : \E batch \in [1..n -> Packet] : Push(batch)
    \/ \E n \in 1..Len(queue) : Pop(n)

FifoSpec == FifoInit /\ [][FifoNext]_fifoVars
=============================================================================
