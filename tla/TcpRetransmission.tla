-------------------------- MODULE TcpRetransmission --------------------------
(***************************************************************************)
(* TcpRetransmissionQueue of include/usn/protocol/tcp_retransmission.hpp.  *)
(* Time is left out: the caller says which entries have passed their       *)
(* deadline, by their first sequence number.                               *)
(***************************************************************************)
EXTENDS TcpStateMachine, Sequences, FiniteSetsExt

\* track_segment
TrackSegment(queue, seq, len) ==
    Append(queue, [seq_start |-> seq, seq_end |-> Advance(seq, len), retries |-> 0])

\* An ACK that must go beyond the end of a segment to cover it.
AckUpToStrict(queue, ack) ==
    LET removed == Max({n \in 0..Len(queue) :
                          \A i \in 1..n : queue[i].seq_end < ack})
    IN  SubSeq(queue, removed + 1, Len(queue))

\* ack_up_to: entries leave from the front, up to the first that is not covered.
AckUpTo(queue, ack) ==
    LET removed == Max({n \in 0..Len(queue) :
                          \A i \in 1..n : queue[i].seq_end <= ack})
    IN  SubSeq(queue, removed + 1, Len(queue))

\* The entries of the queue whose positions are in keep.
Picked(queue, keep) ==
    LET upto[n \in 0..Len(queue)] ==
          IF n = 0 THEN <<>>
          ELSE IF n \in keep THEN Append(upto[n - 1], queue[n]) ELSE upto[n - 1]
    IN  upto[Len(queue)]

\* collect_due: the entries it returns.  One that has had all its retries is
\* not among them.
Due(queue, due, max_retries) ==
    Picked(queue, {i \in 1..Len(queue) :
                     queue[i].seq_start \in due /\ queue[i].retries < max_retries})

\* collect_due: the queue it leaves.  One that has had all its retries is given
\* up and erased.
AfterCollectDue(queue, due, max_retries) ==
    LET kept == Picked(queue,
                  {i \in 1..Len(queue) :
                     queue[i].seq_start \notin due \/ queue[i].retries < max_retries})
    IN  [i \in 1..Len(kept) |->
            IF kept[i].seq_start \in due
            THEN [kept[i] EXCEPT !.retries = @ + 1]
            ELSE kept[i]]

\* contains
Contains(queue, seq) == \E i \in 1..Len(queue) : queue[i].seq_start = seq
=============================================================================
