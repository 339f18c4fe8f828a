---------------------------- MODULE TcpReassembly ----------------------------
(***************************************************************************)
(* TcpReassemblyBuffer of include/usn/protocol/tcp_reassembly.hpp: the     *)
(* out-of-order segments of one connection, keyed by sequence number.  A   *)
(* segment is its length and its payload.                                  *)
(***************************************************************************)
EXTENDS TcpStateMachine, FiniteSetsExt

NoSegments == <<>>

\* insert: an empty segment and one whose sequence number is there already are
\* refused.
Insert(segments, seq, len, payload) ==
    IF len = 0 \/ seq \in DOMAIN segments
    THEN segments
    ELSE [s \in DOMAIN segments \cup {seq} |->
            IF s \in DOMAIN segments THEN segments[s]
            ELSE [len |-> len, payload |-> payload]]

\* The sequence number pop_contiguous looks for after n segments.
Cursor(segments, expected) ==
    LET cursor[n \in 0..Cardinality(DOMAIN segments)] ==
          IF n = 0 THEN expected
          ELSE IF cursor[n - 1] \in DOMAIN segments
               THEN Advance(cursor[n - 1], segments[cursor[n - 1]].len)
               ELSE cursor[n - 1]
    IN  cursor

\* How many segments follow each other from expected on.
RunLength(segments, expected) ==
    Max({n \in 0..Cardinality(DOMAIN segments) :
           \A i \in 0..(n - 1) :
              Cursor(segments, expected)[i] \in DOMAIN segments})

\* pop_contiguous: the segments it returns, in order, ...
Contiguous(segments, expected) ==
    [i \in 1..RunLength(segments, expected) |->
        segments[Cursor(segments, expected)[i - 1]]]

\* ... and what it leaves in the buffer.
Rest(segments, expected) ==
    LET taken == {Cursor(segments, expected)[i] :
                    i \in 0..(RunLength(segments, expected) - 1)}
    IN  [s \in DOMAIN segments \ taken |-> segments[s]]
=============================================================================
