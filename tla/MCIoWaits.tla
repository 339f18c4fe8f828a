------------------------------ MODULE MCIoWaits ------------------------------
(***************************************************************************)
(* IoWaits with every kind of timeout (none, zero, and one that is no      *)
(* multiple of the poll interval), with and without a cancel flag, and     *)
(* with the poll interval of zero that the code takes for one.             *)
(***************************************************************************)
EXTENDS IoWaits

Calls(backends, timeouts, intervals, mins, maxes) ==
    [backend : backends, timeout : timeouts, interval : intervals,
     cancellable : BOOLEAN, min : mins, max : maxes, usable : {TRUE}]

NoRing == [backend |-> "uring", timeout |-> 3, interval |-> 2,
           cancellable |-> TRUE, min |-> 1, max |-> 1, usable |-> FALSE]

MCOptions ==
    Calls({"epoll", "batch"}, {-1, 0, 3}, {0, 2}, {1}, {1, 2})
    \cup Calls({"uring"}, {-1, 0, 3}, {0, 2}, {0, 1}, {1, 2})
    \cup Calls({"busy"}, {-1, 0, 2, 3}, {1, 2}, {1}, {1})
    \cup {NoRing}
=============================================================================
