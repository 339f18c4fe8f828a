--------------------------- MODULE MCTcpEndpoints ---------------------------
EXTENDS TcpEndpoints

\* The opener's first number is not ahead of the listener's.
MCIsn == [e \in Ends |-> IF e = "opener" THEN 1 ELSE 2]

\* A network that loses, repeats and reorders, and lines that keep the order
\* and lose nothing; each with and without keepalives
MCSettings ==
    {[network |-> "soup", idles |-> FALSE, data |-> 2],
     [network |-> "soup", idles |-> TRUE, data |-> 1],
     [network |-> "fifo", idles |-> FALSE, data |-> 2],
     [network |-> "fifo", idles |-> TRUE, data |-> 2]}
=============================================================================
