----------------------------- MODULE MCLauncher -----------------------------
EXTENDS Launcher

\* Two subscribers, who handle SIGINT, and the publisher; the gateway and the
\* client, who handles it.
MCSims ==
    {[backs |-> 2, handlers |-> {1, 2}, summaries |-> TRUE],
     [backs |-> 1, handlers |-> {2}, summaries |-> FALSE]}
=============================================================================
