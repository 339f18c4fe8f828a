---------------------------- MODULE MCMemoryPool ----------------------------
EXTENDS MemoryPool

Use(kind, huge, prefault, single, long) ==
    [kind |-> kind, huge |-> huge, prefault |-> prefault, single |-> single,
     long |-> long]

\* The publisher and the order client, the gateway, and callers that hold
\* several blocks as the tests of the pools do.
MCUses ==
    {Use("heap", FALSE, FALSE, TRUE, FALSE),
     Use("mmap", FALSE, TRUE, TRUE, TRUE),
     Use("heap", FALSE, FALSE, FALSE, FALSE),
     Use("mmap", TRUE, FALSE, FALSE, FALSE)}
=============================================================================
