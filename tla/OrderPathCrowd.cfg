SPECIFICATION FairSpec
CONSTANTS
    Clients = {c1, c2}
    ListenFd = listen
    SeqMod = 4096
    Burst = 1
    Actions = {"New"}
    Reconnects = TRUE
    Keepalives = {TRUE}
    SlowGateway = FALSE
    ServerDrop = FALSE
    Buffers = {"last_read"}
    MaxEvents = 2
    RingCapacity = 2
    MaxRetries = 1
    MaxOrders = 1
    MaxConns = 2
INVARIANTS
    RingHoldsOpenConns
PROPERTIES
    ConnectionsReclaimed
CHECK_DEADLOCK FALSE
