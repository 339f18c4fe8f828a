SPECIFICATION FairSpec
CONSTANTS
    Clients = {c1}
    ListenFd = listen
    SeqMod = 4096
    Burst = 2
    Actions = {"New", "Cancel", "Replace"}
    Reconnects = FALSE
    Keepalives = {FALSE}
    SlowGateway = FALSE
    ServerDrop = FALSE
    Buffers = {"overwritten"}
    MaxEvents = 3
    RingCapacity = 4
    MaxRetries = 2
    MaxOrders = 3
    MaxConns = 1
PROPERTIES
    EveryOrderIsAnswered
CHECK_DEADLOCK FALSE
