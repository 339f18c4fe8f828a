SPECIFICATION FairSpec
CONSTANTS
    Clients = {c1}
    ListenFd = listen
    SeqMod = 4096
    Burst = 2
    Actions = {"New", "Cancel", "Replace"}
    Reconnects = TRUE
    Keepalives = {FALSE, TRUE}
    SlowGateway = TRUE
    ServerDrop = TRUE
    Buffers = {"last_read"}
    MaxEvents = 3
    RingCapacity = 4
    MaxRetries = 1
    MaxOrders = 3
    MaxConns = 2
INVARIANTS
    SoloInv
    BooksAgree
    AckAnswersRequest
    AppliedInOrder
    RetransmitBookkeeping
    ClosedOnlyByClient
PROPERTIES
    AnsweredOrGivenUp
CHECK_DEADLOCK FALSE
