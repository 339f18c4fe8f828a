SPECIFICATION FairSpec
CONSTANTS
    MaxPackets = 2
    RingCapacity = 2
    CancelFlags = {"g_running"}
    MaxSeq = 3
    MaxForeign = 0
PROPERTIES
    SubscriberReceives
CHECK_DEADLOCK FALSE
