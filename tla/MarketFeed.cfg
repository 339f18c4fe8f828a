SPECIFICATION FairSpec
CONSTANTS
    MaxPackets = 2
    RingCapacity = 2
    CancelFlags = {"none", "g_running"}
    MaxSeq = 5
    MaxForeign = 1
INVARIANTS
    IndInv
    ReceivedOnce
    CountersAddUp
PROPERTIES
    DatagramsProcessed
    StopsWhenSignalled
CHECK_DEADLOCK FALSE
