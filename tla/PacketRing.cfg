SPECIFICATION FairSpec
CONSTANTS
    Packet = {p1, p2}
    Cleared = cleared
    Capacity = 2
    MaxBatch = 3
    MaxPushes = 4
INVARIANTS
    IndInv
    NoSlotRace
    PoppedInOrder
PROPERTIES
    SizeIsAPromise
    ImplementsFifo
    EveryPacketIsPopped
