SPECIFICATION FairSpec
CONSTANTS
    Producers = {p1, p2}
    Reliable = {p1}
    Capacity = 2
    SizeMod <- MCSizeMod
    WriteOrders = {"payload_first", "flag_first"}
    MaxPushes = 4
INVARIANTS
    IndInv
    OneOwnerPerSlot
    ReceivedInOrder
PROPERTIES
    ReceivedOrHeldBack
