SPECIFICATION Spec
CONSTANTS
    Producers = {p1, p2}
    Reliable = {p1, p2}
    Capacity = 2
    SizeMod <- MCSizeMod
    WriteOrders = {"payload_first"}
    MaxPushes = 4
PROPERTY RefusedOnlyWhenFull
