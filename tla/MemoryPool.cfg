CONSTANTS
    NumBlocks = 3
    BlockSize = 2
    Spill = 1
    Uses <- MCUses
SPECIFICATION Spec
CHECK_DEADLOCK FALSE
INVARIANTS
    FreeListIsAChain
    MessagesStayWhole
PROPERTY
    ImplementsBlockPool
