SPECIFICATION FairSpec
CONSTANTS
    Options <- MCOptions
    MaxIdle = 2
    MaxArrivals = 2
    MaxClock = 6
INVARIANTS
    IndInv
    BudgetIsKept
    CancelIsPrompt
    HandedOnce
PROPERTIES
    EndsWhenTold
    EverythingHanded
CHECK_DEADLOCK FALSE
