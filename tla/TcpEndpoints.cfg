CONSTANTS
    SeqMod = 16
    Isn <- MCIsn
    Settings <- MCSettings
SPECIFICATION Spec
CHECK_DEADLOCK FALSE
INVARIANTS
    TakenInOrder
    AckedIsTaken
    ClosedIsHeard
PROPERTY
    EndsTogether
