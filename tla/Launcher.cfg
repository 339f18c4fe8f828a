CONSTANTS
    Sims <- MCSims
SPECIFICATION Spec
CHECK_DEADLOCK FALSE
INVARIANTS
    NoChildLeft
    SummaryIsComplete
PROPERTIES
    EverybodyEnds
