SPECIFICATION Spec
CONSTANTS
    r1 = r1
    r2 = r2
    r3 = r3
    r4 = r4
    Request <- Requests
    Stores <- EveryStore
SYMMETRY Interchangeable
INVARIANTS
    TypeOK
    DurablyConsumedOnce
    ConsumedWasProved
PROPERTIES
    LapsedIsFinal
    GrantSpec
CHECK_DEADLOCK FALSE
