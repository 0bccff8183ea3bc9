SPECIFICATION Spec
CONSTANTS
    r1 = r1
    r2 = r2
    r3 = r3
    r4 = r4
    Request <- Requests
    Stores <- OneProcess
SYMMETRY Interchangeable
INVARIANT
    ConsumedOnce
CHECK_DEADLOCK FALSE
