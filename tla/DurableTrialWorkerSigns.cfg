SPECIFICATION Spec
CONSTANTS
    w1 = w1
    w2 = w2
    s1 = s1
    s2 = s2
    Worker <- Workers
    Signer <- OneOfThem
    MaxAttempts = 3
    Script <- MCScript
    Rethrows = FALSE
    Separated = FALSE
    Stalls = {"worker"}
    Waits = {"worker"}
    MaxFaults = 1
SYMMETRY Interchangeable
INVARIANTS
    TypeOK
    OneExecutor
    CancelPreventsReceipt
PROPERTIES
    AttemptOrder
    RevisionMonotone
    JobTableSpec
CHECK_DEADLOCK FALSE
