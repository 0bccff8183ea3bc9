SPECIFICATION Spec
CONSTANTS
    w1 = w1
    w2 = w2
    s1 = s1
    s2 = s2
    Worker <- Workers
    Signer <- OneOfThem
    MaxAttempts = 3
    Script <- FixtureScript
    Rethrows = FALSE
    Separated = TRUE
    Stalls = {}
    Waits = {}
    MaxFaults = 0
INVARIANT
    CancelPreventsReceipt
CHECK_DEADLOCK FALSE
