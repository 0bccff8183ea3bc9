SPECIFICATION Spec
CONSTANTS
    w1 = w1
    w2 = w2
    s1 = s1
    s2 = s2
    Worker <- Workers
    Signer <- OneOfThem
    MaxAttempts = 3
    Script <- AuthorizedScript
    Rethrows = TRUE
    Separated = FALSE
    Stalls = {"worker"}
    Waits = {}
    MaxFaults = 0
INVARIANT
    RetryIsClean
CHECK_DEADLOCK FALSE
