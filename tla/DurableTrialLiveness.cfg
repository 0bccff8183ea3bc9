SPECIFICATION FairSpec
CONSTANTS
    w1 = w1
    w2 = w2
    s1 = s1
    s2 = s2
    Worker <- Workers
    Signer <- OneOfThem
    MaxAttempts = 3
    Script <- MCScript
    Rethrows = FALSE
    Separated = TRUE
    Stalls = {}
    Waits = {"signer"}
    MaxFaults = 3
PROPERTIES
    JobSettles
    TrialSettles
CHECK_DEADLOCK FALSE
