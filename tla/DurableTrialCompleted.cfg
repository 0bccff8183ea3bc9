SPECIFICATION Spec
CONSTANTS
    w1 = w1
    w2 = w2
    s1 = s1
    s2 = s2
    Worker <- Workers
    Signer <- OneOfThem
    MaxAttempts = 3
    Script <- PassiveScript
    Rethrows = FALSE
    Separated = TRUE
    Stalls = {}
    Waits = {}
    MaxFaults = 1
PROPERTY
    CompletedIsFinal
CHECK_DEADLOCK FALSE
