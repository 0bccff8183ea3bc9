SPECIFICATION Spec
CONSTANTS
    w1 = w1
    w2 = w2
    s1 = s1
    s2 = s2
    Worker <- Workers
    Signer <- Signers
    MaxAttempts = 3
    Script <- MCScript
    Rethrows = TRUE
    Separated = TRUE
    Stalls = {"signer"}
    Waits = {"worker", "signer"}
    MaxFaults = 1
SYMMETRY Interchangeable
INVARIANTS
    OneSigner
    UnsignedOrSigned
PROPERTIES
    SigningOrder
    SigningCancelIsFinal
    SigningTableSpec
CHECK_DEADLOCK FALSE
