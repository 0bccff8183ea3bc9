SPECIFICATION Spec
CONSTANTS
    k1 = k1
    k2 = k2
    o1 = o1
    o2 = o2
    w1 = w1
    w2 = w2
    b1 = b1
    b2 = b2
    Key <- Keys
    Operator <- Operators
    Wallet <- Wallets
    Binding <- Bindings
    MaxTime = 3
    MaxReceipts = 2
    MaxBroadcasts = 3
    MaxFaults = 2
SYMMETRY Symmetry
INVARIANTS
    IssuedIsTrusted
    AnchoredIsOnChain
    RebroadcastHasCause
PROPERTIES
    TrustIsStable
    RevocationIsFinal
    AnchorIsFinal
CHECK_DEADLOCK FALSE
