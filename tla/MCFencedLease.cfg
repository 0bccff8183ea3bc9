SPECIFICATION FairSpec
CONSTANTS
    h1 = h1
    h2 = h2
    h3 = h3
    Holder <- Processes
    MaxAttempts = 3
    Exhaustible = TRUE
INVARIANTS
    TypeOK
    OneHolder
PROPERTIES
    LostIsLost
    Settles
CHECK_DEADLOCK FALSE
