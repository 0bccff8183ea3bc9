SPECIFICATION FairSpec
CONSTANTS
    p1 = p1
    p2 = p2
    p3 = p3
    Post <- Posts
    Stores <- EveryStore
    MaxFaults = 1
    MaxLife = 1
INVARIANTS
    TypeOK
    OneAnswer
    ReplayIsFaithful
    OneRun
    PendingIsBeingCreated
PROPERTIES
    EveryPostAnswered
CHECK_DEADLOCK FALSE
