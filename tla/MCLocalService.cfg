SPECIFICATION Spec
CONSTANTS
    public = public
    private = private
    Address <- Addresses
    PublicAddress <- PublicAddresses
    Longest = 2
    Largest = 2
    Hops <- SomeHops
    Finding <- Findings
    Deployment <- Deployments
    MaxPending = 0
    MaxStreams = 1
    MaxFaults = 1
    MaxClaims = 2
INVARIANTS
    CancelStopsTheTrial
    BoundedFetch
    ReportMatchesTheTrial
    ViewFollowsTheLog
    VerifierTellsTrue
PROPERTIES
    ViewerSettles
CHECK_DEADLOCK FALSE
