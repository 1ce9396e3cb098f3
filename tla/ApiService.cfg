SPECIFICATION FairSpec
CONSTANTS
    a = a
    b = b
    JwsEnabled = TRUE
    Requests <- TwoRequests
    Contents <- FewContents
    MaxRestarts = 2
CHECK_DEADLOCK FALSE
INVARIANTS
    IInv
    StopDrains
PROPERTIES
    ImplementsIngress
    EveryRequestAnswered
    StopEnds
