SPECIFICATION FairSpec
CONSTANTS
    Order <- FirstAndLast
    Answering = "Transfers"
    MaxEvents = 1
    MaxRestarts = 1
CHECK_DEADLOCK FALSE
INVARIANTS
    IInv
PROPERTIES
    DroppedOnlyByStop
    ImplementsSettlement
    StopEnds
    StartEnds
    AnsweringGoOn
