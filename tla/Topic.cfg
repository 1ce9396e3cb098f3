SPECIFICATION FairSpec
CONSTANTS
    bluebank = bluebank
    greenbank = greenbank
    stranger = stranger
    Fsp <- AllFsps
    Switch = switch
    NoFsp = none
    Handlers <- TransfersHandler
    Participants <- BothFsps
    Published <- TopicPublished
    BatchSize = 2
    MaxEvents = 3
    MaxRestarts = 1
CHECK_DEADLOCK FALSE
INVARIANTS
    IInv
    InOrder
    CommittedAreSettled
PROPERTIES
    NoCallbackAfterCommit
    ImplementsSettlement
    EveryEventCommitted
