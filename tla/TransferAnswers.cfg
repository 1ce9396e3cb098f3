SPECIFICATION Spec
CONSTANTS
    bluebank = bluebank
    greenbank = greenbank
    stranger = stranger
    Fsp <- AllFsps
    Switch = switch
    NoFsp = none
    Handlers <- TransfersHandler
    Participants <- BothFsps
    Published <- QueriesPublished
    BatchSize = 1
    MaxEvents = 1
    MaxRestarts = 1
CHECK_DEADLOCK FALSE
INVARIANT
    TransferAnswersReachClient
