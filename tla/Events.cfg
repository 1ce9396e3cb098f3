SPECIFICATION Spec
CONSTANTS
    bluebank = bluebank
    greenbank = greenbank
    stranger = stranger
    Fsp <- AllFsps
    Switch = switch
    NoFsp = none
    Handlers <- AllHandlers
    Participants <- BothFsps
    Published <- EverythingPublished
    BatchSize = 1
    MaxEvents = 1
    MaxRestarts = 2
CHECK_DEADLOCK FALSE
INVARIANTS
    DeliveryInv
    OnlyPartiesHear
    ErrorEventReachesAll
    NoSilentLoss
    RequesterIsToldOfFailure
    OracleAnswersReachRequester
    PatchAfterPut
    NoRepeatWithoutRestart
    FeedbackAfterSuccess
