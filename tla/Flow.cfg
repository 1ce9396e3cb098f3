SPECIFICATION FairFlowSpec
CONSTANTS
    bluebank = bluebank
    greenbank = greenbank
    a = a
    Fsp <- BothFsps
    Switch = Switch
    NoFsp = NoFsp
    Participants <- BothFsps
    Requests <- OneRequest
    Contents <- TransferContents
    JwsEnabled = TRUE
    MaxRestarts = 0
    Sender <- FromBluebank
    Recipient <- ToGreenbank
    BatchSize = 1
    MaxAnswers = 2
    MaxEvents = 2
    HandlerRestarts = 1
CHECK_DEADLOCK FALSE
INVARIANTS
    FlowInv
    RefusalIsFinal
    OnlyVerifiedReachFsps
    SenderIsTold
PROPERTIES
    ImplementsEndToEnd
    EveryRequestConcluded
