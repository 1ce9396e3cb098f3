SPECIFICATION Spec
CONSTANTS
    a = a
    b = b
    JwsEnabled = TRUE
    Requests <- OneRequest
    Contents <- Queries
    MaxRestarts = 0
CHECK_DEADLOCK FALSE
INVARIANT
    BulkTransfersCanBeQueried
