SPECIFICATION Spec
CONSTANTS
    a = a
    b = b
    JwsEnabled = TRUE
    Requests <- OneRequest
    Contents <- EveryContent
    MaxRestarts = 0
CHECK_DEADLOCK FALSE
INVARIANTS
    PermittedNotRefused
    OnlyVerifiedPublished
