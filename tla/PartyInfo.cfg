SPECIFICATION Spec
CONSTANTS
    a = a
    b = b
    JwsEnabled = TRUE
    Requests <- OneRequest
    Contents <- Parties
    MaxRestarts = 0
CHECK_DEADLOCK FALSE
INVARIANT
    PartyNeedsOnlyIdInfo
