SPECIFICATION Spec
CONSTANTS
    a = a
    b = b
    JwsEnabled = TRUE
    Requests <- OneRequest
    Contents <- BulkResults
    MaxRestarts = 0
CHECK_DEADLOCK FALSE
INVARIANT
    BulkResultsAreOptional
