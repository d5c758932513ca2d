SPECIFICATION Spec
CONSTANTS
    Requests <- AllRequests
    MaxRequests = 3
    MaxConns = 2
    KeepMax = 2
    MaxFields = 2
    Cors = TRUE
INVARIANTS
    Isolated
    NothingDangles
    Authorised
    KeepsItsWord
