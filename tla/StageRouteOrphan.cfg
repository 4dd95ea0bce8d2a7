SPECIFICATION Spec
CONSTANTS
    Callers <- One
    StoredRequests <- Kept
    MaxGateways = 0
    Landscapes <- Deleted
INVARIANT NoOrphanRoute
CHECK_DEADLOCK FALSE
