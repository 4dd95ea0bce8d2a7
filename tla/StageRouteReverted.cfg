SPECIFICATION Spec
CONSTANTS
    Callers <- Two
    StoredRequests <- Kept
    MaxGateways = 0
    Landscapes <- Sequential
INVARIANT RouteNotReverted
CHECK_DEADLOCK FALSE
