SPECIFICATION FairSpec
CONSTANTS
    Callers <- Two
    StoredRequests <- KeptOrPruned
    MaxGateways = 1
    Landscapes <- Waiting
PROPERTY ExecutionSettles
PROPERTY CleanupCompletes
CHECK_DEADLOCK FALSE
