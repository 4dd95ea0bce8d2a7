SPECIFICATION Spec
CONSTANTS
    Callers <- Two
    StoredRequests <- KeptOrPruned
    MaxGateways = 2
    Landscapes <- Mixed
INVARIANT TypeOK
INVARIANT RouteIsBound
INVARIANT ExposedIsDeleted
INVARIANT RoutesWithheld
INVARIANT SucceededIsEarned
PROPERTY SupersededSkipped
PROPERTY ForeignLostUnseen
PROPERTY FirstAdminGatewayKept
PROPERTY FailedIsFinal
CHECK_DEADLOCK FALSE
