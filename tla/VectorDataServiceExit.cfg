SPECIFICATION Spec
CONSTANTS
    Requests = {1}
    Refused = {}
    Loadable = {1}
    MaxVersion = 1
    MaxRelists = 0
    MaxFaults = 0
INVARIANT ErrorExitsNonZero
CHECK_DEADLOCK FALSE
