SPECIFICATION FairSpec
CONSTANTS
    Requests = {1, 2, 3}
    Refused = {3}
    Loadable <- OddVersions
    MaxVersion = 4
    MaxRelists = 1
    MaxFaults = 1
INVARIANT TypeOK
INVARIANT StaleOnlyByRace
PROPERTY WaitingIsAnswered
PROPERTY FailureEndsProcess
CHECK_DEADLOCK FALSE
