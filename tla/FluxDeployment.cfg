SPECIFICATION FairSpec
CONSTANTS
    Scenarios <- AllScenarios
INVARIANT TypeOK
INVARIANT StalledNotReady
INVARIANT ReadyEarned
INVARIANT WorkAfterFetch
INVARIANT StalledRejectsResults
PROPERTY StatusConverges
CHECK_DEADLOCK FALSE
