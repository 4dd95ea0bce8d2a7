SPECIFICATION FairSpec
CONSTANTS
    MaxJobs = 3
    MaxExpiries = 1
    MaxFaults = 1
    MaxRestarts = 1
INVARIANT TypeOK
INVARIANT JobsExplained
INVARIANT VerdictFromJob
PROPERTY TaskSettles
CHECK_DEADLOCK FALSE
