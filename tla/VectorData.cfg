SPECIFICATION FairSpec
CONSTANTS
    Renderable <- FirstTwo
    MaxUid = 3
    MaxFaults = 2
    MaxRestarts = 1
INVARIANT TypeOK
INVARIANT NoOrphan
INVARIANT WrittenOnce
INVARIANT ReadyExplained
PROPERTY KeepsPromise
PROPERTY EventuallyMaterialized
PROPERTY DeletionCompletes
CHECK_DEADLOCK FALSE
