SPECIFICATION Spec
CONSTANTS
    Renderable <- FirstTwo
    MaxUid = 2
    MaxFaults = 0
    MaxRestarts = 0
INVARIANT ReadyMeansMaterialized
CHECK_DEADLOCK FALSE
