SPECIFICATION Spec
CONSTANTS
    MaxLength = 3
    Scenarios <- Serving
INVARIANT FeaturelessIsNotFound
CHECK_DEADLOCK FALSE
