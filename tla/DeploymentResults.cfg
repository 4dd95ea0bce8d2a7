SPECIFICATION Spec
CONSTANTS
    MaxLength = 3
    Scenarios <- All
INVARIANT TypeOK
INVARIANT PublishedIsAccepted
INVARIANT EachExposedIsRouted
INVARIANT ServedAsPublished
INVARIANT ClientAgrees
PROPERTY PublishesOwnServices
PROPERTY RouteIsStable
CHECK_DEADLOCK FALSE
