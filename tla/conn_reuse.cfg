SPECIFICATION Spec
CHECK_DEADLOCK FALSE
CONSTANTS
    HeaderSize = 2
    Chunk = 4
    Capacity = 4
    GarbageLengths <- mc_GarbageLengths
    RequestSizes <- mc_RequestSizes
    ResponseSizes <- mc_HugeResponses
    MaxCalls = 3
    ReuseAfterFailure = TRUE
INVARIANTS
    ServerPlace
    HandledInOrder
    CleanEndLosesNothing
PROPERTIES
    DepartureEndsSession
