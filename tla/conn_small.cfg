SPECIFICATION Spec
CHECK_DEADLOCK FALSE
CONSTANTS
    HeaderSize = 2
    Chunk = 4
    Capacity = 4
    GarbageLengths <- mc_GarbageLengths
    RequestSizes <- mc_RequestSizes
    ResponseSizes <- mc_SmallResponses
    MaxCalls = 3
    ReuseAfterFailure = TRUE
INVARIANTS
    TypeOK
    ReplyMatches
    FailureMeansServerGone
    PoliteDepartureIsClean
PROPERTIES
    CallReturns
    ImplementsSyncCall
