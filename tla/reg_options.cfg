SPECIFICATION Spec
CHECK_DEADLOCK FALSE
CONSTANTS
    q1 = q1
    q2 = q2
    p1 = p1
    p2 = p2
    byte = byte
    Colon = Colon
    c1 = c1
    c2 = c2
    NoOne = NoOne
    MappingRequest = MappingRequest
    MappingResponse = MappingResponse
    RequestTypes <- mc_RequestTypes
    ResponseTypes <- mc_ResponseTypes
    TypeNames <- mc_TypeNames
    Bytes <- mc_Bytes
    Bodies <- mc_Bodies
    MaxSerialized = 2
    LengthModulus = 5
    Clients <- mc_OneClient
    ServerStrategies <- DuplicateStrategies
    ClientOptions <- mc_ClientOptions
    MaxRegistrations = 3
    LateRegistration = TRUE
SYMMETRY mc_Symmetry
INVARIANTS
    TypeOK
    MapsAgree
    FirstOrLastInForce
    AnswerTellsTruth
    ReflectionSound
    ReflectionComplete
    ReflectedCallsAreTyped
    ReflectedCallsAreHandled
    RequestArrivesIntact
    HeaderHoldsLength
