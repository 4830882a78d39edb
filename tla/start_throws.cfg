SPECIFICATION Spec
CHECK_DEADLOCK FALSE
CONSTANTS
    s1 = s1
    s2 = s2
    c1 = c1
    c2 = c2
    NoOne = NoOne
    Servers <- mc_Servers
    Clients <- mc_Clients
    MaxBacklog = 2
    MaxStarts = 1
    MaxAhead = 2
INVARIANTS FailureIsReturned
