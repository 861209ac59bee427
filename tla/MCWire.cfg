CONSTANTS
    Requests <- MCRequests
    Plans <- MCPlans
    MaxCalls = 2
    Paths <- MCPaths
    Maps <- MCMaps
    MaxEntries = 2
    ClientBuffer = 17
    ServerBuffer = 9
SPECIFICATION FairWireSpec
PROPERTIES ImplementsExchange EveryoneAnswered
CHECK_DEADLOCK FALSE
