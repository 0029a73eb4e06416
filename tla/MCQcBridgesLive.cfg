SPECIFICATION FairSpec
CONSTANTS
    Ifaces = {i1}
    MaxSessions = 2
    MaxPartial = 1
    FaultSets <- AllFaults
PROPERTIES
    RestartsReader
    FollowsModem
    Stops
