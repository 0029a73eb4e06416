SPECIFICATION FairSpec
CONSTANTS
    Ifaces = {i1}
    MaxSessions = 1
    MaxPartial = 1
    FaultSets <- WritesFail
PROPERTIES
    RestartsWriter
