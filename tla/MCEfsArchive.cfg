SPECIFICATION FairSpec
CONSTANTS
    Setups <- MCSetups
    EFS_MAX_READ_REQ = 2
    EFS_MAX_WRITE_REQ = 2
    SmallFile = 2
    MaxHandles = 2
INVARIANTS
    ArchiveIsSound
    RoundTrip
    CountedIsWritten
    LosesOnlyForCause
PROPERTIES
    Ends
