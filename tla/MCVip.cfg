SPECIFICATION FairSpec
CONSTANTS
    MAX_DIGESTS_PER_SIGNED_TABLE = 2
    MAX_DIGESTS_PER_CHAINED_TABLE = 3
    MAX_CHAINED_FILES = 2
    MaxFrames = 12
    MaxStale = 3
    GenMayFail = TRUE
    LinkMayFail = TRUE
INVARIANTS
    TypeOK
    TablesCoverFrames
    NoRefusal
    InStep
    MissingOnlyPastCapacity
    WriteAfterStatus
PROPERTIES
    Completes
