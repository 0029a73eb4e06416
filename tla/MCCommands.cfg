CONSTANTS
    Setups <- AllSetups
    MaxFaults = 3
    EdlWrites = 2
    Attempts = 2
    Sectors = 3
    Retries = 2

SPECIFICATION FairSpec

INVARIANTS
    ExitIsTrue
    OthersKept
    CheckedFirst
    FileIsPrefix

PROPERTY
    CommandEnds
