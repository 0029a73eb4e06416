CONSTANTS
    Setups <- AllSetups
    MaxFaults = 3
    MaxHandles = 2
    NvIds = {0, 1, 2}
    Excluded = {1}
    RfnvDir = "rfnv"
    RfcDir = "rfc"
SPECIFICATION Spec
INVARIANTS
    ExitIsTrue
    OnlyBelow
    RecordsAreTrue
    OwnContents
    RoundTrip
