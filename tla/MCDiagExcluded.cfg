CONSTANTS
    Setups <- AllSetups
    MaxFaults = 1
    MaxHandles = 2
    NvIds = {0, 1, 2}
    Excluded = {1}
    RfnvDir = "rfnv"
    RfcDir = "rfc"
SPECIFICATION Spec
INVARIANT ExcludedStaysOut
