SPECIFICATION FairSpec
CONSTANTS
    Ops <- MCOps
    EraseAllOps <- MCEraseAllOps
    Probes <- MCProbes
    Setups <- Worst
    HasBootable = TRUE
    MaxConfigure = 2
    MaxLogs = 0
PROPERTIES
    SessionEnds
