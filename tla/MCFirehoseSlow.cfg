SPECIFICATION Spec
CONSTANTS
    Ops <- MCOps
    EraseAllOps <- MCEraseAllOps
    Probes <- MCProbes
    Setups <- SlowConfigure
    HasBootable = TRUE
    MaxConfigure = 2
    MaxLogs = 1
INVARIANTS
    SuccessIsReal
