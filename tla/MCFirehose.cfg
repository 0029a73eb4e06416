SPECIFICATION Spec
CONSTANTS
    Ops <- MCOps
    EraseAllOps <- MCEraseAllOps
    Probes <- MCProbes
    Setups <- InTime
    HasBootable = TRUE
    MaxConfigure = 2
    MaxLogs = 1
INVARIANTS
    SuccessIsReal
    ReadsAreClean
    NoCommandInPayload
    FailsOnlyForCause
    BackupBeforeErase
PROPERTIES
    ImplementsContract
