SPECIFICATION Spec
CONSTANTS
    Ifaces = {i1, i2}
    MaxSessions = 2
    MaxPartial = 1
    FaultSets <- ReadsWork
SYMMETRY Symmetry
INVARIANTS
    NoThreadLeft
    NoUseAfterRelease
