SPECIFICATION Spec
CONSTANTS
    Setups <- TwoRegions
    Programmer = 13
    Wanted <- Asked
    Attempts = 2
INVARIANTS
    DumpComplete
