CONSTANTS
    Setups <- Behind
    MaxFaults = 1
    EdlWrites = 2
    Attempts = 2
    Sectors = 2
    Retries = 1

SPECIFICATION Spec

INVARIANT
    CheckedFirst
