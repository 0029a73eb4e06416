SPECIFICATION FairSpec
CONSTANTS
    Setups <- MCSetups
    Programmer = 13
    Wanted <- Asked
    Attempts = 3
INVARIANTS
    SuccessIsReal
    InDialogue
    DumpIsReal
PROPERTIES
    SessionEnds
