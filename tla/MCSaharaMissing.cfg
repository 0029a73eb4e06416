SPECIFICATION FairSpec
CONSTANTS
    Setups <- ImageMissing
    Programmer = 13
    Wanted <- Asked
    Attempts = 2
PROPERTIES
    MissingImageEnds
