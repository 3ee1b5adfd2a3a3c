SPECIFICATION Spec
CONSTANTS
    Inputs <- MCInputs
    ITER_CAP = 2
    TPS = 1000
    CLOCK_MOD = 85899
INVARIANTS
    NoCellLost
    RunsSorted
    ListRestored
    DataRestored
    ScanInBounds
    BlocksDisjoint
    Validated
    RunLength
PROPERTIES
    Terminates
