SPECIFICATION Spec
CONSTANTS
    NUM_ITEMS = 8
    QUEUE_LEN = 4
    DELAY = 5
    REPORTS = 2
INVARIANTS
    TypeOK
    WorkAccounted
    ReportsInOrder
    LinesWhole
    NoByteLost
    NegStalls
PROPERTIES
    Completes
