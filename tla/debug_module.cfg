SPECIFICATION Spec
CONSTANTS
    Regs = {r1}
    Val = {0, 1}
    ADDRS = 3
    Mapped = {0, 1}
    GAP = 2
INVARIANTS
    TypeOK
    EngineServes
PROPERTIES
    ImplementsPort
    AnsweredInTwo
    ResumeHeard
