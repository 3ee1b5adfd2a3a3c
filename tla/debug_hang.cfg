SPECIFICATION AnySpec
CONSTANTS
    Regs = {r1}
    Val = {0}
    ADDRS = 1
    Mapped = {0}
    GAP = 2
PROPERTIES
    HaltedAccess
