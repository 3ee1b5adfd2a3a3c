SPECIFICATION Spec
CONSTANTS
    Addr = {a1, a2}
    Lanes <- OneLane
    Byte <- MCByte
INVARIANTS
    TypeOK
    OneTransfer
    PayloadIntact
PROPERTIES
    ValidHeld
    ImplementsBus
    RequestAnswered
