SPECIFICATION ControlDebugSpec
CONSTANTS
    NB = 2
    NREG = 3
    NINSTRET = 2
    NBTB = 2
    BPRED = TRUE
    DIV_CYCLES = 3
    AluOp <- MCAlu
    BrTaken <- MCBranch
    MdOp <- MCMulDiv
    AmoOp <- MCAmo
    Programs <- ControlDebugPrograms
    InitStates <- ControlDebugStates
    Inputs <- ControlDebugInputs
INVARIANTS
    PredictionSound
    FetchMatchesProgram
    HaltedIsQuiet
PROPERTIES
    ImplementsISA
    HaltReached
