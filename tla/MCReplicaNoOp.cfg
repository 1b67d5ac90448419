SPECIFICATION Spec
CONSTANTS
    Units = 2
    Genesis <- MCGenesis
    Chain <- MCChain
    Faulty <- MCFaulty
    PERSIST_BATCH = 2
    MaxFaults = 1
    MaxRestarts = 0
INVARIANT
    FailedBlockIsNoOp
CHECK_DEADLOCK FALSE
