SPECIFICATION Spec
CONSTANTS
    Units = 2
    Genesis <- MCGenesis
    Chain <- MCChain
    Faulty <- MCFaulty
    PERSIST_BATCH = 2
    MaxFaults = 1
    MaxRestarts = 2
INVARIANTS
    MemoryIsRight
    DiskIsRight
PROPERTIES
    FailuresExplained
    BatchesPersisted
CHECK_DEADLOCK FALSE
