CONSTANTS
    KeyLen = 3
    Amount <- MCAmount
    OnDisk <- MCOnDisk
    Headers <- MCHeaders
    MaxBlocks = 2
    MaxAttempts = 3
    MaxTrie = 2
SPECIFICATION Spec
INVARIANTS TypeOK TriesConsistent HashOfBook DiskIsBook
PROPERTIES RollbackRestores ImplementsOrderBook
