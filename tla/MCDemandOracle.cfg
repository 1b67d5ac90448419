CONSTANTS
    NumHelpers = 2
    MaxWorkUnits = 4
    MaxQueries = 2
    MaxRounds = 2
SPECIFICATION FairSpec
INVARIANTS
    TypeOK
    RoundComplete
    PricesStable
    CleanStart
PROPERTY EverythingEnds
