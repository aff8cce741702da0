SPECIFICATION FairSpec
CONSTANTS
    NumBuckets = 2
    Bucket <- FirstByte
    Parallelism = 2
    BlockSize = 2
    BlockCap = 1
    GroupSize = 4
    OffsetLimit = 8
    Inputs <- MCInputs
INVARIANTS TypeOK NothingStranded OutputIsDeterministic ReferencesResolve
PROPERTY EveryGroupProcessed
