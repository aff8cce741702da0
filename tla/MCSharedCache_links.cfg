SPECIFICATION Spec
CONSTANTS
    Threads <- TwoThreads
    Setups <- Separate
    MaxVersion = 3
INVARIANTS  CacheSettles
