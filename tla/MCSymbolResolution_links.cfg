SPECIFICATION FairSpec
CONSTANTS
    Names = {"main", "u", "f", "g", "w", "x", "y", "start"}
    Versions = {"V1"}
    NoVersion = "none"
    Buckets = {1, 2}
    BucketOf <- ByVersion
    ChunkSize = 2
    MachO = FALSE
    Links <- AllLinks
INVARIANTS LoadedOnce ArchiveClosure BoundToLoaded SelectionIsDeterministic
PROPERTY Termination
