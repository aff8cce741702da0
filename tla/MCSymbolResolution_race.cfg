SPECIFICATION Spec
CONSTANTS
    Names = {"main", "f"}
    Versions = {"V1"}
    NoVersion = "none"
    Buckets = {1, 2}
    BucketOf <- ByVersion
    ChunkSize = 5
    MachO = FALSE
    Links <- VersionedTwiceLinks
INVARIANT DynamicDoesNotOverride
