SPECIFICATION Spec
CONSTANTS
    Alignments <- MCAlignments
    MaxAlignment = 16
    FileHeaderSize = 5
    Pad = 8
    MaxDelete = 1
    MaxPasses = 2
    Word = 65536
    Links <- MCLinks
INVARIANTS TypeOK FileRangesDisjoint MemoryRangesDisjoint SegmentsOwnPages MappedAtAddress WritersMatchLayout AddressesAligned
