SPECIFICATION Spec
CONSTANTS
    Objects <- MCObjects
    Links <- MCLinks
INVARIANTS
    FlagsAgree
    RelocationsAreSeparate
    TablesExact
    CopiesMoveAllNames
    ReferencesReachTheirSymbols
