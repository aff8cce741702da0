SPECIFICATION FairSpec
CONSTANTS
    Groups = {"prelude", "a", "b", "synthetic"}
    Synthetic = "synthetic"
    Sections = {"a1", "b1", "b2"}
    Symbols = {"main", "f", "c", "u", "st"}
    Outputs = {"o"}
    NoOutput = "none"
    SecGroup <- SecGroup1
    SecOutput <- SecOutput1
    SymGroup <- SymGroup1
    Def <- Def1
    Exportable = {}
    Undefined = {"u"}
    SecSeq <- SecSeq1
    RootRefs <- PreludeRoots
    DynamicRefs <- Empty
    WholeArchive <- Empty
    ExportAll <- Empty
    ScriptSymbols <- Empty
    Inputs <- Inputs1
INVARIANTS NoLostWork StartStopComplete AllGroupsReturned Exact
PROPERTY Termination
