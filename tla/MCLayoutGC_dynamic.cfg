SPECIFICATION Spec
CONSTANTS
    Groups = {"prelude", "a", "b", "d", "synthetic"}
    Synthetic = "synthetic"
    Sections = {"a1", "b1"}
    Symbols = {"main", "f", "v", "p"}
    Outputs = {"o"}
    NoOutput = "none"
    SecGroup <- SecGroup2
    SecOutput <- SecOutput2
    SymGroup <- SymGroup2
    Def <- Def2
    Exportable = {"f"}
    Undefined = {}
    SecSeq <- SecSeq2
    RootRefs <- PreludeRoots
    DynamicRefs <- DynamicRefs2
    WholeArchive <- WholeArchive2
    ExportAll <- ExportAll2
    ScriptSymbols <- ScriptSymbols2
    Inputs <- Inputs2
INVARIANTS ServedOnce
