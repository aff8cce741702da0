SPECIFICATION Spec
CONSTANTS
    Inputs <- MCInputs
    Versions <- MCVersions
    Bulk <- MCBulk
    Sections <- MCSections
    Contributors <- MCContributors
    Refs <- NoRefs
    Rlibs = {"b"}
    Versioned = {}
    Setups <- ReplaceAndRecover
    None = None
INVARIANT OutputIsCurrent
INVARIANT SignatureDescribesOutput
INVARIANT ReplayIsSafe
INVARIANT ReusedInPlace
CHECK_DEADLOCK FALSE
