SPECIFICATION FairSpec
CONSTANTS
    c1 = c1
    c2 = c2
    d1 = d1
    d2 = d2
    Daemons = {d1, d2}
    Clients = {c1, c2}
    HasFallback = {c1}
    Stalled = {}
    InProcess = {FALSE, TRUE}
    ClientEnv = {c2}
    Outputs = {0, 2}
    PipeCap = 2
    MaxStream = 1
    Backlog = 2
    Faults = {"kill", "signal", "fork"}
    Outcomes <- TwoOutcomes
    None = None
 
PROPERTY ImplementsService
PROPERTY EveryClientExits
