SPECIFICATION RSpec
CONSTANTS
    Call = {c1}
    ActionId = {"a1", "a2", "a3", "a4", "a5"}
    Target <- MCTarget
    Workspace <- MCWorkspace
    Root = "root"
    Parent <- MCParent
    Content = {"v1", "v2"}
    InitialFiles <- MCInitialFiles
    Request <- WriteAndMkdir
    NoRequest = NoRequest
    HasDecisionStore = FALSE
    Serial = TRUE
    FreshIds = TRUE
    Rules <- NoRules
    HasBoundary = FALSE
    AllowedTools = {}
    DeniedTools = {}
    Exclusive = TRUE
    MaxRuns = 1
    MaxBypasses = 0
SYMMETRY CallSymmetry
\* Callers and reconcile runs are finitely many: the system comes to rest.
CHECK_DEADLOCK FALSE
INVARIANTS
    MadeDirectoryIsNotDiverged
