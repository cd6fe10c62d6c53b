SPECIFICATION GSpec
CONSTANTS
    Todo = {"k1"}
    Audited = {"n1"}
    Call <- MCCall
    ActionId = {"a1", "a2", "a3"}
    Target <- MCTarget
    Workspace <- MCWorkspace
    Root = "root"
    Parent <- MCParent
    Content = {"todo", "created", "error", "note"}
    InitialFiles <- MCInitialFiles
    Request <- MCRequest
    NoRequest = NoRequest
    HasDecisionStore = FALSE
    Serial = TRUE
    FreshIds = FALSE
    Rules <- MCRules
    HasBoundary = FALSE
    AllowedTools = {}
    DeniedTools = {}
    RecordOf <- MCRecordOf
    AuditTarget <- MCAuditTarget
    AuditRequests <- MCAuditRequests
\* Tasks are finitely many: the system comes to rest.
CHECK_DEADLOCK FALSE
INVARIANTS
    GatesTypeOK
    CreatedWasIntended
    TodoAnswersAreTrue
    
    FindingsAreTrue
    NothingSeenMeansRejected
