SPECIFICATION FairSpec
CONSTANTS
    Call = {c1, c2}
    ActionId = {"a0", "a1", "a2", "a3", "a4", "a5", "a6", "a7", "a8", "a9"}
    Target <- MCTarget
    Workspace <- MCWorkspace
    Root = "root"
    Parent <- MCParent
    Content = {"v0", "v1", "v2"}
    InitialFiles <- MCInitialFiles
    Request <- EveryTool
    NoRequest = NoRequest
    HasDecisionStore = TRUE
    Serial = FALSE
    FreshIds = TRUE
    Rules <- SomeRules
    HasBoundary = TRUE
    AllowedTools <- ShellToo
    DeniedTools = {"filesystem.read"}
INVARIANTS
    TypeOK
    RecordShape
    DecisionRefsResolve
    IntentBeforeEffect
    ResultsAreTrue
    
    CommittedContent
    EffectsAreAccounted
    OnlyGatedIntents
PROPERTIES
    KeepsContract
    BoundedCallsEnd
