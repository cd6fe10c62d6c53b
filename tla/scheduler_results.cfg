SPECIFICATION SFairSpec
CONSTANTS
    Call = {c1, c2}
    RequestId = {"r1", "r2"}
    Request <- MCRequest
    NoRequest = NoRequest
    FreshIds = FALSE
    Backends = {"python", "rust_chokepoint"}
    MaxSchedulers = 2
    Rules = {}
    HasBoundary = TRUE
    AllowedTools = {}
    DeniedTools = {}
INVARIANTS
    SchedulerTypeOK
    PassedWasExecuted
    OneResultPerRun
    SummariesAgree
PROPERTIES
    StatusesOnlyAdvance
    ExecuteEnds
