SPECIFICATION SSpec
CONSTANTS
    Call = {c1, c2}
    RequestId = {"r1", "r2"}
    Request <- MCRequest
    NoRequest = NoRequest
    FreshIds = TRUE
    Backends = {"python", "rust_chokepoint"}
    MaxSchedulers = 1
    Rules = {}
    HasBoundary = TRUE
    AllowedTools = {}
    DeniedTools = {}
INVARIANTS
    ResultsArePersisted
