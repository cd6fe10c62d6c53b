SPECIFICATION Spec
CONSTANTS
    Call = {c1, c2, c3}
    RequestId = {"r1", "r2", "r3", "r4"}
    Request <- MCRequest
    NoRequest = NoRequest
    FreshIds = FALSE
    Backends = {"python", "rust_chokepoint"}
    Rules = {}
    HasBoundary = TRUE
    AllowedTools = {}
    DeniedTools = {}
SYMMETRY CallSymmetry
INVARIANTS
    ReadIsComplete
    AllowMeansWritten
PROPERTIES
    NoLateEffects
