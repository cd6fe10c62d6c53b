SPECIFICATION Spec
CONSTANTS
    Thread = {t1, t2}
    Process = {p1, p2}
    Placements <- MCPlacements
    MaxAppends = 2
SYMMETRY StoreSymmetry
INVARIANTS
    LastHashIsLatest
