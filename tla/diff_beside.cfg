SPECIFICATION Spec
CONSTANTS
    Path = {"a", "b", "c"}
    Content = {"v1", "v2"}
    Requests <- MCRequests
    InitialFiles <- MCInitialFiles
    ResultId = {"r1"}
    MaxRuns = 2
    MaxChanges = 2
\* Requests and changes are finitely many: the system comes to rest.
CHECK_DEADLOCK FALSE
INVARIANTS
    DiffTypeOK
    StillDirectoryIsJudgedRight
    VerdictsHaveGrounds
    
