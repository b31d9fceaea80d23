SPECIFICATION EngineSpec
CONSTANTS
    Clients = {main, worker}
    Requests <- MCRequests
    InitialDb <- MCInitialDb
    MaxWrites = 2
    MaxReads = 2
SYMMETRY Interchangeable
INVARIANT ReadBack
INVARIANT OneStarterPerAttempt
INVARIANT ViewsAreExact
PROPERTY HintsCoverChanges
CHECK_DEADLOCK FALSE
