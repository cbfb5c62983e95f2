SPECIFICATION FairSpec
CONSTANTS
    w1 = w1
    w2 = w2
    h1 = h1
    h2 = h2
    NoOne = NoOne
    Hosts <- MCHosts
    Workers <- MCWorkers
    MaxRoots = 2
    Scopes <- MCScopes
    MaxCred = 2
    FailureLimit = 2
CHECK_DEADLOCK FALSE
INVARIANTS
    RecoveryMatchesRoot
    SuspendedHostIsIdle
PROPERTIES
    SuspendsOntoServing
    CancelledStaysCancelled
    KeepsPromise
    CreationCompletes
    DeletionCompletes
    MaintenanceCompletes
