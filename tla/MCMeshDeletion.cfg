SPECIFICATION FairSpec
CONSTANTS
    w1 = w1
    w2 = w2
    h1 = h1
    h2 = h2
    NoOne = NoOne
    Hosts <- MCHosts
    Workers <- MCWorkers
    MaxRoots = 2
    Scopes <- DeletionScopes
    MaxCred = 2
    FailureLimit = 2
CHECK_DEADLOCK FALSE
PROPERTY
    EveryDeletionCompletes
