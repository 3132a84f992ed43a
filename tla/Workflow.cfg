SPECIFICATION FairSpec
CONSTANTS
    N = 2
    Ids = {"x", "y"}
    Options <- MCOptions
    Keys = {"a", "b"}
    Files <- MCFiles
    File <- MCFile
    Limit = 1
    MaxCalls <- MCMaxCalls
    None = None
INVARIANTS
    PermitsConserved
    ReuseIsGenuine
    StateIsOneExecution
PROPERTIES
    CancelReleasesCalls
CHECK_DEADLOCK FALSE
