SPECIFICATION Spec
CONSTANTS
    Sizes <- MCSizes
    Parallel = {TRUE, FALSE}
    Approvals = {TRUE, FALSE}
    MaxTurns = 2
    MaxInputs = 0
    MaxNested = 0
    MaxFaults = 1
    MaxCrashes = 1
INVARIANT
    RecordedBatchReplays
CHECK_DEADLOCK FALSE
