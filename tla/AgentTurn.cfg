SPECIFICATION Spec
CONSTANTS
    Sizes <- MCSizes
    Parallel = {TRUE, FALSE}
    Approvals = {TRUE, FALSE}
    MaxTurns = 2
    MaxInputs = 1
    MaxNested = 1
    MaxFaults = 1
    MaxCrashes = 1
INVARIANTS
    JournalBeforeReturn
    RecordedNotRepeated
    ReplayRewritesRecord
    DivergesOnlyWhere
CHECK_DEADLOCK FALSE
