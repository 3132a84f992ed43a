CONSTANTS
    N = 3
    Due <- Occurrences
    Policy <- Policies
    BackfillCap = 2
    MaxTime = 5
    MaxFaults = 2
SPECIFICATION FairSchedulerSpec
INVARIANTS
    FileNeverLeads
    OneTaskPerOccurrence
PROPERTY
    LateTicksStillFire
CHECK_DEADLOCK FALSE
