CONSTANTS
    p1 = p1
    p2 = p2
    Paths = {p1, p2}
    QueueCapacity = 1
    ChannelCapacity = 2
    MaxRetries = 2
    MaxVersion <- Writes
    MaxCrashes = 1
SPECIFICATION FairSpec
INVARIANTS
    ChunksAreOfTheirVersion
    NoResurrection
PROPERTIES
    BacklogSettles
    DeferredIsIndexed
CHECK_DEADLOCK FALSE
