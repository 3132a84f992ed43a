CONSTANTS
    c1 = c1
    c2 = c2
    q1 = q1
    Children = {c1, c2}
    Requests = {q1}
    RetryLimit <- RetryFirst
SPECIFICATION FairSpec
INVARIANTS
    DeliveredMeansReceived
    HandlesTrackLife
PROPERTIES
    ImplementsBoard
    RequestsEnd
    CancelledApprovalEnds
CHECK_DEADLOCK FALSE
