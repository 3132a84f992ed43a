CONSTANTS
    ws = ws
    http = http
    w1 = w1
    call = call
    none = none
    Tasks = {ws, http}
    ConnTasks = {ws}
    Attended = {ws}
    HitlTasks = {ws}
    Workers = {w1}
    ToolCalls = {call}
    QueueCapacity = 1
    MaxChatter <- ChatterBound
    MaxLog <- LogBound
    None = none
SPECIFICATION FairSpec
INVARIANTS
    LiveAgentIsTold
    AnswersMatchQuestions
    StreamTellsState
    OneTerminalEvent
PROPERTIES
    CancelFreesWorker
    SubmittedEnds
CHECK_DEADLOCK FALSE
