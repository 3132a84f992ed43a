CONSTANTS
    u = u
    v = v
    t1 = t1
    t2 = t2
    Clients = {u, v}
    Tasks = {t1, t2}
    Messages <- Kinds
    From <- Sender
    Priority <- Level
    Spawning = {"spawn", "nested"}
    HoldsSender = {t1}
    FactorySender = FALSE
    Capacity = 3
SPECIFICATION FairSpec
PROPERTIES
    NoStarvation
    LoopEnds
CHECK_DEADLOCK FALSE
