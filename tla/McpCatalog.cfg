SPECIFICATION FairSpec
CONSTANTS
    Ops = {1, 2, 3, 4}
    Does <- MCDoes
    Servers = {"a", "w", "x"}
    Transport <- MCTransport
    Tools = {"t", "u"}
    Inventories <- MCInventories
    Skills <- MCSkills
    Granted <- MCGranted
    MAX_RETRIES = 3
    TopResults = 1
    None = None
INVARIANTS
    CatalogKeepsItsWord
    ModeNeverSwitches
    RunsAccounted
PROPERTIES
    InvocationsEnd
CHECK_DEADLOCK FALSE
