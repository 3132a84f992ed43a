CONSTANTS
    p1 = p1
    p2 = p2
    s = s
    x = x
    y = y
    home = home
    other = other
    Calls = {p1, p2, s}
    Cells = {home, other}
    Cell <- MCCell
    Ops <- MCOps
    Paths = {x, y}
    Seed = seed
    Seeded = {x}
    Backends = {"atomic", "hooked"}
    MaxBytes <- MCMaxBytes
    MaxFaults = 2
    None = none
SPECIFICATION Spec
INVARIANTS
    FailedBatchLeavesNothing
    BytesAccounted
PROPERTY
    BuildsOnWhatIsThere
CHECK_DEADLOCK FALSE
