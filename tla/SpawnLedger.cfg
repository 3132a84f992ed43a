CONSTANTS
    root = root
    k1 = k1
    k2 = k2
    k3 = k3
    place = place
    none = none
    Root = root
    Children = {k1, k2, k3}
    Placements = {place}
    Rights = {}
    RootCapability = {place}
    RootMax <- LedgerRootMax
    PlacementGrant <- GrantAll
    PlacementMax <- LedgerPlacementMax
    BudgetRequests <- LedgerRequests
    TurnTokens = {1}
    NoAgent = none
    MaxOwnTurns = 1
SPECIFICATION Spec
SYMMETRY Symmetric
INVARIANTS
    CapabilitiesAttenuated
    ReservedMatchesOutstanding
    SubAgentsCounted
    UsageConserved
PROPERTY
    ChargeBracketsUsage
CHECK_DEADLOCK FALSE
