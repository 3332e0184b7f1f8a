SPECIFICATION Spec
CONSTANTS
    p1 = p1
    p2 = p2
    s1 = s1
    s2 = s2
    Pools <- MCPools
    AmmStates <- MCAmmStates
    CAP = 3
    SnapshotBlock = 1
    MaxBlock = 5
SYMMETRY Symmetry
CONSTRAINT NotStale
CHECK_DEADLOCK FALSE
INVARIANTS
    StateIsCanonical
    RollbackExact
    UndoInv
