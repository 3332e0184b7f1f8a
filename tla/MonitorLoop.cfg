SPECIFICATION Spec
\* The blocks are bounded.
CHECK_DEADLOCK FALSE
CONSTANTS
    a = a
    b = b
    c = c
    wide = wide
    left = left
    right = right
    Pools <- MCPools
    Paths <- MCPaths
    PoolMaps <- MCPoolMaps
    Profits <- MCProfits
    Gains <- MCGains
    HOPS = 2
    THRESHOLD = 80
    Programs <- MCPrograms
    Pairs <- MCPairs
    HEADS = 1
    Activity <- MCActivity
    MaxBlocks = 4
    Unsynced <- MCUnsynced
    Drained <- MCDrained
    MaxStops = 1
    Failures <- MCFailures
INVARIANTS SelectionIsBest GreedyWithinHops FileIsCurrent PricesAreCurrent BestPathIsReported
