SPECIFICATION MonitorSpec
CONSTANTS
    p1 = p1
    p2 = p2
    scan1 = scan1
    consumer = consumer
    Pools <- MCPools
    Scans <- MCScans
    Handler = consumer
    Readers <- MCReaders
    Snapshot = 2
    Blocks <- MCBlocks
    CAP = 2
    MaxBlocks = 3
    MaxReorgs = 1
    Failures = {}
SYMMETRY Symmetry
CHECK_DEADLOCK FALSE
INVARIANT ReorgReverted
