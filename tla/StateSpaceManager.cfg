SPECIFICATION FairMonitorSpec
CONSTANTS
    p1 = p1
    p2 = p2
    scan1 = scan1
    consumer = consumer
    Pools <- MCPools
    Scans <- MCScans
    Handler = consumer
    Readers <- MCReaders
    Snapshot = 2
    Blocks <- MCBlocks
    CAP = 2
    MaxBlocks = 3
    MaxReorgs = 1
    Failures <- AllFailures
CHECK_DEADLOCK FALSE
PROPERTIES
    ShowsTheChain
    BlocksAreApplied
    ScansReturn
