SPECIFICATION FairSpec
\* Blocks and crashes are bounded, a refused start and a hung trade final.
CHECK_DEADLOCK FALSE
CONSTANTS
    left = left
    both = both
    right = right
    a = a
    b = b
    Services <- MCServices
    Pools <- MCPools
    Paths <- MCPaths
    PoolsOf <- MCPoolsOf
    Inputs <- MCInputs
    Outcomes <- MCOutcomes
    HEADS = 1
    QUEUE = 1
    MAX_APPEARANCES = 2
    COOLDOWN = 2
    MAX_RETRIES = 2
    Activity <- MCActivity
    Unsynced <- MCUnsynced
    Drained <- MCDrained
    MaxBlocks = 4
    MaxCrashes = 1
    Failures <- MCFailures
INVARIANT SelectionIsGreedy CooldownKept AttemptsBounded FailuresSurvive LogsCountOnce
PROPERTY LoopAndWorkerProgress
