SPECIFICATION MCSpec
\* The logs and the quotes are bounded.
CHECK_DEADLOCK FALSE
CONSTANTS
    MinTick <- LowTick
    MaxTick = 4
    tick_spacing = 2
    WordBits = 2
    MaxLiquidity = 1
    MaxAmount = 4
    Genesis <- MCGenesis
    MaxLogs = 2
    Ids <- MCIds
    BINS_RADIUS = 1
    BINS_BATCH_SIZE = 1
    MAX_ITERATIONS = 3
    Fees <- MCFees
    Precision = 4
    GenesisPair <- MCGenesisPair
    BinPrice <- MCPrice
    MAX_RATIO = 2
    MIN_INPUT_THRESHOLD = 2
    MAX_SMALL_RATIO = 1
    MaxReserve = 5
    MaxPairLogs = 3
    MaxQuoted = 4
INVARIANTS
    TicksTracked
    LiquidityIsActive
    QuoteExact
    CopyExact
    QuoteIsOfActiveBin
PROPERTIES
    SwapAdvances
    ReadingReaches
