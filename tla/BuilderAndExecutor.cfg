SPECIFICATION MCSpec
\* The pools are built, the opportunity is dropped, mined or reverted: it ends.
CHECK_DEADLOCK FALSE
CONSTANTS
    p1 = p1
    p2 = p2
    o1 = o1
    a = a
    b = b
    c = c
    Pools <- MCPools
    Others <- MCOthers
    Listed <- MCListed
    OldTicks <- MCOldTicks
    TokensOf <- MCTokensOf
    Filters <- MCFilters
    creation_block = 1
    MaxTip = 4
    sync_step = 1
    MinWord <- MCMinWord
    MaxWord <- MCMaxWord
    WordBits = 2
    max_range = 2
    max_ticks = 2
    MaxInitialized = 3
    MinInput = 1
    MaxInput = 33
    MAX_ITERATIONS = 3
    Curves <- MCCurves
    Hops <- MCHops
    GasOf <- MCGasOf
    GasLimitForHops <- MCGasOf
    FOUR_HOP_LIMIT = 15
    TWO_HOP_LIMIT = 9
    gas_price_wei = 5
    MANTLE_BASE_FEE_WEI = 4
    SMALL_PROFIT = 400
    ONE_WMNT = 4000
    FIVE_WMNT = 20000
    ONE_WMNT_CAP = 100
    FIVE_WMNT_CAP = 600
    U128_MAX = 24800
    Configs <- MCConfigs
    Drifts <- MCDrifts
    Balances <- MCBalances
    NodePrices <- MCNodePrices
INVARIANTS
    PoolsFound
    TicksRecovered
    Admitted
    PeakWithinReach
    FeePaidByProfit
