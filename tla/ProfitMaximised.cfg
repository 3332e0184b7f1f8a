SPECIFICATION MCSpec
\* A search ends, and so does a path that was swapped.
CHECK_DEADLOCK FALSE
CONSTANTS
    t1 = t1
    t2 = t2
    t3 = t3
    t4 = t4
    Tokens <- MCTokens
    NumPools = 4
    NoToken = NoToken
    max_length = 4
    Reserves = {1, 2, 4, 8, 12, 20, 31}
    Limits = {5, 31}
    Paths <- MCPaths
    MaxAmount = 31
    initial_guess = 29
    max_input = 31
    min_profit = 0
    max_iterations = 5
    Markets <- MCMarkets
    Holdings = {0, 3}
    Trades = {6}
    MaxMoves = 1
    OtherTier = {0, 5}
    task1 = task1
    task2 = task2
    task3 = task3
    Threads <- MCThreads
    Nonces <- MCNonces
    MaxNonce = 3
INVARIANT ProfitMaximised
