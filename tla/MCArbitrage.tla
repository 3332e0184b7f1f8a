---------------------------- MODULE MCArbitrage ----------------------------
(* The steps of a trade of the library, each tried while the others stay as *)
(* they start: PathFinder with four tokens and pools between any two of     *)
(* them, parallel, unsupported, in a circle or apart; PathOptimizer with    *)
(* paths of up to two constant product pools, without fees, one of which    *)
(* may fail beyond some amount, and with longer ones for the SwapExecutor,  *)
(* whose pools have fees and are of every type; and NonceManager with three *)
(* threads.                                                                 *)
EXTENDS PathFinder, SwapExecutor, NonceManager

CONSTANTS
    t1, t2, t3, t4,
    Reserves,  \* reserves a pool may have of either token
    Limits,    \* amounts beyond which a pool may fail
    task1, task2, task3

-----------------------------------------------------------------------------
(* PathFinder: the first pool names its two tokens.                         *)

MCTokens == {t1, t2, t3, t4}

\* A pool has the same two edges whichever of its tokens comes first.
Oriented == {<<t1, t2>>, <<t1, t3>>, <<t1, t4>>, <<t2, t3>>, <<t2, t4>>, <<t3, t4>>,
             Unsupported}

GraphInit ==
    /\ FinderInit
    /\ pools[1] \in {<<t1, t2>>, Unsupported}
    /\ \A p \in 1..NumPools : pools[p] \in Oriented
    /\ constraints.required_start_token \in {NoToken, t1}
    /\ constraints.required_end_token \in {NoToken, t2}

-----------------------------------------------------------------------------
(* PathOptimizer and SwapExecutor.                                          *)

Hop(reserve_in, reserve_out, limit) ==
    [amount \in Amounts |->
        IF amount > limit THEN Error ELSE GetAmountOut(amount, reserve_in, reserve_out, 1000)]

SomeHops == {Hop(r[1], r[2], r[3]) : r \in Reserves \X Reserves \X Limits}

PoolsOf(reserves, types, keeps) ==
    {[i \in DOMAIN reserves |->
        [type |-> t[i], reserve_in |-> reserves[i][1], reserve_out |-> reserves[i][2],
         keep |-> keep]] : t \in [DOMAIN reserves -> types], keep \in keeps}

\* A fee of 0.3 % and one of 10 %.
MCMarkets ==
    PoolsOf(<<<<20, 31>>, <<25, 31>>>>, {"UniV2", "UniV3", "MoeLB"}, {997, 900})
        \cup PoolsOf(<<<<12, 31>>, <<31, 40>>, <<31, 31>>>>, {"UniV2", "UniV3"}, {997})

MCPaths ==
    {<<>>} \cup {<<f>> : f \in SomeHops} \cup (SomeHops \X SomeHops)
        \cup {HopsOf(ps) : ps \in MCMarkets}

-----------------------------------------------------------------------------
(* NonceManager.                                                            *)

MCThreads == {task1, task2, task3}
MCNonces == {0, 2, 3}

-----------------------------------------------------------------------------
VARIABLE part  \* what is tried

\* A state of each step to stay in.
FinderRests ==
    /\ pools = [p \in 1..NumPools |-> Unsupported]
    /\ constraints = [allow_self_cycle |-> FALSE, required_start_token |-> NoToken,
                      required_end_token |-> NoToken]
    /\ FinderInit
SwapRests == path = <<>> /\ SwapInit
NonceRests == initial_nonce = 0 /\ NonceInit

MCInit ==
    \/ part = "paths" /\ GraphInit /\ SwapRests /\ NonceRests
    \/ part = "swaps" /\ FinderRests /\ SwapInit /\ NonceRests
    \/ part = "nonces" /\ FinderRests /\ SwapRests /\ NonceInit

MCNext ==
    \/ part = "paths" /\ FinderNext /\ UNCHANGED <<allVars, nonceVars, part>>
    \/ part = "swaps" /\ SwapNext /\ UNCHANGED <<finderVars, nonceVars, part>>
    \/ part = "nonces" /\ NonceNext /\ UNCHANGED <<finderVars, allVars, part>>

\* What is fair in NonceManager can only be taken while the nonces are tried.
MCSpec ==
    MCInit /\ [][MCNext]_<<finderVars, allVars, nonceVars, part>> /\ NonceFairness
=============================================================================
