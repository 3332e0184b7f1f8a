------------------------------ MODULE AgniPool ------------------------------
(***************************************************************************)
(* AgniPool (src/amms/agni/mod.rs) next to the UniswapV3Pool it was copied  *)
(* from.  It differs in three things:                                       *)
(*   - liquidity is added and taken away with saturation,                   *)
(*   - simulate_swap_mut keeps nothing of what it simulates,                *)
(*   - init_basic, which the services and monitors use, reads price, tick   *)
(*     and liquidity but no ticks: they are known from later logs only, and *)
(*     a Burn may take away what the copy never held.                       *)
(* kind is the pool at hand: "uniswap", "agni" (AgniPool::init) or "basic"  *)
(* (AgniPool::init_basic).                                                  *)
(***************************************************************************)
EXTENDS UniswapV3Pool

CONSTANTS
    Genesis,  \* positions of the contract when init_basic reads the pool
    MaxLogs   \* bound on the Mint and Burn logs of a basic copy

ASSUME AgniAssumption ==
    /\ Genesis \subseteq [Ranges -> 0..MaxLiquidity]
    /\ MaxLogs \in Nat

VARIABLES
    kind,  \* the pool and how it was read
    logs   \* Mint and Burn logs of a basic copy so far

agniVars == <<vars, kind, logs>>

\* saturating_sub and saturating_add on u128, the latter out of reach of the
\* bounded liquidity.
Saturating(n) == IF n < 0 THEN 0 ELSE n

-----------------------------------------------------------------------------
(* sync.                                                                    *)

\* update_tick: the entry after delta is added to it.
AgniUpdatedTick(t, delta, upper) ==
    LET info == EntryOrDefault(t)
    IN  [liquidity_gross |-> Saturating(info.liquidity_gross + delta),
         liquidity_net |-> info.liquidity_net + (IF upper THEN -delta ELSE delta),
         initialized |-> info.initialized \/ info.liquidity_gross = 0]

\* Variant: what is left is compared without saturation.
AgniFlippedBelow(t, delta) ==
    LET before == EntryOrDefault(t).liquidity_gross
    IN  (before + delta = 0) # (before = 0)

AgniFlipped(t, delta) ==
    LET before == EntryOrDefault(t).liquidity_gross
    IN  (Saturating(before + delta) = 0) # (before = 0)

\* flip_tick toggles the bits; an entry that a Burn left at zero from zero is
\* not flipped and stays.
AgniUpdatePosition(lower, upper, delta) ==
    LET flipped == IF delta = 0 THEN {} ELSE {t \in {lower, upper} : AgniFlipped(t, delta)}
        updated == [t \in DOMAIN ticks \cup {lower, upper} |->
                       IF t = lower THEN AgniUpdatedTick(t, delta, FALSE)
                       ELSE IF t = upper THEN AgniUpdatedTick(t, delta, TRUE)
                       ELSE ticks[t]]
        removed == IF delta < 0 THEN flipped ELSE {}
        bits == BitsOf(flipped)
    IN  /\ ticks' = IF delta = 0 THEN ticks ELSE Restrict(updated, DOMAIN updated \ removed)
        /\ tick_bitmap' = (tick_bitmap \ bits) \cup (bits \ tick_bitmap)

AgniModifyPosition(lower, upper, delta) ==
    /\ AgniUpdatePosition(lower, upper, delta)
    /\ liquidity' = IF tick >= lower /\ tick < upper
                    THEN Saturating(liquidity + delta) ELSE liquidity
    /\ UNCHANGED <<sqrt_price, tick>>

\* A log of the contract is applied, and counted for a basic copy.
Applied(r, delta) ==
    /\ swap = NoSwap
    /\ logs < MaxLogs
    /\ positions[r] + delta \in 0..MaxLiquidity
    /\ positions' = [positions EXCEPT ![r] = @ + delta]
    /\ AgniModifyPosition(r[1], r[2], delta)
    /\ logs' = IF kind = "basic" THEN logs + 1 ELSE logs
    /\ UNCHANGED <<swap, kind>>

AgniMint(r, amount) == Applied(r, amount)

AgniBurn(r, amount) == positions[r] > 0 /\ Applied(r, -amount)

AgniSwapLog(p, t) == SwapLog(p, t) /\ UNCHANGED <<kind, logs>>

-----------------------------------------------------------------------------
(* simulate_swap is the loop of UniswapV3Pool, line by line.                *)

AgniBeginSwap(zero_for_one, amount_in) ==
    BeginSwap(zero_for_one, amount_in) /\ UNCHANGED <<kind, logs>>

AgniSwapStep == SwapStep /\ UNCHANGED <<kind, logs>>

AgniReturnQuote == ReturnQuote /\ UNCHANGED <<kind, logs>>

\* simulate_swap_mut simulates on a clone through the immutable simulate_swap
\* and copies the clone's price, tick and liquidity back: nothing changes.
AgniKeepSwap ==
    /\ SwapDone
    /\ swap.status = "running"
    /\ swap' = NoSwap
    /\ UNCHANGED <<positions, pool, kind, logs>>

-----------------------------------------------------------------------------
\* init reads the ticks, too (none as yet); init_basic clears what it has.
AgniInit ==
    /\ kind \in {"agni", "basic"}
    /\ positions \in IF kind = "basic" THEN Genesis ELSE {[r \in Ranges |-> 0]}
    /\ sqrt_price \in Lowest..Highest
    /\ tick \in TicksAt(sqrt_price)
    /\ liquidity = Active(tick)
    /\ ticks = <<>>
    /\ tick_bitmap = {}
    /\ swap = NoSwap

AgniNext ==
    \/ \E r \in Ranges : \/ \E amount \in 1..MaxLiquidity : AgniMint(r, amount)
                         \/ \E amount \in 0..MaxLiquidity : AgniBurn(r, amount)
    \/ \E p \in Lowest..Highest : \E t \in TicksAt(p) : AgniSwapLog(p, t)
    \/ \E zero_for_one \in BOOLEAN, amount_in \in 1..MaxAmount :
          AgniBeginSwap(zero_for_one, amount_in)
    \/ AgniSwapStep
    \/ AgniReturnQuote
    \/ AgniKeepSwap

\* Any of the pools.
PoolsInit ==
    /\ logs = 0
    /\ \/ kind = "uniswap" /\ Init
       \/ AgniInit

PoolsNext ==
    \/ kind = "uniswap" /\ Next /\ UNCHANGED <<kind, logs>>
    \/ kind # "uniswap" /\ AgniNext

PoolsSpec == PoolsInit /\ [][PoolsNext]_agniVars

-----------------------------------------------------------------------------
(* Properties.                                                              *)

\* A pool whose ticks were read has the contract's tick table and bitmap after
\* any run of Mint and Burn logs, and the saturation of AgniPool never bites.
\* A copy whose ticks were not read never holds more liquidity at a tick than
\* the contract, whatever Burns of positions it never saw took away, and its
\* bits are set exactly where it holds some: a quote may miss a tick, but
\* never crosses one that the contract has not got (update_tick, flip_tick).
TicksTracked ==
    IF kind = "basic"
    THEN /\ \A t \in DOMAIN ticks : ticks[t].liquidity_gross <= GrossAt(t)
         /\ tick_bitmap = BitsOf({t \in DOMAIN ticks : ticks[t].liquidity_gross > 0})
    ELSE TicksMirror
=============================================================================
