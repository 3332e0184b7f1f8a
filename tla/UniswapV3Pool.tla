--------------------------- MODULE UniswapV3Pool ---------------------------
(***************************************************************************)
(* UniswapV3Pool (src/amms/uniswap_v3/mod.rs): the copy of a pool that is   *)
(* kept by applying its Mint, Burn and Swap logs, and the swap loop that    *)
(* quotes from it (simulate_swap, and simulate_swap_mut which keeps the     *)
(* result).  The loop runs one iteration a step.                            *)
(*                                                                         *)
(* positions is the contract: the liquidity of each range of ticks.  What   *)
(* the copy holds is compared with sums over it.                            *)
(*                                                                         *)
(* Prices are the integers: tick t is at price 2t, so that a price may also *)
(* lie between two ticks.  Moving the price by one against liquidity L      *)
(* costs L and pays L; fees and the curve are left out.                     *)
(***************************************************************************)
EXTENDS Integers, FiniteSets, FiniteSetsExt, Functions

CONSTANTS
    MinTick,       \* MIN_TICK
    MaxTick,       \* MAX_TICK
    tick_spacing,  \* UniswapV3Pool.tick_spacing
    WordBits,      \* bits of a bitmap word, 256 in the code
    MaxLiquidity,  \* bound on the liquidity of a position
    MaxAmount      \* bound on amount_in

ASSUME PoolAssumption ==
    /\ MinTick \in Int /\ MaxTick \in Int /\ MinTick < 0 /\ MaxTick > 0
    /\ tick_spacing \in Nat \ {0}
    /\ WordBits \in Nat \ {0}
    /\ MaxLiquidity \in Nat
    /\ MaxAmount \in Nat

VARIABLES
    positions,    \* the contract: liquidity of every range of ticks
    sqrt_price,   \* the pool
    tick,
    liquidity,
    ticks,        \* tick index |-> Info, initialized ticks only
    tick_bitmap,  \* indices of the bits that are set
    swap          \* the swap loop's CurrentState, or NoSwap

pool == <<sqrt_price, tick, liquidity, ticks, tick_bitmap>>
vars == <<positions, pool, swap>>

Ticks == {t \in MinTick..MaxTick : t % tick_spacing = 0}
Ranges == {r \in Ticks \X Ticks : r[1] < r[2]}

SumOf(f, S) == FoldFunctionOnSet(+, 0, f, S)

-----------------------------------------------------------------------------
(* The contract.                                                            *)

\* Liquidity active at tick t, and in the unit of price that starts at p.
Active(t) == SumOf(positions, {r \in Ranges : r[1] <= t /\ t < r[2]})
ActiveBetween(p) == Active(p \div 2)

GrossAt(t) == SumOf(positions, {r \in Ranges : t \in {r[1], r[2]}})
NetAt(t) == SumOf(positions, {r \in Ranges : t = r[1]})
              - SumOf(positions, {r \in Ranges : t = r[2]})

\* Just inside the prices of the extreme ticks.
Lowest == 2 * MinTick + 1
Highest == 2 * MaxTick - 1

\* A price left at a tick after moving down to it belongs to the tick below.
TicksAt(p) == {p \div 2} \cup {t \in MinTick..MaxTick : 2 * (t + 1) = p /\ t + 1 \in Ticks}

\* A swap of amount from price p walks unit by unit while the amount lasts.
Walk(zero_for_one, p, amount) ==
    LET w[n \in 0..Highest - Lowest] ==
            IF n = 0 THEN [price |-> p, remaining |-> amount, out |-> 0]
            ELSE LET v == w[n - 1]
                     cost == ActiveBetween(IF zero_for_one THEN v.price - 1 ELSE v.price)
                 IN  IF v.remaining = 0 \/ v.price = (IF zero_for_one THEN Lowest ELSE Highest)
                     THEN v
                     ELSE IF cost <= v.remaining
                     THEN [price |-> IF zero_for_one THEN v.price - 1 ELSE v.price + 1,
                           remaining |-> v.remaining - cost,
                           out |-> v.out + cost]
                     ELSE [v EXCEPT !.remaining = 0]
    IN  w[Highest - Lowest]

-----------------------------------------------------------------------------
(* sync: Mint and Burn.                                                     *)

Info == [liquidity_gross : Nat, liquidity_net : Int, initialized : BOOLEAN]
DefaultInfo == [liquidity_gross |-> 0, liquidity_net |-> 0, initialized |-> FALSE]

EntryOrDefault(t) == IF t \in DOMAIN ticks THEN ticks[t] ELSE DefaultInfo

\* update_tick: the entry after delta is added to it.
UpdatedTick(t, delta, upper) ==
    LET info == EntryOrDefault(t)
    IN  [liquidity_gross |-> info.liquidity_gross + delta,
         liquidity_net |-> info.liquidity_net + (IF upper THEN -delta ELSE delta),
         initialized |-> info.initialized \/ info.liquidity_gross = 0]

Flipped(t, delta) ==
    LET before == EntryOrDefault(t).liquidity_gross
    IN  (before + delta = 0) # (before = 0)

\* flip_tick: the bits toggled by update_position.
BitsOf(S) == {t \div tick_spacing : t \in S}

UpdatePosition(lower, upper, delta) ==
    LET flipped == IF delta = 0 THEN {} ELSE {t \in {lower, upper} : Flipped(t, delta)}
        updated == [t \in DOMAIN ticks \cup {lower, upper} |->
                       IF t = lower THEN UpdatedTick(t, delta, FALSE)
                       ELSE IF t = upper THEN UpdatedTick(t, delta, TRUE)
                       ELSE ticks[t]]
        removed == IF delta < 0 THEN flipped ELSE {}
        bits == BitsOf(flipped)
    IN  /\ ticks' = IF delta = 0 THEN ticks ELSE Restrict(updated, DOMAIN updated \ removed)
        /\ tick_bitmap' = (tick_bitmap \ bits) \cup (bits \ tick_bitmap)

\* Variant: the upper tick counted into the range.
ModifyPositionInclusive(lower, upper, delta) ==
    /\ UpdatePosition(lower, upper, delta)
    /\ liquidity' = IF tick >= lower /\ tick <= upper THEN liquidity + delta ELSE liquidity
    /\ UNCHANGED <<sqrt_price, tick>>

ModifyPosition(lower, upper, delta) ==
    /\ UpdatePosition(lower, upper, delta)
    /\ liquidity' = IF tick >= lower /\ tick < upper THEN liquidity + delta ELSE liquidity
    /\ UNCHANGED <<sqrt_price, tick>>

NoSwap == [status |-> "none"]

Mint(r, amount) ==
    /\ swap = NoSwap
    /\ positions[r] + amount <= MaxLiquidity
    /\ positions' = [positions EXCEPT ![r] = @ + amount]
    /\ ModifyPosition(r[1], r[2], amount)
    /\ UNCHANGED swap

\* The contract also logs burns of nothing, to collect fees.
Burn(r, amount) ==
    /\ swap = NoSwap
    /\ positions[r] > 0
    /\ amount <= positions[r]
    /\ positions' = [positions EXCEPT ![r] = @ - amount]
    /\ ModifyPosition(r[1], r[2], -amount)
    /\ UNCHANGED swap

\* sync: Swap.  The event tells price, tick and liquidity of the contract.
SwapLog(p, t) ==
    /\ swap = NoSwap
    /\ sqrt_price' = p
    /\ tick' = t
    /\ liquidity' = Active(t)
    /\ UNCHANGED <<positions, ticks, tick_bitmap, swap>>

-----------------------------------------------------------------------------
(* simulate_swap.                                                           *)

Limit(zero_for_one) == IF zero_for_one THEN Lowest ELSE Highest

\* Variant: the tick is computed from the price.
BeginSwapAtPrice(zero_for_one, amount_in) ==
    /\ swap = NoSwap
    /\ amount_in > 0
    /\ swap' = [status |-> "running", zero_for_one |-> zero_for_one,
                amount_in |-> amount_in, sqrt_price |-> sqrt_price, tick |-> sqrt_price \div 2,
                liquidity |-> liquidity, remaining |-> amount_in, calculated |-> 0]
    /\ UNCHANGED <<positions, pool>>

BeginSwap(zero_for_one, amount_in) ==
    /\ swap = NoSwap
    /\ amount_in > 0
    /\ swap' = [status |-> "running", zero_for_one |-> zero_for_one,
                amount_in |-> amount_in, sqrt_price |-> sqrt_price, tick |-> tick,
                liquidity |-> liquidity, remaining |-> amount_in, calculated |-> 0]
    /\ UNCHANGED <<positions, pool>>

\* Variant: the search upwards starts at the current tick.
SearchHere(zero_for_one, t) == t \div tick_spacing

\* uniswap_v3_math::tick_bitmap::next_initialized_tick_within_one_word: the
\* compressed tick the search starts at,
SearchStart(zero_for_one, t) == t \div tick_spacing + (IF zero_for_one THEN 0 ELSE 1)

\* the end of c's word in the direction of the swap,
WordEnd(zero_for_one, c) ==
    LET first == WordBits * (c \div WordBits)
    IN  IF zero_for_one THEN first ELSE first + WordBits - 1

\* and the nearest set bit of that word, or its end.
NextTick(zero_for_one, t) ==
    LET start == SearchStart(zero_for_one, t)
        end == WordEnd(zero_for_one, start)
        set == {b \in tick_bitmap : IF zero_for_one THEN b \in end..start
                                                    ELSE b \in start..end}
        bit == IF set = {} THEN end ELSE IF zero_for_one THEN Max(set) ELSE Min(set)
    IN  [tick |-> bit * tick_spacing, initialized |-> set # {}]

Clamp(t) == Min({MaxTick, Max({MinTick, t})})

\* uniswap_v3_math::swap_math::compute_swap_step, exact input.
SwapMathStep(p, target, l, amount) ==
    LET distance == IF target > p THEN target - p ELSE p - target
        moved == IF distance * l <= amount THEN distance ELSE amount \div l
    IN  [price |-> IF target > p THEN p + moved ELSE p - moved,
         used |-> IF moved = distance THEN distance * l ELSE amount,
         out |-> moved * l]

LoopRuns ==
    /\ swap.status = "running"
    /\ swap.remaining # 0
    /\ swap.sqrt_price # Limit(swap.zero_for_one)

\* The change of liquidity when t is crossed.
Crossed(t, zero_for_one) ==
    LET net == EntryOrDefault(t).liquidity_net
    IN  IF zero_for_one THEN -net ELSE net

\* One iteration of the loop; LiquidityUnderflow ends it.
SwapStep ==
    /\ swap # NoSwap
    /\ LoopRuns
    /\ LET next == NextTick(swap.zero_for_one, swap.tick)
           tick_next == Clamp(next.tick)
           price_next == 2 * tick_next
           limit == Limit(swap.zero_for_one)
           target == IF swap.zero_for_one THEN Max({price_next, limit})
                                          ELSE Min({price_next, limit})
           step == SwapMathStep(swap.sqrt_price, target, swap.liquidity, swap.remaining)
           reached == step.price = price_next
           net == IF reached /\ next.initialized
                  THEN Crossed(tick_next, swap.zero_for_one) ELSE 0
       IN  swap' = IF swap.liquidity + net < 0
                   THEN [swap EXCEPT !.status = "underflow"]
                   ELSE [status |-> "running",
                         zero_for_one |-> swap.zero_for_one,
                         amount_in |-> swap.amount_in,
                         sqrt_price |-> step.price,
                         tick |-> IF reached
                                  THEN IF swap.zero_for_one THEN tick_next - 1 ELSE tick_next
                                  ELSE IF step.price # swap.sqrt_price THEN step.price \div 2
                                  ELSE swap.tick,
                         liquidity |-> swap.liquidity + net,
                         remaining |-> swap.remaining - step.used,
                         calculated |-> swap.calculated + step.out]
    /\ UNCHANGED <<positions, pool>>

SwapDone == swap # NoSwap /\ ~LoopRuns

\* simulate_swap returns its quote, or either function returns its error.
ReturnQuote ==
    /\ SwapDone
    /\ swap' = NoSwap
    /\ UNCHANGED <<positions, pool>>

\* simulate_swap_mut leaves the pool where the loop ended.
KeepSwap ==
    /\ SwapDone
    /\ swap.status = "running"
    /\ sqrt_price' = swap.sqrt_price
    /\ tick' = swap.tick
    /\ liquidity' = swap.liquidity
    /\ swap' = NoSwap
    /\ UNCHANGED <<positions, ticks, tick_bitmap>>

-----------------------------------------------------------------------------
\* A pool read from the chain when nothing has been minted.
Init ==
    /\ positions = [r \in Ranges |-> 0]
    /\ sqrt_price \in Lowest..Highest
    /\ tick \in TicksAt(sqrt_price)
    /\ liquidity = 0
    /\ ticks = <<>>
    /\ tick_bitmap = {}
    /\ swap = NoSwap

Next ==
    \/ \E r \in Ranges : \/ \E amount \in 1..MaxLiquidity : Mint(r, amount)
                         \/ \E amount \in 0..MaxLiquidity : Burn(r, amount)
    \/ \E p \in Lowest..Highest : \E t \in TicksAt(p) : SwapLog(p, t)
    \/ \E zero_for_one \in BOOLEAN, amount_in \in 1..MaxAmount : BeginSwap(zero_for_one, amount_in)
    \/ SwapStep
    \/ ReturnQuote
    \/ KeepSwap

Spec == Init /\ [][Next]_vars

-----------------------------------------------------------------------------
(* Properties.                                                              *)

\* Every variable stays in its set; the price never leaves the limits of the
\* swap loop, and no iteration uses more than what remains of the amount.
TypeOK ==
    /\ positions \in [Ranges -> 0..MaxLiquidity]
    /\ sqrt_price \in Lowest..Highest
    /\ tick \in MinTick..MaxTick
    /\ liquidity \in Nat
    /\ DOMAIN ticks \subseteq Ticks
    /\ \A t \in DOMAIN ticks : ticks[t] \in Info
    /\ tick_bitmap \subseteq BitsOf(Ticks)
    /\ swap # NoSwap =>
         swap \in [status : {"running", "underflow"}, zero_for_one : BOOLEAN,
                   amount_in : 1..MaxAmount, sqrt_price : Lowest..Highest,
                   tick : MinTick..MaxTick, liquidity : Nat,
                   remaining : 0..MaxAmount, calculated : 0..MaxAmount]

\* After any run of Mint and Burn logs the tick table and the bitmap agree with
\* the contract: an entry and a set bit exactly for the ticks some position
\* starts or ends at, with its gross and net liquidity.  (update_tick,
\* flip_tick and the removal in update_position must stay in step.)
TicksMirror ==
    LET used == {t \in Ticks : GrossAt(t) > 0}
    IN  /\ ticks = [t \in used |-> [liquidity_gross |-> GrossAt(t),
                                    liquidity_net |-> NetAt(t),
                                    initialized |-> TRUE]]
        /\ tick_bitmap = BitsOf(used)

\* The pool's liquidity is what the contract has active at the pool's tick, in
\* whatever order logs and kept simulations moved the tick and the positions.
LiquidityIsActive ==
    /\ liquidity = Active(tick)
    /\ tick \in TicksAt(sqrt_price)

\* The copy has the ticks at and between two prices as the contract has them.
TicksKnown(p, q) ==
    \A t \in Ticks : 2 * t \in Min({p, q})..Max({p, q}) =>
        IF GrossAt(t) = 0
        THEN t \div tick_spacing \notin tick_bitmap
        ELSE t \div tick_spacing \in tick_bitmap /\ ticks[t].liquidity_net = NetAt(t)

\* The quote of a finished swap, and the price it ends at, are those of walking
\* the contract's positions one unit of price at a time, where the copy knows
\* the ticks on that way: none is skipped or crossed twice, at word edges, at
\* the limits or when starting on a tick, whatever the copy has elsewhere.
QuoteExact ==
    SwapDone =>
        LET walk == Walk(swap.zero_for_one, sqrt_price, swap.amount_in)
        IN  TicksKnown(sqrt_price, walk.price) =>
            /\ swap.calculated = walk.out
            /\ swap.sqrt_price = walk.price
            /\ swap.remaining = walk.remaining

\* Every iteration that is not the last takes the loop's tick strictly ahead,
\* also over words without a set bit, over stretches without liquidity and from
\* a price that is on a tick: the loop cannot run for ever.
SwapAdvances ==
    [][swap # NoSwap /\ swap' # NoSwap /\ LoopRuns' =>
           IF swap.zero_for_one THEN swap'.tick < swap.tick ELSE swap'.tick > swap.tick]_swap
=============================================================================
