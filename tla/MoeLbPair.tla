----------------------------- MODULE MoeLbPair -----------------------------
(***************************************************************************)
(* MoeLbPair (src/amms/moe/mod.rs) and how the Moe service and monitor keep *)
(* it: logs change the copy (sync, update_bins), and after the logs of a    *)
(* block the pools they changed are read again (resync_changed_pools):      *)
(* totals and fee from sync_slot0_batch, bins from sync_bins_in_batches.    *)
(* Either reading may fail.  simulate_swap quotes from the copy.            *)
(*                                                                         *)
(* chain is the contract.  A bin holds x and y; only the active bin may     *)
(* hold both.  A price is a whole number of y for an x.  The fee of the     *)
(* next swap is one number that every swap of the contract may change; the  *)
(* volatility parameters it comes from and the protocol's share of it are   *)
(* left out, and so are amounts above 10^30, which the code does not take.  *)
(***************************************************************************)
EXTENDS Integers, Functions, FiniteSetsExt, SequencesExt

CONSTANTS
    Ids,              \* bins that may ever hold liquidity
    BINS_RADIUS,
    BINS_BATCH_SIZE,
    MAX_ITERATIONS,
    Fees,             \* of one swap, in parts of Precision
    Precision,        \* FEE_SCALE
    BinPrice,         \* of each bin
    MAX_RATIO,        \* 1000: what a quote may be, for one of input
    MIN_INPUT_THRESHOLD,
    MAX_SMALL_RATIO,  \* 100: the same, of an input below the threshold
    GenesisPair,      \* the contract when the copy is made
    MaxReserve,       \* bound on a side of a bin
    MaxPairLogs,      \* bound on the logs of the pair
    MaxQuoted         \* bound on what is quoted

ASSUME MoeAssumption ==
    /\ Ids \subseteq Nat /\ IsFiniteSet(Ids)
    /\ BINS_RADIUS \in Nat \ {0} /\ BINS_BATCH_SIZE \in Nat \ {0}
    /\ MAX_ITERATIONS \in Nat \ {0}
    /\ Precision \in Nat /\ Fees \subseteq 0..Precision - 1
    /\ BinPrice \in [Ids -> Nat \ {0}]
    /\ MAX_RATIO \in Nat /\ MIN_INPUT_THRESHOLD \in Nat /\ MAX_SMALL_RATIO \in Nat
    /\ MaxReserve \in Nat /\ MaxPairLogs \in Nat /\ MaxQuoted \in Nat
    /\ GenesisPair \in [active_id : Ids, fee : Fees,
                        bins : [Ids -> [x : 0..MaxReserve, y : 0..MaxReserve]]]

VARIABLES
    chain,      \* the contract: active_id, bins, fee
    pair,       \* the copy: active_id, bins, fee, reserve_x, reserve_y
    changed,    \* a log of this block was applied to the pool
    pair_logs,  \* how many there were
    stale,      \* history: bins that a swap changed and no reading has repaired
    old_totals  \* history: a swap since slot0 was read

moeVars == <<chain, pair, changed, pair_logs, stale, old_totals>>

Bin == [x : 0..MaxReserve, y : 0..MaxReserve]
Empty == [x |-> 0, y |-> 0]
HeldBins(bins) == {id \in DOMAIN bins : bins[id] # Empty}
Total(bins, side) == SumFunction([id \in DOMAIN bins |-> bins[id][side]])

\* What a swap takes in and what it pays out: swap_for_y sells x.
In(swap_for_y) == IF swap_for_y THEN "x" ELSE "y"
Out(swap_for_y) == IF swap_for_y THEN "y" ELSE "x"
TotalOf == [x |-> "reserve_x", y |-> "reserve_y"]

-----------------------------------------------------------------------------
(* One bin (bin_helper::get_amounts, fee_helper).                           *)

CeilDiv(a, b) == (a + b - 1) \div b
FeeAmount(net, fee) == CeilDiv(net * fee, Precision - fee)
FeeAmountFrom(gross, fee) == CeilDiv(gross * fee, Precision)

\* What a side of r is worth, rounded up, and what a net input buys, rounded down.
Worth(id, swap_for_y, r) == IF swap_for_y THEN CeilDiv(r, BinPrice[id]) ELSE r * BinPrice[id]
Buys(id, swap_for_y, net) == IF swap_for_y THEN net * BinPrice[id] ELSE net \div BinPrice[id]

\* What emptying a side of r costs.
Drain(id, swap_for_y, r, fee) ==
    Worth(id, swap_for_y, r) + FeeAmount(Worth(id, swap_for_y, r), fee)

GetAmounts(id, swap_for_y, r, fee, amount) ==
    LET all == Drain(id, swap_for_y, r, fee)
    IN IF amount >= all
         THEN [in |-> all, out |-> r]
         ELSE [in |-> amount,
               out |-> Min({r, Buys(id, swap_for_y, amount - FeeAmountFrom(amount, fee))})]

\* The bin after a swap.
Traded(bin, swap_for_y, s) ==
    [bin EXCEPT ![In(swap_for_y)] = @ + s.in, ![Out(swap_for_y)] = @ - s.out]

-----------------------------------------------------------------------------
(* Reading the chain.                                                       *)

Saturated(n) == Max({0, n})

\* The bins of one request, and of all of sync_bins_in_batches.
Batch(center) == Saturated(center - BINS_BATCH_SIZE)..(center + BINS_BATCH_SIZE)
Center(active, k) == Saturated(active + k * BINS_BATCH_SIZE - BINS_RADIUS + BINS_BATCH_SIZE)

\* Variant: the batches begin one further on.
WindowShifted(active) ==
    UNION {Batch(Center(active, k)) :
              k \in 1..CeilDiv(2 * BINS_RADIUS, BINS_BATCH_SIZE)}

Window(active) ==
    UNION {Batch(Center(active, k)) :
              k \in 0..CeilDiv(2 * BINS_RADIUS, BINS_BATCH_SIZE) - 1}

\* sync_active_bins_batch inserts what is not empty and removes nothing.
WithBins(p, bins) ==
    LET read == Window(p.active_id) \cap HeldBins(bins)
    IN [p EXCEPT !.bins = [id \in read \cup DOMAIN @ |->
                              IF id \in read THEN bins[id] ELSE @[id]]]

\* sync_slot0_batch leaves the bins.
WithSlot0(p, c) ==
    [active_id |-> c.active_id, fee |-> c.fee, bins |-> p.bins,
     reserve_x |-> Total(c.bins, "x"), reserve_y |-> Total(c.bins, "y")]

\* initialize_moe_pools: a pool whose bins cannot be read stays without.
MoeInit ==
    /\ chain = GenesisPair
    /\ LET basic == WithSlot0([active_id |-> 0, bins |-> [id \in {} |-> Empty], fee |-> 0,
                               reserve_x |-> 0, reserve_y |-> 0], chain)
       IN \/ /\ pair = WithBins(basic, chain.bins)
             /\ stale = HeldBins(chain.bins) \ Window(chain.active_id)
          \/ /\ pair = basic
             /\ stale = HeldBins(chain.bins)
    /\ changed = FALSE
    /\ pair_logs = 0
    /\ old_totals = FALSE

-----------------------------------------------------------------------------
(* The contract, and the copy that applies its logs.                        *)

Bounded == chain'.bins \in [Ids -> Bin]
Logged ==
    /\ pair_logs < MaxPairLogs
    /\ pair_logs' = pair_logs + 1
    /\ changed' = TRUE

\* The bins a swap passes before it comes to bin m.
Before(m, swap_for_y) ==
    {id \in Ids : IF swap_for_y THEN m < id /\ id <= chain.active_id
                                ELSE chain.active_id <= id /\ id < m}

\* A swap empties the bins before m and ends in m.  Each bin has its log,
\* and of a log only the id is taken: the last one is m.
SyncSwap(p, m) == [p EXCEPT !.active_id = m]

Swap ==
    \E swap_for_y \in BOOLEAN, m \in Ids, amount \in 1..MaxQuoted, fee \in Fees :
        LET side == Out(swap_for_y)
            Drained(id) == LET r == chain.bins[id][side]
                           IN Traded(chain.bins[id], swap_for_y,
                                     [in |-> Drain(id, swap_for_y, r, chain.fee), out |-> r])
            last == GetAmounts(m, swap_for_y, chain.bins[m][side], chain.fee, amount)
        IN /\ IF swap_for_y THEN m <= chain.active_id ELSE m >= chain.active_id
           /\ last.out > 0
           /\ chain' = [active_id |-> m, fee |-> fee,
                        bins |-> [id \in Ids |->
                           IF id = m THEN Traded(chain.bins[m], swap_for_y, last)
                           ELSE IF id \in Before(m, swap_for_y) THEN Drained(id)
                           ELSE chain.bins[id]]]
           /\ pair' = SyncSwap(pair, m)
           /\ stale' = stale \cup Before(m, swap_for_y) \cup {m}
    /\ Bounded
    /\ Logged
    /\ old_totals' = TRUE

BinOf(p, id) == IF id \in DOMAIN p.bins THEN p.bins[id] ELSE Empty
WithBin(bins, id, bin) ==
    [i \in DOMAIN bins \cup {id} |-> IF i = id THEN bin ELSE bins[i]]

\* update_bins, of one bin.
Deposited(p, id, b) ==
    LET bin == BinOf(p, id)
    IN [p EXCEPT !.bins = WithBin(@, id, [x |-> bin.x + b.x, y |-> bin.y + b.y]),
                 !.reserve_x = @ + b.x, !.reserve_y = @ + b.y]

SaturatingSub(a, b) == Saturated(a - b)

\* Variant: a bin is removed with its last x.
WithdrawnFromX(p, id, b) ==
    LET bin == BinOf(p, id)
        left == [x |-> SaturatingSub(bin.x, b.x), y |-> SaturatingSub(bin.y, b.y)]
    IN [p EXCEPT !.bins = IF left.x = 0 THEN Restrict(@, DOMAIN @ \ {id})
                                        ELSE WithBin(@, id, left),
                 !.reserve_x = SaturatingSub(@, b.x), !.reserve_y = SaturatingSub(@, b.y)]

Withdrawn(p, id, b) ==
    LET bin == BinOf(p, id)
        left == [x |-> SaturatingSub(bin.x, b.x), y |-> SaturatingSub(bin.y, b.y)]
    IN [p EXCEPT !.bins = IF left = Empty THEN Restrict(@, DOMAIN @ \ {id})
                                          ELSE WithBin(@, id, left),
                 !.reserve_x = SaturatingSub(@, b.x), !.reserve_y = SaturatingSub(@, b.y)]

\* Bins above the active one take x, bins below it y.
Deposit ==
    \E id \in Ids, b \in [x : 0..1, y : 0..1] \ {Empty} :
        /\ id < chain.active_id => b.x = 0
        /\ id > chain.active_id => b.y = 0
        /\ chain' = [chain EXCEPT !.bins[id].x = @ + b.x, !.bins[id].y = @ + b.y]
        /\ pair' = Deposited(pair, id, b)
    /\ Bounded
    /\ Logged
    /\ UNCHANGED <<stale, old_totals>>

\* A share of both sides, rounded down: half of the bin or all of it.
Withdraw ==
    \E id \in Ids, part \in 1..2 :
        LET b == [x |-> chain.bins[id].x \div part, y |-> chain.bins[id].y \div part]
        IN /\ b # Empty
           /\ chain' = [chain EXCEPT !.bins[id].x = @ - b.x, !.bins[id].y = @ - b.y]
           /\ pair' = Withdrawn(pair, id, b)
    /\ Logged
    /\ UNCHANGED <<stale, old_totals>>

\* resync_changed_pools: a failure of sync_slot0_batch is only logged, one of
\* sync_bins_in_batches discards both readings.
ResyncReads ==
    /\ changed
    /\ changed' = FALSE
    /\ \E slot0 \in BOOLEAN :
          /\ pair' = WithBins(IF slot0 THEN WithSlot0(pair, chain) ELSE pair, chain.bins)
          /\ old_totals' = (old_totals /\ ~slot0)
    /\ stale' = stale \ (Window(pair.active_id) \cap HeldBins(chain.bins))
    /\ UNCHANGED <<chain, pair_logs>>

ResyncFails ==
    /\ changed
    /\ changed' = FALSE
    /\ UNCHANGED <<chain, pair, pair_logs, stale, old_totals>>

MoeNext == Swap \/ Deposit \/ Withdraw \/ ResyncReads \/ ResyncFails

MoeSpec == MoeInit /\ [][MoeNext]_moeVars

-----------------------------------------------------------------------------
(* simulate_swap.                                                           *)

\* One turn of the loop of simulate_swap_precise.  A bin that is missing, holds
\* one side only or pays nothing is passed without taking anything.
PassBin(p, swap_for_y, w, id) ==
    LET bin == p.bins[id]
        s == GetAmounts(id, swap_for_y, bin[Out(swap_for_y)], p.fee, w.left)
    IN IF \/ w.over \/ id \notin DOMAIN p.bins \/ bin.x = 0 \/ bin.y = 0
          \/ s.out = 0
         THEN w
       ELSE IF s.out > w.reserve THEN [w EXCEPT !.failed = TRUE, !.over = TRUE]
       ELSE [w EXCEPT !.left = Saturated(@ - s.in), !.out = @ + s.out,
                      !.reserve = @ - s.out,
                      !.over = s.in >= w.left \/ s.out < bin[Out(swap_for_y)]]

\* Variant: the loop begins in the next bin.
PassedOthers(p, swap_for_y) ==
    IF swap_for_y
      THEN [k \in 1..Min({MAX_ITERATIONS, p.active_id}) |-> p.active_id - k]
      ELSE [k \in 1..MAX_ITERATIONS |-> p.active_id + k]

\* The bins the loop comes to, from the active one on: next_id stays at 0, where
\* the loop stops.
Passed(p, swap_for_y) ==
    IF swap_for_y
      THEN [k \in 1..Min({MAX_ITERATIONS, p.active_id + 1}) |-> p.active_id - k + 1]
      ELSE [k \in 1..MAX_ITERATIONS |-> p.active_id + k - 1]

BinLoop(p, swap_for_y, amount) ==
    LET ids == Passed(p, swap_for_y)
        w[k \in 0..Len(ids)] ==
            IF k = 0
              THEN [left |-> amount, out |-> 0, reserve |-> p[TotalOf[Out(swap_for_y)]],
                    failed |-> FALSE, over |-> FALSE]
              ELSE PassBin(p, swap_for_y, w[k - 1], ids[k])
    IN w[Len(ids)]

\* More than an arbitrage is thought to bring.
Unrealistic(amount, out) ==
    \/ out > amount * MAX_RATIO
    \/ amount < MIN_INPUT_THRESHOLD /\ out > amount * MAX_SMALL_RATIO

\* simulate_swap_across_bins compares with the reserve the swap has left.
AcrossBins(p, swap_for_y, amount) ==
    LET w == BinLoop(p, swap_for_y, amount)
    IN IF p.reserve_x = 0 \/ p.reserve_y = 0 THEN 0
       ELSE IF w.failed THEN -1
       ELSE IF w.out > w.reserve \/ Unrealistic(amount, w.out) THEN 0
       ELSE w.out

\* Without bins: the constant product, its fee left out.
ConstantProduct(p, swap_for_y, amount) ==
    LET in == p[TotalOf[In(swap_for_y)]]
        out == p[TotalOf[Out(swap_for_y)]]
        bought == (amount * out) \div (in + amount)
    IN IF in = 0 \/ out = 0 \/ bought > amount * MAX_RATIO THEN 0 ELSE bought

Quote(p, swap_for_y, amount) ==
    IF amount = 0 THEN 0
    ELSE IF DOMAIN p.bins # {} THEN AcrossBins(p, swap_for_y, amount)
    ELSE ConstantProduct(p, swap_for_y, amount)

-----------------------------------------------------------------------------
(* Properties.                                                              *)

Near(id) == id - chain.active_id \in -BINS_RADIUS..BINS_RADIUS

CopyTypeOK(p) ==
    /\ p \in [active_id : Ids, fee : Fees, bins : [DOMAIN p.bins -> [x : Nat, y : Nat]],
              reserve_x : Nat, reserve_y : Nat]
    /\ DOMAIN p.bins \subseteq Ids
    /\ HeldBins(p.bins) = DOMAIN p.bins

MoeTypeOK ==
    /\ chain \in [active_id : Ids, fee : Fees, bins : [Ids -> Bin]]
    /\ CopyTypeOK(pair)
    /\ pair_logs \in 0..MaxPairLogs
    /\ changed \in BOOLEAN
    /\ stale \subseteq Ids
    /\ old_totals \in BOOLEAN

\* Deposits and withdrawals alone keep a bin as the contract holds it, and the
\* copy always knows the active bin: a bin goes wrong only by a swap through it,
\* and stays wrong until a reading finds something in it.  Totals and fee are
\* the contract's until the next swap, although the logs of a swap change
\* neither and the reading after it may fail in part (sync, resync).
CopyExact ==
    /\ pair.active_id = chain.active_id
    /\ \A id \in Ids \ stale :
          IF id \in DOMAIN pair.bins THEN pair.bins[id] = chain.bins[id]
                                    ELSE chain.bins[id] = Empty
    /\ ~old_totals =>
          /\ pair.reserve_x = Total(chain.bins, "x")
          /\ pair.reserve_y = Total(chain.bins, "y")
          /\ pair.fee = chain.fee

\* The batches of a reading together reach every bin within the radius.
ReadingReaches ==
    [][ResyncReads => \A id \in HeldBins(chain.bins) :
                         Near(id) => id \in DOMAIN pair'.bins
                                     /\ pair'.bins[id] = chain.bins[id]]_moeVars

\* Where no bin but the active one holds both tokens in the copy, either.
OnlyActiveHoldsBoth ==
    \A id \in DOMAIN pair.bins \ {chain.active_id} :
        pair.bins[id].x = 0 \/ pair.bins[id].y = 0

\* What the active bin of the contract alone would pay.
ActivePays(swap_for_y, amount) ==
    LET bin == chain.bins[chain.active_id]
    IN IF bin.x = 0 \/ bin.y = 0 THEN 0
       ELSE GetAmounts(chain.active_id, swap_for_y, bin[Out(swap_for_y)], chain.fee,
                       amount).out

\* A quote from an exact copy is what the active bin alone pays, and nothing when
\* that is more than half of what the pool holds, when it is unrealistic, or when
\* the pool holds only one token: the next bins, which hold one token, never pay.
QuoteIsOfActiveBin ==
    chain.active_id \notin stale /\ ~old_totals /\ OnlyActiveHoldsBoth /\ DOMAIN pair.bins # {} =>
        \A swap_for_y \in BOOLEAN, amount \in 0..MaxQuoted :
            LET paid == ActivePays(swap_for_y, amount)
                held == Total(chain.bins, Out(swap_for_y))
            IN Quote(pair, swap_for_y, amount) =
                 IF \/ 2 * paid > held \/ Unrealistic(amount, paid)
                    \/ Total(chain.bins, In(swap_for_y)) = 0
                   THEN 0 ELSE paid

\* What the bins of the contract pay from the active one on, each with what those
\* before it have left.
BinsPay(swap_for_y, amount) ==
    LET ids == SelectSeq(Passed(chain, swap_for_y), LAMBDA id : id \in Ids)
        w[k \in 0..Len(ids)] ==
            IF k = 0 THEN [left |-> amount, out |-> 0]
            ELSE LET s == GetAmounts(ids[k], swap_for_y, chain.bins[ids[k]][Out(swap_for_y)],
                                     chain.fee, w[k - 1].left)
                 IN [left |-> w[k - 1].left - s.in, out |-> w[k - 1].out + s.out]
    IN w[Len(ids)].out

\* "Simulate swap across multiple bins (more accurate than simple x*y=k)"
\* (simulate_swap_across_bins): from a copy that has every bin as the contract has
\* it, a quote that no check turns away is what those bins pay.
QuoteIsOfAllBins ==
    /\ stale = {} /\ ~old_totals
    /\ Total(chain.bins, "x") > 0 /\ Total(chain.bins, "y") > 0
    => \A swap_for_y \in BOOLEAN, amount \in 1..MaxQuoted :
          LET pay == BinsPay(swap_for_y, amount)
          IN \/ 2 * pay > Total(chain.bins, Out(swap_for_y))
             \/ Unrealistic(amount, pay)
             \/ Quote(pair, swap_for_y, amount) = pay
=============================================================================
