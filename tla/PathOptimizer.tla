--------------------------- MODULE PathOptimizer ---------------------------
(***************************************************************************)
(* PathOptimizer::optimize and simulate_path (src/arbitrage/optimizer.rs):  *)
(* the bisection that looks for the amount to send along a path of pools.   *)
(* One step is one iteration.  The pools of the path are those of a         *)
(* snapshot and do not change under it.                                     *)
(*                                                                         *)
(* A hop is the function from what goes into its pool to what comes out.    *)
(* Amounts are bounded by MaxAmount, which stands for the width of U256.    *)
(***************************************************************************)
EXTENDS Integers, Sequences

CONSTANTS
    Paths,           \* the hops of a path, each a function of the amount
    MaxAmount,       \* bound on amounts
    initial_guess,   \* 10^18 in the code
    max_input,       \* OptimizationConfig
    min_profit,
    max_iterations

Amounts == 0..MaxAmount

\* What simulate_swap of a pool returns when it fails.
Error == -1

ASSUME OptimizerAssumption ==
    /\ MaxAmount \in Nat
    /\ initial_guess \in Amounts
    /\ max_input \in Amounts
    /\ min_profit \in Nat
    /\ max_iterations \in Nat

ASSUME PathsAssumption ==
    \A path \in Paths : path \in Seq([Amounts -> Amounts \cup {Error}])

VARIABLES
    path,         \* the hops, and the pools they go through
    outcome,      \* "searching", "returned" or "failed"
    iteration,
    low, high,    \* the interval
    best_result   \* the input that is kept, or None

vars == <<path, outcome, iteration, low, high, best_result>>

None == -1

Initial == IF initial_guess <= max_input THEN initial_guess ELSE max_input

Init ==
    /\ path \in Paths
    /\ outcome = "searching"
    /\ iteration = 0
    /\ low = 0
    /\ high = Initial
    /\ best_result = None

\* The amounts after the hops: an error stays, and nothing comes of nothing.
AfterHop(amount, hop) == IF amount \in {Error, 0} THEN amount ELSE hop[amount]

After(amount_in) ==
    LET after[n \in 0..Len(path)] ==
            IF n = 0 THEN amount_in ELSE AfterHop(after[n - 1], path[n])
    IN  after

Output(amount_in) == After(amount_in)[Len(path)]

\* simulate_path is None for a path without hops, an amount of zero at first
\* or after a hop, and a loss.
SimulatesNone(amount_in) ==
    \/ path = <<>>
    \/ amount_in = 0
    \/ Output(amount_in) = 0
    \/ Output(amount_in) < amount_in

Fails(amount_in) == path # <<>> /\ Output(amount_in) = Error

Pays(amount_in) ==
    /\ ~Fails(amount_in)
    /\ ~SimulatesNone(amount_in)
    /\ Output(amount_in) - amount_in > min_profit

mid == (low + high) \div 2

\* Variant: the upper half is left out when mid pays.
SearchUpTo ==
    /\ best_result' = mid
    /\ high' = mid
    /\ UNCHANGED low

SearchUp ==
    /\ best_result' = mid
    /\ low' = mid + 1
    /\ UNCHANGED high

\* Variant: mid is kept although it does not pay.
SearchDownKeeping ==
    /\ high' = mid
    /\ UNCHANGED <<low, best_result>>

\* saturating_sub
SearchDown ==
    /\ high' = IF mid = 0 THEN 0 ELSE mid - 1
    /\ UNCHANGED <<low, best_result>>

Iterate ==
    /\ outcome = "searching"
    /\ iteration < max_iterations
    /\ ~Fails(mid)
    /\ IF Pays(mid) THEN SearchUp ELSE SearchDown
    /\ iteration' = iteration + 1
    /\ UNCHANGED <<path, outcome>>

\* simulate_path(..)? returns the error of a pool.
IterateFails ==
    /\ outcome = "searching"
    /\ iteration < max_iterations
    /\ Fails(mid)
    /\ outcome' = "failed"
    /\ UNCHANGED <<path, iteration, low, high, best_result>>

Return ==
    /\ outcome = "searching"
    /\ iteration = max_iterations
    /\ outcome' = "returned"
    /\ UNCHANGED <<path, iteration, low, high, best_result>>

Next == Iterate \/ IterateFails \/ Return

Spec == Init /\ [][Next]_vars

-----------------------------------------------------------------------------
(* Properties.                                                              *)

\* Types of the search; the interval never reaches below nothing.
TypeOK ==
    /\ path \in Paths
    /\ outcome \in {"searching", "returned", "failed"}
    /\ iteration \in 0..max_iterations
    /\ low \in 0..Initial + 1
    /\ high \in 0..Initial
    /\ low <= high + 1
    /\ best_result \in {None} \cup 0..Initial

\* The inputs that pay more than min_profit are those from 1 to k, none fails.
PaysUpTo(k) ==
    \A amount_in \in 0..Initial :
        /\ Pays(amount_in) <=> amount_in \in 1..k
        /\ ~Fails(amount_in)

\* What is kept is below everything still to be tried, and it pays.
BestPays ==
    /\ low = 0 => best_result = None
    /\ low > 0 => best_result = low - 1 /\ Pays(best_result)

\* While the inputs that pay are those up to some k, the interval closes in on
\* k, also in the iterations after low and high have met.  Only a k of 1 can
\* get lost: from the interval 0 to 1 the saturating subtraction leads to 0.
Bracket ==
    \A k \in 0..Initial :
        PaysUpTo(k) => low <= k + 1 /\ (k <= high \/ (k = 1 /\ high = 0))

SearchInv == BestPays /\ Bracket

\* Nothing is left to be tried.
Converged == high < low \/ high = 0

FoundLargest ==
    \A k \in 0..Initial :
        PaysUpTo(k) => \/ k > 0 /\ best_result = k
                       \/ k <= 1 /\ best_result = None

\* How many inputs can be left to be tried after n iterations: half of those
\* before, rounded down.
Left[n \in 0..max_iterations] == IF n = 0 THEN Initial + 1 ELSE Left[n - 1] \div 2

\* Iterations enough to halve the interval to nothing end it, and the search
\* returns the largest input that pays when all smaller ones do, too (or, if
\* that is 1, maybe nothing).
LargestPaying ==
    outcome = "returned" /\ Left[max_iterations] = 0 => Converged /\ FoundLargest

\* What tech-docs/General/Module-Integration.md:276-294 and Arbitrage-Module.md:
\* 562-587 say of optimize: the search converges to the input whose profit is
\* greatest.  It goes up for as long as the middle pays, past that input.
ProfitMaximised ==
    outcome = "returned" /\ Left[max_iterations] = 0 /\ best_result # None =>
        \A amount_in \in 0..Initial :
            Pays(amount_in) =>
                Output(amount_in) - amount_in <= Output(best_result) - best_result
=============================================================================
