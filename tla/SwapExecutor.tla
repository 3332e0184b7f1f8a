---------------------------- MODULE SwapExecutor ----------------------------
(***************************************************************************)
(* SwapExecutor (src/execution/swap_executor.rs): a path swapped hop by hop *)
(* from the wallet, without the executor contract.  build_swap_step detects *)
(* the type of each pool, execute_multi_swap runs the steps one after the   *)
(* other, each a few transactions that are awaited, and hands what a step   *)
(* returns to the next one.                                                 *)
(*                                                                         *)
(* The amount is the input that PathOptimizer kept for the path, and the    *)
(* pools are the ones it simulated; from then on they belong to everybody.  *)
(* Token i is what goes into hop i + 1: the path ends with the token it     *)
(* starts with.                                                             *)
(***************************************************************************)
EXTENDS PathOptimizer, UniswapV2Pool, FiniteSets

CONSTANTS
    Markets,   \* the pools of a path: [type, reserve_in, reserve_out, keep]
    Holdings,  \* what the wallet may hold of the tokens in between
    Trades,    \* amounts others swap
    MaxMoves,  \* bound on the swaps of others
    OtherTier  \* what the pool of the default fee tier may pay

Market == [type : {"UniV2", "UniV3", "MoeLB"}, reserve_in : Nat \ {0},
           reserve_out : Nat \ {0}, keep : 0..1000]

ASSUME SwapAssumption ==
    /\ Markets \subseteq Seq(Market)
    /\ Holdings \subseteq Nat /\ Trades \subseteq Nat /\ OtherTier \subseteq Nat
    /\ MaxMoves \in Nat

VARIABLES
    market,     \* the pools as they are now
    moves,      \* swaps of others so far
    balance,    \* the wallet's balances
    held,       \* the balances before the first step
    allowance,  \* what the spender of each hop may take
    detected,   \* pool_type of the steps built so far
    pc,         \* where the step is
    step,       \* its number
    current_amount,
    expected_out,
    defaulted,  \* V3 steps that were given the default fee tier
    results,    \* what the steps returned
    deposit,    \* transferred to a V2 pool and not swapped yet
    lost        \* steps whose V2 pool kept a deposit

chainVars == <<market, moves>>
walletVars == <<balance, held, allowance>>
callVars == <<detected, pc, step, current_amount, expected_out, defaulted, results>>
lossVars == <<deposit, lost>>
allVars == <<vars, chainVars, walletVars, callVars, lossVars>>

Size == Len(path)
TokenIn(i) == i - 1
TokenOut(i) == i % Size

\* A pool as the optimizer simulates it.
HopOf(p) ==
    [amount \in Amounts |-> GetAmountOut(amount, p.reserve_in, p.reserve_out, p.keep)]

HopsOf(pools) == [i \in DOMAIN pools |-> HopOf(pools[i])]

\* What pool i pays now, and the pools after that.
Paid(i, amount) ==
    GetAmountOut(amount, market[i].reserve_in, market[i].reserve_out, market[i].keep)

Taken(i, amount, out) ==
    [market EXCEPT ![i] = [type |-> @.type, reserve_in |-> @.reserve_in + amount,
                           reserve_out |-> @.reserve_out - out, keep |-> @.keep]]

IdleInit ==
    /\ market = <<>> /\ moves = 0
    /\ balance = <<>> /\ held = <<>> /\ allowance = <<>>
    /\ detected = <<>> /\ pc = "idle" /\ step = 0
    /\ current_amount = 0 /\ expected_out = 0 /\ defaulted = {} /\ results = <<>>
    /\ deposit = 0 /\ lost = {}

\* The caller has a path and the input that the optimizer kept for it.
Begin ==
    /\ pc = "idle"
    /\ outcome = "returned"
    /\ best_result # None
    /\ Size > 1
    /\ \E pools \in Markets : HopsOf(pools) = path /\ market' = pools
    /\ \E h \in Holdings :
          held' = [t \in 0..Size - 1 |-> IF t = 0 THEN best_result + h ELSE h]
    /\ balance' = held'
    /\ allowance' = [i \in 1..Size |-> 0]
    /\ current_amount' = best_result
    /\ step' = 1
    /\ pc' = "build"
    /\ UNCHANGED <<vars, moves, detected, expected_out, defaulted, results, lossVars>>

\* Others swap in a pool, in either direction.
Move(i, amount) ==
    /\ pc \notin {"idle", "done", "failed"}
    /\ moves < MaxMoves
    /\ moves' = moves + 1
    /\ LET p == market[i]
       IN  \/ market' = Taken(i, amount, Paid(i, amount))
           \/ market' = Taken(i, -GetAmountOut(amount, p.reserve_out, p.reserve_in, p.keep), -amount)
    /\ UNCHANGED <<vars, walletVars, callVars, lossVars>>

-----------------------------------------------------------------------------
(* build_swap_step: a pool that answers getTokenX is a Moe pair, one that    *)
(* answers liquidity is V3, and any other is taken for V2, also when it is   *)
(* the call that failed.                                                    *)

DetectedAs(type) == {type, "UniV2"}

BuildStep ==
    /\ pc = "build"
    /\ \E type \in DetectedAs(market[Len(detected) + 1].type) :
          detected' = Append(detected, type)
    /\ pc' = IF Len(detected') = Size THEN "quote" ELSE "build"
    /\ UNCHANGED <<vars, chainVars, walletVars, step, current_amount, expected_out, defaulted,
                   results, lossVars>>

-----------------------------------------------------------------------------
(* execute_swap.                                                            *)

IsV2 == detected[step] = "UniV2"

\* The code's own formula, with a fee of 0.3 %.
FormulaOut(amount, reserve_in, reserve_out) ==
    LET denominator == reserve_in * 1000 + amount * 997
    IN  IF denominator = 0 THEN 0 ELSE (amount * 997 * reserve_out) \div denominator

\* The reserves are read, or the fee tier, which defaults when that fails.
\* No other pool answers both token0 and getReserves.
QuoteV2 ==
    /\ pc = "quote" /\ IsV2
    /\ market[step].type = "UniV2"
    /\ expected_out' = FormulaOut(current_amount, market[step].reserve_in,
                                  market[step].reserve_out)
    /\ pc' = "approve"
    /\ UNCHANGED <<vars, chainVars, walletVars, detected, step, current_amount, defaulted,
                   results, lossVars>>

QuoteRouter ==
    /\ pc = "quote" /\ ~IsV2
    /\ \/ UNCHANGED defaulted
       \/ detected[step] = "UniV3" /\ defaulted' = defaulted \cup {step}
    /\ pc' = "approve"
    /\ UNCHANGED <<vars, chainVars, walletVars, detected, step, current_amount,
                   expected_out, results, lossVars>>

\* ensure_approval: for the pool itself, or for the router.
EnsureApproval ==
    /\ pc = "approve"
    /\ allowance' = [allowance EXCEPT ![step] = IF @ < current_amount THEN current_amount ELSE @]
    /\ pc' = IF IsV2 THEN "transfer" ELSE "swap"
    /\ UNCHANGED <<vars, chainVars, balance, held, detected, step, current_amount,
                   expected_out, defaulted, results, lossVars>>

\* Without gas given the transaction is estimated first, which fails when the
\* wallet has not got the amount.  watch may fail after it was mined.
Transfer ==
    /\ pc = "transfer"
    /\ balance[TokenIn(step)] >= current_amount
    /\ balance' = [balance EXCEPT ![TokenIn(step)] = @ - current_amount]
    /\ \/ pc' = "swap" /\ deposit' = current_amount /\ UNCHANGED lost
       \/ /\ pc' = "failed" /\ deposit' = 0
          /\ lost' = IF current_amount > 0 THEN lost \cup {step} ELSE lost
    /\ UNCHANGED <<vars, chainVars, held, allowance, detected, step, current_amount,
                   expected_out, defaulted, results>>

\* Variant: every step is given the first step's amount.
ReturnSame(result) ==
    /\ results' = Append(results, result)
    /\ IF step = Size THEN pc' = "done" /\ UNCHANGED step
                      ELSE pc' = "quote" /\ step' = step + 1
    /\ UNCHANGED current_amount

\* A step returns its amount to execute_multi_swap.
ReturnAmount(result) ==
    /\ results' = Append(results, result)
    /\ IF step = Size THEN pc' = "done" /\ UNCHANGED <<step, current_amount>>
                      ELSE pc' = "quote" /\ step' = step + 1 /\ current_amount' = result

\* watch, the receipt or the balance fails although the swap was mined.
Unconfirmed == pc' = "failed" /\ results' = <<>> /\ UNCHANGED <<step, current_amount>>

\* Variant: as the routers' steps do.
SweptV2 == balance'[TokenOut(step)]

ResultV2 == expected_out

\* The pool of a V2 step pays what it is asked for, or the transaction is
\* reverted and the pool keeps the deposit: the gas is given, so that nothing
\* is estimated, and the receipt is not looked at.
SwapV2 ==
    /\ pc = "swap" /\ IsV2
    /\ LET pays == expected_out > 0 /\ expected_out <= Paid(step, deposit)
       IN  /\ market' = IF pays THEN Taken(step, deposit, expected_out) ELSE market
           /\ balance' = IF pays THEN [balance EXCEPT ![TokenOut(step)] = @ + expected_out]
                                 ELSE balance
           /\ lost' = IF pays \/ deposit = 0 THEN lost ELSE lost \cup {step}
    /\ deposit' = 0
    /\ ReturnAmount(ResultV2) \/ Unconfirmed
    /\ UNCHANGED <<vars, moves, held, allowance, detected, expected_out, defaulted>>

\* The router takes the amount and pays what the pool gives, nothing being
\* asked for; the step returns all the wallet then has of the token.
SwapRouter ==
    /\ pc = "swap" /\ ~IsV2
    /\ current_amount > 0
    /\ current_amount <= balance[TokenIn(step)]
    /\ current_amount <= allowance[step]
    /\ \E out \in IF step \in defaulted THEN OtherTier ELSE {Paid(step, current_amount)} :
          /\ market' = IF step \in defaulted THEN market ELSE Taken(step, current_amount, out)
          /\ balance' = [balance EXCEPT ![TokenIn(step)] = @ - current_amount,
                                        ![TokenOut(step)] = @ + out]
    /\ allowance' = [allowance EXCEPT ![step] = @ - current_amount]
    /\ ReturnAmount(balance'[TokenOut(step)]) \/ Unconfirmed
    /\ UNCHANGED <<vars, moves, held, detected, expected_out, defaulted, lossVars>>

\* A call fails, a transaction that is estimated would be reverted, or the
\* router's was: the steps end, and what they have returned is forgotten.
StepFails ==
    /\ pc \in {"build", "quote", "approve", "transfer", "swap"}
    /\ pc' = "failed"
    /\ lost' = IF deposit > 0 THEN lost \cup {step} ELSE lost
    /\ deposit' = 0
    /\ results' = <<>>
    /\ UNCHANGED <<vars, chainVars, walletVars, detected, step, current_amount,
                   expected_out, defaulted>>

-----------------------------------------------------------------------------
ExecuteSwap ==
    \/ QuoteV2
    \/ QuoteRouter
    \/ EnsureApproval
    \/ Transfer
    \/ SwapV2
    \/ SwapRouter
    \/ StepFails

SwapInit == Init /\ IdleInit

SwapNext ==
    \/ Next /\ UNCHANGED <<chainVars, walletVars, callVars, lossVars>>
    \/ Begin
    \/ BuildStep
    \/ ExecuteSwap
    \/ \E i \in DOMAIN market, amount \in Trades : Move(i, amount)

SwapSpec == SwapInit /\ [][SwapNext]_allVars

-----------------------------------------------------------------------------
(* Properties.                                                              *)

\* V2 steps compute with a fee of 0.3 %, whatever the pool's is.
FeesAsQuoted == \A i \in DOMAIN detected : detected[i] = "UniV2" => market[i].keep = 997

\* Nothing that the step of a router could sweep.
NothingToSweep == \A t \in 1..Size - 1 : detected[t] = "UniV2" \/ held[t] = 0

\* Where nobody else swapped, every fee was the pool's and the wallet held
\* nothing of the tokens between routers' steps, steps that all succeed bring
\* what the optimizer had simulated and leave all else as it was.
QuietSwapsExact ==
    pc = "done" /\ moves = 0 /\ defaulted = {} /\ FeesAsQuoted /\ NothingToSweep =>
        /\ balance = [held EXCEPT ![0] = @ - best_result + Output(best_result)]
        /\ lost = {}

\* What the wallet held of the tokens in between is spent only behind a
\* router's step, which returns the whole balance, or behind a V2 step whose
\* pool kept the deposit; of its own the steps spend the input, and where the
\* wallet held nothing in between no second deposit is lost after the first.
LossBounded ==
    pc # "idle" =>
        /\ \A t \in 1..Size - 1 :
              balance[t] < held[t] => detected[t] # "UniV2" \/ t \in lost
        /\ balance[0] >= held[0] - best_result
        /\ (\A t \in 1..Size - 1 : held[t] = 0) => Cardinality(lost) <= 1
=============================================================================
