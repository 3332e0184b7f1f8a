---------------------------- MODULE Opportunity ----------------------------
(***************************************************************************)
(* One opportunity from its search to its trade: the input is searched      *)
(* (HillClimb), the profit is filtered by find_profitable_candidates, the   *)
(* trade is priced and bounded by one of the four services' attempt_execution *)
(* or by the library's Executor (src/execution/executor.rs), and the        *)
(* contract (contracts/executor/ArbitrageExecutor.sol) executes it or       *)
(* reverts, which it does with all of the library's.  Amounts are of WMNT,  *)
(* the token a path starts and ends with.                                   *)
(***************************************************************************)
EXTENDS HillClimb, FeePlan

CONSTANTS
    Configs,       \* ServiceConfig and ExecutorConfig, see ConfigAssumption
    Drifts,        \* what the last output gains between search and trade
    Balances,      \* balances of the executor contract
    NodePrices     \* gas prices the node's provider fills in

SERVICES == {"moe", "v3", "v3_1559", "v2"}

ASSUME ConfigAssumption ==
    /\ \A c \in Configs :
          /\ c.service \in SERVICES \cup {"library"}
          /\ c.include_gas_cost_in_min_out \in BOOLEAN
          /\ c.enforce_non_loss \in BOOLEAN
          /\ {c.min_gross_profit, c.min_net_profit, c.min_net_profit_mnt_wei, c.gas_limit,
              c.default_priority_fee_wei, c.slippage} \subseteq Nat
          /\ c.slippage <= 100
    /\ Drifts \subseteq Int
    /\ Balances \subseteq Nat
    /\ NodePrices \subseteq Nat

VARIABLES
    stage,     \* "search", "offered", "built", "sent", "mined", "reverted", "dropped"
    config,    \* that of the program, which the search does not look at
    offer,     \* PositiveCandidate: [hops, input, output, net]
    params,    \* ExecutionParams: [last, min_amount_out], last of step_amounts_out
    tx,        \* [input, min_out, gas, max_fee, max_priority]: min_out is the last
               \* of _amountsOut
    result     \* what a trade leaves of output, input and fee

tradeVars == <<stage, config, offer, params, tx, result>>
vars == <<climbVars, tradeVars>>

None == [none |-> TRUE]

Init ==
    /\ ClimbInit
    /\ stage = "search"
    /\ config = None
    /\ offer = None
    /\ params = None
    /\ tx = None
    /\ result = 0

Search ==
    /\ stage = "search"
    /\ Climb
    /\ UNCHANGED tradeVars

-----------------------------------------------------------------------------
(* find_profitable_candidates                                               *)

\* The profit pays for the gas, by a fifth more but in V2.
MoeProfitable(gross, h) == ProfitableAfterGas(gross, h)
AgniProfitable(gross, h) == ProfitableAfterGas(gross, h)
AgniFeesProfitable(gross, h) == ProfitableAfterGas(gross, h)
PairProfitable(gross, h) == TRUE

\* The library's opportunities come from a caller; they are taken as filtered
\* like those of V2, the least.
Profitable(c, gross, h) ==
    CASE c.service = "moe" -> MoeProfitable(gross, h)
      [] c.service = "v3" -> AgniProfitable(gross, h)
      [] c.service = "v3_1559" -> AgniFeesProfitable(gross, h)
      [] OTHER -> PairProfitable(gross, h)

Passes(c, gross, h) ==
    /\ gross > 0
    /\ gross >= c.min_gross_profit
    /\ gross >= GasCost(h)
    /\ gross - GasCost(h) >= c.min_net_profit
    /\ Profitable(c, gross, h)

\* The search is over: its curve is not looked at again, any stands for it.
AnyCurve == CHOOSE any \in Curves : TRUE

Leave ==
    /\ at' = "over"
    /\ curve' = AnyCurve
    /\ step' = 0
    /\ iterations' = 0

Offer(c, h) ==
    /\ stage = "search"
    /\ at = "found"
    /\ Passes(c, Gain(best), h)
    /\ config' = c
    /\ offer' = [hops |-> h, input |-> best, output |-> best + Gain(best),
                 net |-> Gain(best) - GasCost(h)]
    /\ stage' = "offered"
    /\ Leave
    /\ UNCHANGED <<best, params, tx, result>>

FilterOut(c, h) ==
    /\ stage = "search"
    /\ at = "none" \/ (at = "found" /\ ~Passes(c, Gain(best), h))
    /\ stage' = "dropped"
    /\ Leave
    /\ UNCHANGED <<best, config, offer, params, tx, result>>

-----------------------------------------------------------------------------
(* Executor                                                                 *)

Drop ==
    /\ stage' = "dropped"
    /\ UNCHANGED <<climbVars, config, offer, params, tx, result>>

CoversGas == config.include_gas_cost_in_min_out \/ config.enforce_non_loss

\* Reserves are read again hop by hop, and give another output in the end.
BuildParams(drift) ==
    LET out == Higher(offer.output + drift, 0)
        gain == SaturatingSub(out, offer.input)
        allowed == out - (gain * config.slippage) \div 100
        covered == Higher(allowed, offer.input + GasCost(offer.hops))
    IN  /\ stage = "offered"
        /\ config.service = "library"
        /\ offer.net >= config.min_net_profit_mnt_wei
        /\ params' = [last |-> out, min_amount_out |-> IF CoversGas THEN covered ELSE allowed]
        /\ stage' = "built"
        /\ UNCHANGED <<climbVars, config, offer, tx, result>>

BelowMinimum ==
    /\ stage = "offered"
    /\ config.service = "library"
    /\ offer.net < config.min_net_profit_mnt_wei
    /\ Drop

\* The profit fees are planned with: what is left at least if it is not known.
NetExpected(least) == IF offer.net # 0 THEN offer.net ELSE SaturatingSub(least, offer.input)

\* What the last hop has to give.
RequiredOut(net, limit) ==
    IF CoversGas /\ ~IsSmall(net)
    THEN offer.input + SaturatingU128(limit * MaxFee(config, net, limit))
    ELSE params.min_amount_out

\* The computed output is haircut by one, but never below what is required.
Execute ==
    LET net == NetExpected(params.min_amount_out)
        limit == GasLimit(config, offer.hops)
        required == RequiredOut(net, limit)
    IN  /\ stage = "built"
        /\ IF (config.enforce_non_loss /\ net = 0) \/ params.last < required
           THEN Drop
           ELSE /\ tx' = [input |-> offer.input,
                          min_out |-> Higher(SaturatingSub(params.last, 1), required),
                          gas |-> limit,
                          max_fee |-> MaxFee(config, net, limit),
                          max_priority |-> MaxPriority(config, net, limit)]
                /\ stage' = "sent"
                /\ UNCHANGED <<climbVars, config, offer, params, result>>

-----------------------------------------------------------------------------
(* attempt_execution of the services                                        *)

Send(input, min_out, gas, max_fee, max_priority) ==
    /\ tx' = [input |-> input, min_out |-> min_out, gas |-> gas,
              max_fee |-> max_fee, max_priority |-> max_priority]
    /\ stage' = "sent"
    /\ UNCHANGED <<climbVars, config, offer, params, result>>

Slipped == (offer.output * (100 - config.slippage)) \div 100

\* The contract lacks the input, or for Moe has nothing at all.
LacksBalance(balance) ==
    /\ stage = "offered"
    /\ config.service \in SERVICES
    /\ balance < offer.input
    /\ config.service = "moe" => balance = 0
    /\ Drop

AttemptAgniFees(balance) ==
    LET net == NetExpected(offer.output)
        limit == GasLimit(config, offer.hops)
    IN  /\ stage = "offered"
        /\ config.service = "v3_1559"
        /\ balance >= offer.input
        /\ IF config.enforce_non_loss /\ net = 0
           THEN Drop
           ELSE Send(offer.input, Higher(Slipped, offer.input), limit,
                     MaxFee(config, net, limit), MaxPriority(config, net, limit))

AttemptAgni(balance, price) ==
    /\ stage = "offered"
    /\ config.service = "v3"
    /\ balance >= offer.input
    /\ Send(offer.input, Higher(Slipped, offer.input), GasLimitForHops[offer.hops], price, 0)

\* V2 does not keep the last output at the input.
AttemptPair(balance, price) ==
    /\ stage = "offered"
    /\ config.service = "v2"
    /\ balance >= offer.input
    /\ Send(offer.input, Slipped, GasLimitForHops[offer.hops], price, 0)

\* Moe trades what there is, and asks for no output.
AttemptMoe(balance, price) ==
    /\ stage = "offered"
    /\ config.service = "moe"
    /\ balance > 0
    /\ Send(Lower(balance, offer.input), 0, GasLimitForHops[offer.hops], price, 0)

-----------------------------------------------------------------------------
(* The contract                                                             *)

\* Any output from the least on, at the highest fee or half of it.  _validateStates
\* has to find the pools as the trade says.  The library says of each that it is
\* one of V3 and expects the reserves of a V2 pair: a pair has no slot0 to ask for.
Mined(extra, share) ==
    /\ stage = "sent"
    /\ config.service # "library"
    /\ stage' = "mined"
    /\ result' = tx.min_out + extra - tx.input - (tx.gas * tx.max_fee) \div share
    /\ UNCHANGED <<climbVars, config, offer, params, tx>>

\* A reserve, price or active bin is not the expected one, or the output is
\* too low: all is as it was but for the fee.
Reverted ==
    /\ stage = "sent"
    /\ stage' = "reverted"
    /\ result' = -(tx.gas * tx.max_fee)
    /\ UNCHANGED <<climbVars, config, offer, params, tx>>

Next ==
    \/ Search
    \/ \E c \in Configs, h \in Hops : Offer(c, h)
    \/ \E c \in Configs, h \in Hops : FilterOut(c, h)
    \/ \E d \in Drifts : BuildParams(d)
    \/ BelowMinimum
    \/ Execute
    \/ \E b \in Balances : LacksBalance(b)
    \/ \E b \in Balances : AttemptAgniFees(b)
    \/ \E b \in Balances, p \in NodePrices : AttemptAgni(b, p)
    \/ \E b \in Balances, p \in NodePrices : AttemptPair(b, p)
    \/ \E b \in Balances, p \in NodePrices : AttemptMoe(b, p)
    \/ \E extra \in {0, 1}, share \in {1, 2} : Mined(extra, share)
    \/ Reverted

Spec == Init /\ [][Next]_vars

-----------------------------------------------------------------------------
(* Types of the offer and the trade.  The tip never exceeds the fee, which  *)
(* execute checks once more.                                                *)
TypeOK ==
    /\ stage \in {"search", "offered", "built", "sent", "mined", "reverted", "dropped"}
    /\ config \in Configs \/ stage \in {"search", "dropped"}
    /\ stage = "search" => offer = None /\ tx = None
    /\ stage \in {"offered", "built", "sent", "mined", "reverted"} =>
          /\ offer \in [hops : Hops, input : Nat, output : Nat, net : Nat]
          /\ offer.output - offer.input = offer.net + GasCost(offer.hops)
    /\ stage = "built" =>
          config.service = "library" /\ params \in [last : Nat, min_amount_out : Nat]
    /\ stage \in {"sent", "mined", "reverted"} =>
          /\ tx \in [input : Nat, min_out : Nat, gas : Nat, max_fee : Nat, max_priority : Nat]
          /\ tx.max_priority <= tx.max_fee
    /\ result \in Int

\* "ensure min_amount_out covers amount_in + gas cost (no net loss)" and "enforce
\* non-loss" (ExecutorConfig): a trade the Executor sends with one of the two flags
\* set does not lose.
NoNetLoss ==
    stage \in {"mined", "reverted"} /\ config.service = "library" /\ CoversGas => result >= 0

\* The fee a transaction allows is paid by the profit it expects, of a small
\* profit by half as much again; or it is the fee with the default tip.
FeePaidByProfit ==
    stage = "sent" /\ config.service = "v3_1559" =>
        LET fee == tx.gas * tx.max_fee
            net == NetExpected(offer.output)
        IN  \/ fee <= IF IsSmall(net) THEN (3 * net) \div 2 ELSE net
            \/ tx.max_fee <= MANTLE_BASE_FEE_WEI + config.default_priority_fee_wei
=============================================================================
