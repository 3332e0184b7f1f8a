---------------------- MODULE MCBuilderAndExecutor -------------------------
(* The parts around the state space that BuilderAndExecutorProofs is about,  *)
(* each tried while the others stay as they start: StateSpaceBuilder over a  *)
(* UniswapV3Factory with a pool of four words and one of two, groups that a  *)
(* pool fills together with a part of the next one, and a pool of another    *)
(* variant; and an Opportunity in units of 50 million gas, 5 million wei per *)
(* gas and 2.5e14 wei, in which the gas tables, fee caps and profit limits   *)
(* are the code's and 1 WMNT is 4000.                                        *)
EXTENDS StateSpaceBuilder, Opportunity, TLC

CONSTANTS p1, p2, o1, a, b, c

-----------------------------------------------------------------------------
(* StateSpaceBuilder.                                                       *)

MCPools == {p1, p2}
MCOthers == {o1}
MCListed == {p1}

\* A tick in the middle of the pool, one of a word that a cut loses and one below.
MCOldTicks == [p \in MCListed |-> {{-3, 0, 3}}]
MCMinWord == [p \in MCPools |-> IF p = p1 THEN -2 ELSE -1]
MCMaxWord == [p \in MCPools |-> IF p = p1 THEN 1 ELSE 0]
MCTokensOf == [p \in MCPools |-> IF p = p1 THEN {a, b} ELSE {b, c}]

MCFilters ==
    {{},
     {[filter |-> "TokenWhitelist", list |-> {b}], [filter |-> "Blacklist", list |-> {c}]},
     {[filter |-> "PoolWhitelist", list |-> {p2}]}}

-----------------------------------------------------------------------------
(* Opportunity.                                                             *)

MCHops == 2..4
MCGasOf == (2 :> 18) @@ (3 :> 30) @@ (4 :> 56)

\* Gains around the cost of gas, 0.1, 1 and 5 WMNT: curves that jump twice between
\* three of them, with a failing simulation or not, and curves with one peak anywhere,
\* of which the first three simulations fail or not.  Like the program's, the search
\* runs out of iterations before its step is used up.
Levels == {90, 600, 5000}
Peaks == {-40, 90, 300, 600, 5000, 25000}
Peak(k, top, left, right) ==
    [x \in Inputs |-> IF x <= k THEN top - left * (k - x) ELSE top - right * (x - k)]

MCCurves ==
    [profit : {[x \in Inputs |-> IF x <= i THEN l ELSE IF x <= j THEN m ELSE n] :
                  i \in Inputs, j \in Inputs, l \in Levels, m \in Levels, n \in Levels},
     fails : {{}, {9}}]
    \cup [profit : {Peak(k, top, l, r) : k \in Inputs, top \in Peaks, l \in {10, 290}, r \in {10, 290}},
          fails : {{}, {MinInput, MaxInput, Middle}}]

Config(service, gas, nonloss, slippage, minimum) ==
    [service |-> service, include_gas_cost_in_min_out |-> gas, enforce_non_loss |-> nonloss,
     min_gross_profit |-> 10, min_net_profit |-> 0, min_net_profit_mnt_wei |-> minimum,
     gas_limit |-> 12, default_priority_fee_wei |-> 1, slippage |-> slippage]

MCConfigs ==
    {Config("library", gas, nonloss, slippage, minimum) :
        gas \in BOOLEAN, nonloss \in BOOLEAN, slippage \in {0, 10}, minimum \in {0, 100}}
    \cup {Config(service, FALSE, TRUE, slippage, 0) : service \in SERVICES, slippage \in {0, 10}}

MCDrifts == {-700, -100, -1, 0, 200}
MCBalances == {0, 2, 33}
MCNodePrices == {5}

-----------------------------------------------------------------------------
VARIABLE part  \* what is tried

\* One state of each part to stay in.
BuilderRests ==
    /\ block_number = creation_block /\ filters = {} /\ amms = {}
    /\ BuilderInit
OpportunityRests == curve = [profit |-> [x \in Inputs |-> 90], fails |-> {}] /\ Init

MCInit ==
    \/ part = "builder" /\ OpportunityRests /\ BuilderInit
    \/ part = "opportunity" /\ BuilderRests /\ Init

MCNext ==
    \/ part = "builder" /\ BuilderNext /\ UNCHANGED <<vars, part>>
    \/ part = "opportunity" /\ Next /\ UNCHANGED <<allVars, part>>

MCSpec == MCInit /\ [][MCNext]_<<allVars, vars, part>>
=============================================================================
