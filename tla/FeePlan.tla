------------------------------ MODULE FeePlan ------------------------------
(***************************************************************************)
(* Gas: what the filters deduct for it (src/arbitrage/gas.rs), the limits   *)
(* transactions are given (src/execution/gas_schedule.rs) and the fee caps  *)
(* compute_fee_plan derives from a net profit (src/execution/executor.rs).  *)
(* Amounts of WMNT, gas and wei per gas are numbers; unsigned differences   *)
(* saturate at 0 and u128 at U128_MAX.                                      *)
(***************************************************************************)
EXTENDS Integers

CONSTANTS
    Hops,                  \* the lengths of paths
    GasOf,                 \* gas a path is reckoned with (gas.rs)
    GasLimitForHops,       \* gas_limit_for_hops (gas_schedule.rs)
    FOUR_HOP_LIMIT, TWO_HOP_LIMIT,    \* of compute_fee_plan
    gas_price_wei,         \* GasConfig
    MANTLE_BASE_FEE_WEI,
    SMALL_PROFIT, ONE_WMNT, FIVE_WMNT,
    ONE_WMNT_CAP, FIVE_WMNT_CAP,      \* fee caps below these profits
    U128_MAX

ASSUME FeeAssumption ==
    /\ Hops \subseteq Nat
    /\ GasOf \in [Hops -> Nat]
    /\ GasLimitForHops \in [Hops -> Nat]
    /\ {FOUR_HOP_LIMIT, TWO_HOP_LIMIT, gas_price_wei, MANTLE_BASE_FEE_WEI, SMALL_PROFIT,
        ONE_WMNT, FIVE_WMNT, ONE_WMNT_CAP, FIVE_WMNT_CAP, U128_MAX} \subseteq Nat
    /\ FOUR_HOP_LIMIT > 0
    /\ TWO_HOP_LIMIT > 0

SaturatingSub(a, b) == IF a >= b THEN a - b ELSE 0

SaturatingU128(a) == IF a > U128_MAX THEN U128_MAX ELSE a

Higher(a, b) == IF a >= b THEN a ELSE b

Lower(a, b) == IF a <= b THEN a ELSE b

-----------------------------------------------------------------------------
(* GasConfig                                                                *)

GasCost(hops) == GasOf[hops] * gas_price_wei

ProfitableAfterGas(profit, hops) == profit >= (GasCost(hops) * 1200) \div 1000

-----------------------------------------------------------------------------
(* compute_fee_plan                                                         *)

GasLimit(config, hops) ==
    CASE hops = 4 -> FOUR_HOP_LIMIT
      [] hops = 2 -> TWO_HOP_LIMIT
      [] OTHER    -> config.gas_limit

\* The parse of a number beyond u128 fails and is taken for 0.
NetAsU128(net) == IF net > U128_MAX THEN 0 ELSE net

IsSmall(net) == net < SMALL_PROFIT

\* What the profit pays per gas, half as much again if it is small.
TotalCap(net, limit) ==
    LET share == IF limit > 0 THEN NetAsU128(net) \div limit ELSE 0
    IN  IF IsSmall(net) THEN SaturatingU128(share * 3) \div 2 ELSE share

\* Variant: the base fee is not left room for.
CapWithoutBase(net, limit) == TotalCap(net, limit)

CapPriority(net, limit) == SaturatingSub(TotalCap(net, limit), MANTLE_BASE_FEE_WEI)

InitialPriority(config, net, limit) ==
    Higher(config.default_priority_fee_wei, CapPriority(net, limit))

GlobalCap(net) ==
    CASE net < ONE_WMNT -> ONE_WMNT_CAP
      [] net >= ONE_WMNT /\ net < FIVE_WMNT -> FIVE_WMNT_CAP
      [] OTHER -> U128_MAX

MaxFee(config, net, limit) ==
    Lower(SaturatingU128(MANTLE_BASE_FEE_WEI + InitialPriority(config, net, limit)),
          GlobalCap(net))

MaxPriority(config, net, limit) ==
    Lower(InitialPriority(config, net, limit),
          SaturatingSub(MaxFee(config, net, limit), MANTLE_BASE_FEE_WEI))
=============================================================================
