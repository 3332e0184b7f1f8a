---------------------------- MODULE UniswapV2Pool ----------------------------
(* The constant product quote of UniswapV2Pool (src/amms/uniswap_v2/mod.rs).  *)
(* keep is what the fee leaves of 1000 parts of the input; the code counts in *)
(* 100000 parts, which makes no difference to a fee that is a multiple of     *)
(* 0.1 %, as the pools' are here.                                             *)
EXTENDS Integers

\* get_amount_out
GetAmountOut(amount_in, reserve_in, reserve_out, keep) ==
    IF 0 \in {amount_in, reserve_in, reserve_out} THEN 0
    ELSE (amount_in * keep * reserve_out) \div (reserve_in * 1000 + amount_in * keep)
=============================================================================
