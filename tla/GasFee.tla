-------------------------------- MODULE GasFee --------------------------------
(***************************************************************************)
(* The fee and gas limit TxBuilder::build derives from a simulation        *)
(* (tx_builder.rs, test.rs 8257-8286): the simulated gas times a buffer    *)
(* (x1.4 below 200000, x1.3 from there on), the fee that buffered gas      *)
(* times (fixed_min_gas_price + 0.00001), both cast to integers.  A price *)
(* is a whole number of PriceScale-ths, so 0.00001 is one unit and every  *)
(* product is an exact rational.  The f64 products are not exact: when the *)
(* exact product is a whole number N, the f64 one may land just below N   *)
(* (45 * 1.4 = 62.99999999999999), and the cast then gives N - 1; both    *)
(* outcomes are kept.  The node (cosmos-sdk mempool fee check) asks for    *)
(* ceil(gas_limit * min_gas_price).  FeeRecovery composes these operators *)
(* with the node's check and the corrective resubmission.                 *)
(***************************************************************************)
EXTENDS Naturals

CONSTANTS
    Sims,    \* simulated gas values
    Prices   \* fixed_min_gas_price, in PriceScale-ths

BUFFER_THRESHOLD == 200000

PriceScale == 100000

(* SMALL_GAS_BUFFER = 1.4 and GAS_BUFFER = 1.3, as tenths.                *)
BufferTenths(sim) == IF sim < BUFFER_THRESHOLD THEN 14 ELSE 13

(* `x as u64` / `as u128` of the f64 product num/den: the truncation, or   *)
(* one less when the exact value is whole and f64 lands below it.          *)
Truncations(num, den) ==
    IF num % den = 0 /\ num > 0 THEN {num \div den, num \div den - 1}
                                ELSE {num \div den}

(* gas_expected as u64.                                                    *)
GasLimits(sim) == Truncations(sim * BufferTenths(sim), 10)

(* fee_amount as u128, fee_amount = gas_expected * (price + 0.00001).      *)
Fees(sim, price) ==
    Truncations(sim * BufferTenths(sim) * (price + 1), 10 * PriceScale)

(* The least fee the node accepts for a gas limit.                         *)
NodeMinFee(gasLimit, price) == (gasLimit * price + PriceScale - 1) \div PriceScale

=============================================================================
