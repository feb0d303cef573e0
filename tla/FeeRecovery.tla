------------------------------ MODULE FeeRecovery ------------------------------
(***************************************************************************)
(* The fee path of Sender::commit_tx (test.rs 1925-1953) with its two      *)
(* parts composed: the fee TxBuilder::build computes from the simulation   *)
(* (GasFee), the node's mempool fee check and the log it answers with, and *)
(* the corrective resubmission with the fee parse_suggested_fee reads out  *)
(* of that log (FeeParser).  The resubmission reuses the gas limit of the  *)
(* first build (self.gas_limit) with the parsed amount.                    *)
(***************************************************************************)
EXTENDS Naturals, Sequences

CONSTANTS
    Sims,    \* simulated gas values
    Prices,  \* fixed_min_gas_price of fee_tokens[0], in PriceScale-ths
    Denom    \* fee_tokens[0].denom, as a sequence of symbols

VARIABLES sim, price, gasLimit, fee, rawLog, outcome

vars == <<sim, price, gasLimit, fee, rawLog, outcome>>

G == INSTANCE GasFee

P == INSTANCE FeeParser

(* The decimal digits of n, as the node's Coin formatting writes them.    *)
RECURSIVE ToDigits(_)
ToDigits(n) ==
    LET d == CHOOSE c \in DOMAIN P!DigitValue : P!DigitValue[c] = n % 10
    IN  IF n < 10 THEN <<d>> ELSE ToDigits(n \div 10) \o <<d>>

(* The cosmos-sdk rejection of a fee below ceil(gas_limit * min_gas_price) *)
InsufficientLog(paid, required) ==
    <<"insufficient fees;", " ", "got:", " ">> \o ToDigits(paid) \o Denom
    \o <<" ", "required: ">> \o ToDigits(required) \o Denom
    \o <<":", " ", "insufficient fee">>

(* The node's CheckTx: the fee is enough for the gas limit, or the log.    *)
Accepts(amount) == amount >= G!NodeMinFee(gasLimit, price)

Init ==
    /\ sim \in Sims
    /\ price \in Prices
    /\ gasLimit \in G!GasLimits(sim)
    /\ fee \in G!Fees(sim, price)
    /\ rawLog = <<>>
    /\ outcome = "build"

(* broadcast_tx of the simulated build; has_insufficient_fee on the log.   *)
Broadcast ==
    /\ outcome = "build"
    /\ IF Accepts(fee)
       THEN outcome' = "accepted" /\ UNCHANGED rawLog
       ELSE /\ rawLog' = InsufficientLog(fee, G!NodeMinFee(gasLimit, price))
            /\ outcome' = "rejected"
    /\ UNCHANGED <<sim, price, gasLimit, fee>>

(* let Some(new_fee) = parse_suggested_fee(..) else InsufficientFee; then *)
(* fee_amount(new_fee), build and broadcast once more.                     *)
Resubmit ==
    /\ outcome = "rejected"
    /\ LET r == P!ParseSuggestedFee(rawLog) IN
       IF ~r.some
       THEN outcome' = "InsufficientFee" /\ UNCHANGED fee
       ELSE /\ fee' = r.val
            /\ outcome' = IF Accepts(r.val) THEN "accepted" ELSE "rejectedAgain"
    /\ UNCHANGED <<sim, price, gasLimit, rawLog>>

Done == outcome \in {"accepted", "InsufficientFee", "rejectedAgain"} /\ UNCHANGED vars

Next == Broadcast \/ Resubmit \/ Done

Spec == Init /\ [][Next]_vars

-----------------------------------------------------------------------------
(* Spec 4.5: the epsilon added to the price avoids rounding rejection, and *)
(* a fee rejection is answered by one resubmission with the fee the node  *)
(* asks for: a simulated transaction never ends with InsufficientFee or a *)
(* second fee rejection.                                                   *)
FeeRecovered == outcome \notin {"InsufficientFee", "rejectedAgain"}

=============================================================================
