----------------------------- MODULE MCFeeRecovery -----------------------------
(* Instances of FeeRecovery: ordinary contract executions (60000 gas) at   *)
(* the uosmo and a 0.001 price.                                            *)
EXTENDS FeeRecovery

MCPrices == {100, 250}

SmallSims == 60000..60040

MCDenom == <<"u", "o", "s", "m", "o">>
=============================================================================
