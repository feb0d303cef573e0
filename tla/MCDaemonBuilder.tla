---------------------------- MODULE MCDaemonBuilder ----------------------------
(***************************************************************************)
(* Instances of DaemonBuilder: a chain with one fee token (as the         *)
(* networks' constants give), a registry chain with two (the first not    *)
(* the shortest denomination), and a registry entry with neither fee      *)
(* tokens nor gRPC addresses.                                              *)
(***************************************************************************)
EXTENDS DaemonBuilder, TLC

CONSTANTS g1, w1

Injective1 ==
    [chainId |-> "injective-1", fees |-> <<FeeToken("inj", 5)>>,
     grpc |-> <<"https://sentry.chain.grpc.injective.network:443">>]

Osmosis1 ==
    [chainId |-> "osmosis-1", fees |-> <<FeeToken("uosmo", 2), FeeToken("ibc/27", 3)>>,
     grpc |-> <<"https://grpc.osmosis.zone:443">>]

Bare ==
    [chainId |-> "bare-1", fees |-> <<>>, grpc |-> <<>>]

MCChains == {Injective1, Osmosis1, Bare}

MCDenomLen == ("inj" :> 3) @@ ("uosmo" :> 5) @@ ("ibc/27" :> 6) @@ ("my_token" :> 8)

MCContracts == [addr: BOOLEAN, admin: {g1, ""}]
=============================================================================
