------------------------------ MODULE MCDaemonOps ------------------------------
(***************************************************************************)
(* Instances of DaemonOps: two nodes of one chain, a wallet on each, and   *)
(* two contracts: c1 in a workspace (ws/contracts/c1, with its own         *)
(* artifacts directory beside the workspace's), and c2 a crate outside     *)
(* any workspace.                                                          *)
(***************************************************************************)
EXTENDS DaemonOps

CONSTANTS n1, n2, w1, w2

MCNodes == {n1, n2}

MCWallets == {w1, w2}

MCWalletNode == (w1 :> n1) @@ (w2 :> n2)

Ws == <<"ws">>

C1 == <<"ws", "contracts", "c1">>

C2 == <<"c2">>

MCUploadables == {[crate |-> C1, wasm |-> "c1"], [crate |-> C2, wasm |-> "c2"]}

MCCargoDirs == {Ws, C1, C2}

MCArtifacts ==
    {[dir |-> Ws \o <<"artifacts">>, wasm |-> "c1"],
     [dir |-> C1 \o <<"artifacts">>, wasm |-> "c1"],
     [dir |-> C2 \o <<"artifacts">>, wasm |-> "c2"]}
=============================================================================
