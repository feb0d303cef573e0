------------------------- MODULE MCConditionalDeploy -------------------------
(* Instantiates ConditionalDeploy for TLC: one script, one chain, one     *)
(* contract, two wasm builds.                                              *)
EXTENDS ConditionalDeploy

CONSTANTS p1, s1, d1, k1, a1, a2, w1, w2

MCWasms == {w1, w2}

(* Each call stores at most one code, so 1 + MaxCalls ids suffice.        *)
MCCodeIds == 1..4

(* state.json recording the contract at a1 with code id n.                *)
Recorded(n) ==
    [kind |-> "doc",
     doc |-> [[s \in {s1} |-> Absent] EXCEPT
                ![s1] = [NewScope(d1) EXCEPT ![d1][k1] = a1, !["code_ids"][k1] = n]]]

(* No state.json yet; one naming code id 1, which the chain runs; or one  *)
(* written before the chain was reset, naming code id 2 it no longer has. *)
DeployedFiles == {[kind |-> "empty"], Recorded(1), Recorded(2)}
=============================================================================
