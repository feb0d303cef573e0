------------------------- MODULE MCDeploymentLedger -------------------------
(* Instantiates DeploymentLedger for TLC.                                  *)
EXTENDS DeploymentLedger

CONSTANTS p1, p2, s1, s2, d1, d2, k1, a1, a2

MCSessions == {p1}

TwoSessions == {p1, p2}

MCScopes == {s1, s2}

MCDeployIds == {d1}

(* A second session may use another deployment id on the same chain.      *)
TwoDeployIds == {d1, d2}

MCContracts == {k1}

MCAddrs == {a1, a2}

MCCodeIds == {1, 2}

(* No state.json yet, or an empty document.                                *)
FreshFiles == {[kind |-> "empty"], [kind |-> "doc", doc |-> EmptyDoc]}
=============================================================================
