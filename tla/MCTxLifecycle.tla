--------------------------- MODULE MCTxLifecycle ---------------------------
(* Model-checking instance of TxLifecycle: two concurrent commits from one  *)
(* Wallet, a fee computed from chain_data that is either enough or one unit *)
(* short of the node's minimum, and a chain that may start at height 1.    *)
EXTENDS TxLifecycle

CONSTANTS c1, c2

MCCommits == {c1, c2}

\* A fee one unit below the node's requirement and one that meets it.
MCComputedFees == {RequiredFee - 1, RequiredFee}

\* State bound: sequences and heights are already bounded by the actions.
=============================================================================
