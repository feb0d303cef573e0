----------------------------- MODULE MCPollBackoff -----------------------------
(***************************************************************************)
(* Instances of PollBackoff: a 1 s and a 6 s chain, a node following it or *)
(* catching up at 100 blocks a second, find_tx called at genesis or later, *)
(* and a transaction queryable at once, after a few seconds, after a      *)
(* minute, or never.  Four retries instead of 50 keep the sleeps small;    *)
(* every branch of the loop is taken within four.                          *)
(***************************************************************************)
EXTENDS PollBackoff

MCBlockTimes == {1000, 6000}

MCSyncTimes == {10}

MCStartTimes == {0, 500, 13000}

MCDelays == {0, 2000, 8000, 60000}

=============================================================================
