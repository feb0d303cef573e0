---------------------------- MODULE TxLifecycle ----------------------------
(***************************************************************************)
(* The transaction lifecycle of cw-orch-daemon's Sender (sender.rs,        *)
(* tx_builder.rs, queriers/node.rs; expanded in cw-orch-daemon/src/test.rs)*)
(*                                                                         *)
(* Every commit c in Commits is one call of Sender::commit_tx driven on    *)
(* the shared async runtime.  Several commits from the same Wallet may be  *)
(* in flight at once (e.g. joined futures); they interleave only at their  *)
(* awaits, each of which is one step of this module.                       *)
(*                                                                         *)
(* The chain is the environment: a committed account sequence, a mempool   *)
(* admitted by CheckTx, blocks that execute a prefix of the mempool, and   *)
(* a get_tx index.  Fee amounts, heights and sequences are small naturals. *)
(***************************************************************************)
EXTENDS Integers, Sequences, FiniteSets

CONSTANTS
    Commits,          \* concurrent commit_tx calls on one Wallet
    MaxRetries,       \* MAX_TX_QUERY_RETRIES (50 in node.rs), bounded here
    TimeoutHorizon,   \* timeout_height = block_height + 10 in commit_tx
    MaxHeight,        \* bound on the chain height
    InitHeights,      \* heights the chain may be at when the commits start
    RequiredFee,      \* fee the node's min gas price requires for the gas limit
    ComputedFees,     \* fees TxBuilder::build may compute from chain_data
    RpcFaults,        \* whether gRPC calls may fail with a transport error
    None

ASSUME MaxRetries \in Nat \ {0}
ASSUME TimeoutHorizon \in Nat \ {0}
ASSUME InitHeights \subseteq 1..MaxHeight
ASSUME ComputedFees \subseteq Nat /\ RequiredFee \in Nat
ASSUME RpcFaults \in BOOLEAN

\* A commit signs at most two transactions: the first and the fee retry.
TxIds == Commits \X {1, 2}

\* Result code of DeliverTx: 0 is success, 1 any execution failure.
ExecCodes == {0, 1}

\* Outcomes of the ante handler run by simulate and CheckTx.
CheckOutcomes == {"ok", "feeLow", "expired", "seqMismatch"}

Results == {"Ok", "TxFailed", "NotFound", "InsufficientFee",
            "SimFailed", "RpcError"}

VARIABLES
    \* chain (environment)
    height,     \* latest block height
    accSeq,     \* account sequence in committed state (what base_account reads)
    mempool,    \* sequence of TxIds admitted by CheckTx, in order
    chainCode,  \* TxId -> DeliverTx code, None while not in a block
    \* the fee situation of this chain, fixed for a run
    env,        \* [fee |-> fee computed by build, parseOk |-> parser finds a fee]
    \* per commit: the state of commit_tx and its TxBuilder
    pc,         \* program counter of commit_tx
    timeoutH,   \* timeout_height of the tx body
    feeSet,     \* TxBuilder.fee_amount (None or an amount)
    gasSet,     \* TxBuilder.gas_limit is Some
    seqRead,    \* sequence returned by the last base_account
    built,      \* number of transactions signed (the tx_response hash is <<c, built>>)
    signed,     \* TxId -> [seq, fee, timeout] or None
    lastCheck,  \* CheckTx outcome of the last broadcast (the tx_response code)
    polls,      \* get_tx misses so far in find_tx_with_retries
    sims,       \* number of simulate calls made
    result      \* what commit_tx returned, None while running

chainVars  == <<height, accSeq, mempool, chainCode>>
commitVars == <<pc, timeoutH, feeSet, gasSet, seqRead, built, signed,
                lastCheck, polls, sims, result>>
vars == <<chainVars, env, commitVars>>

TxRec == [seq : Nat, fee : Nat, timeout : Nat]

TypeOK ==
    /\ height \in 1..MaxHeight
    /\ accSeq \in Nat
    /\ mempool \in Seq(TxIds)
    /\ chainCode \in [TxIds -> ExecCodes \cup {None}]
    /\ env \in [fee : ComputedFees, parseOk : BOOLEAN]
    /\ pc \in [Commits -> {"queryHeight", "baseAccount", "simulate",
                           "broadcast", "findTx", "poll", "done"}]
    /\ timeoutH \in [Commits -> Nat]
    /\ feeSet \in [Commits -> Nat \cup {None}]
    /\ gasSet \in [Commits -> BOOLEAN]
    /\ seqRead \in [Commits -> Nat]
    /\ built \in [Commits -> 0..2]
    /\ signed \in [TxIds -> TxRec \cup {None}]
    /\ lastCheck \in [Commits -> CheckOutcomes \cup {None}]
    /\ polls \in [Commits -> 0..MaxRetries]
    /\ sims \in [Commits -> Nat]
    /\ result \in [Commits -> Results \cup {None}]

-----------------------------------------------------------------------------
(* The chain: the ante handler as simulate and CheckTx apply it.           *)

\* Sequence CheckTx expects: committed sequence plus admitted pending txs.
CheckSeq == accSeq + Len(mempool)

\* CheckTx admits a tx only if it can go into the next block.
CheckTx(t) ==
    CASE t.fee < RequiredFee       -> "feeLow"
      [] height + 1 > t.timeout    -> "expired"
      [] t.seq # CheckSeq          -> "seqMismatch"
      [] OTHER                     -> "ok"

\* Simulation runs the ante handler without the min-gas-price check.
SimulateCheck(seq, timeout) ==
    CheckTx([seq |-> seq, fee |-> RequiredFee, timeout |-> timeout])

\* After a block, the mempool is rechecked: the first tx that can no longer
\* enter the next block is evicted, and the ones after it lose their
\* sequence and are evicted with it.
RECURSIVE Recheck(_, _)
Recheck(s, h) ==
    IF s = <<>> \/ signed[Head(s)].timeout < h + 1
    THEN <<>>
    ELSE <<Head(s)>> \o Recheck(Tail(s), h)

\* A block executes the first k pending txs, each with some DeliverTx code.
NewBlock ==
    /\ height < MaxHeight
    /\ \E k \in 0..Len(mempool) :
       \E code \in [1..k -> ExecCodes] :
          /\ height' = height + 1
          /\ accSeq' = accSeq + k
          /\ chainCode' = [id \in TxIds |->
                             IF \E i \in 1..k : mempool[i] = id
                             THEN code[CHOOSE i \in 1..k : mempool[i] = id]
                             ELSE chainCode[id]]
          /\ mempool' = Recheck(SubSeq(mempool, k + 1, Len(mempool)), height + 1)
    /\ UNCHANGED <<env, commitVars>>

-----------------------------------------------------------------------------
(* commit_tx and TxBuilder::build, one action per await.                   *)

LastTx(c) == <<c, built[c]>>

Finish(c, r) ==
    /\ pc' = [pc EXCEPT ![c] = "done"]
    /\ result' = [result EXCEPT ![c] = r]

\* Sign the body with the builder's fee and the sequence just read, and make
\* it the transaction the next broadcast sends (Sender::sign).
SignTx(c, seq, fee) ==
    /\ built' = [built EXCEPT ![c] = @ + 1]
    /\ signed' = [signed EXCEPT ![<<c, built[c] + 1>>] =
                    [seq |-> seq, fee |-> fee, timeout |-> timeoutH[c]]]
    /\ pc' = [pc EXCEPT ![c] = "broadcast"]

\* commit_tx: timeout_height = block_height() + 10; build_body; TxBuilder::new.
QueryHeight(c) ==
    /\ pc[c] = "queryHeight"
    /\ timeoutH' = [timeoutH EXCEPT ![c] = height + TimeoutHorizon]
    /\ pc' = [pc EXCEPT ![c] = "baseAccount"]
    /\ UNCHANGED <<chainVars, env, feeSet, gasSet, seqRead, built, signed,
                   lastCheck, polls, sims, result>>

\* TxBuilder::build: base_account().await.  With both fee and gas limit set
\* (only on the fee retry) it signs at once; otherwise it goes on to simulate.
BaseAccount(c) ==
    /\ pc[c] = "baseAccount"
    /\ seqRead' = [seqRead EXCEPT ![c] = accSeq]
    /\ IF feeSet[c] # None /\ gasSet[c]
       THEN SignTx(c, accSeq, feeSet[c])
       ELSE /\ pc' = [pc EXCEPT ![c] = "simulate"]
            /\ UNCHANGED <<built, signed>>
    /\ UNCHANGED <<chainVars, env, timeoutH, feeSet, gasSet, lastCheck,
                   polls, sims, result>>

Simulate(c) ==
    /\ pc[c] = "simulate"
    /\ sims' = [sims EXCEPT ![c] = @ + 1]
    /\ IF SimulateCheck(seqRead[c], timeoutH[c]) = "ok"
       THEN /\ gasSet' = [gasSet EXCEPT ![c] = TRUE]
            /\ SignTx(c, seqRead[c], env.fee)
            /\ UNCHANGED result
       ELSE /\ Finish(c, "SimFailed")
            /\ UNCHANGED <<gasSet, built, signed>>
    /\ UNCHANGED <<chainVars, env, timeoutH, feeSet, seqRead, lastCheck,
                   polls>>

\* commit_tx after broadcast_tx(...).await returned: only the first response
\* is tested for "insufficient fees"; a parsed fee is set on the builder and
\* the tx rebuilt, no fee ends the call, anything else goes to find_tx.
AfterBroadcast(c, outcome) ==
    IF outcome = "feeLow" /\ built[c] = 1
    THEN IF env.parseOk
         THEN /\ feeSet' = [feeSet EXCEPT ![c] = RequiredFee]
              /\ pc' = [pc EXCEPT ![c] = "baseAccount"]
              /\ UNCHANGED result
         ELSE /\ Finish(c, "InsufficientFee")
              /\ UNCHANGED feeSet
    ELSE /\ pc' = [pc EXCEPT ![c] = "findTx"]
         /\ UNCHANGED <<feeSet, result>>

Admit(c, outcome) ==
    mempool' = IF outcome = "ok" THEN Append(mempool, LastTx(c)) ELSE mempool

\* broadcast_tx in Sync mode: the node runs CheckTx and answers.
Broadcast(c) ==
    LET outcome == CheckTx(signed[LastTx(c)]) IN
    /\ pc[c] = "broadcast"
    /\ Admit(c, outcome)
    /\ lastCheck' = [lastCheck EXCEPT ![c] = outcome]
    /\ AfterBroadcast(c, outcome)
    /\ UNCHANGED <<height, accSeq, chainCode, env, timeoutH, gasSet, seqRead,
                   built, signed, polls, sims>>

\* find_tx_with_retries: average_block_speed(Some(0.7)).await, which sleeps
\* while the latest height is <= 1 before reading two block times.
AverageBlockSpeed(c) ==
    /\ pc[c] = "findTx"
    /\ height > 1
    /\ pc' = [pc EXCEPT ![c] = "poll"]
    /\ UNCHANGED <<chainVars, env, timeoutH, feeSet, gasSet, seqRead, built,
                   signed, lastCheck, polls, sims, result>>

\* Faulty variants, used as mutants of the actions below to confirm that the
\* properties notice the bug each one introduces.

\* PollFound without commit_tx's `resp.code == 0` test.
\* PollMiss whose loop has lost its bound.
PollMissNoGiveUp(c) ==
    /\ pc[c] = "poll"
    /\ chainCode[LastTx(c)] = None \/ RpcFaults
    /\ polls' = [polls EXCEPT ![c] = @ + 1]
    /\ UNCHANGED <<pc, result, chainVars, env, timeoutH, feeSet, gasSet,
                   seqRead, built, signed, lastCheck, sims>>

\* PollMiss that never counts a miss.
PollMissUncounted(c) ==
    /\ pc[c] = "poll"
    /\ chainCode[LastTx(c)] = None \/ RpcFaults
    /\ UNCHANGED vars

\* PollMiss that, instead of returning TXNotFound, rebuilds and resubmits.
PollMissResubmit(c) ==
    /\ pc[c] = "poll"
    /\ chainCode[LastTx(c)] = None \/ RpcFaults
    /\ polls' = [polls EXCEPT ![c] = @ + 1]
    /\ IF polls[c] + 1 = MaxRetries
       THEN IF built[c] = 1
            THEN /\ pc' = [pc EXCEPT ![c] = "baseAccount"]
                 /\ UNCHANGED result
            ELSE Finish(c, "NotFound")
       ELSE UNCHANGED <<pc, result>>
    /\ UNCHANGED <<chainVars, env, timeoutH, feeSet, gasSet, seqRead, built,
                   signed, lastCheck, sims>>

\* get_tx found the hash of the last response; commit_tx returns Ok only
\* for code 0 and TxFailed otherwise.
PollFound(c) ==
    /\ pc[c] = "poll"
    /\ chainCode[LastTx(c)] # None
    /\ Finish(c, IF chainCode[LastTx(c)] = 0 THEN "Ok" ELSE "TxFailed")
    /\ UNCHANGED <<chainVars, env, timeoutH, feeSet, gasSet, seqRead, built,
                   signed, lastCheck, polls, sims>>

\* get_tx returned an error (not yet indexed, or a transport error): sleep
\* and retry; after `retries` misses the loop ends with TXNotFound.
PollMiss(c) ==
    /\ pc[c] = "poll"
    /\ chainCode[LastTx(c)] = None \/ RpcFaults
    /\ polls' = [polls EXCEPT ![c] = @ + 1]
    /\ IF polls[c] + 1 = MaxRetries
       THEN Finish(c, "NotFound")
       ELSE UNCHANGED <<pc, result>>
    /\ UNCHANGED <<chainVars, env, timeoutH, feeSet, gasSet, seqRead, built,
                   signed, lastCheck, sims>>

\* A gRPC call of the current step fails and `?` returns the error.  For
\* broadcast the node may already have admitted the tx when the answer is
\* lost.
RpcFail(c) ==
    /\ RpcFaults
    /\ pc[c] \in {"queryHeight", "baseAccount", "simulate", "broadcast", "findTx"}
    /\ \/ mempool' = mempool
       \/ /\ pc[c] = "broadcast"
          /\ Admit(c, CheckTx(signed[LastTx(c)]))
    /\ Finish(c, "RpcError")
    /\ UNCHANGED <<height, accSeq, chainCode, env, timeoutH, feeSet, gasSet,
                   seqRead, built, signed, lastCheck, polls, sims>>

-----------------------------------------------------------------------------

Init ==
    /\ height \in InitHeights
    /\ accSeq = 0
    /\ mempool = <<>>
    /\ chainCode = [id \in TxIds |-> None]
    /\ env \in [fee : ComputedFees, parseOk : BOOLEAN]
    /\ pc = [c \in Commits |-> "queryHeight"]
    /\ timeoutH = [c \in Commits |-> 0]
    /\ feeSet = [c \in Commits |-> None]
    /\ gasSet = [c \in Commits |-> FALSE]
    /\ seqRead = [c \in Commits |-> 0]
    /\ built = [c \in Commits |-> 0]
    /\ signed = [id \in TxIds |-> None]
    /\ lastCheck = [c \in Commits |-> None]
    /\ polls = [c \in Commits |-> 0]
    /\ sims = [c \in Commits |-> 0]
    /\ result = [c \in Commits |-> None]

CommitStep(c) ==
    \/ QueryHeight(c)
    \/ BaseAccount(c)
    \/ Simulate(c)
    \/ Broadcast(c)
    \/ AverageBlockSpeed(c)
    \/ PollFound(c)
    \/ PollMiss(c)
    \/ RpcFail(c)

\* All calls have returned and the chain has reached its height bound.
Terminated ==
    /\ \A c \in Commits : pc[c] = "done"
    /\ height = MaxHeight
    /\ UNCHANGED vars

Next ==
    \/ \E c \in Commits : CommitStep(c)
    \/ NewBlock
    \/ Terminated

\* The runtime drives every commit future to completion (block_on), and the
\* chain keeps producing blocks.  Transport failures are not forced.
Fairness ==
    /\ \A c \in Commits :
          WF_vars(QueryHeight(c) \/ BaseAccount(c) \/ Simulate(c)
                  \/ Broadcast(c) \/ AverageBlockSpeed(c) \/ PollFound(c)
                  \/ PollMiss(c))
    /\ WF_vars(NewBlock)

Spec == Init /\ [][Next]_vars /\ Fairness

-----------------------------------------------------------------------------
(* Properties                                                              *)

AtMostOnceExecution ==
    \A c \in Commits :
        Cardinality({i \in {1, 2} : chainCode[<<c, i>>] # None}) <= 1

\* Every commit_tx call returns: find_tx gives up after MaxRetries misses and
\* the wait for height > 1 ends because the chain makes progress.
CommitTerminates ==
    \A c \in Commits : <>(pc[c] = "done")

\* Spec section 7: an on-chain rejection is surfaced with the chain's code
\* and reason.  A commit whose last broadcast was refused by CheckTx must not
\* end with the generic TXNotFound of an exhausted poll.
RejectionSurfaced ==
    \A c \in Commits :
        result[c] = "NotFound" => lastCheck[c] = "ok"

=============================================================================
