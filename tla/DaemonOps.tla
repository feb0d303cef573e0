------------------------------- MODULE DaemonOps -------------------------------
(***************************************************************************)
(* The operations of cw-orch's Daemon (cw-orch/src/daemon/core.rs): one    *)
(* caller driving execute, instantiate, migrate, query, wait_blocks,       *)
(* wait_seconds, next_block, block_info, upload and set_sender, one at a   *)
(* time (each is awaited before the next starts).  The chain grows one     *)
(* block at a time; the gRPC nodes it is read through lag behind it and    *)
(* catch up.  Queries go through the sender's channel (query_client),      *)
(* upload's wait for the code through the daemon state's (self.channel()). *)
(* commit_tx is atomic here (TxLifecycle models it): it includes the       *)
(* transaction in the next block and returns Ok, or, with RpcFaults, an    *)
(* error whether or not the transaction was included.  The artifact an     *)
(* upload reads is the one boot_contract's generated Uploadable source     *)
(* (boot-contract-derive) finds: <workspace dir>/artifacts/<wasm name>.    *)
(* Paths are sequences of directory names; <<>> is the root.               *)
(***************************************************************************)
EXTENDS Naturals, Sequences, SequencesExt

CONSTANTS
    Nodes,       \* gRPC nodes of the chain
    Wallets,     \* wallets set_sender may install
    WalletNode,  \* the node each wallet's channel points to
    Amounts,     \* block counts passed to wait_blocks
    Uploadables, \* [crate: path of CARGO_MANIFEST_DIR, wasm: name]
    CargoDirs,   \* directories holding a Cargo.toml
    Artifacts,   \* [dir: path, wasm: name] of the wasm files on disk
    RpcFaults,   \* whether gRPC calls and commit_tx may fail
    MaxHeight,   \* the chain's last block in the model
    MaxOps       \* operations the caller starts

ASSUME WalletNode \in [Wallets -> Nodes] /\ MaxHeight \in Nat /\ MaxOps \in Nat

VARIABLES
    height,      \* the chain's latest block
    nodeHeight,  \* the latest block each node serves
    stored,      \* code id i was stored at block stored[i].at from stored[i].wasm
    stateNode,   \* the node of the daemon state's grpc_channel
    senderNode,  \* the node of the sender's channel
    pc,          \* "idle", "wait", "next", "upload" or "panic"
    op,          \* the operation last started
    start,       \* the height read first by wait_blocks / next_block
    amount,      \* the blocks waited for
    last,        \* last_height, the height read last
    slept,       \* a sleep completed since the last height query
    codeId,      \* the code id of the upload in progress
    ret,         \* the result of the last operation
    ops          \* operations started

vars == <<height, nodeHeight, stored, stateNode, senderNode, pc, op, start,
          amount, last, slept, codeId, ret, ops>>

chainVars == <<height, nodeHeight, stored>>

loopVars == <<start, amount, last, slept, codeId>>

-----------------------------------------------------------------------------
(* find_workspace_dir_worker: pop first, then look for Cargo.toml; None    *)
(* once pop fails at the root.  It returns the directory it stopped at,    *)
(* which is also where the &mut PathBuf it was given is left.              *)
RECURSIVE FindWorkspaceDirWorker(_)
FindWorkspaceDirWorker(dir) ==
    IF dir = <<>> THEN [found |-> FALSE, dir |-> dir]
    ELSE IF Front(dir) \in CargoDirs THEN [found |-> TRUE, dir |-> Front(dir)]
    ELSE FindWorkspaceDirWorker(Front(dir))

(* find_workspace_dir: the path found, or current_dir, which the worker    *)
(* has popped to the root.                                                 *)
FindWorkspaceDir(crate) == FindWorkspaceDirWorker(crate).dir

(* Uploadable<Daemon>::source: <workspace>/artifacts, find_wasm_path(..)   *)
(* .unwrap(), which panics when the file is not in Artifacts.             *)
Source(u) == [dir |-> FindWorkspaceDir(u.crate) \o <<"artifacts">>, wasm |-> u.wasm]

CodeQueryable(n, id) == id \in 1..Len(stored) /\ stored[id].at <= nodeHeight[n]

-----------------------------------------------------------------------------
Init ==
    /\ height = 1
    /\ nodeHeight = [n \in Nodes |-> 1]
    /\ stored = <<>>
    /\ stateNode \in Nodes
    /\ senderNode = stateNode
    /\ pc = "idle"
    /\ op = "none"
    /\ start = 0 /\ amount = 0 /\ last = 0 /\ slept = FALSE /\ codeId = 0
    /\ ret = "none"
    /\ ops = 0

(* The caller starts operation `name`.                                     *)
Begin(name) == pc = "idle" /\ ops < MaxOps /\ ops' = ops + 1 /\ op' = name

Return(r) == ret' = r /\ pc' = "idle"

(* The transaction lands in the next block; the MsgStoreCodes among its  *)
(* messages store the wasm files in `codes`.                               *)
Include(codes) ==
    /\ height < MaxHeight
    /\ height' = height + 1
    /\ stored' = stored \o [k \in DOMAIN codes |-> [at |-> height + 1, wasm |-> codes[k]]]

(* sender.commit_tx(msgs, None).await? for a message that is not a store.  *)
CommitTx ==
    \/ Include(<<>>) /\ Return("Ok")
    \/ RpcFaults /\ Return("Err") /\ (Include(<<>>) \/ UNCHANGED <<height, stored>>)

(* The denominations of the coins sent with a message: one Denom::from_str *)
(* accepts and one it refuses (shorter than three characters).             *)
CoinDenoms == {"uosmo", "u"}

(* parse_cw_coins: Denom::from_str(denom)? on every coin; collecting into  *)
(* a Result stops at the first refused denomination.                      *)
ParseCwCoins(coins) == \A d \in coins : Len(d) \in 3..128

(* execute: AccountId::from_str(contract)? and parse_cw_coins(coins)?      *)
(* before commit_tx.                                                       *)
Execute ==
    /\ Begin("execute")
    /\ \E addrOk \in BOOLEAN, coins \in SUBSET CoinDenoms :
          IF addrOk /\ ParseCwCoins(coins) THEN CommitTx
          ELSE Return("Err") /\ UNCHANGED <<height, stored>>
    /\ UNCHANGED <<nodeHeight, stateNode, senderNode, loopVars>>

(* instantiate: the admin address is parsed with .unwrap() before the `?`s *)
(* on the sender, the message and the coins.                               *)
Instantiate ==
    /\ Begin("instantiate")
    /\ \E admin \in {"none", "valid", "invalid"}, coins \in SUBSET CoinDenoms :
          CASE admin = "invalid" -> ret' = "Panic" /\ pc' = "panic"
                                    /\ UNCHANGED <<height, stored>>
            [] ~ParseCwCoins(coins) -> Return("Err") /\ UNCHANGED <<height, stored>>
            [] OTHER -> CommitTx
    /\ UNCHANGED <<nodeHeight, stateNode, senderNode, loopVars>>

(* migrate: AccountId::from_str(contract)? before commit_tx.               *)
Migrate ==
    /\ Begin("migrate")
    /\ \E addrOk \in BOOLEAN :
          IF addrOk THEN CommitTx ELSE Return("Err") /\ UNCHANGED <<height, stored>>
    /\ UNCHANGED <<nodeHeight, stateNode, senderNode, loopVars>>

(* query: smart_contract_state through the sender's channel, then          *)
(* from_utf8(data).unwrap() and from_str(..)?.                             *)
Query ==
    /\ Begin("query")
    /\ \E reply \in {"json", "other", "bytes"} \cup (IF RpcFaults THEN {"error"} ELSE {}) :
          CASE reply = "bytes" -> ret' = "Panic" /\ pc' = "panic"
            [] reply = "json" -> Return("Ok")
            [] OTHER -> Return("Err")
    /\ UNCHANGED <<chainVars, stateNode, senderNode, loopVars>>

(* end_height = last_height + amount, from the first height read.       *)
EndHeight(h, n) == h + n

(* The first block_height() of wait_blocks / next_block, through the      *)
(* sender's channel.  The chain of the model ends at MaxHeight, so waits *)
(* past it are not started.                                                *)
StartWait(name, n, loop) ==
    /\ Begin(name)
    /\ LET h == nodeHeight[senderNode] IN
       \/ /\ h + n <= MaxHeight
          /\ start' = h /\ last' = h /\ amount' = n
          /\ IF h < EndHeight(h, n) THEN pc' = loop /\ UNCHANGED ret ELSE Return("Ok")
       \/ RpcFaults /\ Return("Err") /\ UNCHANGED <<start, last, amount>>
    /\ slept' = FALSE
    /\ UNCHANGED <<chainVars, stateNode, senderNode, codeId>>

WaitBlocks == \E n \in Amounts : StartWait("wait_blocks", n, "wait")

(* next_block: end_height = last_height + 1.                               *)
NextBlock == StartWait("next_block", 1, "next")

(* The loop body of wait_blocks: tokio::time::sleep(4 s).await; of        *)
(* upload: sleep(6 s).await.  next_block's sleep(4 s) is never awaited:   *)
(* the future is dropped and nothing waits.                                *)
Sleep ==
    /\ pc \in {"wait", "upload"}
    /\ ~slept
    /\ slept' = TRUE
    /\ UNCHANGED <<chainVars, stateNode, senderNode, pc, op, start, amount, last, codeId, ret, ops>>

(* last_height = block_height().await?, and the loop test                  *)
(* last_height < end_height.                                               *)
Requery ==
    /\ pc \in {"wait", "next"}
    /\ pc = "wait" => slept
    /\ slept' = FALSE
    /\ \/ /\ last' = nodeHeight[senderNode]
          /\ IF nodeHeight[senderNode] < EndHeight(start, amount) THEN UNCHANGED <<pc, ret>>
             ELSE Return("Ok")
       \/ RpcFaults /\ Return("Err") /\ UNCHANGED last
    /\ UNCHANGED <<chainVars, stateNode, senderNode, op, start, amount, codeId, ops>>

(* wait_seconds: sleep(secs).await; Ok.                                    *)
WaitSeconds ==
    /\ Begin("wait_seconds")
    /\ Return("Ok")
    /\ UNCHANGED <<chainVars, stateNode, senderNode, loopVars>>

(* block_info: latest_block()? through the sender's channel, its time     *)
(* since the epoch (duration_since(..)?, never before it for a chain).     *)
BlockInfo ==
    /\ Begin("block_info")
    /\ \/ last' = nodeHeight[senderNode] /\ Return("Ok")
       \/ RpcFaults /\ Return("Err") /\ UNCHANGED last
    /\ UNCHANGED <<chainVars, stateNode, senderNode, start, amount, slept, codeId>>

(* Mutant of ArtifactFound: the lookup's error is dropped.                *)
ArtifactFoundUnchecked(u) == TRUE

(* find_wasm_path(wasm_name) finds the file.                               *)
ArtifactFound(u) == Source(u) \in Artifacts

(* Mutant of StoreCode: the wait asks for the code id after the new one.  *)
StoreCodeWrongId(u) ==
    \/ Include(<<Source(u)>>) /\ codeId' = Len(stored) + 2 /\ pc' = "upload"
       /\ UNCHANGED ret
    \/ RpcFaults /\ Return("Err") /\ UNCHANGED codeId
       /\ (Include(<<Source(u)>>) \/ UNCHANGED <<height, stored>>)

(* commit_tx of the MsgStoreCode, uploaded_code_id().unwrap() (the next   *)
(* code id), and the start of the wait for it.                             *)
StoreCode(u) ==
    \/ Include(<<Source(u)>>) /\ codeId' = Len(stored) + 1 /\ pc' = "upload"
       /\ UNCHANGED ret
    \/ RpcFaults /\ Return("Err") /\ UNCHANGED codeId
       /\ (Include(<<Source(u)>>) \/ UNCHANGED <<height, stored>>)

(* upload: the uploadable's wasm path (the derive's source(), which       *)
(* panics on a missing file), fs::read, then StoreCode; the wait for the  *)
(* code goes through the daemon's own channel.                             *)
Upload ==
    /\ Begin("upload")
    /\ \E u \in Uploadables :
          IF ArtifactFound(u) THEN StoreCode(u)
          ELSE ret' = "Panic" /\ pc' = "panic" /\ UNCHANGED <<height, stored, codeId>>
    /\ slept' = TRUE
    /\ UNCHANGED <<nodeHeight, stateNode, senderNode, start, amount, last>>

(* while wasm.code(code_id).await.is_err(): the node does not have the    *)
(* code yet, or the query fails.                                           *)
CodeMissing ==
    /\ pc = "upload"
    /\ slept
    /\ ~CodeQueryable(stateNode, codeId) \/ RpcFaults
    /\ slept' = FALSE
    /\ UNCHANGED <<chainVars, stateNode, senderNode, pc, op, start, amount, last, codeId, ret, ops>>

CodeFound ==
    /\ pc = "upload"
    /\ slept
    /\ CodeQueryable(stateNode, codeId)
    /\ Return("Ok")
    /\ UNCHANGED <<chainVars, stateNode, senderNode, op, loopVars, ops>>

(* set_sender: self.sender = wallet, with the wallet's own channel.        *)
SetSender ==
    /\ Begin("set_sender")
    /\ \E w \in Wallets : senderNode' = WalletNode[w]
    /\ Return("Ok")
    /\ UNCHANGED <<chainVars, stateNode, loopVars>>

(* The chain produces a block.                                             *)
NewBlock ==
    /\ height < MaxHeight
    /\ height' = height + 1
    /\ UNCHANGED <<nodeHeight, stored, stateNode, senderNode, pc, op, loopVars, ret, ops>>

(* A node catches up by one block.                                         *)
NodeSync(n) ==
    /\ nodeHeight[n] < height
    /\ nodeHeight' = [nodeHeight EXCEPT ![n] = @ + 1]
    /\ UNCHANGED <<height, stored, stateNode, senderNode, pc, op, loopVars, ret, ops>>

(* The caller is done, or the process panicked, and the nodes have caught *)
(* up with the last block.                                                 *)
Terminated ==
    /\ pc = "panic" \/ (pc = "idle" /\ ops = MaxOps)
    /\ height = MaxHeight
    /\ \A n \in Nodes : nodeHeight[n] = height
    /\ UNCHANGED vars

Caller ==
    \/ Execute \/ Instantiate \/ Migrate \/ Query \/ WaitBlocks \/ NextBlock
    \/ WaitSeconds \/ BlockInfo \/ Upload \/ SetSender

Next ==
    \/ Caller
    \/ Sleep \/ Requery \/ CodeMissing \/ CodeFound
    \/ NewBlock \/ \E n \in Nodes : NodeSync(n)
    \/ Terminated

(* The tokio runtime drives every awaited future to completion, the chain *)
(* keeps producing blocks and the nodes keep syncing.  Query failures are *)
(* transient: a node that has the code, asked again and again, answers    *)
(* (strong fairness, since each failed query disables CodeFound until the *)
(* next sleep).  Starting an operation is the caller's choice, not fair.  *)
Fairness ==
    /\ WF_vars(Sleep) /\ WF_vars(Requery) /\ SF_vars(CodeFound)
    /\ WF_vars(NewBlock) /\ \A n \in Nodes : WF_vars(NodeSync(n))

Spec == Init /\ [][Next]_vars /\ Fairness
-----------------------------------------------------------------------------
TypeOK ==
    /\ height \in 1..MaxHeight
    /\ nodeHeight \in [Nodes -> 1..MaxHeight]
    /\ \A n \in Nodes : nodeHeight[n] <= height
    /\ stored \in Seq([at: 1..MaxHeight, wasm: Artifacts])
    /\ {stateNode, senderNode} \subseteq Nodes
    /\ pc \in {"idle", "wait", "next", "upload", "panic"}
    /\ ret \in {"none", "Ok", "Err", "Panic"}
    /\ ops \in 0..MaxOps

(* The workspace of a crate, by its definition: the nearest proper        *)
(* ancestor that holds a Cargo.toml (none for a crate outside any).        *)
NearestWorkspace(crate) ==
    LET above == {SubSeq(crate, 1, k) : k \in 0..(Len(crate) - 1)} \cap CargoDirs
    IN  {p \in above : \A q \in above : Len(q) <= Len(p)}

(* Every wait loop ends: wait_blocks, next_block and upload's wait for    *)
(* the code return while the chain keeps producing blocks and its nodes    *)
(* keep up.                                                                *)
OperationsReturn == pc \in {"wait", "next", "upload"} ~> pc = "idle"

=============================================================================

