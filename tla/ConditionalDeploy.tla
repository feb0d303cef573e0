-------------------------- MODULE ConditionalDeploy --------------------------
(***************************************************************************)
(* ConditionalUpload and ConditionalMigrate of cw-orch-daemon (traits.rs,  *)
(* test.rs 8014-8110) over the DaemonState ledger of DeploymentLedger and  *)
(* a chain.  The chain stores code (code id i holds the checksum          *)
(* codes[i]) and runs one contract, at ContractAddr, on code `running`.   *)
(* One deploy script calls upload_if_needed, migrate_if_needed or          *)
(* upload_and_migrate_if_needed for the contract Contract; each query,    *)
(* transaction and state-file access of the call is a step, so a crash    *)
(* (CrashFaults) may fall between the store transaction and set_code_id,  *)
(* and an RPC fault (RpcFaults) may fail a query or a transaction whose   *)
(* effect is or is not on the chain.  The script may rebuild the wasm     *)
(* between calls, and uses the ledger's getters; it sets code ids only    *)
(* through upload.                                                         *)
(***************************************************************************)
EXTENDS DeploymentLedger, Sequences

CONSTANTS
    Wasms,         \* checksums of the wasm files the script may build
    Contract,      \* the contract id the calls are made for
    ContractAddr,  \* the address of the contract running on the chain
    RpcFaults,     \* whether a gRPC query or a commit_tx may fail
    MaxCalls       \* bound on the number of conditional calls

VARIABLES
    codes,    \* the chain's stored code: code id i has checksum codes[i]
    running,  \* the code id the contract at ContractAddr runs
    wasm,     \* the checksum of the local wasm file
    cpc,      \* where the call is: "idle" between calls, else its next step
    op,       \* the entry point called
    newId,    \* the code id the call uploaded or migrates to
    cret,     \* the result of the last call, with the wasm it was made for
    calls     \* calls made so far

cvars == <<codes, running, wasm, cpc, op, newId, cret, calls>>

allVars == <<vars, cvars>>

Ops == {"upload_if_needed", "migrate_if_needed", "upload_and_migrate_if_needed"}

NoResult == [r |-> "none", op |-> "none", wasm |-> "none"]

(* self.code_id() and self.address(): the ledger entries of the contract. *)
CodeIdOf(p) == Entry(file.doc, scope[p], "code_ids", Contract)
AddressOf(p) == Entry(file.doc, scope[p], dep[p], Contract)

(* The call returns r (its `?` exits return Err; a panic has killed it).  *)
Return(r) ==
    /\ cpc' = "idle"
    /\ cret' = [r |-> r, op |-> op, wasm |-> wasm]

(* After upload_if_needed: done, or migrate_if_needed comes next.          *)
AfterUpload == cpc' = IF op = "upload_if_needed" THEN "return" ELSE "is_running_latest"

(* Every step below that reads state.json guards on a document: read_state *)
(* panics on anything else, but with the single DaemonState of spec 4.7   *)
(* the file holds a document whenever that DaemonState is idle.           *)

CInit ==
    /\ Init
    /\ codes \in {<<w>> : w \in Wasms}
    /\ running = 1
    /\ wasm \in Wasms
    /\ cpc = "idle" /\ op = "none" /\ newId = 0
    /\ cret = NoResult
    /\ calls = 0

(* The script calls one of the three entry points.                        *)
Call(p) ==
    /\ pc[p] = "idle" /\ cpc = "idle" /\ calls < MaxCalls
    /\ \E o \in Ops :
         /\ op' = o
         /\ cpc' = IF o = "migrate_if_needed" THEN "is_running_latest" ELSE "latest_is_uploaded"
    /\ cret' = NoResult
    /\ calls' = calls + 1
    /\ UNCHANGED <<vars, codes, running, wasm, newId>>

(* latest_is_uploaded, then upload_if_needed's branch on it: no code id   *)
(* in the ledger is Ok(false); code_id_hash(id)? fails for code the chain *)
(* does not have or on an RPC fault; otherwise the on-chain hash is       *)
(* compared with the local checksum.                                       *)
LatestIsUploaded(p) ==
    /\ cpc = "latest_is_uploaded" /\ pc[p] = "idle"
    /\ file.kind = "doc"
    /\ LET n == CodeIdOf(p) IN
       \/ n = Absent /\ cpc' = "upload" /\ UNCHANGED cret
       \/ n # Absent /\ (n > Len(codes) \/ RpcFaults) /\ Return("Err")
       \/ /\ n # Absent /\ n <= Len(codes)
          /\ IF codes[n] = wasm THEN AfterUpload ELSE cpc' = "upload"
          /\ UNCHANGED cret
    /\ UNCHANGED <<vars, codes, running, wasm, op, newId, calls>>

(* DaemonAsync::upload: commit_tx of MsgStoreCode; the new code id is     *)
(* uploaded_code_id() of the response.  A failed commit_tx may or may not *)
(* have stored the code.                                                   *)
Upload(p) ==
    /\ cpc = "upload"
    /\ \/ /\ codes' = Append(codes, wasm)
          /\ newId' = Len(codes) + 1
          /\ cpc' = "set_code_id"
          /\ UNCHANGED cret
       \/ /\ RpcFaults
          /\ codes' \in {codes, Append(codes, wasm)}
          /\ Return("Err")
          /\ UNCHANGED newId
    /\ UNCHANGED <<vars, running, wasm, op, calls>>

(* Mutant of SetCode: the new code id is never recorded.                  *)
SetCodeSkipped(p) ==
    /\ cpc = "set_code_id" /\ pc[p] = "idle"
    /\ AfterUpload
    /\ UNCHANGED <<vars, codes, running, wasm, op, newId, cret, calls>>

(* CwOrchUpload::upload records the new code id: set_code_id, a           *)
(* DaemonState::set whose write the ledger's Create and Write carry out.  *)
SetCode(p) ==
    /\ cpc = "set_code_id" /\ pc[p] = "idle"
    /\ file.kind = "doc"
    /\ Set(p, "code_ids", Contract, newId)
    /\ AfterUpload
    /\ UNCHANGED <<codes, running, wasm, op, newId, cret, calls>>

(* is_running_latest, then migrate_if_needed's branch on it: with no code *)
(* id in the ledger the migrate's self.code_id()? fails; self.address()?  *)
(* and contract_info fail for a missing or unknown address or on an RPC   *)
(* fault; the same code id is Ok(None), another one is migrated to.       *)
IsRunningLatest(p) ==
    /\ cpc = "is_running_latest" /\ pc[p] = "idle"
    /\ file.kind = "doc"
    /\ LET n == CodeIdOf(p) IN
       \/ /\ (n = Absent \/ AddressOf(p) # ContractAddr \/ RpcFaults)
          /\ Return("Err") /\ UNCHANGED newId
       \/ /\ n # Absent /\ AddressOf(p) = ContractAddr
          /\ IF running = n THEN Return("Ok") /\ UNCHANGED newId
             ELSE cpc' = "migrate" /\ newId' = n /\ UNCHANGED cret
    /\ UNCHANGED <<vars, codes, running, wasm, op, calls>>

(* DaemonAsync::migrate: commit_tx of MsgMigrateContract to newId, which  *)
(* fails for code the chain does not have; a failed commit_tx may or may  *)
(* not have migrated.                                                      *)
Migrate(p) ==
    /\ cpc = "migrate"
    /\ \/ newId <= Len(codes) /\ running' = newId /\ Return("Ok")
       \/ newId > Len(codes) /\ Return("Err") /\ UNCHANGED running
       \/ /\ RpcFaults /\ newId <= Len(codes)
          /\ running' \in {running, newId} /\ Return("Err")
    /\ UNCHANGED <<vars, codes, wasm, op, newId, calls>>

(* upload_if_needed returns once set_code_id has written the file.        *)
Finish(p) ==
    /\ cpc = "return" /\ pc[p] = "idle"
    /\ Return("Ok")
    /\ UNCHANGED <<vars, codes, running, wasm, op, newId, calls>>

(* The script process dies between two steps of a call.                   *)
ProcessCrash(p) ==
    /\ CrashFaults /\ cpc # "idle" /\ pc[p] = "idle"
    /\ pc' = [pc EXCEPT ![p] = "new"]
    /\ cpc' = "idle" /\ cret' = NoResult
    /\ UNCHANGED <<file, scope, dep, buf, ans, codes, running, wasm, op, newId, calls>>

(* The wasm is rebuilt from changed sources between calls.                *)
Rebuild ==
    /\ cpc = "idle"
    /\ wasm' \in Wasms \ {wasm}
    /\ UNCHANGED <<vars, codes, running, cpc, op, newId, cret, calls>>

(* The script's other uses of its DaemonState, between calls.              *)
LedgerStep(p) ==
    /\ cpc = "idle"
    /\ \/ StateNew(p) \/ Exit(p)
       \/ GetAddress(p) \/ GetCodeId(p) \/ GetAllAddresses(p) \/ GetAllCodeIds(p)
    /\ UNCHANGED cvars

(* A write in progress completes or is cut short by a crash, which also   *)
(* ends a call in progress.                                                *)
WriteStep(p) ==
    \/ (Create(p) \/ Write(p)) /\ UNCHANGED cvars
    \/ /\ Crash(p)
       /\ cpc' = "idle" /\ cret' = IF cpc = "idle" THEN cret ELSE NoResult
       /\ UNCHANGED <<codes, running, wasm, op, newId, calls>>

CNext ==
    \/ Rebuild
    \/ \E p \in Sessions :
         \/ Call(p) \/ LatestIsUploaded(p) \/ Upload(p) \/ SetCode(p)
         \/ IsRunningLatest(p) \/ Migrate(p) \/ Finish(p) \/ ProcessCrash(p)
         \/ LedgerStep(p) \/ WriteStep(p)

CSpec == CInit /\ [][CNext]_allVars

-----------------------------------------------------------------------------
(* upload_and_migrate_if_needed returning Ok leaves the contract running  *)
(* code whose on-chain checksum is the local wasm it was called with: the *)
(* hash check, the recorded code id and the migrate target all agree.    *)
DeployedIsLocal ==
    cret.r = "Ok" /\ cret.op = "upload_and_migrate_if_needed" =>
        running <= Len(codes) /\ codes[running] = cret.wasm

====
