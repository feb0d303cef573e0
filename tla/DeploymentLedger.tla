--------------------------- MODULE DeploymentLedger ---------------------------
(***************************************************************************)
(* DaemonState (state.rs) over the JSON file of json_file (json_file.rs),  *)
(* test.rs 1487-1538 and 2161-2305.  The document is                      *)
(*   {chain_name: {chain_id: {deployment_id: {contract: addr},            *)
(*                            "code_ids": {contract: code_id}}}}          *)
(* with the two outer levels folded into one scope.  A JSON object is a   *)
(* total function whose missing members are Absent.  The file holds a     *)
(* document, nothing (just truncated) or a cut-off document.  Each write  *)
(* is File::create (truncate) followed by to_writer_pretty, two steps a   *)
(* crash or another process may fall between.  A session is one           *)
(* DaemonState: DaemonState::new, then getters and setters, then the      *)
(* process ends; a panic or a crash ends it too.                          *)
(***************************************************************************)
EXTENDS Naturals

CONSTANTS
    Sessions,     \* processes using the same state file
    Scopes,       \* (chain name, chain id) pairs
    DeployIds,    \* deployment ids a DaemonState may be given
    Contracts,    \* contract ids
    Addrs,        \* contract addresses (strings in the file)
    CodeIds,      \* code ids (numbers in the file)
    Absent,       \* a missing object member (Value::Null when indexed)
    CrashFaults,  \* whether a process may die during a write
    InitFiles     \* what state.json holds when the first process starts

Keys == DeployIds \cup {"code_ids"}

Values == Addrs \cup CodeIds

EmptyMap == [c \in Contracts |-> Absent]

ScopeDoc == [Keys -> {Absent} \cup [Contracts -> {Absent} \cup Values]]

Docs == [Scopes -> {Absent} \cup ScopeDoc]

EmptyDoc == [s \in Scopes |-> Absent]

Answer(kind, val, map) == [kind |-> kind, val |-> val, map |-> map]

NoAnswer == Answer("none", Absent, EmptyMap)

Panic == Answer("Panic", Absent, EmptyMap)

VARIABLES
    file,    \* state.json: [kind |-> "doc", doc] or kind "empty" or "partial"
    pc,      \* pc[p]: "new" (no DaemonState), "idle", "create", "write"
    scope,   \* scope[p]: the chain of p's DaemonState
    dep,     \* dep[p]: its deployment_id
    buf,     \* buf[p]: the document p is writing
    ans      \* ans[p]: the answer of p's last getter

vars == <<file, pc, scope, dep, buf, ans>>

Files == [kind: {"doc"}, doc: Docs] \cup [kind: {"empty", "partial"}]

Answers ==
    [kind: {"none", "NotFound", "Value", "Map", "Panic"},
     val: {Absent} \cup Values, map: [Contracts -> {Absent} \cup Values]]

(* Value indexing: a member of a missing object is missing too.           *)
Member(doc, s, k) == IF doc[s] = Absent THEN Absent ELSE doc[s][k]

(* json[s][k][c] = v through IndexMut, which creates missing objects.     *)
Put(doc, s, k, c, v) ==
    LET sd == IF doc[s] = Absent THEN [kk \in Keys |-> Absent] ELSE doc[s]
        m  == IF sd[k] = Absent THEN EmptyMap ELSE sd[k]
    IN  [doc EXCEPT ![s] = [sd EXCEPT ![k] = [m EXCEPT ![c] = v]]]

(* The scope json_file::write creates for an unseen chain id.             *)
NewScope(d) == [k \in Keys |-> IF k \in {d, "code_ids"} THEN EmptyMap ELSE Absent]

(* A process dies with a panic: its DaemonState is gone.                  *)
Die(p) ==
    /\ pc' = [pc EXCEPT ![p] = "new"]
    /\ ans' = [ans EXCEPT ![p] = Panic]
    /\ UNCHANGED <<file, scope, dep, buf>>

(* Starts writing a document: File::create comes next.                    *)
StartWrite(p, doc) ==
    /\ buf' = [buf EXCEPT ![p] = doc]
    /\ pc' = [pc EXCEPT ![p] = "create"]

Init ==
    /\ file \in InitFiles
    /\ pc = [p \in Sessions |-> "new"]
    /\ scope \in [Sessions -> Scopes]
    /\ dep \in [Sessions -> DeployIds]
    /\ buf = [p \in Sessions |-> EmptyDoc]
    /\ ans = [p \in Sessions |-> NoAnswer]

(* Mutant of StateNew: the scope is (re)initialised even when the chain   *)
(* id is already in the file.                                              *)
StateNewResetScope(p) ==
    /\ pc[p] = "new"
    /\ \E s \in Scopes, d \in DeployIds :
         /\ scope' = [scope EXCEPT ![p] = s]
         /\ dep' = [dep EXCEPT ![p] = d]
         /\ \/ file.kind = "partial" /\ Die(p)
            \/ /\ file.kind # "partial"
               /\ LET base == IF file.kind = "empty" THEN EmptyDoc ELSE file.doc
                  IN StartWrite(p, [base EXCEPT ![s] = NewScope(d)])
               /\ UNCHANGED <<file, ans>>

(* DaemonState::new and json_file::write up to File::create: open (create *)
(* if missing), an empty file is {}, otherwise from_reader(..).unwrap();  *)
(* add the scope with the deployment map and "code_ids" if the chain id   *)
(* is missing.                                                             *)
StateNew(p) ==
    /\ pc[p] = "new"
    /\ \E s \in Scopes, d \in DeployIds :
         /\ scope' = [scope EXCEPT ![p] = s]
         /\ dep' = [dep EXCEPT ![p] = d]
         /\ \/ file.kind = "partial" /\ Die(p)
            \/ /\ file.kind # "partial"
               /\ LET base == IF file.kind = "empty" THEN EmptyDoc ELSE file.doc
                  IN StartWrite(p, IF base[s] = Absent THEN [base EXCEPT ![s] = NewScope(d)]
                                                       ELSE base)
               /\ UNCHANGED <<file, ans>>

(* File::create: the file is truncated.                                    *)
Create(p) ==
    /\ pc[p] = "create"
    /\ file' = [kind |-> "empty"]
    /\ pc' = [pc EXCEPT ![p] = "write"]
    /\ UNCHANGED <<scope, dep, buf, ans>>

(* to_writer_pretty(..).unwrap(): the whole document is written.          *)
Write(p) ==
    /\ pc[p] = "write"
    /\ file' = [kind |-> "doc", doc |-> buf[p]]
    /\ pc' = [pc EXCEPT ![p] = "idle"]
    /\ UNCHANGED <<scope, dep, buf, ans>>

(* DaemonState::set(key, contract, value): read_state (panics unless the  *)
(* file holds a document), assign through IndexMut, then write back.      *)
Set(p, key, c, v) ==
    /\ pc[p] = "idle"
    /\ \/ file.kind # "doc" /\ Die(p)
       \/ /\ file.kind = "doc"
          /\ StartWrite(p, Put(file.doc, scope[p], key, c, v))
          /\ UNCHANGED <<file, scope, dep, ans>>

SetAddress(p) == \E c \in Contracts, a \in Addrs : Set(p, dep[p], c, a)

(* Mutant of SetCodeId: the code id goes under the deployment key.         *)
SetCodeIdUnderDeployment(p) == \E c \in Contracts, n \in CodeIds : Set(p, dep[p], c, n)

SetCodeId(p) == \E c \in Contracts, n \in CodeIds : Set(p, "code_ids", c, n)

(* A getter: read_state (panics unless the file holds a document), then   *)
(* the answer `r`, computed from the document.                             *)
Getter(p, r) ==
    /\ pc[p] = "idle"
    /\ \/ file.kind # "doc" /\ Die(p)
       \/ /\ file.kind = "doc"
          /\ IF r = Panic THEN Die(p)
                        ELSE /\ ans' = [ans EXCEPT ![p] = r]
                             /\ UNCHANGED <<file, pc, scope, dep, buf>>

(* get_address: .get(contract).ok_or(AddrNotInStore)?, then               *)
(* as_str().unwrap().                                                      *)
GetAddress(p) ==
    \E c \in Contracts :
      Getter(p, LET m == Member(file.doc, scope[p], dep[p]) IN
                CASE m = Absent \/ m[c] = Absent -> Answer("NotFound", Absent, EmptyMap)
                  [] m[c] \in Addrs              -> Answer("Value", m[c], EmptyMap)
                  [] OTHER                       -> Panic)

(* get_code_id: the same on "code_ids", then as_u64().unwrap().           *)
GetCodeId(p) ==
    \E c \in Contracts :
      Getter(p, LET m == Member(file.doc, scope[p], "code_ids") IN
                CASE m = Absent \/ m[c] = Absent -> Answer("NotFound", Absent, EmptyMap)
                  [] m[c] \in CodeIds            -> Answer("Value", m[c], EmptyMap)
                  [] OTHER                       -> Panic)

(* get_all_addresses / get_all_code_ids: as_object().unwrap() of the map, *)
(* then as_str() / as_u64() .unwrap() of every member.                    *)
AllOf(m, Typed) ==
    IF m = Absent \/ \E c \in Contracts : m[c] \notin {Absent} \cup Typed
    THEN Panic
    ELSE Answer("Map", Absent, m)

GetAllAddresses(p) == Getter(p, AllOf(Member(file.doc, scope[p], dep[p]), Addrs))

GetAllCodeIds(p) == Getter(p, AllOf(Member(file.doc, scope[p], "code_ids"), CodeIds))

(* The program using the DaemonState ends.                                *)
Exit(p) ==
    /\ pc[p] = "idle"
    /\ pc' = [pc EXCEPT ![p] = "new"]
    /\ UNCHANGED <<file, scope, dep, buf, ans>>

(* The process dies inside a write: before File::create the file is       *)
(* intact; after it the file is empty or holds part of the document.      *)
Crash(p) ==
    /\ CrashFaults
    /\ pc[p] \in {"create", "write"}
    /\ \/ pc[p] = "create" /\ UNCHANGED file
       \/ pc[p] = "write" /\ file' \in {[kind |-> "empty"], [kind |-> "partial"]}
    /\ pc' = [pc EXCEPT ![p] = "new"]
    /\ UNCHANGED <<scope, dep, buf, ans>>

(* One step of a session's program.                                       *)
SessionStep(p) ==
    \/ StateNew(p) \/ Create(p) \/ Write(p)
    \/ SetAddress(p) \/ SetCodeId(p)
    \/ GetAddress(p) \/ GetCodeId(p) \/ GetAllAddresses(p) \/ GetAllCodeIds(p)
    \/ Exit(p)

Next == \E p \in Sessions : SessionStep(p) \/ Crash(p)

Spec == Init /\ [][Next]_vars

(* The sessions without crashes, as the refinement is stated for.          *)
FaultFreeSpec == Init /\ [][\E p \in Sessions : SessionStep(p)]_vars

-----------------------------------------------------------------------------
(* A member of a nested object, Absent along a missing path.               *)
Entry(doc, s, k, c) ==
    LET m == Member(doc, s, k) IN IF m = Absent THEN Absent ELSE m[c]

(* Addresses are strings and code ids numbers in every saved document.    *)
WellTyped(doc) ==
    \A s \in Scopes, k \in Keys, c \in Contracts :
        Entry(doc, s, k, c) \in {Absent} \cup (IF k = "code_ids" THEN CodeIds ELSE Addrs)

TypeOK ==
    /\ file \in Files
    /\ file.kind = "doc" => WellTyped(file.doc)
    /\ pc \in [Sessions -> {"new", "idle", "create", "write"}]
    /\ scope \in [Sessions -> Scopes]
    /\ dep \in [Sessions -> DeployIds]
    /\ buf \in [Sessions -> Docs]
    /\ ans \in [Sessions -> Answers]

(* The ledger as the program sees it: the file, or once File::create has  *)
(* truncated it, the document being written (a set takes effect there).  *)
View ==
    IF file.kind = "doc" THEN file.doc
    ELSE IF \E p \in Sessions : pc[p] = "write"
         THEN buf[CHOOSE p \in Sessions : pc[p] = "write"]
         ELSE EmptyDoc

AbstractLedger == INSTANCE Ledger WITH
    addrs <- [s \in Scopes |-> [d \in DeployIds |-> [c \in Contracts |-> Entry(View, s, d, c)]]],
    codes <- [s \in Scopes |-> [c \in Contracts |-> Entry(View, s, "code_ids", c)]],
    session <- [p \in Sessions |-> [open |-> pc[p] # "new", scope |-> scope[p], dep |-> dep[p]]],
    ans <- ans

(* DaemonState implements the ledger of spec 4.7 for one process at a     *)
(* time: set_address/set_code_id change exactly one entry of the session's *)
(* own scope and map, the getters return the stored value, a typed miss   *)
(* or the whole map, and DaemonState::new never changes stored entries.   *)
LedgerRefinement == AbstractLedger!Spec

=============================================================================
