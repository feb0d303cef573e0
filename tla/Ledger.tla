-------------------------------- MODULE Ledger --------------------------------
(***************************************************************************)
(* What the deployment ledger promises (StateInterface of DaemonState,    *)
(* spec 4.7): per scope (network name and chain id) one address map per   *)
(* deployment id and one code-id map, changed only by set_address and     *)
(* set_code_id of a session opened on that scope, and answered by the     *)
(* getters with the stored value or a typed miss.  Every operation is     *)
(* atomic here; the file-backed DeploymentLedger implements it.            *)
(***************************************************************************)
EXTENDS Naturals

CONSTANTS Sessions, Scopes, DeployIds, Contracts, Addrs, CodeIds, Absent

VARIABLES
    addrs,    \* addrs[s][d][c]: address of contract c in deployment d of scope s
    codes,    \* codes[s][c]: code id of contract c on scope s
    session,  \* session[p]: whether p has a DaemonState, on which scope and deployment
    ans       \* ans[p]: the answer of p's last getter

vars == <<addrs, codes, session, ans>>

EmptyMap == [c \in Contracts |-> Absent]

Answer(kind, val, map) == [kind |-> kind, val |-> val, map |-> map]

NoAnswer == Answer("none", Absent, EmptyMap)

Init ==
    /\ addrs = [s \in Scopes |-> [d \in DeployIds |-> EmptyMap]]
    /\ codes = [s \in Scopes |-> EmptyMap]
    /\ session \in [Sessions -> [open: {FALSE}, scope: Scopes, dep: DeployIds]]
    /\ ans = [p \in Sessions |-> NoAnswer]

Open(p) ==
    /\ ~session[p].open
    /\ \E s \in Scopes, d \in DeployIds :
          session' = [session EXCEPT ![p] = [open |-> TRUE, scope |-> s, dep |-> d]]
    /\ UNCHANGED <<addrs, codes, ans>>

Close(p) ==
    /\ session[p].open
    /\ session' = [session EXCEPT ![p].open = FALSE]
    /\ UNCHANGED <<addrs, codes, ans>>

SetAddress(p) ==
    /\ session[p].open
    /\ \E c \in Contracts, a \in Addrs :
          addrs' = [addrs EXCEPT ![session[p].scope][session[p].dep][c] = a]
    /\ UNCHANGED <<codes, session, ans>>

SetCodeId(p) ==
    /\ session[p].open
    /\ \E c \in Contracts, n \in CodeIds :
          codes' = [codes EXCEPT ![session[p].scope][c] = n]
    /\ UNCHANGED <<addrs, session, ans>>

(* A single entry, or the typed miss.                                      *)
Lookup(map, c) ==
    IF map[c] = Absent THEN Answer("NotFound", Absent, EmptyMap)
                       ELSE Answer("Value", map[c], EmptyMap)

Get(p) ==
    /\ session[p].open
    /\ LET s == session[p].scope
           d == session[p].dep
       IN \/ \E c \in Contracts : ans' = [ans EXCEPT ![p] = Lookup(addrs[s][d], c)]
          \/ \E c \in Contracts : ans' = [ans EXCEPT ![p] = Lookup(codes[s], c)]
          \/ ans' = [ans EXCEPT ![p] = Answer("Map", Absent, addrs[s][d])]
          \/ ans' = [ans EXCEPT ![p] = Answer("Map", Absent, codes[s])]
    /\ UNCHANGED <<addrs, codes, session>>

Next ==
    \E p \in Sessions : Open(p) \/ Close(p) \/ SetAddress(p) \/ SetCodeId(p) \/ Get(p)

Spec == Init /\ [][Next]_vars

=============================================================================
