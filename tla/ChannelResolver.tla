--------------------------- MODULE ChannelResolver ---------------------------
(***************************************************************************)
(* GrpcChannel::connect (cw-orch-daemon channel.rs, test.rs 121-257): one  *)
(* call over the configured list of gRPC endpoints. Every endpoint is a    *)
(* profile that fixes how the node behind it answers: whether its address *)
(* parses as a URI, whether a plain connection succeeds, whether the       *)
(* address looks like TLS ("https" or "443"), whether tls_config accepts  *)
(* it, whether the TLS connection succeeds, whether get_node_info answers *)
(* and which network id it reports.  ServiceClient::connect and the       *)
(* closing endpoint.connect() are both Endpoint::connect on the same plain *)
(* endpoint, so they share the profile's `plain` outcome.                  *)
(***************************************************************************)
EXTENDS Naturals, Sequences

CONSTANTS
    EndpointCount,  \* length of the ChainInfo grpc list
    Networks,       \* network ids a node may report
    EpochIds,       \* the ids for which ChainId::is_epoch_format holds
    ChainId,        \* the configured chain id
    Profiles        \* the endpoint behaviours considered

Profile == [uri: BOOLEAN, plain: BOOLEAN, https: BOOLEAN, tlsCfg: BOOLEAN,
            tls: BOOLEAN, info: BOOLEAN, network: Networks]

ASSUME /\ EndpointCount \in Nat \ {0}
       /\ EpochIds \subseteq Networks
       /\ ChainId \in Networks
       /\ Profiles \subseteq Profile

Endpoints == 1..EndpointCount

Errors == {"CannotConnectGRPC", "Transport", "Panic"}

VARIABLES
    grpc,        \* the endpoint list: grpc[j] is the profile of endpoint j
    i,           \* the endpoint the for loop is at
    pc,          \* the await the call is suspended at
    successful,  \* successful_connections: endpoints pushed, in order
    ret          \* what connect returned; kind "running" while it runs

vars == <<grpc, i, pc, successful, ret>>

TypeOK ==
    /\ grpc \in [Endpoints -> Profiles]
    /\ i \in 1..EndpointCount + 1
    /\ pc \in {"plain", "tls", "info", "final", "done"}
    /\ successful \in Seq(Endpoints)
    /\ ret \in [kind: {"Ok"}, ep: Endpoints] \cup [kind: {"running"} \cup Errors]

(* The network check: only a reported id in epoch format is compared.     *)
Rejected(network) == network \in EpochIds /\ network # ChainId

(* Mutant of Skip: an off-by-one that steps past the next endpoint.       *)
SkipPastEnd ==
    /\ i' = i + 2
    /\ pc' = "plain"
    /\ UNCHANGED <<grpc, successful, ret>>

(* `continue`: go on with the next endpoint of the list.                   *)
Skip ==
    /\ i' = i + 1
    /\ pc' = "plain"
    /\ UNCHANGED <<grpc, successful, ret>>

(* `?` on an error, or a panic: the whole call returns at once.            *)
Abort(kind) ==
    /\ ret' = [kind |-> kind]
    /\ pc' = "done"
    /\ UNCHANGED <<grpc, i, successful>>

GoTo(label) ==
    /\ pc' = label
    /\ UNCHANGED <<grpc, i, successful, ret>>

Init ==
    /\ grpc \in [Endpoints -> Profiles]
    /\ i = 1
    /\ pc = "plain"
    /\ successful = <<>>
    /\ ret = [kind |-> "running"]

(* Channel::builder(address.try_into().unwrap()), then the plain           *)
(* ServiceClient::connect; on failure the TLS test on the address and      *)
(* tls_config(..)?.                                                        *)
ConnectPlain ==
    /\ pc = "plain"
    /\ i \in Endpoints
    /\ LET p == grpc[i] IN
         \/ ~p.uri /\ Abort("Panic")
         \/ p.uri /\ p.plain /\ GoTo("info")
         \/ p.uri /\ ~p.plain /\ ~p.https /\ Skip
         \/ p.uri /\ ~p.plain /\ p.https /\ ~p.tlsCfg /\ Abort("Transport")
         \/ p.uri /\ ~p.plain /\ p.https /\ p.tlsCfg /\ GoTo("tls")

(* ServiceClient::connect of the TLS endpoint.                             *)
ConnectTls ==
    /\ pc = "tls"
    /\ \/ grpc[i].tls /\ GoTo("info")
       \/ ~grpc[i].tls /\ Skip

(* get_node_info(..).await? and the network check.                          *)
GetNodeInfo ==
    /\ pc = "info"
    /\ LET p == grpc[i] IN
         \/ ~p.info /\ Abort("Transport")
         \/ p.info /\ Rejected(p.network) /\ Skip
         \/ p.info /\ ~Rejected(p.network) /\ GoTo("final")

(* successful_connections.push(endpoint.connect().await?): `endpoint` is   *)
(* the plain one here, the TLS one being local to the else block.          *)
FinalConnect ==
    /\ pc = "final"
    /\ \/ /\ grpc[i].plain
          /\ successful' = Append(successful, i)
          /\ i' = i + 1
          /\ pc' = "plain"
          /\ UNCHANGED <<grpc, ret>>
       \/ ~grpc[i].plain /\ Abort("Transport")

(* Mutant of Return: the first connection pushed is returned.            *)
ReturnFirst ==
    /\ pc = "plain"
    /\ i = EndpointCount + 1
    /\ pc' = "done"
    /\ ret' = IF successful = <<>>
                THEN [kind |-> "CannotConnectGRPC"]
                ELSE [kind |-> "Ok", ep |-> successful[1]]
    /\ UNCHANGED <<grpc, i, successful>>

(* After the loop: CannotConnectGRPC, or the last connection pushed.       *)
Return ==
    /\ pc = "plain"
    /\ i = EndpointCount + 1
    /\ pc' = "done"
    /\ ret' = IF successful = <<>>
                THEN [kind |-> "CannotConnectGRPC"]
                ELSE [kind |-> "Ok", ep |-> successful[Len(successful)]]
    /\ UNCHANGED <<grpc, i, successful>>

(* connect has returned; the system stops.                                 *)
Terminated == pc = "done" /\ UNCHANGED vars

Next ==
    \/ ConnectPlain
    \/ ConnectTls
    \/ GetNodeInfo
    \/ FinalConnect
    \/ Return
    \/ Terminated

(* The runtime drives the future; every await completes.                   *)
Spec == Init /\ [][Next]_vars

-----------------------------------------------------------------------------
(* An endpoint a caller would call usable: its address parses, it answers *)
(* plain or (for a TLS-looking address) over TLS, it serves node info and *)
(* it is not rejected by the network check.                                *)
Usable(p) ==
    /\ p.uri
    /\ p.plain \/ (p.https /\ p.tlsCfg /\ p.tls)
    /\ p.info
    /\ ~Rejected(p.network)

(* The last reachable endpoint wins (spec 4.3, kept on purpose): when      *)
(* connect returns a channel, no endpoint after it in the list was usable; *)
(* a later usable one either would have been returned or would have made  *)
(* the call fail.  Breaks if the loop stops at, or returns, the first       *)
(* success.                                                                *)
LastSuccessWins ==
    ret.kind = "Ok" =>
        \A j \in ret.ep + 1 .. EndpointCount : ~Usable(grpc[j])

(* Connectivity errors are reported only after exhausting the candidate   *)
(* list (spec 7, 4.3): if some endpoint is usable, connect returns a      *)
(* channel.  The code returns at the first `?` (get_node_info, tls_config,*)
(* the closing endpoint.connect()).                                        *)
ResolvesWhenReachable ==
    pc = "done" /\ (\E j \in Endpoints : Usable(grpc[j])) => ret.kind = "Ok"

=============================================================================
