-------------------------- MODULE MCChannelResolver --------------------------
(* Instantiates ChannelResolver for TLC.  The configured chain id is an   *)
(* epoch-format id; nodes may report it, another epoch-format id, or an   *)
(* id without the epoch suffix (a local or renamed network).             *)
EXTENDS ChannelResolver

CONSTANTS juno1, osmosis1, localnet

MCNetworks == {juno1, osmosis1, localnet}

MCEpochIds == {juno1, osmosis1}

(* Every profile.                                                          *)
MCProfiles == Profile

(* Nodes whose address parses, whose TLS configuration is accepted and    *)
(* that serve node info: only reachability and the reported id vary.      *)
ReliableProfiles ==
    {p \in Profile : p.uri /\ p.tlsCfg /\ p.info}
=============================================================================
