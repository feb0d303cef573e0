---------------------------- MODULE MCAddressCodec ----------------------------
EXTENDS AddressCodec

(* Two compressed public keys (parity byte 2 or 3, then 32 bytes).        *)
MCPubKeys ==
    {[i \in 1..33 |-> IF i = 1 THEN 2 ELSE (i * 37) % 256],
     [i \in 1..33 |-> IF i = 1 THEN 3 ELSE (i * 101 + 7) % 256]}

(* Terra, whose prefixes the decoders hard-code, and a 4-letter chain.    *)
MCPrefixes == {"terra", "osmo"}

(* Stand-ins for the digests: 20 bytes that depend on the key.            *)
MCHash160(k) == [i \in 1..20 |-> (k[i + 1] + k[i + 13] + 1) % 256]
MCSha256First20(k) == [i \in 1..20 |-> (k[i] * 3) % 256]
=============================================================================
