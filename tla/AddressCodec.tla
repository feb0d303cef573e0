----------------------------- MODULE AddressCodec -----------------------------
(***************************************************************************)
(* keys::public::PublicKey of cw-orch-daemon (test.rs 4001-4780): the key  *)
(* material built from a secp256k1 public key, its bech32 encodings under  *)
(* the six role prefixes, and the three constructors that decode a bech32  *)
(* string back into a PublicKey.  Bytes are integers 0..255 and the 8-to-5 *)
(* bit regrouping of the bech32 crate is computed bit by bit.  A bech32    *)
(* string is abstracted to its human-readable part, its data words and    *)
(* whether its checksum is intact; its length is the length of the text    *)
(* hrp ++ "1" ++ data ++ checksum(6).  The two digests are CONSTANT        *)
(* operators: hashing is out of reach and no property depends on it.       *)
(***************************************************************************)
EXTENDS Naturals, Sequences, SequencesExt

CONSTANTS
    PubKeys,        \* compressed secp256k1 public keys (33-byte sequences)
    ChainPrefixes,    \* chain bech32 prefixes, e.g. "terra", "osmo"
    Hash160(_),     \* RIPEMD160(SHA256(k))[0..20]
    Sha256First20(_) \* SHA256(k)[0..20]

VARIABLES
    key,   \* the PublicKey the caller holds
    sent,  \* the last encoding: role, prefix, encoded bytes and result
    got    \* the last decoding: the text decoded, the decoder, its result

vars == <<key, sent, got>>

None == [some |-> FALSE]
Some(v) == [some |-> TRUE, val |-> v]
Ok(v) == [ok |-> TRUE, val |-> v]
Err(e) == [ok |-> FALSE, err |-> e]

SECP256K1 == <<235, 90, 233, 135, 33>>   \* BECH32_PUBKEY_DATA_PREFIX_SECP256K1
ED25519 == <<22, 36, 222, 100, 32>>      \* BECH32_PUBKEY_DATA_PREFIX_ED25519

StartsWith(s, p) == Len(s) >= Len(p) /\ SubSeq(s, 1, Len(p)) = p

(* The w bits of v, most significant first, and back.                    *)
Bits(v, w) == [i \in 1..w |-> (v \div 2^(w - i)) % 2]
BitsValue(b) == FoldLeft(LAMBDA acc, x : 2 * acc + x, 0, b)

Groups(b, w) == [k \in 1..(Len(b) \div w) |-> BitsValue(SubSeq(b, w * k - w + 1, w * k))]

(* ToBase32 for [u8]: the bits of the bytes, zero-padded to a multiple of *)
(* five, in 5-bit words.                                                   *)
ToBase32(bytes) ==
    LET b == FlattenSeq([i \in 1..Len(bytes) |-> Bits(bytes[i], 8)])
        pad == (5 - (Len(b) % 5)) % 5
    IN  Groups(b \o [i \in 1..pad |-> 0], 5)

(* FromBase32 for Vec<u8>: 8-bit groups of the words' bits; more than four *)
(* bits left over, or a non-zero one, is Error::InvalidPadding.           *)
FromBase32(words) ==
    LET b == FlattenSeq([i \in 1..Len(words) |-> Bits(words[i], 5)])
        rest == SubSeq(b, 8 * (Len(b) \div 8) + 1, Len(b))
    IN  IF Len(rest) >= 5 \/ 1 \in Range(rest) THEN Err("Conversion")
        ELSE Ok(Groups(b, 8))

StrLen(s) == Len(s.hrp) + 1 + Len(s.data) + 6

(* bech32::encode: an hrp of 1 to 83 characters.                          *)
Bech32Encode(hrp, words) ==
    IF Len(hrp) \in 1..83 THEN Ok([hrp |-> hrp, data |-> words, valid |-> TRUE])
    ELSE Err("Bech32DecodeErr")

(* pubkey_from_public_key: the amino type prefix and the key.             *)
PubkeyFromPublicKey(pk) == SECP256K1 \o pk

FromPublicKey(pk) ==
    [raw_pub_key |-> Some(PubkeyFromPublicKey(pk)), raw_address |-> Some(Hash160(pk))]

(* The six encoders, account ... tendermint_pubkey: the field encoded and *)
(* the suffix appended to the prefix; a missing field is Implementation.  *)
Roles == {"account", "valoper", "pub", "valoperpub", "valcons", "valconspub"}
Field(role) ==
    IF role \in {"account", "valoper", "valcons"} THEN "raw_address" ELSE "raw_pub_key"
Suffix == [account |-> "", valoper |-> "valoper", pub |-> "pub",
           valoperpub |-> "valoperpub", valcons |-> "valcons", valconspub |-> "valconspub"]

Encoded(k, role, prefix) ==
    IF k[Field(role)].some
    THEN Bech32Encode(prefix \o Suffix[role], ToBase32(k[Field(role)].val))
    ELSE Err("Implementation")

(* check_prefix_and_length: bech32::decode (a bad checksum is Conversion), *)
(* then the hrp and the text length, or Bech32DecodeExpanded.             *)
CheckPrefixAndLength(prefix, s, length) ==
    IF ~s.valid THEN Err("Conversion")
    ELSE IF s.hrp = prefix /\ StrLen(s) = length THEN Ok(s.data)
    ELSE Err("Bech32DecodeExpanded")

(* The checked words as bytes: Vec::from_base32 in the and_then.         *)
Words(r) == IF r.ok THEN FromBase32(r.val) ELSE r

AddressOnly(b) == Ok([raw_pub_key |-> None, raw_address |-> Some(b)])

FromAccount(s, prefix) ==
    LET b == Words(CheckPrefixAndLength(prefix, s, 44)) IN
    IF b.ok THEN AddressOnly(b.val) ELSE b

FromOperatorAddress(s) ==
    LET b == Words(CheckPrefixAndLength("terravaloper", s, 51)) IN
    IF b.ok THEN AddressOnly(b.val) ELSE b

(* public_key_from_pubkey's secp256k1 branch strips the type prefix.      *)
Secp256k1Key(vu8) ==
    IF StartsWith(vu8, SECP256K1)
    THEN Ok([raw_pub_key |-> Some(vu8),
             raw_address |-> Some(Hash160(SubSeq(vu8, 6, Len(vu8))))])
    ELSE Err("ConversionSECP256k1")

(* address_from_public_ed25519_key wants the prefix and 32 key bytes.     *)
Ed25519Key(vu8) ==
    IF ~StartsWith(vu8, ED25519) THEN Err("ConversionED25519")
    ELSE IF Len(vu8) # 37 THEN Err("ConversionPrefixED25519")
    ELSE Ok([raw_pub_key |-> Some(vu8),
             raw_address |-> Some(Sha256First20(SubSeq(vu8, 6, 37)))])

(* from_tendermint_key: the text length picks the curve.                  *)
FromTendermintKey(s) ==
    LET b == Words(CheckPrefixAndLength("terravalconspub", s, StrLen(s))) IN
    CASE StrLen(s) \notin {82, 83} -> Err("ConversionLength")
      [] ~b.ok -> b
      [] StrLen(s) = 83 -> Secp256k1Key(b.val)
      [] OTHER -> Ed25519Key(b.val)

NoEncoding == [role |-> "none"]

Init ==
    /\ key \in {FromPublicKey(pk) : pk \in PubKeys}
    /\ sent = NoEncoding
    /\ got = [decoder |-> "none"]

(* PublicKey::from_public_key.                                             *)
MakeKey ==
    /\ \E pk \in PubKeys : key' = FromPublicKey(pk)
    /\ UNCHANGED <<sent, got>>

(* One of the six encoders on the key held.                                *)
Encode ==
    \E role \in Roles, prefix \in ChainPrefixes :
        /\ sent' = [role |-> role, prefix |-> prefix,
                    bytes |-> IF key[Field(role)].some THEN key[Field(role)].val ELSE <<>>,
                    res |-> Encoded(key, role, prefix)]
        /\ UNCHANGED <<key, got>>

(* The encoded text is mistyped on its way to a decoder: the checksum no  *)
(* longer matches.                                                         *)
Garble ==
    /\ sent # NoEncoding /\ sent.res.ok /\ sent.res.val.valid
    /\ sent' = [sent EXCEPT !.res.val.valid = FALSE]
    /\ UNCHANGED <<key, got>>

(* One of the three constructors on the last encoded text; a successful   *)
(* one gives the caller a new PublicKey.                                   *)
Decode ==
    /\ sent # NoEncoding /\ sent.res.ok
    /\ \E d \in {[decoder |-> "from_account", prefix |-> p,
                  res |-> FromAccount(sent.res.val, p)] : p \in ChainPrefixes}
                \cup {[decoder |-> "from_operator_address", prefix |-> sent.prefix,
                       res |-> FromOperatorAddress(sent.res.val)],
                      [decoder |-> "from_tendermint_key", prefix |-> sent.prefix,
                       res |-> FromTendermintKey(sent.res.val)]} :
          /\ got' = d @@ [text |-> sent]
          /\ key' = IF d.res.ok THEN d.res.val ELSE key
    /\ UNCHANGED sent

Next == MakeKey \/ Encode \/ Garble \/ Decode

Spec == Init /\ [][Next]_vars

-----------------------------------------------------------------------------
(* The decoder of each role that has one.                                  *)
DecoderOf == [account |-> "from_account", valoper |-> "from_operator_address",
              valconspub |-> "from_tendermint_key"]

(* Spec 4.2 and 8, round trip: decoding an intact bech32 text with the    *)
(* decoder of its role and the prefix it was encoded with recovers the    *)
(* bytes encoded (the address for account and valoper, the amino-prefixed *)
(* public key for valconspub).  from_account, from_operator_address and   *)
(* from_tendermint_key check the text against fixed lengths and prefixes. *)
RoundTrip ==
    LET t == got.text IN
    (/\ got.decoder # "none" /\ t.res.val.valid
     /\ t.role \in DOMAIN DecoderOf /\ got.decoder = DecoderOf[t.role]
     /\ got.prefix = t.prefix)
    => /\ got.res.ok
       /\ got.res.val[Field(t.role)] = Some(t.bytes)

=============================================================================
