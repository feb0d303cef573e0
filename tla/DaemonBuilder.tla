------------------------------ MODULE DaemonBuilder ------------------------------
(***************************************************************************)
(* cw-orch-daemon's DaemonBuilder (sync/builder.rs): the setters, build    *)
(* with overwrite_fee and overwrite_grpc_url, and what build hands on to   *)
(* (DaemonAsyncBuilder::build, DaemonState::new, the sender, test.rs       *)
(* 77-97 and 2125-2200); then the queries of the built Daemon (traits.rs,  *)
(* queriers/env.rs).  Chain data are records: a chain id, fee tokens       *)
(* (denomination and four gas prices) and gRPC addresses.  The gRPC       *)
(* connection itself (ChannelResolver) is reduced to success or           *)
(* CannotConnectGRPC.                                                      *)
(***************************************************************************)
EXTENDS Naturals, Sequences

CONSTANTS
    Chains,        \* ChainData values the builder may be given
    Denoms,        \* gas denominations passed to gas()
    GasPrices,     \* gas prices passed to gas()
    Urls,          \* addresses passed to grpc_url()
    DeploymentIds, \* ids passed to deployment_id()
    Mnemonics,     \* mnemonics passed to mnemonic(), valid or not
    ValidWords,    \* the mnemonics PrivateKey::from_words accepts
    Wallets,       \* wallets passed to sender()
    Granters,      \* authz and fee granters
    HdIndexes,     \* hd indexes
    DenomLen,      \* the length of each denomination
    EnvMnemonic,   \* whether the chain kind's mnemonic variable is set
    Contracts,     \* contracts on chain: [addr: BOOLEAN, admin: Granters \cup {""}]
    CodeIds,       \* code ids on chain
    None

VARIABLES
    chain, handle, deploymentId, grpcUrl, gasDenom, gasFee, sender, senderOptions,
    result,        \* the outcome of the last build
    daemon,        \* the last Daemon built, or None
    answer         \* what the query just made returned, or kind "none"

builderVars == <<chain, handle, deploymentId, grpcUrl, gasDenom, gasFee, sender, senderOptions>>

vars == <<builderVars, result, daemon, answer>>

DEFAULT_DEPLOYMENT == "default"

FeeToken(d, p) ==
    [denom |-> d, fixed_min_gas_price |-> p, low_gas_price |-> p,
     average_gas_price |-> p, high_gas_price |-> p]

Init ==
    /\ chain = None /\ handle = FALSE /\ deploymentId = None /\ grpcUrl = None
    /\ gasDenom = None /\ gasFee = None /\ sender = None
    /\ senderOptions = [authz_granter |-> None, fee_granter |-> None, hd_index |-> None]
    /\ result = "none" /\ daemon = None /\ answer = [kind |-> "none"]

(* Each setter writes its field and returns &mut Self.                    *)
Keep(fields) == UNCHANGED <<fields, result, daemon>> /\ answer' = [kind |-> "none"]

ChainSetter ==
    /\ \E c \in Chains : chain' = c
    /\ Keep(<<handle, deploymentId, grpcUrl, gasDenom, gasFee, sender, senderOptions>>)

DeploymentIdSetter ==
    /\ \E d \in DeploymentIds : deploymentId' = d
    /\ Keep(<<chain, handle, grpcUrl, gasDenom, gasFee, sender, senderOptions>>)

HandleSetter ==
    /\ handle' = TRUE
    /\ Keep(<<chain, deploymentId, grpcUrl, gasDenom, gasFee, sender, senderOptions>>)

(* mnemonic() and sender() both replace self.sender.                       *)
MnemonicSetter ==
    /\ \E m \in Mnemonics : sender' = [mnemonic |-> m]
    /\ Keep(<<chain, handle, deploymentId, grpcUrl, gasDenom, gasFee, senderOptions>>)

SenderSetter ==
    /\ \E w \in Wallets : sender' = [wallet |-> w]
    /\ Keep(<<chain, handle, deploymentId, grpcUrl, gasDenom, gasFee, senderOptions>>)

(* authz_granter, fee_granter and hd_index write the sender options.      *)
OptionSetter ==
    /\ \/ \E g \in Granters : senderOptions' = [senderOptions EXCEPT !.authz_granter = g]
       \/ \E g \in Granters : senderOptions' = [senderOptions EXCEPT !.fee_granter = g]
       \/ \E i \in HdIndexes : senderOptions' = [senderOptions EXCEPT !.hd_index = i]
    /\ Keep(<<chain, handle, deploymentId, grpcUrl, gasDenom, gasFee, sender>>)

GrpcUrlSetter ==
    /\ \E u \in Urls : grpcUrl' = u
    /\ Keep(<<chain, handle, deploymentId, gasDenom, gasFee, sender, senderOptions>>)

(* gas(denom, fee) sets both fields, a None included.                      *)
GasSetter ==
    /\ \E d \in Denoms \cup {None}, p \in GasPrices \cup {None} :
          gasDenom' = d /\ gasFee' = p
    /\ Keep(<<chain, handle, deploymentId, grpcUrl, sender, senderOptions>>)

-----------------------------------------------------------------------------
(* Mutant of OverwriteFee: the new token is put before the others        *)
(* instead of replacing them.                                              *)
OverwriteFeeKeepsOthers(c, denom, amount) ==
    LET selected == IF c.fees = <<>> THEN {} ELSE {Head(c.fees)}
        feeDenom == IF denom # None THEN {denom} ELSE {t.denom : t \in selected}
        fee == IF amount # None THEN {FeeToken(d, amount) : d \in feeDenom} ELSE selected
    IN  IF feeDenom = {} \/ fee = {} THEN None
        ELSE [c EXCEPT !.fees = <<[CHOOSE f \in fee : TRUE EXCEPT !.denom = CHOOSE d \in feeDenom : TRUE]>>
                                \o SubSeq(c.fees, 2, Len(c.fees))]

(* overwrite_fee: the first fee token; the denomination given or its      *)
(* (unwrap: a panic when neither exists); a token of the given price in   *)
(* all four prices, or the first one (unwrap again), renamed to that      *)
(* denomination; the list replaced by it.  None stands for the panic.     *)
OverwriteFee(c, denom, amount) ==
    LET selected == IF c.fees = <<>> THEN {} ELSE {Head(c.fees)}
        feeDenom == IF denom # None THEN {denom} ELSE {t.denom : t \in selected}
        fee == IF amount # None THEN {FeeToken(d, amount) : d \in feeDenom} ELSE selected
    IN  IF feeDenom = {} \/ fee = {} THEN None
        ELSE [c EXCEPT !.fees = <<[CHOOSE f \in fee : TRUE EXCEPT !.denom = CHOOSE d \in feeDenom : TRUE]>>]

(* overwrite_grpc_url: the list replaced by the one address given.         *)
OverwriteGrpcUrl(c, url) == IF url = None THEN c ELSE [c EXCEPT !.grpc = <<url>>]

(* DaemonState::new keeps the fee token with the shortest denomination,   *)
(* the first of equals (the fold from fee_tokens[0]).                      *)
ShortestDenomToken(fees) ==
    LET best == {k \in DOMAIN fees : \A j \in DOMAIN fees :
                    DenomLen[fees[k].denom] < DenomLen[fees[j].denom]
                    \/ (DenomLen[fees[k].denom] = DenomLen[fees[j].denom] /\ k <= j)}
    IN  fees[CHOOSE k \in best : TRUE]
(* Mutant of DeploymentOf: the id is passed on without its default.      *)
DeploymentOfNoDefault(d) == d

(* DaemonAsyncBuilder::build: deployment_id.unwrap_or(DEFAULT_DEPLOYMENT). *)
DeploymentOf(d) == IF d = None THEN DEFAULT_DEPLOYMENT ELSE d

(* The sender DaemonAsyncBuilder::build creates: from the mnemonic given  *)
(* (PrivateKey::from_words fails on a bad one), the wallet given, or     *)
(* Sender::new, which panics when the mnemonic variable is unset.          *)
Signer ==
    CASE sender = None /\ EnvMnemonic -> [ok |-> TRUE, wallet |-> "env"]
      [] sender = None -> [ok |-> FALSE, error |-> "Panic"]
      [] "wallet" \in DOMAIN sender -> [ok |-> TRUE, wallet |-> sender.wallet]
      [] sender.mnemonic \in ValidWords -> [ok |-> TRUE, wallet |-> sender.mnemonic]
      [] OTHER -> [ok |-> FALSE, error |-> "Bip32"]

Alive == result # "Panic"

Fail(e) == result' = e /\ answer' = [kind |-> "none"] /\ UNCHANGED <<builderVars, daemon>>

(* build: the chain or BuilderMissing; overwrite_fee; overwrite_grpc_url; *)
(* then DaemonAsyncBuilder::build: DaemonState::new (GRPCListIsEmpty, the  *)
(* connection, the shortest-denomination token) and the sender.  A failed *)
(* build leaves the Daemon built before.                                   *)
Build ==
    /\ Alive
    /\ CASE chain = None -> Fail("BuilderMissing")
          [] OverwriteFee(chain, gasDenom, gasFee) = None -> Fail("Panic")
          [] OTHER ->
               LET data == OverwriteGrpcUrl(OverwriteFee(chain, gasDenom, gasFee), grpcUrl)
               IN  CASE data.grpc = <<>> -> Fail("GRPCListIsEmpty")
                     [] OTHER ->
                          \/ Fail("CannotConnectGRPC")
                          \/ ~Signer.ok /\ Fail(Signer.error)
                          \/ /\ Signer.ok
                             /\ result' = "Ok"
                             /\ daemon' = [chainId |-> data.chainId,
                                           fees |-> <<ShortestDenomToken(data.fees)>>,
                                           grpc |-> data.grpc,
                                           deploymentId |-> DeploymentOf(deploymentId)]
                             /\ answer' = [kind |-> "none"]
                             /\ UNCHANGED builderVars

Query(a) == Alive /\ daemon # None /\ answer' = a /\ UNCHANGED <<builderVars, result, daemon>>

(* contract_hash: code_id_hash(code_id) through block_on, `?` on errors.   *)
ContractHash == \E ok \in BOOLEAN : Query([kind |-> IF ok THEN "hash" ELSE "Err"])

(* contract_info: contract.address()? (no address in the state file is an *)
(* error), contract_info(..)?, then admin = Some(info.admin), "" for a    *)
(* contract without an admin.                                              *)
ContractInfo ==
    \E k \in Contracts, ok \in BOOLEAN :
        Query(CASE ~k.addr -> [kind |-> "NotFound"]
                [] ~ok -> [kind |-> "Err"]
                [] OTHER -> [kind |-> "info", admin |-> [some |-> TRUE, val |-> k.admin]])

(* balance and supply_of: the bank querier's answer or its error.         *)
BankQuery == \E ok \in BOOLEAN : Query([kind |-> IF ok THEN "coins" ELSE "Err"])

(* env_info: the chain id and the deployment id of the daemon state.       *)
EnvInfo == Query([kind |-> "env", chain_id |-> daemon.chainId, deployment_id |-> daemon.deploymentId])

Setter ==
    \/ ChainSetter \/ DeploymentIdSetter \/ HandleSetter \/ MnemonicSetter
    \/ SenderSetter \/ OptionSetter \/ GrpcUrlSetter \/ GasSetter

Next ==
    \/ Alive /\ Setter
    \/ Build
    \/ ContractHash \/ ContractInfo \/ BankQuery \/ EnvInfo
    \/ ~Alive /\ UNCHANGED vars

Spec == Init /\ [][Next]_vars

-----------------------------------------------------------------------------
Token == [denom: DOMAIN DenomLen, fixed_min_gas_price: Nat, low_gas_price: Nat,
          average_gas_price: Nat, high_gas_price: Nat]

TypeOK ==
    /\ chain \in Chains \cup {None}
    /\ result \in {"none", "Ok", "BuilderMissing", "Panic", "GRPCListIsEmpty",
                   "CannotConnectGRPC", "Bip32"}
    /\ daemon # None =>
          /\ daemon.fees \in Seq(Token)
          /\ daemon.deploymentId \in DeploymentIds \cup {DEFAULT_DEPLOYMENT}

(* The builder tests (grpc_override, fee_amount_override,                 *)
(* fee_denom_override, fee_override) for every sequence of setter calls:  *)
(* a Daemon built has exactly one fee token, in the denomination of the   *)
(* last gas() call or else of the chain's first token, with all four      *)
(* prices of that call or else the first token's; the one gRPC address    *)
(* given, or the chain's; the deployment id given, or "default".           *)
BuiltAsConfigured ==
    [][Build /\ result' = "Ok" =>
        LET first == Head(chain.fees)
            fee == [FeeToken(IF gasDenom # None THEN gasDenom ELSE first.denom, gasFee)
                      EXCEPT !.fixed_min_gas_price =
                                IF gasFee # None THEN @ ELSE first.fixed_min_gas_price,
                             !.low_gas_price = IF gasFee # None THEN @ ELSE first.low_gas_price,
                             !.average_gas_price =
                                IF gasFee # None THEN @ ELSE first.average_gas_price,
                             !.high_gas_price = IF gasFee # None THEN @ ELSE first.high_gas_price]
        IN  /\ daemon'.fees = <<fee>>
            /\ daemon'.grpc = IF grpcUrl # None THEN <<grpcUrl>> ELSE chain.grpc
            /\ daemon'.deploymentId = IF deploymentId # None THEN deploymentId ELSE "default"]_vars
=============================================================================

