---------------------------- MODULE AptosSettings ----------------------------
(***************************************************************************)
(* The settings on Aptos that the deployment tools read and write: what    *)
(* the SDK's getters answer, which transaction its payload builders name,  *)
(* and what the Move entry function behind it asserts and stores.          *)
(*                                                                         *)
(* A transaction payload is [slot, key, value]: the table or field it      *)
(* writes, the key in it and the value.  Encodings of addresses and        *)
(* numbers are left out.                                                   *)
(***************************************************************************)
EXTENDS Naturals, FiniteSets

CONSTANTS
  Remotes,         \* remote chains
  Coins,           \* coin types of the bridge
  Validators,      \* accounts that may be validators of the oracle
  Libraries,       \* versions of registered message libraries
  Executors,       \* versions of registered executors
  MaxU64,          \* the largest number of 64 bits
  DefaultLimiter,  \* DEFAULT_LIMITER_CAP_SD, _WINDOW_SEC, enabled
  None             \* what a table has at a key that was never set

VARIABLE chain     \* the settings: a function of keys for every slot

Signers == {"relayer", "oracle"}

Single == "resource"   \* the key of a field of a resource there is one of

Keys ==
  [chain_address_size |-> Remotes, default_config |-> Remotes,
   send_version |-> Remotes, receive_version |-> Remotes,
   default_executor |-> Remotes, adapter_params |-> Remotes,
   executor_fee |-> Remotes, signer_fee |-> Signers \X Remotes,
   registered |-> {"relayer", "oracle", "executor"},
   validators |-> Validators, threshold |-> {Single},
   custom_adapter_params |-> {Single}, coin_store |-> Coins,
   limiter |-> Coins, remote_bridge |-> Remotes, min_dst_gas |-> Remotes,
   remote_coin |-> Coins \X Remotes]

\* What a setting may be, and the settings that may be missing.
Values ==
  [chain_address_size |-> Nat,
   default_config |-> [oracle : STRING, relayer : STRING,
                       inbound_confirmations : Nat, outbound_confirmations : Nat],
   send_version |-> [major : Nat, minor : Nat],
   receive_version |-> [major : Nat, minor : Nat],
   default_executor |-> [executor : STRING, version : Nat], adapter_params |-> Nat,
   executor_fee |-> [airdropAmtCap : Nat, priceRatio : Nat, gasPrice : Nat],
   signer_fee |-> [base_fee : Nat, fee_per_byte : Nat], registered |-> BOOLEAN,
   validators |-> BOOLEAN, threshold |-> Nat, custom_adapter_params |-> BOOLEAN,
   coin_store |-> Nat, limiter |-> [enabled : BOOLEAN, cap : Nat, window : Nat],
   remote_bridge |-> STRING, min_dst_gas |-> Nat, remote_coin |-> STRING]

Optional ==
  DOMAIN Keys \ {"registered", "validators", "threshold", "custom_adapter_params"}

ASSUME AptosSettingsAssumption ==
  /\ \A slot \in DOMAIN Keys : None \notin Values[slot]
  /\ DefaultLimiter \in Values["limiter"]

Payload(slot, key, value) == [slot |-> slot, key |-> key, value |-> value]

\* A payload of the right types.  The oracle's signer has only fees that the
\* oracle passes on, with 0 per byte.
Storable(p) ==
  /\ p.slot \in DOMAIN Keys
  /\ p.key \in Keys[p.slot]
  /\ p.value \in Values[p.slot]
  /\ p.slot = "signer_fee" /\ p.key[1] = "oracle" => p.value.fee_per_byte = 0

\* Settings of the right types.  A coin has a limiter once it is registered.
Stored(settings) ==
  /\ settings = [slot \in DOMAIN Keys |-> [key \in Keys[slot] |-> settings[slot][key]]]
  /\ \A slot \in DOMAIN Keys : \A key \in Keys[slot] :
       \/ Storable(Payload(slot, key, settings[slot][key]))
       \/ slot \in Optional /\ settings[slot][key] = None
  /\ \A coin \in Coins :
       (settings.limiter[coin] = None) <=> (settings.coin_store[coin] = None)

------------------------------------------------------------------------------
\* The entry functions: what they assert beyond the caller's rights.

is_validator(v) == chain.validators[v] = TRUE

active_validators == {v \in Validators : is_validator(v)}

\* The size of addresses of a chain is set once.
set_chain_address_size(p) == chain.chain_address_size[p.key] = None

\* No field of a default configuration points to the null value.
set_default_config(p) ==
  /\ "" \notin {p.value.oracle, p.value.relayer}
  /\ 0 \notin {p.value.inbound_confirmations, p.value.outbound_confirmations}

set_default_msglib(p) == p.value \in Libraries

set_default_executor(p) == p.value.version \in Executors /\ p.value.executor # ""

register(p) == chain.registered[p.key] = FALSE

set_fee_of_signer(p) == chain.registered[p.key[1]] = TRUE

\* The three numbers are u64: a larger one cannot even be encoded.
set_fee_of_executor(p) ==
  /\ chain.registered["executor"] = TRUE
  /\ \A field \in DOMAIN p.value : p.value[field] <= MaxU64

\* Not in the asked state yet, and no fewer validators left than the threshold.
set_validator(p) ==
  /\ is_validator(p.key) # p.value
  /\ Cardinality(IF p.value THEN active_validators \union {p.key}
                 ELSE active_validators \ {p.key})
       >= chain.threshold[Single]

\* The threshold that is replaced, not the new one, is asserted.
set_threshold(p) == Cardinality(active_validators) >= chain.threshold[Single]

\* Mutant of register_coin: a coin may be registered again.
RegisterCoinAgain(p) == TRUE

register_coin(p) == chain.coin_store[p.key] = None

set_limiter_cap(p) == chain.coin_store[p.key] # None

set_remote_coin(p) ==
  /\ chain.coin_store[p.key[1]] # None
  /\ chain.remote_coin[p.key] = None

Executable(p) ==
  CASE p.slot = "chain_address_size" -> set_chain_address_size(p)
    [] p.slot = "default_config" -> set_default_config(p)
    [] p.slot \in {"send_version", "receive_version"} -> set_default_msglib(p)
    [] p.slot = "default_executor" -> set_default_executor(p)
    [] p.slot = "registered" -> register(p)
    [] p.slot = "signer_fee" -> set_fee_of_signer(p)
    [] p.slot = "executor_fee" -> set_fee_of_executor(p)
    [] p.slot = "validators" -> set_validator(p)
    [] p.slot = "threshold" -> set_threshold(p)
    [] p.slot = "coin_store" -> register_coin(p)
    [] p.slot = "limiter" -> set_limiter_cap(p)
    [] p.slot = "remote_coin" -> set_remote_coin(p)
    [] OTHER -> TRUE

\* A new coin gets an enabled limiter of the cap it is registered with.
Executed(p) ==
  LET set == [chain EXCEPT ![p.slot][p.key] = p.value]
  IN  IF p.slot = "coin_store"
      THEN [set EXCEPT !.limiter[p.key] = [DefaultLimiter EXCEPT !.cap = p.value]]
      ELSE set

------------------------------------------------------------------------------
\* The getters.  A missing item is a 404, answered with a default.

Item(slot, key, default) ==
  IF chain[slot][key] = None THEN default ELSE chain[slot][key]

getChainAddressSize(remote) == Item("chain_address_size", remote, 0)

NoAppConfig ==
  [oracle |-> "", relayer |-> "", inbound_confirmations |-> 0,
   outbound_confirmations |-> 0]

getDefaultAppConfig(remote) == Item("default_config", remote, NoAppConfig)

getDefaultSendMsgLib(remote) ==
  Item("send_version", remote, [major |-> 0, minor |-> 0])

getDefaultReceiveMsgLib(remote) ==
  Item("receive_version", remote, [major |-> 0, minor |-> 0])

getDefaultExecutor(remote) ==
  Item("default_executor", remote, [executor |-> "", version |-> 0])

\* Adapter parameters are their gas.  Any failure of the read is answered
\* with a gas of 0, and a gas of 0 is what a missing item stands for.
getDefaultAdapterParams(remote) == Item("adapter_params", remote, 0)

getExecutorFee(remote) ==
  Item("executor_fee", remote,
       [airdropAmtCap |-> 0, priceRatio |-> 0, gasPrice |-> 0])

getSignerFee(signer, remote) ==
  Item("signer_fee", <<signer, remote>>, [base_fee |-> 0, fee_per_byte |-> 0])

isRegistered(signer) == chain.registered[signer]

isValidator(v) == is_validator(v)

getThreshold == chain.threshold[Single]

customAdapterParamsEnabled == chain.custom_adapter_params[Single]

getMinDstGas(remote) == Item("min_dst_gas", remote, 0)

getRemoteBridge(remote) == Item("remote_bridge", remote, "0x")

hasCoinRegistered(coin) == chain.coin_store[coin] # None

getLimitCap(coin) == Item("limiter", coin, DefaultLimiter)

hasRemoteCoin(coin, remote) == chain.remote_coin[<<coin, remote>>] # None

------------------------------------------------------------------------------
\* The payload builders.

setChainAddressSizePayload(remote, size) ==
  Payload("chain_address_size", remote, size)

setDefaultAppConfigPayload(remote, config) ==
  Payload("default_config", remote, config)

setDefaultSendMsgLibPayload(remote, version) ==
  Payload("send_version", remote, version)

setDefaultReceiveMsgLibPayload(remote, version) ==
  Payload("receive_version", remote, version)

setDefaultExecutorPayload(remote, executor, version) ==
  Payload("default_executor", remote,
          [executor |-> executor, version |-> version])

setDefaultAdapterParamsPayload(remote, uaGas) ==
  Payload("adapter_params", remote, uaGas)

registerPayload(signer) == Payload("registered", signer, TRUE)

setExecutorFeePayload(remote, fee) == Payload("executor_fee", remote, fee)

setSignerFeePayload(remote, baseFee, feePerByte) ==
  Payload("signer_fee", <<"relayer", remote>>,
          [base_fee |-> baseFee, fee_per_byte |-> feePerByte])

\* The oracle passes a fee per byte of 0 to the signer of its own.
setOracleFeePayload(remote, baseFee) ==
  Payload("signer_fee", <<"oracle", remote>>,
          [base_fee |-> baseFee, fee_per_byte |-> 0])

setValidatorPayload(v, active) == Payload("validators", v, active)

setThresholdPayload(threshold) == Payload("threshold", Single, threshold)

setMinDstGasPayload(remote, gas) == Payload("min_dst_gas", remote, gas)

enableCustomAdapterParamsPayload(enable) ==
  Payload("custom_adapter_params", Single, enable)

setRemoteBridgePayload(remote, address) ==
  Payload("remote_bridge", remote, address)

registerCoinPayload(coin, capSD) == Payload("coin_store", coin, capSD)

setLimiterCapPayload(coin, limiter) == Payload("limiter", coin, limiter)

setRemoteCoinPayload(coin, remote, address) ==
  Payload("remote_coin", <<coin, remote>>, address)
==============================================================================
