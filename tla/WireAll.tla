------------------------------ MODULE WireAll ------------------------------
(***************************************************************************)
(* The tool that wires an Aptos deployment to its remote chains,           *)
(* sdk/tasks/wireAll.ts: it reads every setting, one after the other,      *)
(* plans a transaction for each that differs from the configuration, asks  *)
(* the operator, and then sends the transactions of its five accounts in   *)
(* parallel, those of one account in order up to the first that fails.     *)
(* Several operators may run it at once, administrators change settings by *)
(* other means, and transactions fail or get lost on the way.              *)
(***************************************************************************)
EXTENDS AptosSettings, Sequences, Functions

CONSTANTS
  Operators,      \* who runs wireAll
  Configs,        \* the configurations there are, by name
  ConfigsOf,      \* the names of those an operator may run it with
  ToNetworks,     \* _toNetworks: the remote chains, in order
  InitialChains,  \* the settings a deployment may have
  Drifts,         \* a sequence of payloads other administrators may send
  MaxTroubles     \* bound on those, on transactions lost or left unanswered, and
                  \* on reads that fail unnoticed

\* What a configuration says: something of every remote chain, coin and
\* validator, and no number that the getters answer where nothing is set.
Complete(config) ==
  /\ config.addressSize \in Nat \ {0}
  /\ config.defaultReceiveVersion \in Values.receive_version
  /\ config.defaultExecutor \in [address : STRING \ {""}, version : Nat]
  /\ config.threshold \in Nat
  /\ config.enableCustomAdapterParams \in BOOLEAN
  /\ config.validatorOrder \in Seq(Validators) /\ config.coinOrder \in Seq(Coins)
  /\ Range(config.validatorOrder) = Validators /\ Range(config.coinOrder) = Coins
  /\ \A v \in Validators : config.validators[v] \in BOOLEAN
  /\ \A remote \in Remotes :
       /\ config.appConfig[remote] \in Values.default_config \ {NoAppConfig}
       /\ config.uaGas[remote] \in Nat \ {0}
       /\ config.executorFee[remote] \in
            [airdropAmtCap : Nat, priceRatio : Nat \ {0}, gasPrice : Nat \ {0}]
       /\ config.relayerFee[remote] \in [baseFee : Nat \ {0}, feePerByte : Nat]
       /\ config.oracleFee[remote] \in [baseFee : Nat \ {0}, feePerByte : {0}]
       /\ config.remoteBridge[remote] \in STRING \ {"0x"}
       /\ config.minDstGas[remote] \in Nat \ {0}
       /\ \A coin \in Coins : config.coins[coin].remotes[remote] \in STRING \union {None}
  /\ \A coin \in Coins : config.coins[coin].limiter \in Values.limiter

ASSUME WireAllAssumption ==
  /\ ConfigsOf \in [Operators -> SUBSET DOMAIN Configs]
  /\ \A c \in DOMAIN Configs : Complete(Configs[c])
  /\ ToNetworks \in Seq(Remotes) /\ Range(ToNetworks) = Remotes
  /\ \A settings \in InitialChains : Stored(settings)
  /\ \A i \in DOMAIN Drifts : Storable(Drifts[i])

VARIABLES
  run,     \* run[o]: the run of wireAll of operator o
  troubles \* how many settings were changed by other means, transactions lost
           \* or left unanswered, and reads that failed unnoticed

wireAllVars == <<chain, run, troubles>>

Accounts == {"layerzero", "relayer", "executor", "oracle", "bridge"}

------------------------------------------------------------------------------
\* The diffs: what is planned for one setting, at most one transaction.  A
\* transaction that is not needed is listed and never sent.

Transactions(needChange, payload) == IF needChange THEN <<payload>> ELSE <<>>

setChainAddressSize(config, remote) ==
  LET cur == getChainAddressSize(remote)
  IN  Transactions(cur = 0 \/ cur # config.addressSize,
                   setChainAddressSizePayload(remote, config.addressSize))

setDefaultAppConfig(config, remote) ==
  Transactions(getDefaultAppConfig(remote) # config.appConfig[remote],
               setDefaultAppConfigPayload(remote, config.appConfig[remote]))

\* Whether a default version is changed: only if both numbers differ.
VersionNeedsChange(cur, version) ==
  \/ cur.major = 0
  \/ cur.major # version.major /\ cur.minor # version.minor

\* The version to send with is taken from the version to receive with.
setDefaultSendMsgLib(config, remote) ==
  Transactions(VersionNeedsChange(getDefaultSendMsgLib(remote),
                                  config.defaultReceiveVersion),
               setDefaultSendMsgLibPayload(remote, config.defaultReceiveVersion))

setDefaultReceiveMsgLib(config, remote) ==
  Transactions(VersionNeedsChange(getDefaultReceiveMsgLib(remote),
                                  config.defaultReceiveVersion),
               setDefaultReceiveMsgLibPayload(remote, config.defaultReceiveVersion))

setDefaultExecutor(config, remote) ==
  LET cur == getDefaultExecutor(remote)
      new == config.defaultExecutor
  IN  Transactions(cur.executor # new.address \/ cur.version # new.version,
                   setDefaultExecutorPayload(remote, new.address, new.version))

AdapterParamsDiff(config, remote, curUaGas) ==
  LET uaGas == config.uaGas[remote]
  IN  Transactions(curUaGas # uaGas, setDefaultAdapterParamsPayload(remote, uaGas))

setDefaultAdapterParams(config, remote) ==
  AdapterParamsDiff(config, remote, getDefaultAdapterParams(remote))

\* Prices that are set already are left to the executor.
setFeeForExecutor(config, remote) ==
  LET cur == getExecutorFee(remote)
      fee == config.executorFee[remote]
  IN  Transactions(\/ cur.airdropAmtCap # fee.airdropAmtCap
                   \/ cur.priceRatio = 0
                   \/ cur.gasPrice = 0,
                   setExecutorFeePayload(remote, fee))

setFeeForRelayer(config, remote) ==
  LET cur == getSignerFee("relayer", remote)
      fee == config.relayerFee[remote]
  IN  Transactions(\/ cur.base_fee # fee.baseFee
                   \/ cur.fee_per_byte # fee.feePerByte,
                   setSignerFeePayload(remote, fee.baseFee, fee.feePerByte))

\* Mutant of setValidatorsForOracle: the state of a validator is not read.
ValidatorsUnread(config, v) ==
  Transactions(config.validators[v],
               setValidatorPayload(v, config.validators[v]))

setValidatorsForOracle(config, v) ==
  Transactions(isValidator(v) # config.validators[v],
               setValidatorPayload(v, config.validators[v]))

setThresholdForOracle(config) ==
  Transactions(getThreshold # config.threshold,
               setThresholdPayload(config.threshold))

setFeeForOracle(config, remote) ==
  LET fee == config.oracleFee[remote]
  IN  Transactions(getSignerFee("oracle", remote).base_fee # fee.baseFee,
                   setOracleFeePayload(remote, fee.baseFee))

setMinDstGas(config, remote) ==
  Transactions(getMinDstGas(remote) # config.minDstGas[remote],
               setMinDstGasPayload(remote, config.minDstGas[remote]))

enableCustomAdapterParams(config) ==
  Transactions(customAdapterParamsEnabled # config.enableCustomAdapterParams,
               enableCustomAdapterParamsPayload(config.enableCustomAdapterParams))

setRemoteBridge(config, remote) ==
  Transactions(getRemoteBridge(remote) # config.remoteBridge[remote],
               setRemoteBridgePayload(remote, config.remoteBridge[remote]))

registerCoin(config, coin) ==
  Transactions(~hasCoinRegistered(coin),
               registerCoinPayload(coin, config.coins[coin].limiter.cap))

setLimiter(config, coin) ==
  LET limiter == config.coins[coin].limiter
  IN  Transactions(getLimitCap(coin) # limiter,
                   setLimiterCapPayload(coin, limiter))

\* Nothing is planned for a coin that has no remote on the chain.
setRemoteCoin(config, coin, remote) ==
  LET remoteCoin == config.coins[coin].remotes[remote]
  IN  Transactions(remoteCoin # None /\ ~hasRemoteCoin(coin, remote),
                   setRemoteCoinPayload(coin, remote, remoteCoin))

------------------------------------------------------------------------------
\* The order the diffs are made in, and the account each is planned for.

Read(account, diff, key) == [account |-> account, diff |-> diff, key |-> key]

\* reads[x] for each x of a sequence, one after the other.
OverAll(seq, reads) ==
  LET over[i \in 0 .. Len(seq)] ==
        IF i = 0 THEN <<>> ELSE over[i - 1] \o reads[seq[i]]
  IN  over[Len(seq)]

configureOracle(config) ==
  OverAll(config.validatorOrder, [v \in Validators |->
    <<Read("oracle", "setValidatorsForOracle", v)>>])
  \o <<Read("oracle", "setThresholdForOracle", Single)>>

configureBridge(config) ==
  <<Read("bridge", "enableCustomAdapterParams", Single)>>
  \o OverAll(config.coinOrder, [coin \in Coins |->
       <<Read("bridge", "registerCoin", coin), Read("bridge", "setLimiter", coin)>>])

configureLayerzeroWithRemote(remote) ==
  <<Read("layerzero", "setChainAddressSize", remote),
    Read("layerzero", "setDefaultAppConfig", remote),
    Read("layerzero", "setDefaultSendMsgLib", remote),
    Read("layerzero", "setDefaultReceiveMsgLib", remote),
    Read("layerzero", "setDefaultExecutor", remote),
    Read("layerzero", "setDefaultAdapterParams", remote)>>

configureRelayerWithRemote(remote) ==
  <<Read("relayer", "setFeeForRelayer", remote)>>

configureExecutorWithRemote(remote) ==
  <<Read("executor", "setFeeForExecutor", remote)>>

configureOracleWithRemote(remote) ==
  <<Read("oracle", "setFeeForOracle", remote)>>

configureBridgeWithRemote(config, remote) ==
  <<Read("bridge", "setRemoteBridge", remote),
    Read("bridge", "setMinDstGas", remote)>>
  \o OverAll(config.coinOrder, [coin \in Coins |->
       <<Read("bridge", "setRemoteCoin", <<coin, remote>>)>>])

Reads(config) ==
  configureOracle(config) \o configureBridge(config)
  \o OverAll(ToNetworks, [remote \in Remotes |->
       configureLayerzeroWithRemote(remote) \o configureRelayerWithRemote(remote)
       \o configureExecutorWithRemote(remote) \o configureOracleWithRemote(remote)
       \o configureBridgeWithRemote(config, remote)])

Diff(read, config) ==
  LET key == read.key
  IN  CASE read.diff = "setChainAddressSize" -> setChainAddressSize(config, key)
        [] read.diff = "setDefaultAppConfig" -> setDefaultAppConfig(config, key)
        [] read.diff = "setDefaultSendMsgLib" -> setDefaultSendMsgLib(config, key)
        [] read.diff = "setDefaultReceiveMsgLib" -> setDefaultReceiveMsgLib(config, key)
        [] read.diff = "setDefaultExecutor" -> setDefaultExecutor(config, key)
        [] read.diff = "setDefaultAdapterParams" -> setDefaultAdapterParams(config, key)
        [] read.diff = "setFeeForExecutor" -> setFeeForExecutor(config, key)
        [] read.diff = "setFeeForRelayer" -> setFeeForRelayer(config, key)
        [] read.diff = "setValidatorsForOracle" -> setValidatorsForOracle(config, key)
        [] read.diff = "setThresholdForOracle" -> setThresholdForOracle(config)
        [] read.diff = "setFeeForOracle" -> setFeeForOracle(config, key)
        [] read.diff = "setMinDstGas" -> setMinDstGas(config, key)
        [] read.diff = "enableCustomAdapterParams" -> enableCustomAdapterParams(config)
        [] read.diff = "setRemoteBridge" -> setRemoteBridge(config, key)
        [] read.diff = "registerCoin" -> registerCoin(config, key)
        [] read.diff = "setLimiter" -> setLimiter(config, key)
        [] read.diff = "setRemoteCoin" -> setRemoteCoin(config, key[1], key[2])

------------------------------------------------------------------------------
\* A run of wireAll.

Planning == {"plan", "prompt", "send"}

NoTxns == [a \in Accounts |-> <<>>]

Begun(c) ==
  [stage |-> "plan", config |-> c, reads |-> Reads(Configs[c]), txns |-> NoTxns,
   failed |-> {}, quiet |-> TRUE]

\* The run r after its plan or one of its accounts got on: with nothing to
\* change it returns, and with every account done it reports.
Settled(r) ==
  IF r.reads # <<>> THEN r
  ELSE IF r.stage = "plan"
    THEN [r EXCEPT !.stage = IF r.txns = NoTxns THEN "wired" ELSE "prompt"]
  ELSE IF r.stage = "send" /\ \A a \in Accounts : a \in r.failed \/ r.txns[a] = <<>>
    THEN [r EXCEPT !.stage = IF r.failed = {} THEN "wired" ELSE "failed",
                   !.txns = NoTxns]
  ELSE r

\* A change of the settings by the operator o: the runs of other
\* configurations are no longer alone with theirs.
Written(o, r) ==
  [q \in Operators |->
     IF q = o THEN r
     ELSE [run[q] EXCEPT !.quiet = @ /\ run[q].config = r.config]]

WireAllInit ==
  /\ chain \in InitialChains
  /\ \E c \in [Operators -> DOMAIN Configs] :
       /\ \A o \in Operators : c[o] \in ConfigsOf[o]
       /\ run = [o \in Operators |->
                   [stage |-> "idle", config |-> c[o], reads |-> <<>>,
                    txns |-> NoTxns, failed |-> {}, quiet |-> FALSE]]
  /\ troubles = 0

Upset == troubles < MaxTroubles /\ troubles' = troubles + 1

Start(o) ==
  /\ run[o].stage \notin Planning
  /\ run' = [run EXCEPT ![o] = Begun(run[o].config)]
  /\ UNCHANGED <<chain, troubles>>

\* The plan goes on with what the next diff found.
Plan(o, diff) ==
  LET r    == run[o]
      read == Head(r.reads)
  IN  /\ r.stage = "plan"
      /\ run' = [run EXCEPT ![o] =
           Settled([r EXCEPT !.reads = Tail(@), !.txns[read.account] = @ \o diff])]

\* One setting is read and compared.  The plan is made of what was read,
\* however the settings change until it is sent.
ReadNext(o) ==
  /\ Plan(o, Diff(Head(run[o].reads), Configs[run[o].config]))
  /\ UNCHANGED <<chain, troubles>>

\* The getter of the default adapter parameters takes a node that does not
\* answer for a chain that has none, and answers a gas of 0.
AdapterParamsUnread(o) ==
  LET read == Head(run[o].reads)
  IN  /\ Upset
      /\ run[o].stage = "plan" /\ read.diff = "setDefaultAdapterParams"
      /\ Plan(o, AdapterParamsDiff(Configs[run[o].config], read.key, 0))
      /\ UNCHANGED chain

Proceed(o) ==
  /\ run[o].stage = "prompt"
  /\ run' = [run EXCEPT ![o].stage = "send"]
  /\ UNCHANGED <<chain, troubles>>

Abort(o) ==
  /\ run[o].stage = "prompt"
  /\ run' = [run EXCEPT ![o] = [@ EXCEPT !.stage = "idle", !.txns = NoTxns]]
  /\ UNCHANGED <<chain, troubles>>

\* Mutant of Failed: the error is not kept.
FailureForgotten(r, a) == Settled([r EXCEPT !.txns[a] = <<>>])

\* The transactions of the account end with an error.
Failed(r, a) == Settled([r EXCEPT !.failed = @ \union {a}])

\* The next transaction of an account is sent and confirmed; the first that
\* fails ends the transactions of the account.
Send(o, a) ==
  LET r == run[o]
      p == Head(r.txns[a])
  IN  /\ r.stage = "send"
      /\ a \notin r.failed
      /\ r.txns[a] # <<>>
      /\ IF Executable(p)
         THEN /\ chain' = Executed(p)
              /\ run' = Written(o, Settled([r EXCEPT !.txns[a] = Tail(@)]))
         ELSE /\ run' = [run EXCEPT ![o] = Failed(r, a)]
              /\ UNCHANGED chain
      /\ UNCHANGED <<troubles>>

\* A transaction is rejected by the node, or its answer never arrives: the
\* tool takes it for failed, and it may have been executed.
Lose(o, a) ==
  LET r == run[o]
      p == Head(r.txns[a])
  IN  /\ Upset
      /\ r.stage = "send"
      /\ a \notin r.failed
      /\ r.txns[a] # <<>>
      /\ \/ /\ Executable(p)
            /\ chain' = Executed(p)
            /\ run' = Written(o, Failed(r, a))
         \/ /\ run' = [run EXCEPT ![o] = Failed(r, a)]
            /\ UNCHANGED chain

\* The process of the tool ends, whatever it was at.
Crash(o) ==
  /\ Upset
  /\ run[o].stage \in Planning
  /\ run' = [run EXCEPT ![o] =
               [@ EXCEPT !.stage = "idle", !.reads = <<>>, !.txns = NoTxns]]
  /\ UNCHANGED chain

\* The relayer and the executor register on their own: wireAll never calls
\* configureRelayer and configureExecutor, which do it for tests.
Register(service) ==
  /\ ~isRegistered(service)
  /\ register(registerPayload(service))
  /\ chain' = Executed(registerPayload(service))
  /\ UNCHANGED <<run, troubles>>

\* Another administrator changes a setting by other means.
Drift(p) ==
  /\ Upset
  /\ Executable(p)
  /\ chain' = Executed(p)
  /\ run' = [o \in Operators |-> [run[o] EXCEPT !.quiet = FALSE]]

WireAllNext ==
  \/ \E o \in Operators :
       \/ Start(o)
       \/ ReadNext(o)
       \/ AdapterParamsUnread(o)
       \/ Proceed(o)
       \/ Abort(o)
       \/ \E a \in Accounts : Send(o, a) \/ Lose(o, a)
       \/ Crash(o)
  \/ \E service \in {"relayer", "executor"} : Register(service)
  \/ \E i \in DOMAIN Drifts : Drift(Drifts[i])

WireAllSpec == WireAllInit /\ [][WireAllNext]_wireAllVars

\* An operator runs the tool again and again and does not refuse every plan;
\* JavaScript gets on with every account; the services register.
WireAllFairness ==
  /\ \A o \in Operators :
       /\ WF_wireAllVars(Start(o))
       /\ WF_wireAllVars(ReadNext(o))
       /\ SF_wireAllVars(Proceed(o))
       /\ \A a \in Accounts : WF_wireAllVars(Send(o, a))
  /\ \A service \in {"relayer", "executor"} : WF_wireAllVars(Register(service))

LiveWireAllSpec == WireAllSpec /\ WireAllFairness

------------------------------------------------------------------------------
\* Properties.

\* A default version that the tool leaves alone.
VersionKept(cur, version) ==
  cur # None /\ (cur.major = version.major \/ cur.minor = version.minor)

\* A setting is as the configuration says, as far as the tool can see to it:
\* it leaves a version that differs in one number, prices of the executor
\* that are set, and what a coin was registered with.
AsConfigured(config, slot, key, cur) ==
  CASE slot = "chain_address_size" -> cur = config.addressSize
    [] slot = "default_config" -> cur = config.appConfig[key]
    [] slot \in {"send_version", "receive_version"} ->
         VersionKept(cur, config.defaultReceiveVersion)
    [] slot = "default_executor" ->
         cur = [executor |-> config.defaultExecutor.address,
                version |-> config.defaultExecutor.version]
    [] slot = "adapter_params" -> cur = config.uaGas[key]
    [] slot = "executor_fee" ->
         /\ cur # None /\ cur.priceRatio > 0 /\ cur.gasPrice > 0
         /\ cur.airdropAmtCap = config.executorFee[key].airdropAmtCap
    [] slot = "signer_fee" ->
         LET fee == IF key[1] = "relayer" THEN config.relayerFee[key[2]]
                    ELSE config.oracleFee[key[2]]
         IN  cur = [base_fee |-> fee.baseFee, fee_per_byte |-> fee.feePerByte]
    [] slot = "registered" -> TRUE
    [] slot = "validators" -> cur = config.validators[key]
    [] slot = "threshold" -> cur = config.threshold
    [] slot = "custom_adapter_params" -> cur = config.enableCustomAdapterParams
    [] slot = "coin_store" -> cur # None
    [] slot = "limiter" -> cur = config.coins[key].limiter
    [] slot = "remote_bridge" -> cur = config.remoteBridge[key]
    [] slot = "min_dst_gas" -> cur = config.minDstGas[key]
    [] slot = "remote_coin" ->
         cur # None \/ config.coins[key[1]].remotes[key[2]] = None

Met(config, slot, key) == AsConfigured(config, slot, key, chain[slot][key])

KeysOf(account) ==
  LET slots == CASE account = "layerzero" ->
                      {"chain_address_size", "default_config", "send_version",
                       "receive_version", "default_executor", "adapter_params"}
                 [] account = "relayer" -> {"signer_fee"}
                 [] account = "executor" -> {"executor_fee"}
                 [] account = "oracle" -> {"validators", "threshold", "signer_fee"}
                 [] account = "bridge" ->
                      {"custom_adapter_params", "coin_store", "limiter",
                       "remote_bridge", "min_dst_gas", "remote_coin"}
  IN  {setting \in UNION {{slot} \X Keys[slot] : slot \in slots} :
         setting[1] = "signer_fee" => setting[2][1] = account}

WiredFor(account, config) ==
  \A setting \in KeysOf(account) : Met(config, setting[1], setting[2])

\* "Wired all accounts successfully", or nothing to change, is true: unless
\* somebody with another intention changed a setting since the run began,
\* every setting is as configured, though each was read at another moment,
\* others may run the same configuration at the same time, and answers of
\* earlier transactions were lost.
SuccessIsWired ==
  \A o \in Operators :
    run[o].stage = "wired" /\ run[o].quiet =>
      \A a \in Accounts : WiredFor(a, Configs[run[o].config])

\* Stale plans undo nothing: while all that run the tool agree on the
\* configuration, a setting that is as configured stays so.
NothingUndone ==
  [][\A o \in Operators :
       run[o].quiet /\ run'[o].quiet /\ run'[o].config = run[o].config =>
         \A a \in Accounts : \A setting \in KeysOf(a) :
           Met(Configs[run[o].config], setting[1], setting[2]) =>
             Met(Configs[run[o].config], setting[1], setting[2])']_wireAllVars

\* What no number of runs can wire: an address size that is set already, an
\* airdrop cap that is no u64, and an oracle of which the next change, in the
\* order the tool makes them, would leave fewer validators than the threshold
\* in force, whatever comes after.
Unreachable(account, config) ==
  \/ /\ account = "layerzero"
     /\ \E remote \in Remotes :
          getChainAddressSize(remote) \notin {0, config.addressSize}
  \/ /\ account = "executor"
     /\ \E remote \in Remotes : config.executorFee[remote].airdropAmtCap > MaxU64
  \/ /\ account = "oracle"
     /\ LET pending == SelectSeq(config.validatorOrder,
                                LAMBDA v : ~Met(config, "validators", v))
            next    == Head(pending)
        IN  IF pending # <<>>
            THEN ~set_validator(setValidatorPayload(next, config.validators[next]))
            ELSE /\ ~Met(config, "threshold", Single)
                 /\ ~set_threshold(setThresholdPayload(config.threshold))

\* Running the tool again is what lost answers, crashes, refused plans and a
\* second operator call for: in the end every account is wired for good, or
\* it was never to be.
RerunsConverge ==
  \A o \in Operators : \A a \in Accounts :
    <>[](\/ WiredFor(a, Configs[run[o].config])
         \/ Unreachable(a, Configs[run[o].config]))
==============================================================================
