-------------------------------- MODULE Send --------------------------------
(***************************************************************************)
(* Sending from Aptos: what endpoint::send charges for a message to one    *)
(* chain, to whom, and the SDK that quotes the fee beforehand, reading one *)
(* setting after the other, and sends with it.  Meanwhile administrators,  *)
(* signers and executors change prices, access lists and defaults, and the *)
(* owner of the application its configuration, one setting after the       *)
(* other.  The chain is wired: its defaults are set, to be replaced only.  *)
(* An application that gets no answer, or whose transaction is refused or  *)
(* expires, asks for a new quote and sends again.                          *)
(***************************************************************************)
EXTENDS Integers, Sequences, FiniteSets, Functions

CONSTANTS
  UA, OtherUA,    \* the application that sends, and another one in the ACLs
  Signers,        \* accounts that may be oracles and relayers
  Executors,      \* accounts that may be executors
  Null,           \* @0x00: use the default
  None,           \* no entry in a table, empty adapter parameters
  PayloadSize,    \* length of COUNTER_PAYLOAD
  MaxU64,
  BpsDenominator, PriceRatioDenominator,
  SignerFees,     \* prices a signer may set
  ExecutorFees,   \* prices an executor may set
  TreasuryFees,   \* what set_treasury_fee is called with
  Gas, Airdrops,  \* what adapter parameters are built from
  InitialSettings,
  Wallet,         \* what the application has to spend
  MaxOrders,      \* bound on messages to send
  MaxChanges,     \* bound on settings changed
  MaxFaults       \* bound on requests without an answer and expired transactions

\* The confirmations of a configuration, which no fee depends on, are left out.
UlnFields == {"oracle", "relayer"}

Prices(Fees) == Fees \union {None}

Acl == [allow_list : SUBSET {UA, OtherUA}, deny_list : SUBSET {UA, OtherUA}]

Params == [gas : Nat, airdrop : Nat]

\* set_executor takes no null executor with a version of its own.
Settings ==
  [default_config : [UlnFields -> Signers],
   ua_config : {None} \union [UlnFields -> Signers \union {Null}],
   signer : [Signers -> [fee : Prices(SignerFees), acl : Acl]],
   treasury_fee_bps : TreasuryFees,
   default_send_version : {"1.0", "blocking"},
   send_version : {None, "default", "1.0", "blocking"},
   default_executor : [version : {1}, executor : Executors],
   executor : {None} \union [version : {1}, executor : Executors]
                \union [version : {0}, executor : Executors \union {Null}],
   worker : [Executors -> [fee : Prices(ExecutorFees), acl : Acl]],
   default_params : Params]

ASSUME SendAssumption ==
  /\ {PayloadSize, MaxU64, Wallet, MaxOrders, MaxChanges, MaxFaults} \subseteq Nat
  /\ {BpsDenominator, PriceRatioDenominator} \subseteq Nat \ {0}
  /\ Wallet <= MaxU64
  /\ IsFiniteSet(Signers) /\ IsFiniteSet(Executors)
  /\ Signers \intersect Executors = {} /\ UA # "layerzero"
  /\ {UA, OtherUA, "layerzero", Null} \intersect (Signers \union Executors) = {}
  /\ SignerFees \subseteq [base_fee : Nat, fee_per_byte : Nat]
  /\ ExecutorFees \subseteq [airdrop_amt_cap : Nat, price_ratio : Nat, gas_price : Nat]
  /\ TreasuryFees \subseteq Nat /\ Gas \subseteq Nat /\ Airdrops \subseteq Nat
  /\ InitialSettings \subseteq Settings

VARIABLES
  settings,  \* what is configured on the chain
  changes,   \* settings changed so far
  bundle,    \* setConfigBundle of the application's owner
  nonce,     \* Channel.outbound_nonce
  balance,   \* coins of the application, of those it pays and of the treasury
  sequence,  \* sequence number of the application's account
  pool,      \* signed transactions that may still be executed
  app,       \* what the application is at
  faults     \* transactions expired and requests unanswered so far

chain == <<nonce, balance, sequence>>
vars == <<settings, changes, bundle, chain, pool, app, faults>>

Accounts == {UA, "layerzero"} \union Signers \union Executors

------------------------------------------------------------------------------
\* u64 arithmetic that aborts on overflow, as Move's does.

Abort == -1

Plus[p \in Int \X Int] ==
  IF Abort \in {p[1], p[2]} \/ p[1] + p[2] > MaxU64 THEN Abort ELSE p[1] + p[2]

Times[p \in Int \X Int] ==
  IF Abort \in {p[1], p[2]} \/ p[1] * p[2] > MaxU64 THEN Abort ELSE p[1] * p[2]

Divide[p \in Int \X (Nat \ {0})] ==
  IF p[1] = Abort THEN Abort ELSE p[1] \div p[2]

------------------------------------------------------------------------------
\* Access lists.

Toggle(S, addr) == IF addr \in S THEN S \ {addr} ELSE S \union {addr}

allowlist(acl, addr) == [acl EXCEPT !.allow_list = Toggle(@, addr)]

denylist(acl, addr) == [acl EXCEPT !.deny_list = Toggle(@, addr)]

is_allowed(acl, addr) ==
  /\ addr \notin acl.deny_list
  /\ acl.allow_list = {} \/ addr \in acl.allow_list

------------------------------------------------------------------------------
\* What a message costs on the chain.

merge(ua_config, default_config) ==
  [f \in UlnFields |->
     IF ua_config[f] # Null THEN ua_config[f] ELSE default_config[f]]

get_uln_config ==
  IF settings.ua_config = None
  THEN settings.default_config
  ELSE merge(settings.ua_config, settings.default_config)

\* uln_signer::quote.
SignerQuote(signer) ==
  LET config == settings.signer[signer]
  IN  IF is_allowed(config.acl, UA) /\ config.fee # None
      THEN Plus[<<Times[<<config.fee.fee_per_byte, PayloadSize>>], config.fee.base_fee>>]
      ELSE Abort

quote_treasury(oracle_quote, relayer_quote) ==
  Divide[<<Times[<<Plus[<<oracle_quote, relayer_quote>>], settings.treasury_fee_bps>>],
         BpsDenominator>>]

\* The library to send with; only version 1.0 can send.
get_send_msglib ==
  IF settings.send_version \in {None, "default"}
  THEN settings.default_send_version
  ELSE settings.send_version

\* msglib_router::quote and msglib_v1_0::quote, never in ZRO.
MsgLibQuote ==
  LET oracle_quote == SignerQuote(get_uln_config.oracle)
      relayer_quote == SignerQuote(get_uln_config.relayer)
  IN  IF get_send_msglib = "1.0"
      THEN Plus[<<Plus[<<oracle_quote, relayer_quote>>],
                quote_treasury(oracle_quote, relayer_quote)>>]
      ELSE Abort

get_executor ==
  IF settings.executor = None \/ settings.executor.version = 0
  THEN settings.default_executor
  ELSE settings.executor

\* executor_v1::quote_fee: empty parameters stand for the default ones.
ExecutorQuote(executor, adapter_params) ==
  LET params == IF adapter_params = None THEN settings.default_params
                                         ELSE adapter_params
      config == settings.worker[executor]
  IN  IF /\ is_allowed(config.acl, UA)
         /\ config.fee # None
         /\ params.airdrop <= config.fee.airdrop_amt_cap
      THEN Divide[<<Times[<<Plus[<<Times[<<params.gas, config.fee.gas_price>>],
                             params.airdrop>>],
                        config.fee.price_ratio>>],
                  PriceRatioDenominator>>]
      ELSE Abort

\* endpoint::quote_fee.
quote_fee(adapter_params) ==
  Plus[<<MsgLibQuote, ExecutorQuote(get_executor.executor, adapter_params)>>]

------------------------------------------------------------------------------
\* What sending a message does: every part takes its due out of the fee and
\* hands on what is left, until the rest is given back.

TakeFrom[p \in Int \X Int] ==
  IF Abort \notin {p[1], p[2]} /\ p[2] <= p[1] THEN p[1] - p[2] ELSE Abort

\* Mutant of pay_fee: the treasury is paid out of nothing.
TreasuryNotTaken(fee, oracle_quote, relayer_quote, treasury_quote) ==
  TakeFrom[<<fee, Plus[<<oracle_quote, relayer_quote>>]>>]

pay_fee(fee, oracle_quote, relayer_quote, treasury_quote) ==
  TakeFrom[<<fee, Plus[<<Plus[<<treasury_quote, oracle_quote>>], relayer_quote>>]>>]

\* msglib_router::send and msglib_v1_0::send.
MsgLibSend(fee) ==
  LET oracle_quote == SignerQuote(get_uln_config.oracle)
      relayer_quote == SignerQuote(get_uln_config.relayer)
  IN  IF get_send_msglib = "1.0"
      THEN pay_fee(fee, oracle_quote, relayer_quote,
                   quote_treasury(oracle_quote, relayer_quote))
      ELSE Abort

\* Mutant of request: a fee that is just enough is not.
RequestMore(fee, adapter_params) ==
  LET due == ExecutorQuote(get_executor.executor, adapter_params)
  IN  IF fee = due THEN Abort ELSE TakeFrom[<<fee, due>>]

\* executor_router::request and executor_v1::request.
request(fee, adapter_params) ==
  TakeFrom[<<fee, ExecutorQuote(get_executor.executor, adapter_params)>>]

withdraw(fee) == IF fee <= balance[UA] THEN fee ELSE Abort

\* counter::send_to_remote, down to the coins that are left of the fee.
send_to_remote(fee, adapter_params) ==
  request(MsgLibSend(withdraw(fee)), adapter_params)

Sends(fee, adapter_params) == send_to_remote(fee, adapter_params) # Abort

Deposit(b, account, amount) == [b EXCEPT ![account] = @ + amount]

\* The balances once everyone has been paid.
Paid(fee, adapter_params) ==
  LET oracle == get_uln_config.oracle
      relayer == get_uln_config.relayer
      executor == get_executor.executor
      treasury == quote_treasury(SignerQuote(oracle), SignerQuote(relayer))
      spent == fee - send_to_remote(fee, adapter_params)
      byMsgLib ==
        Deposit(Deposit(Deposit(balance, oracle, SignerQuote(oracle)),
                        relayer, SignerQuote(relayer)), "layerzero", treasury)
  IN  Deposit(Deposit(byMsgLib, executor, ExecutorQuote(executor, adapter_params)),
              UA, -spent)

------------------------------------------------------------------------------
\* Settings change.  Everything that may change one thing is a set of what
\* the settings may be then.

defaultParams(gas) == [gas |-> gas, airdrop |-> 0]

\* buildAirdropAdapterParams: without an airdrop they are the default ones.
buildAirdropAdapterParams(gas, amount) ==
  IF amount = 0 THEN defaultParams(gas) ELSE [gas |-> gas, airdrop |-> amount]

AdapterParams ==
  {None} \union {buildAirdropAdapterParams(g, a) : g \in Gas, a \in Airdrops}

Change(new) ==
  /\ changes < MaxChanges
  /\ new # settings
  /\ settings' = new
  /\ changes' = changes + 1
  /\ UNCHANGED <<bundle, chain, pool, app, faults>>

uln_signer_set_fee(s, fee) == Change([settings EXCEPT !.signer[s].fee = fee])

uln_signer_allowlist(s, ua) ==
  Change([settings EXCEPT !.signer[s].acl = allowlist(@, ua)])

uln_signer_denylist(s, ua) ==
  Change([settings EXCEPT !.signer[s].acl = denylist(@, ua)])

executor_set_fee(x, fee) == Change([settings EXCEPT !.worker[x].fee = fee])

executor_allowlist(x, ua) ==
  Change([settings EXCEPT !.worker[x].acl = allowlist(@, ua)])

executor_denylist(x, ua) ==
  Change([settings EXCEPT !.worker[x].acl = denylist(@, ua)])

set_default_config(config) == Change([settings EXCEPT !.default_config = config])

set_treasury_fee(fee_bps) ==
  Change([settings EXCEPT !.treasury_fee_bps = fee_bps])

set_default_send_msglib(version) ==
  Change([settings EXCEPT !.default_send_version = version])

set_send_msglib(version) == Change([settings EXCEPT !.send_version = version])

set_default_executor(x) ==
  Change([settings EXCEPT !.default_executor = [version |-> 1, executor |-> x]])

set_executor(version, x) ==
  /\ version = 1 => x # Null
  /\ Change([settings EXCEPT !.executor = [version |-> version, executor |-> x]])

set_default_adapter_params(gas) ==
  Change([settings EXCEPT !.default_params = defaultParams(gas)])

OthersChange ==
  \/ \E s \in Signers :
       \/ \E fee \in SignerFees : uln_signer_set_fee(s, fee)
       \/ \E ua \in {UA, OtherUA} :
            uln_signer_allowlist(s, ua) \/ uln_signer_denylist(s, ua)
  \/ \E x \in Executors :
       \/ \E fee \in ExecutorFees : executor_set_fee(x, fee)
       \/ \E ua \in {UA, OtherUA} :
            executor_allowlist(x, ua) \/ executor_denylist(x, ua)
       \/ set_default_executor(x)
  \/ \E version \in {0, 1}, x \in Executors \union {Null} : set_executor(version, x)
  \/ \E config \in [UlnFields -> Signers] : set_default_config(config)
  \/ \E fee_bps \in TreasuryFees : set_treasury_fee(fee_bps)
  \/ \E version \in {"1.0", "blocking"} : set_default_send_msglib(version)
  \/ \E version \in {"default", "1.0", "blocking"} : set_send_msglib(version)
  \/ \E gas \in Gas : set_default_adapter_params(gas)

------------------------------------------------------------------------------
\* setConfigBundle: the owner sets one field after the other, each with a
\* transaction of its own, and starts over when one of them fails.

BundleFields == <<"oracle", "relayer">>

NoBundle == [at |-> 0, config |-> [f \in UlnFields |-> Null]]

StartBundle(config) ==
  /\ bundle = NoBundle
  /\ changes < MaxChanges
  /\ changes' = changes + 1
  /\ bundle' = [at |-> 1, config |-> config]
  /\ UNCHANGED <<settings, chain, pool, app, faults>>

\* uln_config::set_ua_config.
set_ua_config(field, value) ==
  LET config == IF settings.ua_config = None
                THEN [f \in UlnFields |-> Null] ELSE settings.ua_config
  IN  settings' = [settings EXCEPT !.ua_config = [config EXCEPT ![field] = value]]

BundleStep ==
  /\ bundle.at # 0
  /\ LET field == BundleFields[bundle.at]
     IN  set_ua_config(field, bundle.config[field])
  /\ bundle' = IF bundle.at = Len(BundleFields) THEN NoBundle
               ELSE [bundle EXCEPT !.at = @ + 1]
  /\ changes' = changes + 1
  /\ UNCHANGED <<chain, pool, app, faults>>

BundleFails ==
  /\ bundle.at # 0
  /\ faults < MaxFaults
  /\ faults' = faults + 1
  /\ bundle' = [bundle EXCEPT !.at = 1]
  /\ UNCHANGED <<settings, changes, chain, pool, app>>

------------------------------------------------------------------------------
\* The application: one read of a setting per step, then the transaction.
\* total is the part of the fee that is known, since is what changes was when
\* the quote was begun, unread that the default parameters could not be read.

Idle == [at |-> "idle", params |-> None, since |-> 0, config |-> None,
         executor |-> Null, unread |-> FALSE, total |-> 0, tx |-> None,
         attempts |-> 0, done |-> 0]

App(next) == /\ app' = next
             /\ UNCHANGED <<settings, changes, bundle, chain, pool, faults>>

Order ==
  /\ app.at = "idle" /\ app.done < MaxOrders
  /\ \E params \in AdapterParams :
       App([app EXCEPT !.at = "quote", !.params = params])

\* Whatever is thrown: the application asks for a new quote.
Retry == [app EXCEPT !.at = "quote", !.since = 0, !.config = None,
                     !.executor = Null, !.unread = FALSE, !.total = 0, !.tx = None]

getDefaultAppConfig ==
  /\ app.at = "quote"
  /\ App([app EXCEPT !.at = "ua_config", !.since = changes,
                     !.config = settings.default_config])

getAppConfig ==
  /\ app.at = "ua_config"
  /\ App([app EXCEPT !.at = "oracle_fee",
            !.config = IF settings.ua_config = None THEN app.config
                       ELSE merge(settings.ua_config, app.config)])

\* getFee of a signer and its share: nothing if it has no price.
SignerFee(signer) ==
  LET fee == settings.signer[signer].fee
  IN  IF fee = None THEN 0 ELSE fee.base_fee + fee.fee_per_byte * PayloadSize

getOracleFee ==
  /\ app.at = "oracle_fee"
  /\ App([app EXCEPT !.at = "relayer_fee", !.total = SignerFee(app.config.oracle)])

getRelayerFee ==
  /\ app.at = "relayer_fee"
  /\ App([app EXCEPT !.at = "treasury_fee", !.config = None,
                     !.total = @ + SignerFee(app.config.relayer)])

\* Mutant of WithTreasuryFee: rounded up.
TreasuryRoundedUp(total) ==
  total + (settings.treasury_fee_bps * total + BpsDenominator - 1)
            \div BpsDenominator

WithTreasuryFee(total) ==
  total + (settings.treasury_fee_bps * total) \div BpsDenominator

getTreasuryFee ==
  /\ app.at = "treasury_fee"
  /\ App([app EXCEPT !.at = "executor", !.total = WithTreasuryFee(@)])

\* What is stored for the application, whatever its version.
getExecutor ==
  /\ app.at = "executor"
  /\ App(IF settings.executor = None
         THEN [app EXCEPT !.at = "default_executor"]
         ELSE [app EXCEPT !.at = "params", !.executor = settings.executor.executor])

getDefaultExecutor ==
  /\ app.at = "default_executor"
  /\ App([app EXCEPT !.at = "params",
                     !.executor = settings.default_executor.executor])

\* config holds the parameters the fee is computed with.
getDefaultAdapterParams ==
  /\ app.at = "params"
  /\ App([app EXCEPT !.at = "executor_fee", !.unread = FALSE,
            !.config = IF app.params = None THEN settings.default_params
                       ELSE app.params])

\* Whatever keeps the table from being read, and not only a missing entry,
\* stands for parameters without any gas.
defaultAdapterParamsUnread ==
  /\ app.at = "params" /\ app.params = None
  /\ faults < MaxFaults
  /\ faults' = faults + 1
  /\ app' = [app EXCEPT !.at = "executor_fee", !.unread = TRUE,
                        !.config = defaultParams(0)]
  /\ UNCHANGED <<settings, changes, bundle, chain, pool>>

\* The executor's quoteFee: nothing if it has no price, or is no executor.
ExecutorFee(executor, params) ==
  LET fee == IF executor = Null THEN None ELSE settings.worker[executor].fee
  IN  IF fee = None THEN 0
      ELSE ((params.gas * fee.gas_price + params.airdrop) * fee.price_ratio)
             \div PriceRatioDenominator

getExecutorFee ==
  /\ app.at = "executor_fee"
  /\ App([app EXCEPT !.at = "simulate", !.config = None, !.executor = Null,
                     !.total = @ + ExecutorFee(app.executor, app.config)])

\* Mutant of estimateGas: what is refused is tried again with the same fee.
TriedAgain ==
  /\ app.at = "simulate" /\ Sends(app.total, app.params)
  /\ App([app EXCEPT !.at = "sign"])

\* estimateGas simulates the transaction and throws if it would fail.
estimateGas ==
  /\ app.at = "simulate"
  /\ App(IF Sends(app.total, app.params) THEN [app EXCEPT !.at = "sign"] ELSE Retry)

\* generateTransaction and submission: the sequence number is the chain's.
Submit ==
  LET tx == [id |-> app.attempts, sequence |-> sequence,
             fee |-> app.total, params |-> app.params]
  IN  /\ app.at = "sign"
      /\ pool' = pool \union {tx}
      /\ app' = [app EXCEPT !.at = "wait", !.tx = tx, !.attempts = @ + 1]
      /\ UNCHANGED <<settings, changes, bundle, chain, faults>>

\* The chain executes a transaction, once, or drops it for its number.
Execute(tx) ==
  LET answer(at) == app' = IF app.tx = tx THEN [app EXCEPT !.at = at] ELSE app
  IN  /\ pool' = pool \ {tx}
      /\ UNCHANGED <<settings, changes, bundle, faults>>
      /\ \/ /\ tx.sequence # sequence
            /\ answer("failed")
            /\ UNCHANGED chain
         \/ /\ tx.sequence = sequence
            /\ sequence' = sequence + 1
            /\ IF Sends(tx.fee, tx.params)
               THEN /\ nonce' = nonce + 1
                    /\ balance' = Paid(tx.fee, tx.params)
                    /\ answer("sent")
               ELSE /\ answer("failed")
                    /\ UNCHANGED <<nonce, balance>>

\* A transaction that was not executed in time never is.
Expire(tx) ==
  /\ faults < MaxFaults
  /\ faults' = faults + 1
  /\ pool' = pool \ {tx}
  /\ app' = IF app.tx = tx THEN [app EXCEPT !.at = "failed"] ELSE app
  /\ UNCHANGED <<settings, changes, bundle, chain>>

\* waitForTransaction answers, or not at all.
Confirm ==
  \/ /\ app.at = "failed"
     /\ App(Retry)
  \/ /\ app.at = "sent"
     /\ App([Retry EXCEPT !.at = "idle", !.params = None, !.done = @ + 1])

\* Every other request that gets no answer throws, at whatever step; only
\* parameters that were given are not asked for.
Unanswered ==
  /\ app.at # "idle"
  /\ app.at = "params" => app.params = None
  /\ faults < MaxFaults
  /\ faults' = faults + 1
  /\ app' = Retry
  /\ UNCHANGED <<settings, changes, bundle, chain, pool>>

------------------------------------------------------------------------------
Init ==
  /\ settings \in InitialSettings
  /\ changes = 0
  /\ bundle = NoBundle
  /\ nonce = 0
  /\ balance = [a \in Accounts |-> IF a = UA THEN Wallet ELSE 0]
  /\ sequence = 0
  /\ pool = {}
  /\ app = Idle
  /\ faults = 0

AppStep ==
  \/ getDefaultAppConfig \/ getAppConfig \/ getOracleFee \/ getRelayerFee
  \/ getTreasuryFee \/ getExecutor \/ getDefaultExecutor
  \/ getDefaultAdapterParams \/ getExecutorFee \/ estimateGas \/ Submit
  \/ Confirm

ExecuteSome == \E tx \in pool : Execute(tx)

Next ==
  \/ OthersChange
  \/ \E config \in [UlnFields -> Signers] : StartBundle(config)
  \/ BundleStep \/ BundleFails
  \/ Order \/ AppStep \/ defaultAdapterParamsUnread
  \/ ExecuteSome
  \/ \E tx \in pool : Expire(tx)
  \/ Unanswered

Fairness == WF_vars(Order) /\ WF_vars(AppStep) /\ WF_vars(ExecuteSome)

Spec == Init /\ [][Next]_vars /\ Fairness

------------------------------------------------------------------------------
\* An executor stored with DEFAULT_VERSION, which the SDK takes for the one
\* that is used.
StoresDefault == settings.executor # None /\ settings.executor.version = 0

CanQuote(params) == quote_fee(params) # Abort /\ ~StoresDefault

\* The fee the SDK puts together from a dozen reads is the one the chain
\* computes, to the unit, whenever nothing changed since its first read and
\* the chain quotes at all (endpoint.ts quoteFee against endpoint::quote_fee).
\* It is the library's share alone, and never anything else, if the default
\* parameters could not be read: executor.ts:56-58 takes any error for no gas.
QuoteIsExact ==
  app.at = "simulate" /\ app.since = changes /\ CanQuote(app.params)
    => app.total = IF app.unread THEN MsgLibQuote ELSE quote_fee(app.params)

\* However much a transaction brings along and whatever changed since its fee
\* was quoted, a message that is sent costs its sender what endpoint::quote_fee
\* says at that moment, and every coin of it is somebody's afterwards.
ChargedIsQuoted ==
  [][nonce' # nonce =>
       /\ \E tx \in pool \ pool' :
            balance[UA] - balance'[UA] = quote_fee(tx.params)
       /\ SumFunction(balance') = SumFunction(balance)]_vars

\* A node that answers refuses a message with a fresh quote for a cause only: a
\* setting that changed on the way, a message that nobody can send now, a
\* wallet without the fee, or default parameters that could not be read and
\* made the quote too low (executor.ts:56-58).
RefusedForACause ==
  [][app.at = "simulate" /\ app'.at = "quote" /\ faults' = faults =>
       \/ app.since # changes
       \/ ~CanQuote(app.params)
       \/ balance[UA] < quote_fee(app.params)
       \/ app.unread /\ app.total < quote_fee(app.params)]_vars

\* Once the chain quotes a fee the application can pay for the message it is
\* at, and keeps doing so, changed prices, unread settings, lost answers and expired
\* transactions do not keep it from sending all its messages.
OrdersAreSent ==
  <>[](CanQuote(app.params) /\ quote_fee(app.params) <= balance[UA])
    => <>(app.done = MaxOrders)

==============================================================================
