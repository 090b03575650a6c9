# LayerZero on Aptos: models, checks and proofs

This directory holds TLA+ models of the LayerZero contracts for Aptos
(`layerzero/`, `layerzero-common/`, `msglib/`), of the applications on them
(`apps/`), and of the TypeScript that deploys, configures and uses them (`sdk/`,
`apps/bridge-evm/tasks`), the TLC configurations that check them, and proofs for
TLAPS. All paths below are relative to the repository.

## The system

A *user application* (UA) is a Move type; its account owns one *channel* per
remote endpoint (chain id, address). Messages that leave are numbered by the
channel. A message that arrives is verified by the *ultra light node* (ULN): the
oracle that the UA chose submits the hash of the packet with the number of
confirmations it has seen (`uln_receive::oracle_propose`), the relayer that the
UA chose submits the packet (`uln_receive::relayer_verify`), and if both reach the
number of confirmations the UA requires, `endpoint::receive` puts the hash of the
payload into the channel under the packet's nonce. The application consumes
hashes in nonce order through `endpoint::lz_receive`, passing the payload itself.

Every entry function is a Move transaction: it runs alone, and an abort undoes it.
Concurrency is between transactions of many parties (oracles, relayers, executors,
owners, users, administrators), each of which reads state that others have
changed since. In the models every transaction is one action, and an assertion is a
guard.

Off the chain, the SDK and the tools are asynchronous programs. Each reads the chain
one resource at a time, decides on what it has read, and sends transactions
later, which are executed, rejected, expire, or go unanswered. Between any two of these
steps others may change what was read, and the process may end. In the models every
read and every transaction is one action.

| component | state | operations | interacts with |
|---|---|---|---|
| `channel.move` | `Channels`: outbound nonce, inbound nonce, table of payload hashes per remote | register, outbound, receive, inbound | called by endpoint |
| `endpoint.move` | `UaRegistry`, chain id, message library capabilities | register_ua, send, receive, lz_receive, set_* | calls channel, msglib_config, executor_config; called by ULN and UAs |
| `msglib-v1/v1-0/uln_receive.move` | `ProposalStore`: confirmations by oracle and hash | oracle_propose, relayer_verify | reads uln_config, calls endpoint::receive |
| `msglib-v1/v1-0/uln_config.move` | default and UA configuration by chain | set_default_config, set_ua_config, get_uln_config | read by uln_receive and msglib_v1_0 |
| `msglib_config.move`, `semver.move` | registered libraries, send/receive version by UA and chain | set_default_*, set_*_msglib, assert_receive_msglib | read by endpoint |
| `executor_config.move`, `executor_cap.move` | registered executors, executor by UA and chain | the same shape as msglib_config | read by endpoint::send |
| `msglib_v1_0.move`, `packet_event.move`, `uln_signer.move`, `acl.move` | fees and allow lists of oracles and relayers, treasury | send, fee payment | called by endpoint::send |
| `executor/executor_v1.move`, `executor_router.move` | fees, prices, airdrop jobs | request, airdrop | called by endpoint::send |
| `bulletin.move`, `admin.move` | key-value boards; the configuration administrator | write, transfer | |
| `app/lzapp/lzapp.move`, `remote.move` | trusted remotes, stored payloads, minimum gas | set, force_resume, store_next_payload, remove_stored_paylaod, send | used by every UA |
| `apps/counter` | a number | lz_receive, retry_payload | UA |
| `apps/oracle` | administrator, validators, threshold, proposals | propose, set_validator, set_threshold, transfer_admin | proposes to uln_receive |
| `apps/bridge` (`bridge.move`, `limiter.move`) | coins, tvl by coin and chain, claimable amounts, pauses, limiter | register_coin, set_remote_coin, send, lz_receive, claim_coin | UA; peer of TokenBridge.sol |
| `apps/bridge-evm/contracts/TokenBridge.sol` | supported tokens, tvl, fees, pauses, emergency lock | sendToAptos, receive, withdrawFee, withdrawTVL | peer of bridge.move |
| `apps/moveflow` | payment streams | create, extend, close, withdraw, pause, resume | UA |
| `layerzero-apps/sources/oft.move`, `apps/example` | omnichain token supply or lock | send, lz_receive, claim | UA |
| `packet.move`, `serde.move`, `utils.move` | none | encode, decode, hash, guid | used by all |
| `sdk/src` | none (a transaction waits for its answer) | quotes, getters and payloads of settings, bundles of settings, sendAndConfirmTransaction | reads resources, calls entry functions |
| `sdk/tasks/wireAll.ts` | the plan: transactions by account | read and compare all settings, prompt, send | the settings of all contracts |
| `sdk/tasks/deploy`, `sdk/tasks/index.ts` | build directories | compile, check, publish, configure | the packages on the chain, `msglib_cap`, `endpoint::init` |
| `apps/bridge-evm/tasks` | deployment files, the plan by network | deployBridge, wireAll | TokenBridge's owner calls |

What is hard here: messages arrive verified in any order, repeatedly and with claims
made before a reorganisation; appointments and library versions change between the
two halves of a verification; approvals outlive memberships and thresholds move;
an ordered queue is blocked by its first message; a message fails and is retried
after the state it relied on has moved; two ledgers in different units must agree
although neither sees the other; fees are quoted from a dozen reads and charged later; tools
that change two dozen settings with as many transactions are interrupted, raced by
another operator, and run again. The list with lines is `hazards` in `PROJECT.json`.

What makes each part correct:

- *channel*: each nonce is handed over once, in order, with the hash accepted last;
  nothing stale stays behind.
- *ULN and endpoint*: with one honest party of the two, only final packets addressed
  to this UA on this chain are accepted, and none is replaced by another one;
  with both honest, every final packet is accepted.
- *application*: messages are taken in order, handled at most once, and none waits
  forever.
- *oracle*: a minority proposes nothing; the contract and the ULN agree.
- *limiter*: the outflow of any stretch of one window is bounded.
- *bridge*: coins on Aptos = tvl on Aptos; books of both ends agree; the contract holds
  its tvl; what was burned can be paid out.
- *sending*: the quote is exact, the charge is the quote, nothing of a payment is
  lost, and an application that asks again gets its messages sent.
- *wiring*: a run that says it wired everything did; a stale plan undoes nothing;
  running the tool again converges; a bridge is trusted last.
- *deployment*: a command that reports success leaves a configured endpoint, fails
  only for a cause, and succeeds when run again.

## The modules

| module | models | kind |
|---|---|---|
| `Channel` | `channel.move` | component |
| `ChannelProofs` | theorems of `Channel` | proofs |
| `UlnReceive` | `uln_receive.move`, `uln_config.move`, the receive half of `msglib_config.move` and `endpoint.move`, over an INSTANCE of `Channel`; the source chain, oracles and relayers as environment | composition |
| `UlnProofs` | theorems of `UlnReceive` | proofs |
| `OrderedInbox` | what a UA is promised about its messages | abstract specification |
| `LzApp` | `lzapp.move`, `remote.move`, `counter.move` over an INSTANCE of `Channel`; implements `OrderedInbox` | composition, refinement |
| `OracleMultisig` | `apps/oracle/sources/oracle.move` | component |
| `Limiter` | struct `Limiter` of `limiter.move` and its operations, as operators | component |
| `LimiterWindow` | one limiter under a clock, with its outflow as history | component |
| `CoinBridge` | `bridge.move` with a limiter per coin | component |
| `TokenBridge` | `TokenBridge.sol` | component |
| `Bridge` | both ends of the bridge and the messages between them | composition |
| `BridgeProofs` | theorems of `Bridge` | proofs |
| `Send` | `endpoint::send` and what it pays (`msglib_v1_0.move`, `uln_signer.move`, `acl.move`, `executor_config.move`, `executor_v1.move`), the SDK's quote, bundle and transaction | composition |
| `SendProofs` | theorems of `Send` | proofs |
| `AptosSettings` | the settings as resources; the SDK's getters and payloads; the entry functions that set them | component |
| `WireAll` | `sdk/tasks/wireAll.ts` over `AptosSettings`, with other operators, administrators and services | composition |
| `LimiterWireAllProofs` | theorems of `LimiterWindow` and of `WireAll` | proofs |
| `Deploy` | `sdk/tasks/index.ts`, `sdk/tasks/deploy/*`, with the publishing rules of Aptos | component |
| `WireEvm` | `apps/bridge-evm/tasks/wireAll.ts`, `deployBridge.ts`, `utils/crossChainHelper.ts`, with the mempools of the networks | component |
| `LzAppWireProofs` | theorems of `LzApp`, the refinement among them, and of `WireEvm` | proofs |
| `OracleDeployProofs` | theorems of `OracleMultisig` and of `Deploy` | proofs |
| `Induction` | induction over finite sets and numbers, sums of functions, powers of two, and lists and their elements, for the proofs | proofs |
| `MC*` | symmetry sets for TLC | instances |

Actions and operators have the names of the functions they stand for; variables
those of the resource fields. `WireEvm` and `Deploy` prefix the names of their specifications
(`WireSpec`, `DeploySpec`), since each is extended together with another component where it
is proved about. Some definitions are preceded by *mutants*: the
same definition with a plausible bug. Substituting one for its original makes
TLC report the property that `PROJECT.json` names with it; they show what each
property is sensitive to and are used for nothing else.

### Channel

`channels[ua][remote]` is struct `Channel`. A channel that `get_channel_mut` has
not created reads like an empty one, so all exist from the start. `accepted` and
`handed` are history: the hash accepted last and the hash handed over, by nonce.

### UlnReceive

`onchain` and `depth` are the source chain, which numbers the packets of a path,
makes blocks and reorganises up to `Finality` blocks. Honest parties claim `Finality`
or more confirmations only for packets that have them; other parties claim
anything; honest parties, too, may claim less than `Finality` for a packet that is
reorganised away. Two assumptions are made of configuration, as conjuncts of
`set_default_config` and `set_ua_config`: no UA ever has in force a pair of a
dishonest oracle and a dishonest relayer, or fewer confirmations than `Finality`
(`Trusted`). Without them the promise is not made. All packets come from one
source chain, so that the configuration for it is indexed by the UA alone. An unset
default version reads as BLOCKING, which aborts at the same place. `address_size` is whether
the chain's address size was set, without which `relayer_verify` aborts; it is set once,
before or after everything else.

### LzApp and OrderedInbox

Packets that reach this channel are the genuine ones of `UlnReceive`, in any order and
any number of times. A handler may reject a payload (`Poison`), which aborts the
transaction. `fate` of `OrderedInbox` is computed from inbound nonce, store and
effects: that is the refinement mapping. A dropped message and one that was
consumed without effect are the same there.

### OracleMultisig

The environment assumption `Prudent`: the administrators make a dishonest account a
validator only under a threshold above the number of dishonest accounts, whether or
not these are validators at the time: approvals survive removal, so it is
not enough to count members. Fees, allow lists and withdrawals are left out.

### Limiter, LimiterWindow

`outflow[t]` is the amount let through in second t since the coin was registered, or since
its window was last made shorter; `span` is the window length then, `peak` the highest cap
since, `longest` the longest window. The history runs on across caps that are lowered or
raised, pauses, windows made longer and windows of 0: `set_limiter` keeps `t0_sec` and `sum_sd`, and the
bounds hold across them. A shorter window is where they end: what was counted under
the old one is halved as if several windows had passed.
`getLimitedAmount` is what the SDK computes from the limiter it has read: the amount it
says can still be sent.

### CoinBridge, TokenBridge, Bridge

The ends are modelled apart and composed in `Bridge` with an ordered queue per
direction and chain. LayerZero's part is taken as `OrderedInbox` promises it;
on the EVM side `NonblockingLzApp` keeps a message that fails and lets anyone retry
it. A token and its coin have one name. Rates are one per end. `sendETHToAptos` and
the unwrap flag move the contract's WETH by the same amounts as a token and are
not told apart. Adapter parameters and message fees only restrict the sender and
are left out, and so is `get_coin_capabilities`, with which the administrator could
mint. Amounts are unbounded: that `lz_receive` aborts where a sum or product is no `u64`
(`bridge.move:410`, `:412`, `:521`), or where `coin::deposit` finds the receiver's account frozen,
is left out. Each of these would hold up the queue like any abort, so `QueueMoves` is shown
for amounts and accounts that meet none of them. `administration`, chosen once for a behaviour, says which kinds of
administrative calls it has, so that kinds that do not touch each other are not multiplied.

### Send

`settings` is everything that decides what a message to one chain costs and whether it may
be sent. `OthersChange` is one setting changed by its owner. `bundle` is
`setConfigBundle`, which sets the application's configuration one field at a time and may
fail in between. `app` walks through `quoteFee` read by read, then simulates, signs and
waits. A message's bytes are a length, the treasury's and executors' ratios have small
denominators, and `u64` is small, so that sums and products overflow within the
bounds. Of the fields of a configuration only the two that name someone to be paid are
kept. Movements of coins are `balance`: what the sender brings along (`tx.fee`) goes to
oracle, relayer, treasury and executor, and the rest back.

`defaultAdapterParamsUnread` is the one getter that answers without having read anything:
it catches whatever the table read throws, a timeout as well as a missing entry
(`executor.ts:56-58`), and answers a gas of 0. The quote then lacks the executor's part
although no setting changed; `app.unread` remembers it. The other getters throw anything
but a missing entry, which is `Unanswered`.

### AptosSettings and WireAll

`chain[slot][key]` is one setting, `None` if the table has no entry. A *payload* is an
entry function with its arguments; `Executable` says that it would not abort and
`Executed` what it writes. A run of `wireAll` reads (`Reads`, in the order of the code),
compares (`Diff`), and appends the transaction to the plan of an account. `Send(o, a)` is
the loop of one account; the five loops interleave. `AdapterParamsUnread` is the read of the
default adapter parameters that fails unnoticed and compares a gas of 0. `quiet` is history: nobody with
another intention changed a setting since the run began. An operator's configuration is
a record with the fields of `sdk/tasks/config`. The names `WireAllInit`, `WireAllNext`
and `WireAllSpec` tell it from `LimiterWindow`, with which it shares a module of proofs.

### Deploy

A command is the list of its steps: compile a package, read whether it is there, publish
it, configure it if it was not. `build` is what is in the build directories. Publishing
asserts that the dependencies are there, and `init_module` of bridge and counter that the
endpoint is. `staff`, chosen once, says who runs which commands. `halfway` is history: the packages whose configuration was cut off, or failed
because another command was at the same.

### WireEvm

`bridge[n]` has one record per `TokenBridge` ever deployed on a network; `deployments[n]`
is the one that the deployment file names. A run looks a contract up once, as the cache of
`crossChainHelper` does. All operators use one account; its transactions are mined in the
order they were sent (nonces). `GiveUp` is a `wait()` that throws: the transaction stays in
the queue. Fork mode, which impersonates owners, is for tests and left out.

## Runs

| run | question | bounds, and why they are enough |
|---|---|---|
| `channel` | order, uniqueness, no stale hashes | 3 nonces: one handed over, one stored ahead, one gap; 2 remotes and 2 hashes tell mixed-up channels and replaced hashes apart |
| `uln` | `Genuine`, `NoSubstitution`, and under fairness `FinalIsAccepted` | one nonce claimed by 2 payloads; an honest and a dishonest oracle and relayer; finality 2, so that a claim of 1 is early; every configuration, library 1.0 or the default in force, and reception blocked until a first default version is set |
| `lzapp` | refinement of `OrderedInbox`, `StoredIsPending`, `EveryMessageIsTaken` | 2 senders, 2 messages, a payload that is rejected |
| `oracle` | `FakeNeverProposed`, `ProposedIsHighestSubmitted`, `OverThresholdIsFinal`, `ReachableIsProposed` | 3 accounts with one dishonest, a genuine and a false hash, 2 confirmation numbers, thresholds up to 3 |
| `oracle_threshold` | `EnoughValidators`, violated | see below |
| `limiter` | `OutflowBounded`, `LoweredCapBinds`, `QuotedIsAccepted` | 8 seconds, windows of 0, 2 and 3, caps 1 and 3, changed at any second: stretches that straddle windows and reconfigurations, and windows that are skipped |
| `bridge` | `SupplyMatchesTvl`, `BooksAgree`, `BurnedIsLiquid` | one coin on 2 chains, 3 messages at a time and a tvl of 3, a rate of 2 with dust on Aptos, under emergency withdrawals or the limiter with its clock |
| `bridge_coins` | `BooksAgree`, `SupplyMatchesTvl`, `TvlIsHeld`, `QueueMoves` | 2 coins on one queue, a rate of 2 with dust on both ends, a charging token, under all pauses, a fee of all or nothing with emergency withdrawals, or limits with drops |
| `send` | `QuoteIsExact`, `ChargedIsQuoted`, `RefusedForACause`, `OrdersAreSent` | one message from 5 initial settings, one setting or bundle changed at any moment, one answer lost, read swallowed or transaction expired; a `u64` of 35, so that quotes overflow |
| `wire_all` | `SuccessIsWired`, `NothingUndone`, `RerunsConverge` | a second coin, a third validator and a relayer to come, wired by 2 operators, with one trouble of any kind at any moment |
| `deploy` | `ReportedIsConfigured`, `NoFailureUnprovoked`, `ReportedIsCurrent`, `RerunsDeploy` | 2 operators of LayerZero, or one of it and one of the counter, and one trouble of any kind; or one operator of it, the counter and the bridge, and two troubles, so that a compilation fails where a build of old sources is left |
| `wire_evm` | `SuccessIsWired`, `TrustedIsReady`, `RerunsConverge` | 2 operators, one network with its wrapped ether, one trouble of any kind |

`MaxTroubles` of the last three is a budget shared by everything that goes wrong: crashes,
lost transactions and answers, reads that fail unnoticed, settings changed by others, failed
compilations, changed sources, removed deployments. One trouble at every point of two interleaved runs already covers
each kind of fault against each step of the other operator; two faults in sequence were
left out for their cost, except for the single operator of `deploy`, since a stale build takes two.

What one run cannot afford is covered elsewhere. Several UAs and destination chains, with
packets submitted to the wrong one, have no instance of their own; `GenuineHolds` is
proved for them all. Initial chains of `wire_all` that were never wired, configurations that
disagree and executor prices that are no `u64` are allowed by the module and not run.

What reconfiguration does not reach: `uln` starts with reception blocked and never blocks it
again; `QuotedIsAccepted` says nothing of a window of 0, where both sides divide by zero, and
the reset of the chain after 64 windows is beyond the clock of `limiter` and covered by
`QuotedIsAcceptedHolds` alone.

A finding, `oracle_threshold`: `set_threshold` asserts that there are enough
validators for the threshold it *replaces* (`oracle.move:154-157`), not for the new one. One
call leaves the configuration with fewer validators than the threshold, which by one can still be
repaired.
`set_validator` asserts afterwards what `set_threshold` thereby lets pass
(`oracle.move:144-147`). When the new threshold exceeds the number of validators by two
or more, every later `set_validator` and `set_threshold` aborts
(`OverThresholdIsFinal`, which holds): the oracle can neither be repaired nor propose
a new pair.

Fairness. Oracles, relayers and executors are off-chain programs that poll; weak
fairness of their transactions says that they keep running and that the chain
includes what they submit. `uln` assumes it of honest parties only, `oracle` of honest
validators only, `lzapp` of relayers, executor and, where a payload is
rejected, of the owner (nobody else can unblock the path), `bridge_coins` of the executor.

Of the tools it assumes what an event loop and a patient operator give. An asynchronous
program that can go on goes on, with each of its concurrent loops (weak fairness of reads
and sends in `wire_all`, `wire_evm`, of a running command's steps in `deploy`, of the
application's steps in `send`). Operators run a tool again whenever it may be run; for one
command, or one set of networks, among several this is strong fairness, since another
choice disables it for a while. An operator does not refuse every plan
(strong fairness of `Proceed`, which the next plan enables again). Relayer and
executor register some day, and deployBridge is run where there is no bridge. Nobody
is assumed to interrupt, to change a setting, or to expire a transaction: these are
bounded instead, which is what lets the others converge.

### What the models show beside the properties

These are facts of the code that the models reproduce, and that properties
except or name:

- `wireAll` (Aptos) leaves a default version that agrees in its major *or* its minor
  number (`VersionKept`), takes the version to send with from the version to receive with,
  leaves executor prices that are set, and never changes what a coin was registered with,
  its remote address, or a chain address size once set.
- With a threshold above what the next planned `set_validator` leaves, the oracle's
  transactions fail in every run (`Unreachable`): validators are planned before the
  threshold, whatever the two are.
- The airdrop cap of POLYGON in `sdk/tasks/config/mainnet.ts:143`, 200 ether, is no `u64`: the
  executor's `set_fee` cannot be encoded.
- An answer that was lost does not tell whether the transaction was executed; an
  application that asks again may send the message twice. `OrdersAreSent`
  promises no more than that each is sent.
- The SDK reads a missing price as 0, knows neither access lists nor caps, and takes an
  executor stored under version 0 for the one in force (`StoresDefault`).
  Where the chain would abort, its quote is some number.
- A `layerzero` command cut off between publishing and configuring is never made good:
  later runs find the package, skip the configuration and report success. Two
  at once may both find their package missing and one then fails. A
  checkout that is older than the chain's version publishes that older version.
- `deployCounter` logs a failed compilation and publishes what an earlier one left, also over a
  newer version (`ReportedIsCurrent` excepts it).
- The SDK's `getDefaultAdapterParams` takes any error for missing parameters. A quote made
  then lacks the executor's fee, and is refused at the simulation although nothing changed
  (`QuoteIsExact` and `RefusedForACause` name the case); a new quote goes through
  (`OrdersAreSent`). `wireAll` plans a `set_default_adapter_params` that changes nothing, or
  shows an old value of 0.
- A limiter's window made shorter lets what was just sent be forgotten at once: the
  windows since `t0_sec` are counted in the new length.
- `wireAll` (EVM) sets `weth` only where none is set, and prints errors without
  failing. A bridge deployed anew is trusted by nobody until the Aptos side is changed by
  hand.

## Proofs

`ChannelProofs` proves of `Channel`, for all sets of UAs, remotes and hashes and any
bound on nonces, that `TypeOK`, `NoStaleHash` and `HandedInOrder` are invariants and that
`HandedOnce` holds. The inductive invariant is the conjunction of the three:
`HandedInOrder` alone is not inductive, because `inbound` hands over what the table
holds, which has to be typed, and `HandedOnce` needs that no hash is left in the table at
or below the inbound nonce. The only assumptions are those of
`ChannelAssumption`.

`UlnProofs` proves of `UlnReceive`, from `UlnAssumption` (any parties, any finality up to
the bound on confirmations). What the specification itself assumes is part of its actions
and so of every theorem: honest parties make only `Truthful` claims, every configuration in
force is `Trusted`, a reorg is of at most `Finality` blocks, hashes do not collide.


- `ImplementsChannel`: each step is a step of `Channel` or leaves the channels alone.
  With `ChannelProofs` taken as an instance, all that is proved of `Channel` holds here
  (`ChannelsInOrder`).
- `GenuineHolds`. `Genuine` needs three facts that are part of `IInv`: an honest oracle's
  proposal of `Finality` or more is of a final packet (`OracleKnows`); the configuration in
  force names an honest party and requires final packets (`ConfigTrusted`); final
  packets stay, since a reorg is of at most `Finality` blocks (`FinalStable`). Then
  `VerifiedFinal` follows: whichever of the two parties is honest, what
  `relayer_verify` lets through is final.
- `NoSubstitutionHolds`, from `GenuineHolds` before and after the step and from
  `NonceUnique`: a path never gives a nonce to two packets on chain, so the
  packet behind the hash accepted first and the one behind the hash that overwrites it are
  one.

`LzAppWireProofs` proves of `LzApp`, for any senders, payloads and number of messages, that it
implements `OrderedInbox` (`ImplementsInboxHolds`), that `StoredIsPending` is an invariant
and the types are kept. What `ChannelProofs` proves of a channel is taken as an instance.
The inductive invariant adds two facts: the hashes that wait in the channel are
those of what was sent (`SentIsStored`), and what was handled was consumed (`HandledIsConsumed`).
The refinement follows case by case: a step consumes one message with effect, stores one,
retries one, drops one, or changes no message's fate. From `LzAppAssumption`: the
hash that stands for an empty entry is no payload's. Different payloads have different hashes
by the definition of `Sha3`.

`OracleDeployProofs` proves of `OracleMultisig`, for any accounts, hashes, thresholds and
numbers of confirmations, all its safety properties.

- `FakeNeverProposedHolds`. That nothing false is proposed is not inductive. It needs that
  a proposal has nobody's approval twice, even of a validator removed and added again
  (`ApprovedOnce`), that a false hash has approvals of dishonest accounts only (`FakeByBad`),
  and `Prudent`. The list of approvals is then no longer than the dishonest accounts are many,
  and those are fewer than the threshold at the moment of the proposal.
- `ProposedIsHighestSubmittedHolds`, with the same types: what the ULN has of a hash is among
  what was submitted and nothing submitted is above it.
- `OverThresholdIsFinalHolds`: neither `set_threshold` nor `set_validator` passes its
  assertions when the threshold is two or more above the number of validators.

`LimiterWireAllProofs` proves of `LimiterWindow`, for any caps, windows, pauses, amounts and
times:

- `OutflowBoundedHolds`: in any stretch of one window length flow out at most one and a
  half times the highest cap, across every `set_limiter` but one that makes the window shorter. The invariant
  says of the outflow, second by second, what the one number the limiter keeps stands for:
  nothing flowed out after its window (`NothingLater`); its sum is at least the outflow of its window
  and half of that of the stretch before, each within the highest cap (`SumCounts`). Where the
  window was made longer meanwhile, stretches are measured in the shortest length and the limiter counts in
  the longest (`OnRecord`). A stretch lies in the two last windows, or in the past, where it was
  bounded before (`StretchesBounded`).
- `LoweredCapBindsHolds`, from `SumCounts` after the step: a sum that the chain lets in is within
  the cap in force, whatever caps there were before.
- `QuotedIsAcceptedHolds`: `getLimitedAmount` of the SDK is exactly what the chain lets in. The
  SDK divides by a power of two of any size where the chain resets to 0 from 64 windows on.
  These are the same for a sum of 64 bits, so the theorem has the hypothesis that the caps are
  numbers of 64 bits (`CapsAreU64`): `cap_sd` is a `u64`.
- `TypeCorrect`: the window has begun, so that `try_insert` never subtracts below 0.

`BridgeProofs` proves of `Bridge` all its safety properties, for any decimals, fees, users,
chains and coins, tokens that charge for transfers, limits, emergency withdrawals and drops,
from `CoinBridgeAssumption` and `BridgeAssumption`.

- `TvlIsHeldHolds`, inductive with the types of the EVM ends and of the messages to them
  (`EvmTypeOK`): what is left is arithmetic, stated as lemmas (rounding down never counts more
  than there is, conversion is linear, a payout is no more than the message is worth).
- `SupplyMatchesTvlHolds` and `BooksAgreeHolds`. The two ledgers are proved together
  (`LedgerInv`): what a message carries leaves one sum and enters another, and `receive` and
  `send` of Aptos change supply and tvl by the same. They need that limiters' windows have begun
  (`WindowsBegun`, so that the time since is a number and a limiter stays one) and that nothing is counted for a coin and chain that are not set up
  (`UnsetIsEmpty`, because `set_remote_coin` begins at 0). Supplies and books are sums over users,
  chains and queues; how they change is proved in `Induction`.
- `BurnedIsLiquidHolds` follows from the books, and `TypeCorrect` from
  `TvlIsHeld`: a contract's holding is never negative.

`SendProofs` proves of `Send`, for any prices, divisors, payload sizes, access lists, settings
and their changes:

- `QuoteIsExactHolds`. The inductive invariant `QuotedSoFar` says what part of the sum the SDK
  has at each of its reads: as long as nothing has changed since the first one, the
  part that belongs to the settings as they are, without the executor's if its
  parameters were not read (`app.unread`). Each part the chain computes with arithmetic that
  aborts is the SDK's unbounded one or nothing (`SignerQuoteExact`, `TreasuryQuoteExact`,
  `ExecutorQuoteExact`), with the same roundings.
- `ChargedIsQuotedHolds`. `SendsIfCovered` adds up what `msglib_v1_0` and `executor_v1` take out
  of a fee one after the other: it goes through exactly if the quote is defined and covered, and
  leaves the difference. `PaidBalances` follows the coins through the five deposits.
- `RefusedForACauseHolds`, from these two: a quote that could not read the parameters is
  refused only where it falls short of the fee.

`SendAssumption` says what the theorems rest on: prices, gas and airdrops are naturals and
divisors are not 0; signers, executors, the application and the treasury are different accounts;
the wallet, a `u64`, is within `MaxU64`; the initial settings are among `Settings`.
No bound on orders, changes and faults is used by any proof.

The second part of `LzAppWireProofs` proves of `WireEvm`, for any operators, networks, sets of
networks, lists of coins, fees and number of troubles:

- `SuccessIsWiredHolds`. The heart of the invariant is `Handled`: in a run that nobody upset,
  every setting that is to be read is still to be read, or is as configured, or
  the call that makes it so is in the plan. A read moves a setting from the first to one of
  the others, a mined transaction from the third to the second, whoever sent it (`CalledMeets`);
  and no call of any plan makes a setting less configured (`CalledKeeps`). So where
  nothing is left to read or to send everything is as configured (`DoneIsMet`). A mined
  transaction is the one its operator waits for: the operator's plan begins with it
  (`Links`), and there is one at most (`Once`).
- `TrustedIsReadyHolds`. In every plan, at every bridge, what the bridge needs
  is there, or comes before `setTrustedRemote` in what is sent or read (`NeedsFirst`); so
  it is there when `setTrustedRemote` is sent, and when it is mined, however late,
  because nothing is ever unregistered (`FitToTrust`). This needs no run to be quiet.
- What is read of a network's coins, coin by coin, is defined by recursion over the
  list; `CoinsReadExists` and `ReadsAre` say what is in it and that the remote is last of
  what matters.

`WireEvmAssumption` says that coins are lists, `nobody` is no operator, and the
configuration is of numbers. The proof needed one change of the model: the cases of
`Planned` (nothing to send; everything read) overlapped in a `CASE`, of
which TLC took the first and the logic any.

The second part of `LimiterWireAllProofs` proves of `WireAll`, for any operators,
configurations, remote chains, coins, validators, drifts and number of troubles:

- `SuccessIsWiredHolds`. The invariant is of the kind of `WireEvm`'s: in a run that is
  `quiet` and of which nothing failed, every setting is `Fine`, or is still to be read, or its
  transaction is in the plan of an account (`Handled`). What is read is everything, once each
  list of the code is unrolled (`ReadsAre`); a read that failed unnoticed plans
  what the configuration says, whatever the chain has, since no configured gas is 0 (`UnreadIs`);
  each of the 17 diffs plans nothing for a setting that is
  fine, and otherwise the transaction the setting calls for (`DiffIs`); that transaction, whoever
  sent it, makes it fine (`Meets`), and no transaction of the same
  configuration makes another less so (`FineKept`). `Fine` is weaker than configured in
  one case: the limiter of a coin that is not registered reads as the default, nothing is planned
  for it where the configuration wants the default, and registering the coin is what
  makes it so, with the cap of the configuration. At the end the coin is registered and `Fine`
  is configured (`WiredIf`).
- `NothingUndoneHolds`, from the same lemma about one transaction (`ConfiguredKept`). A coin
  is registered once, so that registering it never resets a limiter that is set.

They rest on `AptosSettingsAssumption` (what is missing differs from every value) and
`WireAllAssumption`: every configuration names every remote chain, coin and validator
(`Complete`), with an address size, fees and gas other than 0, which is what the getters answer
where nothing is set. That is so of `mainnet.ts`, `testnet.ts` and
`sandbox.ts`. With a fee of 0, or a remote bridge of `0x`, the tool would plan nothing for a setting
that is missing, and report success. Initial settings are typed (`Stored`), drifts too. The proof
needed changes of the model: the cases of `Settled` overlapped as those of `Planned` did,
and `OverAll` takes a function in place of an operator.

The second part of `OracleDeployProofs` proves of `Deploy`, for any operators, staffs and
number of troubles, from no assumption:

- The run of a command is a position in the list of its steps (`OnPlan`). What a command does is
  tabulated once (`LayerzeroRow`, `AppIs`): the order in which it compiles, checks, publishes
  and configures. From the table follow that a package is compiled and all it depends on is
  published before it is (`CompiledBefore`, `DependenciesBefore`), and what is left to
  configure at each position.
- `ReportedIsConfiguredHolds`. What is published is configured, or some run is at a position
  where it is about to configure it and has decided to, or a first deployment was
  cut off (`PublishedIsConfigured`). The decision was made from a read (`Decided`), which holds
  as long as the run has not published.
- `NoFailureUnprovokedHolds` is part of the invariant. A run that is alone, at a first
  deployment, has configured what it has passed (`Kept`) and nobody has configured what
  is ahead (`Unspoilt`), so that no `init` finds its work done.
- `ReportedIsCurrentHolds`. Of a run that is alone, what it has compiled and not yet published, and
  what it has published, is of the sources it began with or of later ones (`UpToDate`): nobody
  else publishes meanwhile, and every package is compiled before it is published
  (`CompiledBefore`), which only the counter's command does not insist on. At the end it
  has published every package it has a step for (`EachPublished`).

`Induction` has what these proofs need of recursion. The library's induction theorems
take an operator as a parameter, which the provers at hand cannot instantiate; here induction is
over a *set* of good elements instead: a set of finite sets without a least bad one
has none (`SetInduction`), and so for numbers (`NatSetInduction`). With it, that a fold
exists and does not depend on the order is proved of `SumFunctionOnSet` (`SumEquation`,
`SumRemove`, `SumChange`), that a function defined by recursion over the naturals exists
(`NatRecursion`) and what is in a list put together from lists (`RangeOfAll`). The provers know nothing of `^`: `Limiter` has its own `pow2`, and the arithmetic
functions of `Send` take pairs, for the provers do not know functions of several arguments.

Only model-checked is liveness under fairness, which the prover cannot express:
`FinalIsAccepted`, `EveryMessageIsTaken`, `ReachableIsProposed`, `QueueMoves`, `OrdersAreSent`,
`RerunsConverge` of both tools, `RerunsDeploy`. Every safety property of a passing run is proved.

The other way round, the type invariants of `UlnReceive`, `LzApp` and `OracleMultisig` are
proved (`TypeCorrect`) and no run repeats them.

## Plan

1. Done: `Channel`, `UlnReceive`, `LzApp` with `OrderedInbox`, `OracleMultisig`,
   `LimiterWindow`, `Bridge` with both ends; `Send`; the tools `WireAll`, `Deploy`,
   `WireEvm`.
2. Done: proofs of every safety property that a passing run checks, and of the refinements.
3. `Stream`: `StreamCross.move`, streams under create, extend, withdraw, pause, resume
   and close, with conservation of the deposit and the bound of what a recipient
   may draw.
4. `PacketCodec`: encode and decode of packets and bridge payloads, checked against
   each other on bounded inputs.

## Not modelled

- `bulletin.move` is a store no module reads; `admin.move` decides who may configure,
  and the models let any administrator act.
- `moveflow` sends its streams and withdrawals through `lzapp`, `endpoint` and `remote`, whose part
  is modelled; what it does with streams is not (3 of the plan). `layerzero-apps/sources/oft.move`,
  `msglib-v1-1`, `msglib-v2`, `executor-v2` are stubs; `zro` and the test token declare coins.
- The byte codecs of packets, configurations and adapter parameters have no state. Packets and
  configurations are records. So the aborts on a wrong length are left out.
- Events, their readers in the SDK (`isProofDelivered`, `isAirdropped`), CSV files and
  tables on the console.
- Wrappers of single entry functions in `sdk/src/modules` that neither `wireAll` nor a
  quote uses, among them `forceResumePayload` for the bridge and `denyPayload` of
  `msglib_auth.ts`, which name functions that the Move modules do not have.
- `deployMoveflow`, which no command reaches, `setAppConfig` of the EVM tool, which nothing
  calls, and `send`, `mint` and `testBridge`, which are single calls.
