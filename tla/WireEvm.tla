------------------------------ MODULE WireEvm -------------------------------
(***************************************************************************)
(* The tools of the EVM side, apps/bridge-evm/tasks: deployBridge deploys  *)
(* TokenBridge, and wireAll reads the settings of several networks in      *)
(* parallel, plans the transactions that differ from the configuration,    *)
(* asks the operator, and sends them, on each network in order and up to   *)
(* the first that fails.  The operators share one account: what they send  *)
(* on a network waits in one queue.  A transaction that was given up on    *)
(* may be mined later, and a bridge may be deployed anew meanwhile.        *)
(***************************************************************************)
EXTENDS Naturals, Sequences, FiniteSets, Functions

CONSTANTS
  Operators,    \* who runs wireAll
  Networks,     \* the EVM networks
  SrcNetworks,  \* sets of networks wireAll may be run for
  Coins,        \* Coins[n]: the coins of a network, in order
  WETH,         \* the coin that is wrapped ether
  FeeBP, UseCustomAdapterParams, MinDstGas,  \* the rest of the configuration
  Fees,         \* fees that the owner may set otherwise
  MaxTroubles   \* bound on what upsets runs: deployments removed, settings
                \* changed otherwise, transactions refused or given up on

ASSUME WireEvmAssumption ==
  /\ SrcNetworks \subseteq SUBSET Networks \ {{}}
  /\ "nobody" \notin Operators
  /\ \A n \in Networks : Coins[n] \in Seq({Coins[n][i] : i \in DOMAIN Coins[n]})
  /\ FeeBP \in Nat /\ Fees \subseteq Nat
  /\ UseCustomAdapterParams \in {0, 1}
  /\ MinDstGas \in Nat /\ MaxTroubles \in Nat

VARIABLES
  bridge,       \* bridge[n][i]: the settings of the i-th TokenBridge deployed
  deployments,  \* deployments[n]: which one the deployment file names, 0 for none
  mempool,      \* mempool[n]: transactions sent and not mined
  run,          \* run[o]: the run of wireAll of an operator
  troubles      \* how often runs were upset

wireVars == <<bridge, deployments, mempool, run, troubles>>

BP_DENOMINATOR == 10000

------------------------------------------------------------------------------
\* TokenBridge's settings and the calls of its owner.  weth and trusted say
\* whether weth is set and whether the trusted remote of Aptos is the bridge of
\* the configuration with this contract.

NewBridge ==
  [weth |-> FALSE, supportedTokens |-> {}, bridgeFeeBP |-> 0,
   useCustomAdapterParams |-> 0, trusted |-> FALSE, minDstGas |-> 0]

\* A flag is 0 or 1.
Call(method, arg) == [methodName |-> method, arg |-> arg]

\* Whether a call does not revert.
Permitted(b, call) ==
  CASE call.methodName = "registerToken" -> call.arg \notin b.supportedTokens
    [] call.methodName = "setBridgeFeeBP" -> call.arg <= BP_DENOMINATOR
    [] OTHER -> TRUE

Called(b, call) ==
  CASE call.methodName = "setWETH" -> [b EXCEPT !.weth = TRUE]
    [] call.methodName = "registerToken" ->
         [b EXCEPT !.supportedTokens = @ \union {call.arg}]
    [] call.methodName = "setBridgeFeeBP" -> [b EXCEPT !.bridgeFeeBP = call.arg]
    [] call.methodName = "setUseCustomAdapterParams" ->
         [b EXCEPT !.useCustomAdapterParams = call.arg]
    [] call.methodName = "setTrustedRemote" -> [b EXCEPT !.trusted = call.arg = 1]
    [] call.methodName = "setMinDstGas" -> [b EXCEPT !.minDstGas = call.arg]

------------------------------------------------------------------------------
\* The diffs: what a setting calls for, at most one transaction.

Transactions(needChange, call) == IF needChange THEN <<call>> ELSE <<>>

setWETH(b) == Transactions(~b.weth, Call("setWETH", WETH))

\* Mutant of registerToken: every coin is registered in every run.
RegisterAgain(b, coin) == Transactions(TRUE, Call("registerToken", coin))

registerToken(b, coin) ==
  Transactions(coin \notin b.supportedTokens, Call("registerToken", coin))

setBridgeFeeBP(b) ==
  Transactions(b.bridgeFeeBP # FeeBP, Call("setBridgeFeeBP", FeeBP))

setUseCustomAdapterParams(b) ==
  Transactions(b.useCustomAdapterParams # UseCustomAdapterParams,
               Call("setUseCustomAdapterParams", UseCustomAdapterParams))

setTrustedRemote(b) == Transactions(~b.trusted, Call("setTrustedRemote", 1))

setMinDstGas(b) ==
  Transactions(b.minDstGas # MinDstGas, Call("setMinDstGas", MinDstGas))

\* The reads of configureCoins: wrapped ether has two.
configureCoins(n) ==
  LET reads[i \in 0 .. Len(Coins[n])] ==
        IF i = 0 THEN <<>>
        ELSE reads[i - 1]
               \o (IF Coins[n][i] = WETH THEN <<Call("setWETH", WETH)>> ELSE <<>>)
               \o <<Call("registerToken", Coins[n][i])>>
  IN  reads[Len(Coins[n])]

SettingsOf(methods) == [i \in DOMAIN methods |-> Call(methods[i], 0)]

\* Mutant of Reads: the remote is trusted before the coins are known.
TrustedFirst(n) ==
  SettingsOf(<<"setTrustedRemote">>) \o configureCoins(n)
    \o SettingsOf(<<"setBridgeFeeBP", "setUseCustomAdapterParams",
                    "setMinDstGas">>)

\* What is read for a network, and later sent, in order.
Reads(n) ==
  configureCoins(n)
    \o SettingsOf(<<"setBridgeFeeBP", "setUseCustomAdapterParams",
                    "setTrustedRemote", "setMinDstGas">>)

Diff(b, read) ==
  CASE read.methodName = "setWETH" -> setWETH(b)
    [] read.methodName = "registerToken" -> registerToken(b, read.arg)
    [] read.methodName = "setBridgeFeeBP" -> setBridgeFeeBP(b)
    [] read.methodName = "setUseCustomAdapterParams" -> setUseCustomAdapterParams(b)
    [] read.methodName = "setTrustedRemote" -> setTrustedRemote(b)
    [] read.methodName = "setMinDstGas" -> setMinDstGas(b)

------------------------------------------------------------------------------
Upset == troubles < MaxTroubles /\ troubles' = troubles + 1

\* deployBridge.

\* The file of an old deployment is removed, if asked for.
deleteOldDeploy(n) ==
  /\ deployments[n] # 0
  /\ Upset
  /\ deployments' = [deployments EXCEPT ![n] = 0]
  /\ UNCHANGED <<bridge, mempool, run>>

\* Runs of wireAll are not alone with the bridge they knew.
deployContract(n) ==
  /\ deployments[n] = 0
  /\ bridge' = [bridge EXCEPT ![n] = Append(@, NewBridge)]
  /\ deployments' = [deployments EXCEPT ![n] = Len(bridge[n]) + 1]
  /\ run' = [o \in Operators |-> [run[o] EXCEPT !.quiet = FALSE]]
  /\ UNCHANGED <<mempool, troubles>>

------------------------------------------------------------------------------
\* A run of wireAll.  On every network: the contract it took the deployment
\* for, 0 until then; what is left to read; the plan; and whether it waits for
\* the first transaction of it.

NotBegun == [contract |-> 0, reads |-> <<>>, txns |-> <<>>, waits |-> FALSE]

Idle == [stage |-> "idle", src |-> {}, quiet |-> FALSE, errs |-> {},
         net |-> [n \in Networks |-> NotBegun]]

Busy == {"plan", "prompt", "send"}

Start(o) ==
  /\ run[o].stage \notin Busy
  /\ \E src \in SrcNetworks :
       run' = [run EXCEPT ![o] =
                 [stage |-> "plan", src |-> src, quiet |-> TRUE, errs |-> {},
                  net |-> [n \in Networks |->
                             [NotBegun EXCEPT !.reads = IF n \in src THEN Reads(n)
                                                        ELSE <<>>]]]]
  /\ UNCHANGED <<bridge, deployments, mempool, troubles>>

Only(o, r) == /\ run' = [run EXCEPT ![o] = r]
              /\ UNCHANGED <<bridge, deployments, mempool, troubles>>

Ended(r, stage) == [Idle EXCEPT !.stage = stage, !.src = r.src, !.quiet = r.quiet]

\* A plan that is complete is shown, unless it is empty.
Planned(r) ==
  IF \E n \in r.src : r.net[n].reads # <<>> THEN r
  ELSE IF \A n \in r.src : r.net[n].txns = <<>> THEN Ended(r, "wired")
  ELSE [r EXCEPT !.stage = "prompt"]

\* The contract is looked up in the deployment file, once.
ReadNext(o, n) ==
  LET r        == run[o]
      w        == r.net[n]
      contract == IF w.contract = 0 THEN deployments[n] ELSE w.contract
  IN  /\ r.stage = "plan" /\ w.reads # <<>>
      /\ contract # 0
      /\ Only(o, Planned(
           [r EXCEPT !.net[n] =
              [w EXCEPT !.contract = contract, !.reads = Tail(@),
                        !.txns = @ \o Diff(bridge[n][contract], Head(w.reads))]]))

\* A network without a deployment ends the whole run.
NoDeployment(o, n) ==
  LET w == run[o].net[n]
  IN  /\ run[o].stage = "plan" /\ w.reads # <<>>
      /\ w.contract = 0 /\ deployments[n] = 0
      /\ Only(o, Ended(run[o], "failed"))

Proceed(o) == run[o].stage = "prompt" /\ Only(o, [run[o] EXCEPT !.stage = "send"])

Abort(o) == run[o].stage = "prompt" /\ Only(o, Ended(run[o], "idle"))

\* A run is over once nothing is left to send.
Settled(r) ==
  IF \E n \in r.src : r.net[n].txns # <<>> THEN r
  ELSE Ended(r, IF r.errs = {} THEN "wired" ELSE "failed")

\* Mutant of Broken: the loop goes on after an error, and forgets it.
Continued(r, n) ==
  Settled([r EXCEPT !.net[n].waits = FALSE, !.net[n].txns = Tail(@)])

\* An error ends the transactions of a network.
Broken(r, n) ==
  Settled([r EXCEPT !.errs = @ \union {n},
                    !.net[n].waits = FALSE, !.net[n].txns = <<>>])

Sent(r, n) == Settled([r EXCEPT !.net[n].waits = FALSE, !.net[n].txns = Tail(@)])

\* executeTransaction: the transaction joins the queue of the account.
Submit(o, n) ==
  LET w == run[o].net[n]
  IN  /\ run[o].stage = "send" /\ w.txns # <<>> /\ ~w.waits
      /\ mempool' = [mempool EXCEPT ![n] =
           Append(@, [contract |-> w.contract, call |-> Head(w.txns), from |-> o])]
      /\ run' = [run EXCEPT ![o].net[n].waits = TRUE]
      /\ UNCHANGED <<bridge, deployments, troubles>>

Refuse(o, n) ==
  /\ run[o].stage = "send" /\ run[o].net[n].txns # <<>> /\ ~run[o].net[n].waits
  /\ Upset
  /\ run' = [run EXCEPT ![o] = Broken(run[o], n)]
  /\ UNCHANGED <<bridge, deployments, mempool>>

\* wait() throws although the transaction may be mined: nobody waits for it.
GiveUp(o, n) ==
  /\ run[o].net[n].waits
  /\ Upset
  /\ run' = [run EXCEPT ![o] = Broken(run[o], n)]
  /\ mempool' = [mempool EXCEPT ![n] =
       [i \in DOMAIN @ |-> IF @[i].from = o THEN [@[i] EXCEPT !.from = "nobody"]
                           ELSE @[i]]]
  /\ UNCHANGED <<bridge, deployments>>

\* The first transaction of a network is mined, and reverts or not.
Mine(n) ==
  LET tx == Head(mempool[n])
      b  == bridge[n][tx.contract]
      ok == Permitted(b, tx.call)
      o  == tx.from
  IN  /\ mempool[n] # <<>>
      /\ mempool' = [mempool EXCEPT ![n] = Tail(@)]
      /\ bridge' = IF ok THEN [bridge EXCEPT ![n][tx.contract] = Called(b, tx.call)]
                   ELSE bridge
      /\ run' = IF o \notin Operators THEN run
                ELSE [run EXCEPT ![o] = IF ok THEN Sent(@, n) ELSE Broken(@, n)]
      /\ UNCHANGED <<deployments, troubles>>

\* The owner changes a setting by other means.
Drift(n, call) ==
  LET i == deployments[n]
  IN  /\ i # 0 /\ Upset
      /\ Permitted(bridge[n][i], call)
      /\ bridge' = [bridge EXCEPT ![n][i] = Called(@, call)]
      /\ run' = [o \in Operators |-> [run[o] EXCEPT !.quiet = FALSE]]
      /\ UNCHANGED <<deployments, mempool>>

DriftSome(n) ==
  \/ \E fee \in Fees : Drift(n, Call("setBridgeFeeBP", fee))
  \/ Drift(n, Call("setUseCustomAdapterParams", 1 - UseCustomAdapterParams))
  \/ Drift(n, Call("setTrustedRemote", 0))
  \/ Drift(n, Call("setMinDstGas", 0))
  \/ \E coin \in Range(Coins[n]) : Drift(n, Call("registerToken", coin))

------------------------------------------------------------------------------
WireInit ==
  /\ bridge = [n \in Networks |-> <<>>]
  /\ deployments = [n \in Networks |-> 0]
  /\ mempool = [n \in Networks |-> <<>>]
  /\ run = [o \in Operators |-> Idle]
  /\ troubles = 0

WireNext ==
  \/ \E n \in Networks :
       \/ deleteOldDeploy(n) \/ deployContract(n)
       \/ Mine(n)
       \/ DriftSome(n)
  \/ \E o \in Operators :
       \/ Start(o) \/ Proceed(o) \/ Abort(o)
       \/ \E n \in Networks :
            \/ ReadNext(o, n) \/ NoDeployment(o, n)
            \/ Submit(o, n) \/ Refuse(o, n) \/ GiveUp(o, n)

\* Bridges get deployed, transactions mined, and JavaScript gets on with every
\* network.  An operator runs the tool again and again, for each of the sets of
\* networks, and does not refuse every plan.
WireFairness ==
  /\ \A n \in Networks : WF_wireVars(deployContract(n)) /\ WF_wireVars(Mine(n))
  /\ \A o \in Operators :
       /\ \A src \in SrcNetworks : SF_wireVars(Start(o) /\ run'[o].src = src)
       /\ SF_wireVars(Proceed(o))
       /\ \A n \in Networks :
            /\ WF_wireVars(ReadNext(o, n))
            /\ WF_wireVars(Submit(o, n))

WireSpec == WireInit /\ [][WireNext]_wireVars /\ WireFairness

------------------------------------------------------------------------------
Ready(n, b) ==
  /\ Range(Coins[n]) \subseteq b.supportedTokens
  /\ WETH \in Range(Coins[n]) => b.weth

Wired(n, b) ==
  /\ Ready(n, b)
  /\ b.bridgeFeeBP = FeeBP
  /\ b.useCustomAdapterParams = UseCustomAdapterParams
  /\ b.trusted
  /\ b.minDstGas = MinDstGas

\* "Wired all networks successfully", or no changes needed, is true: unless a
\* bridge was deployed anew or a setting changed otherwise since the run began,
\* every network of the run is wired, although each setting was read at a
\* moment of its own, others ran the tool as well, and transactions given up on
\* by earlier runs were mined in between.
SuccessIsWired ==
  \A o \in Operators :
    run[o].stage = "wired" /\ run[o].quiet =>
      \A n \in run[o].src :
        deployments[n] # 0 => Wired(n, bridge[n][deployments[n]])

\* A bridge trusts Aptos only when it can pay out what Aptos sends: no failure,
\* no crash and no other run makes it trusted before all its coins are
\* registered and wrapped ether is known.
TrustedIsReady ==
  [][\A n \in Networks : \A i \in DOMAIN bridge[n] :
       ~bridge[n][i].trusted /\ bridge'[n][i].trusted => Ready(n, bridge'[n][i])]_wireVars

\* However many runs fail half way, collide with others or find a setting
\* changed, running the tool again wires every network for good.
RerunsConverge ==
  <>[](\A n \in Networks :
         deployments[n] # 0 /\ Wired(n, bridge[n][deployments[n]]))

==============================================================================
