-------------------------------- MODULE Bridge --------------------------------
(***************************************************************************)
(* The token bridge as a whole: bridge.move on Aptos (CoinBridge), a       *)
(* TokenBridge.sol on every EVM chain (TokenBridge), and the messages      *)
(* between them.                                                           *)
(*                                                                         *)
(* LayerZero hands the messages of a path over in order (OrderedInbox).    *)
(* On Aptos the next one of a chain has to be taken before the others,     *)
(* whatever its coin; the owner may drop it or set it aside, and the       *)
(* bridge has no function that retries what was set aside.  On an EVM      *)
(* chain a message that cannot be paid out is kept and may be retried.     *)
(* Each end has set the other as its trusted remote.                       *)
(***************************************************************************)
EXTENDS CoinBridge, Sequences, SequencesExt, FiniteSetsExt

CONSTANTS
  EvmRate,       \* ld2sdRates of TokenBridge.sol
  ChargingTokens,
  FeeBPs,        \* the bridge fees that get set
  Caps,          \* the limiter caps that get set, in shared decimals
  Administrations,\* sets of administrative calls, of which one occurs
  MaxAmountLD,   \* bound on one transfer
  MaxTvl,        \* bound on the tvl of a token on its chain
  MaxBalance,    \* bound on what a TokenBridge holds of a token
  MaxInFlight,   \* bound on the messages of a direction of a path
  MaxGone,       \* bound on the tvl withdrawn and on the messages dropped
  MaxTime        \* bound on the clock of Aptos

AdminCalls == {"pause", "limit", "fee", "emergency", "drop", "dust"}

ASSUME BridgeAssumption ==
  /\ EvmRate \in Nat \ {0} /\ ChargingTokens \subseteq Coins
  /\ FeeBPs \subseteq 0 .. 10000 /\ Caps \subseteq Nat
  /\ Administrations \subseteq SUBSET AdminCalls
  /\ IsFiniteSet(Users) /\ IsFiniteSet(Chains)
  /\ MaxTime \in Nat

VARIABLES
  supportedTokens, tvlSDs, balanceOf, globalPaused, pausedTokens, bridgeFeeBP,
  emergencyWithdraw, \* of TokenBridge
  toAptos,     \* per chain: messages to Aptos that are not consumed
  toEvm,       \* per chain: messages from Aptos that are not consumed
  failed,      \* per chain: failedMessages of NonblockingLzApp
  administration, \* the administrative calls that occur in this behaviour
  withdrawn,   \* history: tvl withdrawn in emergency, per chain and coin
  dropped      \* history: amounts of messages dropped or set aside on Aptos

Evm == INSTANCE TokenBridge WITH
  Tokens <- Coins, EvmChains <- Chains, ld2sdRate <- EvmRate

evmVars == <<supportedTokens, tvlSDs, balanceOf, globalPaused, pausedTokens,
             bridgeFeeBP, emergencyWithdraw>>
networkVars == <<toAptos, toEvm, failed>>
historyVars == <<withdrawn, dropped, administration>>
vars == <<coinVars, evmVars, networkVars, historyVars>>

ToAptos == [coin : Coins, receiver : Users, amount_sd : Nat]
ToEvm   == [coin : Coins, amount_sd : Nat]

Amounts == 1 .. MaxAmountLD

PerToken(value) == [ch \in Chains |-> [c \in Coins |-> value]]

Init ==
  /\ administration \in Administrations
  /\ CoinInit /\ Evm!TokenInit
  /\ toAptos = [ch \in Chains |-> <<>>]
  /\ toEvm   = [ch \in Chains |-> <<>>]
  /\ failed  = [ch \in Chains |-> <<>>]
  /\ withdrawn = PerToken(0) /\ dropped = PerToken(0)

------------------------------------------------------------------------------
\* From an EVM chain to Aptos.

SendToAptos(chain, coin, receiver) ==
  \E amountLD \in Amounts : \E arrived \in 0 .. amountLD :
    /\ Len(toAptos[chain]) < MaxInFlight
    /\ tvlSDs[chain][coin] + Evm!LDtoSD(arrived) <= MaxTvl
    /\ balanceOf[chain][coin] + arrived <= MaxBalance
    /\ Evm!sendToAptos(chain, coin, amountLD, arrived)
    /\ toAptos' = [toAptos EXCEPT ![chain] =
         Append(@, [coin |-> coin, receiver |-> receiver,
                    amount_sd |-> Evm!LDtoSD(arrived)])]
    /\ UNCHANGED <<coinVars, toEvm, failed, historyVars>>

\* endpoint::lz_receive and the handler, in one transaction.
ReceiveOnAptos(chain, coin) ==
  /\ toAptos[chain] # <<>>
  /\ lz_receive(coin, chain, Head(toAptos[chain]))
  /\ toAptos' = [toAptos EXCEPT ![chain] = Tail(@)]
  /\ UNCHANGED <<evmVars, toEvm, failed, historyVars>>

\* lzapp::force_resume, and lzapp::store_next_payload, after which the payload
\* stays in the store.
DropOnAptos(chain) ==
  /\ "drop" \in administration
  /\ toAptos[chain] # <<>>
  /\ LET message == Head(toAptos[chain])
     IN  /\ dropped[chain][message.coin] + message.amount_sd <= MaxGone
         /\ dropped' = [dropped EXCEPT ![chain][message.coin] = @ + message.amount_sd]
  /\ toAptos' = [toAptos EXCEPT ![chain] = Tail(@)]
  /\ UNCHANGED <<coinVars, evmVars, toEvm, failed, withdrawn, administration>>

------------------------------------------------------------------------------
\* From Aptos to an EVM chain.

SendToEvm(chain, coin, sender) ==
  \E amount_ld \in Amounts :
    /\ Len(toEvm[chain]) + Len(failed[chain]) < MaxInFlight
    /\ \/ send_coin_from(sender, coin, chain, amount_ld)
       \/ send_coin_with_zro(sender, coin, chain, amount_ld)
    /\ toEvm' = [toEvm EXCEPT ![chain] =
         Append(@, [coin |-> coin, amount_sd |-> ld2sd(amount_ld)])]
    /\ UNCHANGED <<evmVars, toAptos, failed, historyVars>>

ReceiveOnEvm(chain) ==
  /\ toEvm[chain] # <<>>
  /\ Evm!nonblockingLzReceive(chain, Head(toEvm[chain]))
  /\ toEvm' = [toEvm EXCEPT ![chain] = Tail(@)]
  /\ UNCHANGED <<coinVars, toAptos, failed, historyVars>>

\* What CanPay excludes reverts; so may the transfer to the receiver, or the
\* gas may run out.
FailOnEvm(chain) ==
  /\ toEvm[chain] # <<>>
  /\ toEvm' = [toEvm EXCEPT ![chain] = Tail(@)]
  /\ failed' = [failed EXCEPT ![chain] = Append(@, Head(toEvm[chain]))]
  /\ UNCHANGED <<coinVars, evmVars, toAptos, historyVars>>

\* retryMessage of NonblockingLzApp.
RetryOnEvm(chain, i) ==
  /\ i \in DOMAIN failed[chain]
  /\ Evm!nonblockingLzReceive(chain, failed[chain][i])
  /\ failed' = [failed EXCEPT ![chain] = RemoveAt(@, i)]
  /\ UNCHANGED <<coinVars, toAptos, toEvm, historyVars>>

------------------------------------------------------------------------------
\* Administration and the steps of one end alone.

OnAptos ==
  /\ UNCHANGED <<evmVars, networkVars, historyVars>>
  /\ \/ \E coin \in Coins :
          \/ \E cap \in Caps : register_coin(coin, cap)
          \/ \E chain \in Chains : set_remote_coin(coin, chain)
          \/ \E user \in Users : RegisterAccount(user, coin)
          \/ "dust" \in administration /\ RegisterAccount(BridgeAccount, coin)
          \/ \E receiver \in Users : claim_coin(receiver, coin)
     \/ /\ "pause" \in administration
        /\ \E paused \in BOOLEAN :
             \/ set_global_pause(paused)
             \/ \E coin \in Coins : set_pause(coin, paused)
     \/ /\ "limit" \in administration
        /\ \/ \E coin \in Coins, enabled \in BOOLEAN, cap \in Caps :
                set_limiter_cap(coin, enabled, cap)
           \/ now < MaxTime /\ CoinTick

OnEvm(chain) ==
  /\ UNCHANGED <<coinVars, networkVars, dropped, administration>>
  /\ \/ /\ UNCHANGED withdrawn
        /\ \/ \E coin \in Coins : Evm!registerToken(chain, coin)
           \/ /\ "pause" \in administration
              /\ \E paused \in BOOLEAN :
                   \/ Evm!setGlobalPause(chain, paused)
                   \/ \E coin \in Coins : Evm!setTokenPause(chain, coin, paused)
           \/ /\ "fee" \in administration
              /\ \/ \E feeBP \in FeeBPs : Evm!setBridgeFeeBP(chain, feeBP)
                 \/ \E coin \in Coins, amountLD \in 1 .. MaxBalance :
                      Evm!withdrawFee(chain, coin, amountLD)
           \/ /\ "emergency" \in administration
              /\ \/ \E enabled \in BOOLEAN : Evm!enableEmergencyWithdraw(chain, enabled)
                 \/ Evm!WeekPasses(chain)
     \/ /\ "emergency" \in administration
        /\ \E coin \in Coins :
             /\ \/ \E amountSD \in 1 .. MaxTvl : Evm!withdrawTVL(chain, coin, amountSD)
                \/ Evm!withdrawEmergency(chain, coin)
             /\ withdrawn' = [withdrawn EXCEPT
                  ![chain][coin] = @ + tvlSDs[chain][coin] - tvlSDs'[chain][coin]]
             /\ withdrawn'[chain][coin] <= MaxGone

Next ==
  \/ OnAptos
  \/ \E chain \in Chains :
       \/ OnEvm(chain)
       \/ DropOnAptos(chain)
       \/ ReceiveOnEvm(chain)
       \/ FailOnEvm(chain)
       \/ \E i \in 1 .. MaxInFlight : RetryOnEvm(chain, i)
       \/ \E coin \in Coins :
            \/ ReceiveOnAptos(chain, coin)
            \/ \E user \in Users :
                 SendToAptos(chain, coin, user) \/ SendToEvm(chain, coin, user)

Spec == Init /\ [][Next]_vars

\* An executor calls lz_receive on Aptos, with the coin type lz_receive_types
\* returns, whenever the call succeeds.
Fairness == \A chain \in Chains : WF_vars(\E coin \in Coins : ReceiveOnAptos(chain, coin))

FairSpec == Spec /\ Fairness

------------------------------------------------------------------------------
\* Properties.

\* The state has the types of the Move structs and the contract's storage.
TypeOK ==
  /\ coins \in SUBSET Coins /\ remote_coins \in SUBSET (coins \X Chains)
  /\ tvl_sd \in [Coins -> [Chains -> Nat]]
  /\ claimable_amt_ld \in [Coins -> [Users -> Nat]]
  /\ paused_global \in BOOLEAN /\ paused_coins \in SUBSET coins
  /\ limiters \in [Coins -> Limiter] /\ now \in 0 .. MaxTime
  /\ balance \in [Coins -> [Accounts -> Nat]]
  /\ coin_accounts \in [Coins -> SUBSET Accounts]
  /\ supportedTokens \in [Chains -> SUBSET Coins]
  /\ tvlSDs \in [Chains -> [Coins -> Nat]] /\ balanceOf \in [Chains -> [Coins -> Nat]]
  /\ globalPaused \in [Chains -> BOOLEAN] /\ pausedTokens \in [Chains -> SUBSET Coins]
  /\ bridgeFeeBP \in [Chains -> 0 .. Evm!BP_DENOMINATOR]
  /\ emergencyWithdraw \in [Chains -> {"locked", "waiting", "unlocked"}]
  /\ toAptos \in [Chains -> Seq(ToAptos)]
  /\ toEvm \in [Chains -> Seq(ToEvm)] /\ failed \in [Chains -> Seq(ToEvm)]
  /\ withdrawn \in [Chains -> [Coins -> Nat]] /\ dropped \in [Chains -> [Coins -> Nat]]

\* The amount of a coin that a message, or some messages, carry.
Worth(message, coin) == IF message.coin = coin THEN message.amount_sd ELSE 0

Carried(messages, coin) ==
  SumFunction([i \in DOMAIN messages |-> Worth(messages[i], coin)])

\* All coins on Aptos, the stashed ones included, are those that the chains'
\* tvl_sd account for: no dust, stash or claim creates or loses any.
SupplyMatchesTvl ==
  \A coin \in Coins :
    SumFunction(balance[coin]) + SumFunction(claimable_amt_ld[coin])
    = sd2ld(SumFunction(tvl_sd[coin]))

\* The books of the two ends agree, chain by chain and coin by coin, up to what
\* is in flight, was withdrawn in emergency or dropped by the owner.
BooksAgree ==
  \A chain \in Chains, coin \in Coins :
    tvlSDs[chain][coin] + withdrawn[chain][coin]
    = tvl_sd[coin][chain] + dropped[chain][coin]
      + Carried(toAptos[chain], coin)
      + Carried(toEvm[chain], coin) + Carried(failed[chain], coin)

\* Unless tvl was withdrawn, "insufficient liquidity" never strikes on an EVM
\* chain: what Aptos has burned for it can all be paid out, in any order and
\* after any number of failures.
BurnedIsLiquid ==
  \A chain \in Chains, coin \in Coins :
    withdrawn[chain][coin] = 0 =>
      Carried(toEvm[chain], coin) + Carried(failed[chain], coin) <= tvlSDs[chain][coin]

\* The contract holds its tvl whatever fees are set and withdrawn and whatever
\* the token charges, so that accruedFeeLD never underflows.
TvlIsHeld ==
  \A chain \in Chains, coin \in Coins :
    balanceOf[chain][coin] >= Evm!SDtoLD(tvlSDs[chain][coin])

\* Everything that can come from the chain is open on Aptos.
Open(chain) ==
  \A coin \in supportedTokens[chain] :
    <<coin, chain>> \in remote_coins /\ is_unpaused(coin)

\* One queue carries the coins of a chain: while all of them are open none can
\* block the others, registered receiver or not.
QueueMoves ==
  \A chain \in Chains :
    <>[]Open(chain) =>
      []<>(toAptos[chain] = <<>>)
      \/ []<><<\E coin \in Coins : ReceiveOnAptos(chain, coin)>>_vars
==============================================================================
