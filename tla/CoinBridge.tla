------------------------------ MODULE CoinBridge ------------------------------
(***************************************************************************)
(* The Aptos end of the token bridge, apps/bridge/sources/bridge.move,     *)
(* with the limiter of each coin.  A coin of the bridge stands for the     *)
(* tokens that are locked on other chains.  Amounts are counted in local   *)
(* decimals (ld) on each chain and in shared decimals (sd) between chains. *)
(*                                                                         *)
(* The actions leave the messages to Bridge, which composes them with the  *)
(* EVM end.  The token of a coin on each chain is named as the coin is.    *)
(***************************************************************************)
EXTENDS Integers, Limiter

CONSTANTS
  Coins,        \* the coin types
  Chains,       \* the remote chains
  Users,        \* the accounts of Aptos that hold and receive coins
  BridgeAccount,\* @bridge
  Ld2SdRate,    \* 10 ^ (decimals - SHARED_DECIMALS), the same for all coins
  Window        \* the window of a limiter, in seconds (4 hours in the code)

ASSUME CoinBridgeAssumption ==
  /\ BridgeAccount \notin Users
  /\ Ld2SdRate \in Nat \ {0} /\ Window \in Nat \ {0}

VARIABLES
  coins,            \* the coins that have a CoinStore
  remote_coins,     \* CoinStore.remote_coins: its keys, as <<coin, chain>>
  tvl_sd,           \* RemoteCoin.tvl_sd
  claimable_amt_ld, \* CoinStore.claimable_amt_ld; 0 is no entry
  paused_global, paused_coins, \* Config
  limiters,         \* Limiter, of registered coins
  now,              \* timestamp::now_seconds()
  balance,          \* what each account holds of each coin
  coin_accounts     \* the accounts registered to hold a coin

pauseVars == <<paused_global, paused_coins>>
ledgerVars == <<balance, coin_accounts, claimable_amt_ld>>
coinVars == <<coins, remote_coins, tvl_sd, pauseVars, limiters, now, ledgerVars>>

Accounts == Users \union {BridgeAccount}

ld2sd(amount_ld) == amount_ld \div Ld2SdRate
sd2ld(amount_sd) == amount_sd * Ld2SdRate
remove_dust_ld(amount_ld) == sd2ld(ld2sd(amount_ld))

is_unpaused(coin) == ~paused_global /\ coin \notin paused_coins

------------------------------------------------------------------------------

CoinInit ==
  /\ coins = {} /\ remote_coins = {}
  /\ tvl_sd = [c \in Coins |-> [ch \in Chains |-> 0]]
  /\ claimable_amt_ld = [c \in Coins |-> [u \in Users |-> 0]]
  /\ paused_global = FALSE /\ paused_coins = {}
  /\ limiters = [c \in Coins |-> NewLimiter(0, 0, Window)]
  /\ now = 0
  /\ balance = [c \in Coins |-> [a \in Accounts |-> 0]]
  /\ coin_accounts = [c \in Coins |-> {}]

register_coin(coin, cap) ==
  /\ coin \notin coins
  /\ coins' = coins \union {coin}
  /\ limiters' = [limiters EXCEPT ![coin] = NewLimiter(now, cap, Window)]
  /\ UNCHANGED <<remote_coins, tvl_sd, pauseVars, now, ledgerVars>>

set_limiter_cap(coin, enabled, cap) ==
  /\ coin \in coins
  /\ limiters' = [limiters EXCEPT ![coin] = WithLimit(@, enabled, cap, Window)]
  /\ UNCHANGED <<coins, remote_coins, tvl_sd, pauseVars, now, ledgerVars>>

set_remote_coin(coin, chain) ==
  /\ coin \in coins /\ <<coin, chain>> \notin remote_coins
  /\ remote_coins' = remote_coins \union {<<coin, chain>>}
  /\ tvl_sd' = [tvl_sd EXCEPT ![coin][chain] = 0]
  /\ UNCHANGED <<coins, pauseVars, limiters, now, ledgerVars>>

set_global_pause(paused) ==
  /\ paused_global' = paused
  /\ UNCHANGED <<coins, remote_coins, tvl_sd, paused_coins, limiters, now, ledgerVars>>

set_pause(coin, paused) ==
  /\ coin \in coins
  /\ paused_coins' = IF paused THEN paused_coins \union {coin}
                     ELSE paused_coins \ {coin}
  /\ UNCHANGED <<coins, remote_coins, tvl_sd, paused_global, limiters, now, ledgerVars>>

\* coin::register of the framework, for a user or for @bridge.
RegisterAccount(account, coin) ==
  /\ coin \in coins /\ account \notin coin_accounts[coin]
  /\ coin_accounts' = [coin_accounts EXCEPT ![coin] = @ \union {account}]
  /\ UNCHANGED <<coins, remote_coins, tvl_sd, pauseVars, limiters, now, balance,
                 claimable_amt_ld>>

CoinTick ==
  /\ now' = now + 1
  /\ UNCHANGED <<coins, remote_coins, tvl_sd, pauseVars, limiters, ledgerVars>>

------------------------------------------------------------------------------
\* Transfers.

\* Mutant of send_coin_internal: the liquidity of the chain is not asserted
\* and only taken as far as it goes.
SendBeyondLiquidity(coin, chain, amount_ld) ==
  LET amount_sd == ld2sd(amount_ld)
  IN  /\ coin \in coins /\ is_unpaused(coin)
      /\ <<coin, chain>> \in remote_coins
      /\ amount_sd > 0
      /\ CanInsert(limiters[coin], now, amount_sd)
      /\ limiters' = [limiters EXCEPT ![coin] = Inserted(@, now, amount_sd)]
      /\ tvl_sd' = [tvl_sd EXCEPT
           ![coin][chain] = IF @ < amount_sd THEN 0 ELSE @ - amount_sd]
      /\ UNCHANGED <<coins, remote_coins, pauseVars, now>>

\* The coins, freed of dust, have left the sender; they are burned.
send_coin_internal(coin, chain, amount_ld) ==
  LET amount_sd == ld2sd(amount_ld)
  IN  /\ coin \in coins /\ is_unpaused(coin)
      /\ <<coin, chain>> \in remote_coins
      /\ amount_sd > 0
      /\ CanInsert(limiters[coin], now, amount_sd)
      /\ limiters' = [limiters EXCEPT ![coin] = Inserted(@, now, amount_sd)]
      /\ tvl_sd[coin][chain] >= amount_sd
      /\ tvl_sd' = [tvl_sd EXCEPT ![coin][chain] = @ - amount_sd]
      /\ UNCHANGED <<coins, remote_coins, pauseVars, now>>

\* The dust stays with the sender.
send_coin_from(sender, coin, chain, amount_ld) ==
  LET send_amt_ld == remove_dust_ld(amount_ld)
  IN  /\ balance[coin][sender] >= send_amt_ld
      /\ balance' = [balance EXCEPT ![coin][sender] = @ - send_amt_ld]
      /\ send_coin_internal(coin, chain, send_amt_ld)
      /\ UNCHANGED <<coin_accounts, claimable_amt_ld>>

\* Mutant of send_coin_with_zro: the dust is not deposited anywhere.
SendLosingDust(sender, coin, chain, amount_ld) ==
  /\ balance[coin][sender] >= amount_ld
  /\ balance' = [balance EXCEPT ![coin][sender] = @ - amount_ld]
  /\ send_coin_internal(coin, chain, remove_dust_ld(amount_ld))
  /\ UNCHANGED <<coin_accounts, claimable_amt_ld>>

\* The sender passes coins it has withdrawn; their dust goes to @bridge, which
\* has to be registered for the coin.
send_coin_with_zro(sender, coin, chain, amount_ld) ==
  LET send_amount_ld == remove_dust_ld(amount_ld)
      dust           == amount_ld - send_amount_ld
  IN  /\ balance[coin][sender] >= amount_ld
      /\ dust > 0 => BridgeAccount \in coin_accounts[coin]
      /\ balance' = [balance EXCEPT ![coin][sender] = @ - amount_ld,
                                    ![coin][BridgeAccount] = @ + dust]
      /\ send_coin_internal(coin, chain, send_amount_ld)
      /\ UNCHANGED <<coin_accounts, claimable_amt_ld>>

\* Mutant of lz_receive: a receiver that is not registered aborts.
ReceiveWithoutStash(coin, chain, message) ==
  LET amount_ld == sd2ld(message.amount_sd)
      receiver  == message.receiver
  IN  /\ coin \in coins /\ is_unpaused(coin)
      /\ <<coin, chain>> \in remote_coins
      /\ message.coin = coin
      /\ tvl_sd' = [tvl_sd EXCEPT ![coin][chain] = @ + message.amount_sd]
      /\ receiver \in coin_accounts[coin]
      /\ balance' = [balance EXCEPT ![coin][receiver] = @ + amount_ld]
      /\ UNCHANGED <<coins, remote_coins, pauseVars, limiters, now, coin_accounts,
                     claimable_amt_ld>>

\* Mutant of lz_receive: the coin type is not compared with the message.
ReceiveAsAnyCoin(coin, chain, message) ==
  LET amount_ld == sd2ld(message.amount_sd)
      receiver  == message.receiver
  IN  /\ coin \in coins /\ is_unpaused(coin)
      /\ <<coin, chain>> \in remote_coins
      /\ tvl_sd' = [tvl_sd EXCEPT ![coin][chain] = @ + message.amount_sd]
      /\ claimable_amt_ld' = [claimable_amt_ld EXCEPT ![coin][receiver] = @ + amount_ld]
      /\ UNCHANGED <<coins, remote_coins, pauseVars, limiters, now, coin_accounts,
                     balance>>

\* Without endpoint::lz_receive, which is Bridge's.  The coin type is an
\* argument of the caller and has to be that of the message; the amount is
\* minted, or stashed if the receiver is not registered.
\* Left out: the aborts on sums and products over 64 bits (bridge.move:410, 412
\* and 521) and on a receiver whose account is frozen, for amounts are unbounded
\* and accounts registered or not.
lz_receive(coin, chain, message) ==
  LET amount_ld == sd2ld(message.amount_sd)
      receiver  == message.receiver
  IN  /\ coin \in coins /\ is_unpaused(coin)
      /\ <<coin, chain>> \in remote_coins
      /\ message.coin = coin
      /\ tvl_sd' = [tvl_sd EXCEPT ![coin][chain] = @ + message.amount_sd]
      /\ IF receiver \in coin_accounts[coin]
         THEN /\ balance' = [balance EXCEPT ![coin][receiver] = @ + amount_ld]
              /\ UNCHANGED claimable_amt_ld
         ELSE /\ claimable_amt_ld' =
                   [claimable_amt_ld EXCEPT ![coin][receiver] = @ + amount_ld]
              /\ UNCHANGED balance
      /\ UNCHANGED <<coins, remote_coins, pauseVars, limiters, now, coin_accounts>>

\* Mutant of claim_coin: the entry stays.
ClaimAgain(receiver, coin) ==
  /\ coin \in coins /\ is_unpaused(coin)
  /\ claimable_amt_ld[coin][receiver] > 0
  /\ coin_accounts' = [coin_accounts EXCEPT ![coin] = @ \union {receiver}]
  /\ balance' = [balance EXCEPT
       ![coin][receiver] = @ + claimable_amt_ld[coin][receiver]]
  /\ UNCHANGED <<coins, remote_coins, tvl_sd, pauseVars, limiters, now,
                 claimable_amt_ld>>

\* The receiver is registered if needed and its stash minted.
claim_coin(receiver, coin) ==
  /\ coin \in coins /\ is_unpaused(coin)
  /\ claimable_amt_ld[coin][receiver] > 0
  /\ coin_accounts' = [coin_accounts EXCEPT ![coin] = @ \union {receiver}]
  /\ balance' = [balance EXCEPT
       ![coin][receiver] = @ + claimable_amt_ld[coin][receiver]]
  /\ claimable_amt_ld' = [claimable_amt_ld EXCEPT ![coin][receiver] = 0]
  /\ UNCHANGED <<coins, remote_coins, tvl_sd, pauseVars, limiters, now>>
==============================================================================
