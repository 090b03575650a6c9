----------------------------- MODULE BridgeProofs -----------------------------
(***************************************************************************)
(* Every TokenBridge holds its tvl, for all rates, fees and tokens, those  *)
(* that charge for transfers included.                                     *)
(*                                                                         *)
(* The invariant is inductive once the messages on their way to a chain    *)
(* are known to carry amounts of coins: what a message is worth decides    *)
(* the fee that is kept when it is paid out.                               *)
(***************************************************************************)
EXTENDS Bridge, Induction

\* The state of the EVM ends and of the messages to them is well formed.
EvmTypeOK ==
  /\ tvlSDs \in [Chains -> [Coins -> Nat]]
  /\ balanceOf \in [Chains -> [Coins -> Int]]
  /\ bridgeFeeBP \in [Chains -> 0 .. Evm!BP_DENOMINATOR]
  /\ toEvm \in [Chains -> Seq(ToEvm)]
  /\ failed \in [Chains -> Seq(ToEvm)]

IInv == EvmTypeOK /\ TvlIsHeld

-----------------------------------------------------------------------------
\* Conversion between decimals, and the fee.

\* Shared units are worth a whole number of local units.
LEMMA SDtoLDNat ==
  ASSUME NEW a \in Nat PROVE Evm!SDtoLD(a) \in Nat
BY BridgeAssumption DEF Evm!SDtoLD

\* Converting to local units commutes with addition and subtraction.
LEMMA SDtoLDLinear ==
  ASSUME NEW a \in Nat, NEW b \in Nat
  PROVE  /\ Evm!SDtoLD(a + b) = Evm!SDtoLD(a) + Evm!SDtoLD(b)
         /\ Evm!SDtoLD(a - b) = Evm!SDtoLD(a) - Evm!SDtoLD(b)
BY BridgeAssumption DEF Evm!SDtoLD

\* Converting to shared units never counts more than there is.
LEMMA LDtoSDRoundsDown ==
  ASSUME NEW x \in Nat
  PROVE  Evm!LDtoSD(x) \in Nat /\ Evm!SDtoLD(Evm!LDtoSD(x)) <= x
BY BridgeAssumption DEF Evm!SDtoLD, Evm!LDtoSD

\* A fee is a whole number of local units.
LEMMA FeeNat ==
  ASSUME NEW x \in Nat, NEW bp \in 0 .. Evm!BP_DENOMINATOR
  PROVE  (x * bp) \div Evm!BP_DENOMINATOR \in Nat
<1> DEFINE product == x * bp
<1>1. product \in Nat
  BY DEF Evm!BP_DENOMINATOR
<1> HIDE DEF product
<1>2. product \div 10000 \in Nat
  BY <1>1
<1> QED
  BY <1>2 DEF product, Evm!BP_DENOMINATOR

\* A payout is never more than the message is worth.
LEMMA PayFeeBound ==
  ASSUME NEW x \in Nat, NEW ch \in Chains,
         bridgeFeeBP \in [Chains -> 0 .. Evm!BP_DENOMINATOR]
  PROVE  Evm!payFee(ch, x) \in Int /\ Evm!payFee(ch, x) <= x
<1>1. bridgeFeeBP[ch] \in 0 .. Evm!BP_DENOMINATOR
  OBVIOUS
<1> DEFINE fee == (x * bridgeFeeBP[ch]) \div Evm!BP_DENOMINATOR
<1>2. fee \in Nat
  BY <1>1, FeeNat
<1>3. Evm!payFee(ch, x) = x - fee
  BY DEF Evm!payFee
<1> HIDE DEF fee
<1> QED
  BY <1>2, <1>3

-----------------------------------------------------------------------------
\* The steps that move tokens.

\* The invariant of one token of one chain after a step that sets its tvl and
\* the contract's balance of it, and no other.
LEMMA MoveTokens ==
  ASSUME IInv, NEW ch \in Chains, NEW coin \in Coins,
         NEW tvl \in Nat, NEW held \in Int, held >= Evm!SDtoLD(tvl),
         tvlSDs' = [tvlSDs EXCEPT ![ch][coin] = tvl],
         balanceOf' = [balanceOf EXCEPT ![ch][coin] = held]
  PROVE  /\ tvlSDs' \in [Chains -> [Coins -> Nat]]
         /\ balanceOf' \in [Chains -> [Coins -> Int]]
         /\ TvlIsHeld'
<1>1. /\ tvlSDs' \in [Chains -> [Coins -> Nat]]
      /\ balanceOf' \in [Chains -> [Coins -> Int]]
  BY DEF IInv, EvmTypeOK
<1>2. \A c \in Chains, k \in Coins :
        /\ tvlSDs'[c][k] = IF c = ch /\ k = coin THEN tvl ELSE tvlSDs[c][k]
        /\ balanceOf'[c][k] = IF c = ch /\ k = coin THEN held ELSE balanceOf[c][k]
  BY DEF IInv, EvmTypeOK
<1>3. ASSUME NEW c \in Chains, NEW k \in Coins
      PROVE  balanceOf'[c][k] >= Evm!SDtoLD(tvlSDs'[c][k])
  BY <1>2, <1>3 DEF IInv, TvlIsHeld
<1> QED
  BY <1>1, <1>3 DEF TvlIsHeld, Evm!SDtoLD

\* sendToAptos locks what arrives and counts it rounded down.
LEMMA SendToAptosIInv ==
  ASSUME IInv, NEW ch \in Chains, NEW coin \in Coins, NEW user \in Users,
         SendToAptos(ch, coin, user)
  PROVE  IInv'
<1>1. PICK amountLD \in Amounts : \E arrived \in 0 .. amountLD :
        /\ Evm!sendToAptos(ch, coin, amountLD, arrived)
        /\ UNCHANGED <<toEvm, failed>>
  BY DEF SendToAptos
<1>2. PICK arrived \in 0 .. amountLD :
        /\ Evm!sendToAptos(ch, coin, amountLD, arrived)
        /\ UNCHANGED <<toEvm, failed>>
  BY <1>1
<1> DEFINE tvl  == tvlSDs[ch][coin] + Evm!LDtoSD(arrived)
           held == balanceOf[ch][coin] + arrived
<1>3. /\ tvl \in Nat /\ held \in Int
      /\ held >= Evm!SDtoLD(tvl)
  <2>1. arrived \in Nat /\ Evm!LDtoSD(arrived) \in Nat
        /\ Evm!SDtoLD(Evm!LDtoSD(arrived)) <= arrived
    BY LDtoSDRoundsDown
  <2>2. /\ tvlSDs[ch][coin] \in Nat /\ balanceOf[ch][coin] \in Int
        /\ balanceOf[ch][coin] >= Evm!SDtoLD(tvlSDs[ch][coin])
    BY DEF IInv, EvmTypeOK, TvlIsHeld
  <2>3. Evm!SDtoLD(tvl) = Evm!SDtoLD(tvlSDs[ch][coin])
                          + Evm!SDtoLD(Evm!LDtoSD(arrived))
    BY <2>1, <2>2, SDtoLDLinear
  <2>4. /\ Evm!SDtoLD(tvlSDs[ch][coin]) \in Nat
        /\ Evm!SDtoLD(Evm!LDtoSD(arrived)) \in Nat
    BY <2>1, <2>2, SDtoLDNat
  <2> QED
    BY <2>1, <2>2, <2>3, <2>4
<1>4. /\ tvlSDs' = [tvlSDs EXCEPT ![ch][coin] = tvl]
      /\ balanceOf' = [balanceOf EXCEPT ![ch][coin] = held]
      /\ UNCHANGED bridgeFeeBP
  BY <1>2 DEF Evm!sendToAptos
<1> HIDE DEF tvl, held
<1>5. /\ tvlSDs' \in [Chains -> [Coins -> Nat]]
      /\ balanceOf' \in [Chains -> [Coins -> Int]]
      /\ TvlIsHeld'
  BY <1>3, <1>4, MoveTokens
<1> QED
  BY <1>2, <1>4, <1>5 DEF IInv, EvmTypeOK

\* A payout takes from the tvl what the message is worth and hands over that
\* much or less.
LEMMA PayoutHeld ==
  ASSUME IInv, NEW ch \in Chains, NEW message \in ToEvm,
         Evm!nonblockingLzReceive(ch, message)
  PROVE  /\ tvlSDs' \in [Chains -> [Coins -> Nat]]
         /\ balanceOf' \in [Chains -> [Coins -> Int]]
         /\ TvlIsHeld'
<1> DEFINE coin   == message.coin
           amount == message.amount_sd
           paid   == Evm!payFee(ch, Evm!SDtoLD(amount))
           tvl    == tvlSDs[ch][coin] - amount
           held   == balanceOf[ch][coin] - paid
<1>1. coin \in Coins /\ amount \in Nat
  BY DEF ToEvm
<1>2. /\ tvlSDs' = [tvlSDs EXCEPT ![ch][coin] = tvl]
      /\ balanceOf' = [balanceOf EXCEPT ![ch][coin] = held]
      /\ tvlSDs[ch][coin] >= amount
  BY DEF Evm!nonblockingLzReceive, Evm!CanPay
<1> HIDE DEF coin, amount
<1>3. /\ tvlSDs[ch][coin] \in Nat /\ balanceOf[ch][coin] \in Int
      /\ balanceOf[ch][coin] >= Evm!SDtoLD(tvlSDs[ch][coin])
  BY <1>1 DEF IInv, EvmTypeOK, TvlIsHeld
<1>4. /\ Evm!SDtoLD(amount) \in Nat /\ Evm!SDtoLD(tvlSDs[ch][coin]) \in Nat
      /\ Evm!SDtoLD(tvl) = Evm!SDtoLD(tvlSDs[ch][coin]) - Evm!SDtoLD(amount)
  BY <1>1, <1>3, SDtoLDNat, SDtoLDLinear
<1>5. paid \in Int /\ paid <= Evm!SDtoLD(amount)
  BY <1>4, PayFeeBound DEF IInv, EvmTypeOK
<1> HIDE DEF paid
<1>6. tvl \in Nat /\ held \in Int /\ held >= Evm!SDtoLD(tvl)
  BY <1>1, <1>2, <1>3, <1>4, <1>5
<1> HIDE DEF tvl, held
<1> QED
  BY <1>1, <1>2, <1>6, MoveTokens

\* The administration of one EVM chain: fees are taken out of what exceeds the
\* tvl, and an emergency takes out of both the same.
LEMMA OnEvmIInv ==
  ASSUME IInv, NEW ch \in Chains, OnEvm(ch)
  PROVE  IInv'
<1> DEFINE Held == /\ tvlSDs' \in [Chains -> [Coins -> Nat]]
                   /\ balanceOf' \in [Chains -> [Coins -> Int]]
                   /\ TvlIsHeld'
<1>1. UNCHANGED <<toEvm, failed>>
  BY DEF OnEvm, networkVars
<1>2. CASE UNCHANGED <<tvlSDs, balanceOf, bridgeFeeBP>>
  BY <1>1, <1>2 DEF IInv, EvmTypeOK, TvlIsHeld, Evm!SDtoLD
<1>3. ASSUME NEW feeBP \in FeeBPs, Evm!setBridgeFeeBP(ch, feeBP) PROVE IInv'
  <2>1. feeBP \in 0 .. Evm!BP_DENOMINATOR
    BY BridgeAssumption DEF Evm!BP_DENOMINATOR
  <2>2. bridgeFeeBP' \in [Chains -> 0 .. Evm!BP_DENOMINATOR]
    BY <1>3, <2>1 DEF Evm!setBridgeFeeBP, IInv, EvmTypeOK
  <2> QED
    BY <1>1, <1>3, <2>2 DEF Evm!setBridgeFeeBP, IInv, EvmTypeOK, TvlIsHeld,
       Evm!SDtoLD
<1>4. \A coin \in Coins :
        /\ tvlSDs[ch][coin] \in Nat /\ balanceOf[ch][coin] \in Int
        /\ balanceOf[ch][coin] >= Evm!SDtoLD(tvlSDs[ch][coin])
        /\ Evm!SDtoLD(tvlSDs[ch][coin]) \in Nat
  BY SDtoLDNat DEF IInv, EvmTypeOK, TvlIsHeld
<1>5. ASSUME NEW coin \in Coins, NEW amountLD \in 1 .. MaxBalance,
             Evm!withdrawFee(ch, coin, amountLD)
      PROVE  IInv'
  <2> DEFINE held == balanceOf[ch][coin] - amountLD
  <2>1. held \in Int /\ held >= Evm!SDtoLD(tvlSDs[ch][coin])
    BY <1>4, <1>5 DEF Evm!withdrawFee, Evm!accruedFeeLD
  <2>2. /\ tvlSDs' = [tvlSDs EXCEPT ![ch][coin] = tvlSDs[ch][coin]]
        /\ balanceOf' = [balanceOf EXCEPT ![ch][coin] = held]
        /\ UNCHANGED bridgeFeeBP
    BY <1>5 DEF Evm!withdrawFee, IInv, EvmTypeOK
  <2> HIDE DEF held
  <2>3. Held
    BY <1>4, <2>1, <2>2, MoveTokens
  <2> QED
    BY <1>1, <2>2, <2>3 DEF IInv, EvmTypeOK
<1>6. ASSUME NEW coin \in Coins, NEW amountSD \in 1 .. MaxTvl,
             Evm!withdrawTVL(ch, coin, amountSD)
      PROVE  IInv'
  <2> DEFINE tvl  == tvlSDs[ch][coin] - amountSD
             held == balanceOf[ch][coin] - Evm!SDtoLD(amountSD)
  <2>1. /\ tvlSDs' = [tvlSDs EXCEPT ![ch][coin] = tvl]
        /\ balanceOf' = [balanceOf EXCEPT ![ch][coin] = held]
        /\ tvlSDs[ch][coin] >= amountSD
        /\ UNCHANGED bridgeFeeBP
    BY <1>6 DEF Evm!withdrawTVL
  <2>2. /\ Evm!SDtoLD(amountSD) \in Nat
        /\ Evm!SDtoLD(tvl) = Evm!SDtoLD(tvlSDs[ch][coin]) - Evm!SDtoLD(amountSD)
    <3>1. amountSD \in Nat
      OBVIOUS
    <3> QED
      BY <1>4, <3>1, SDtoLDNat, SDtoLDLinear
  <2>3. tvl \in Nat /\ held \in Int /\ held >= Evm!SDtoLD(tvl)
    BY <1>4, <2>1, <2>2
  <2> HIDE DEF tvl, held
  <2>4. Held
    BY <2>1, <2>3, MoveTokens
  <2> QED
    BY <1>1, <2>1, <2>4 DEF IInv, EvmTypeOK
<1>7. ASSUME NEW coin \in Coins, Evm!withdrawEmergency(ch, coin) PROVE IInv'
  <2> DEFINE tvl  == 0
             held == balanceOf[ch][coin] - Evm!accruedFeeLD(ch, coin)
                     - Evm!SDtoLD(tvlSDs[ch][coin])
  <2>1. /\ tvlSDs' = [tvlSDs EXCEPT ![ch][coin] = tvl]
        /\ balanceOf' = [balanceOf EXCEPT ![ch][coin] = held]
        /\ UNCHANGED bridgeFeeBP
    BY <1>7 DEF Evm!withdrawEmergency
  <2>2. held = 0
    BY <1>4 DEF Evm!accruedFeeLD
  <2>3. Evm!SDtoLD(tvl) = 0
    BY BridgeAssumption DEF Evm!SDtoLD
  <2>4. tvl \in Nat /\ held \in Int /\ held >= Evm!SDtoLD(tvl)
    BY <2>2, <2>3
  <2> HIDE DEF tvl, held
  <2>5. Held
    BY <2>1, <2>4, MoveTokens
  <2> QED
    BY <1>1, <2>1, <2>5 DEF IInv, EvmTypeOK
<1> QED
  BY <1>2, <1>3, <1>5, <1>6, <1>7 DEF OnEvm, Evm!registerToken,
     Evm!setGlobalPause, Evm!setTokenPause, Evm!enableEmergencyWithdraw,
     Evm!WeekPasses

\* The state before any transfer.
LEMMA InitIInv == Init => IInv
<1> SUFFICES ASSUME Init PROVE IInv
  OBVIOUS
<1>1. EvmTypeOK
  BY DEF Init, Evm!TokenInit, EvmTypeOK, Evm!BP_DENOMINATOR
<1>2. TvlIsHeld
  BY BridgeAssumption DEF Init, Evm!TokenInit, TvlIsHeld, Evm!SDtoLD
<1> QED
  BY <1>1, <1>2 DEF IInv

\* IInv is inductive.
LEMMA NextIInv == IInv /\ [Next]_vars => IInv'
<1> SUFFICES ASSUME IInv, [Next]_vars PROVE IInv'
  OBVIOUS
<1>1. ASSUME UNCHANGED evmVars,
             toEvm' \in [Chains -> Seq(ToEvm)], failed' \in [Chains -> Seq(ToEvm)]
      PROVE  IInv'
  BY <1>1 DEF evmVars, IInv, EvmTypeOK, TvlIsHeld, Evm!SDtoLD
<1>2. toEvm \in [Chains -> Seq(ToEvm)] /\ failed \in [Chains -> Seq(ToEvm)]
  BY DEF IInv, EvmTypeOK
<1>3. CASE UNCHANGED vars
  BY <1>1, <1>2, <1>3 DEF vars, networkVars
<1>4. CASE OnAptos
  BY <1>1, <1>2, <1>4 DEF OnAptos, networkVars
<1>5. ASSUME NEW ch \in Chains, OnEvm(ch) PROVE IInv'
  BY <1>5, OnEvmIInv
<1>6. ASSUME NEW ch \in Chains, DropOnAptos(ch) PROVE IInv'
  BY <1>1, <1>2, <1>6 DEF DropOnAptos
<1>7. ASSUME NEW ch \in Chains, NEW coin \in Coins, ReceiveOnAptos(ch, coin)
      PROVE  IInv'
  BY <1>1, <1>2, <1>7 DEF ReceiveOnAptos
<1>8. ASSUME NEW ch \in Chains, NEW coin \in Coins, NEW user \in Users,
             SendToAptos(ch, coin, user)
      PROVE  IInv'
  BY <1>8, SendToAptosIInv
<1>9. ASSUME NEW ch \in Chains, NEW coin \in Coins, NEW user \in Users,
             SendToEvm(ch, coin, user)
      PROVE  IInv'
  <2>1. PICK amount_ld \in Amounts :
          /\ toEvm' = [toEvm EXCEPT ![ch] =
               Append(@, [coin |-> coin, amount_sd |-> ld2sd(amount_ld)])]
          /\ UNCHANGED <<evmVars, failed>>
    BY <1>9 DEF SendToEvm
  <2>2. ld2sd(amount_ld) \in Nat
    BY CoinBridgeAssumption DEF ld2sd, Amounts
  <2> DEFINE message == [coin |-> coin, amount_sd |-> ld2sd(amount_ld)]
  <2>3. message \in ToEvm
    BY <2>2 DEF ToEvm
  <2>4. toEvm' = [toEvm EXCEPT ![ch] = Append(@, message)]
    BY <2>1
  <2> HIDE DEF message
  <2>5. Append(toEvm[ch], message) \in Seq(ToEvm)
    BY <1>2, <2>3
  <2> QED
    BY <1>1, <1>2, <2>1, <2>4, <2>5
<1>10. ASSUME NEW ch \in Chains, ReceiveOnEvm(ch) PROVE IInv'
  <2>1. /\ toEvm[ch] \in Seq(ToEvm) /\ toEvm[ch] # <<>>
        /\ Evm!nonblockingLzReceive(ch, Head(toEvm[ch]))
        /\ toEvm' = [toEvm EXCEPT ![ch] = Tail(@)]
        /\ UNCHANGED failed
    BY <1>2, <1>10 DEF ReceiveOnEvm
  <2>2. Head(toEvm[ch]) \in ToEvm /\ Tail(toEvm[ch]) \in Seq(ToEvm)
    BY <2>1
  <2>3. UNCHANGED bridgeFeeBP
    BY <2>1 DEF Evm!nonblockingLzReceive
  <2> QED
    BY <1>2, <2>1, <2>2, <2>3, PayoutHeld DEF IInv, EvmTypeOK
<1>11. ASSUME NEW ch \in Chains, FailOnEvm(ch) PROVE IInv'
  <2>1. toEvm[ch] \in Seq(ToEvm) /\ toEvm[ch] # <<>> /\ failed[ch] \in Seq(ToEvm)
    BY <1>2, <1>11 DEF FailOnEvm
  <2>2. /\ Tail(toEvm[ch]) \in Seq(ToEvm)
        /\ Append(failed[ch], Head(toEvm[ch])) \in Seq(ToEvm)
    BY <2>1
  <2> QED
    BY <1>1, <1>2, <1>11, <2>2 DEF FailOnEvm
<1>12. ASSUME NEW ch \in Chains, NEW i \in 1 .. MaxInFlight, RetryOnEvm(ch, i)
       PROVE  IInv'
  <2>1. /\ failed[ch] \in Seq(ToEvm) /\ i \in 1 .. Len(failed[ch])
        /\ Evm!nonblockingLzReceive(ch, failed[ch][i])
        /\ failed' = [failed EXCEPT ![ch] = RemoveAt(@, i)]
        /\ UNCHANGED toEvm
    BY <1>2, <1>12 DEF RetryOnEvm
  <2>2. failed[ch][i] \in ToEvm
    BY <2>1
  <2>3. RemoveAt(failed[ch], i) \in Seq(ToEvm)
    BY <2>1 DEF RemoveAt
  <2>4. UNCHANGED bridgeFeeBP
    BY <2>1 DEF Evm!nonblockingLzReceive
  <2> QED
    BY <1>2, <2>1, <2>2, <2>3, <2>4, PayoutHeld DEF IInv, EvmTypeOK
<1> QED
  BY <1>3, <1>4, <1>5, <1>6, <1>7, <1>8, <1>9, <1>10, <1>11, <1>12 DEF Next

\* IInv holds in every reachable state.
THEOREM Invariance == Spec => []IInv
BY InitIInv, NextIInv, PTL DEF Spec

\* The contract of every chain holds its tvl of every token, so accruedFeeLD
\* never underflows and no fee is taken out of what users locked.
THEOREM TvlIsHeldHolds == Spec => []TvlIsHeld
BY Invariance, PTL DEF IInv

-----------------------------------------------------------------------------
\* The state of the Aptos end.

CoinTypeOK ==
  /\ coins \in SUBSET Coins /\ remote_coins \in SUBSET (coins \X Chains)
  /\ tvl_sd \in [Coins -> [Chains -> Nat]]
  /\ claimable_amt_ld \in [Coins -> [Users -> Nat]]
  /\ paused_global \in BOOLEAN /\ paused_coins \in SUBSET coins
  /\ limiters \in [Coins -> Limiter] /\ now \in 0 .. MaxTime
  /\ balance \in [Coins -> [Accounts -> Nat]]
  /\ coin_accounts \in [Coins -> SUBSET Accounts]

\* The window of every limiter has begun, so that the time since is not
\* negative, and is not of 0 seconds.
WindowsBegun ==
  \A coin \in Coins :
    limiters[coin].window_sec = Window /\ limiters[coin].t0_sec <= now

\* Nothing is counted for a chain that a coin is not set up for: set_remote_coin
\* begins at 0 and forgets nothing.
UnsetIsEmpty ==
  \A coin \in Coins, chain \in Chains :
    <<coin, chain>> \notin remote_coins => tvl_sd[coin][chain] = 0

CoinInv == CoinTypeOK /\ WindowsBegun /\ UnsetIsEmpty

\* Conversion between decimals on Aptos.
LEMMA Decimals ==
  ASSUME NEW a \in Nat
  PROVE  /\ sd2ld(a) \in Nat /\ ld2sd(a) \in Nat
         /\ remove_dust_ld(a) \in Nat /\ remove_dust_ld(a) <= a
         /\ ld2sd(remove_dust_ld(a)) = ld2sd(a)
<1>1. Ld2SdRate \in Nat /\ Ld2SdRate > 0
  BY CoinBridgeAssumption
<1> DEFINE q == a \div Ld2SdRate
<1>2. q \in Nat /\ q * Ld2SdRate <= a /\ q * Ld2SdRate \in Nat
  BY <1>1
<1> HIDE DEF q
<1>3. (q * Ld2SdRate) \div Ld2SdRate = q
  BY <1>1, <1>2
<1>4. a * Ld2SdRate \in Nat
  BY <1>1
<1> QED
  BY <1>2, <1>3, <1>4 DEF sd2ld, ld2sd, remove_dust_ld, q

LEMMA Sd2LdLinear ==
  ASSUME NEW a \in Nat, NEW b \in Nat
  PROVE  /\ sd2ld(a + b) = sd2ld(a) + sd2ld(b)
         /\ sd2ld(a - b) = sd2ld(a) - sd2ld(b)
BY CoinBridgeAssumption DEF sd2ld

\* pow(2, count) is a power of two.
LEMMA Pow2Positive ==
  ASSUME NEW n \in Nat PROVE pow2[n] \in Nat \ {0}
<1>1. pow2 \in [Nat -> Nat \ {0}]
  BY PowersOfTwo DEF pow2
<1> QED
  BY <1>1

\* A limiter that lets an amount in stays in a window that has begun.
LEMMA InsertedType ==
  ASSUME NEW limiter \in Limiter, limiter.window_sec > 0,
         NEW t \in Nat, limiter.t0_sec <= t, NEW amount \in Nat
  PROVE  /\ Inserted(limiter, t, amount) \in Limiter
         /\ Inserted(limiter, t, amount).window_sec = limiter.window_sec
         /\ Inserted(limiter, t, amount).t0_sec <= t
<1> DEFINE window == limiter.window_sec
           t0 == limiter.t0_sec
           count == (t - t0) \div window
<1>1. window \in Nat /\ window > 0 /\ t0 \in Nat /\ t0 <= t /\ limiter.sum_sd \in Nat
  BY DEF Limiter
<1> HIDE DEF window, t0
<1>2. count \in Nat /\ window * count <= t - t0 /\ window * count \in Nat
  BY <1>1
<1> HIDE DEF count
<1>3. t0 + window * count \in Nat /\ t0 + window * count <= t
  BY <1>1, <1>2
<1> DEFINE start == t0 + window * count
           power == pow2[count]
           sum == IF count >= 64 THEN 0 ELSE limiter.sum_sd \div power
<1>4. sum \in Nat
  <2>1. power \in Nat \ {0}
    BY <1>2, Pow2Positive
  <2> HIDE DEF power
  <2> QED
    BY <1>1, <2>1
<1> DEFINE moved == [limiter EXCEPT !.t0_sec = start]
           advanced == [moved EXCEPT !.sum_sd = sum]
           inserted == [advanced EXCEPT !.sum_sd = @ + amount]
<1>5. Inserted(limiter, t, amount) = IF limiter.enabled THEN inserted ELSE limiter
  BY DEF Inserted, Advanced, count, window, t0
<1> HIDE DEF start, sum
<1>6. start \in Nat /\ start <= t
  BY <1>3 DEF start
<1>7. /\ moved \in Limiter
      /\ moved.window_sec = limiter.window_sec /\ moved.t0_sec = start
  BY <1>6 DEF Limiter
<1> HIDE DEF moved
<1>8. /\ advanced \in Limiter
      /\ advanced.window_sec = limiter.window_sec /\ advanced.t0_sec = start
  BY <1>4, <1>7 DEF Limiter
<1> HIDE DEF advanced
<1>9. /\ inserted \in Limiter
      /\ inserted.window_sec = limiter.window_sec /\ inserted.t0_sec = start
  BY <1>8 DEF Limiter
<1> HIDE DEF inserted
<1> QED
  BY <1>1, <1>5, <1>6, <1>9 DEF t0

-----------------------------------------------------------------------------
\* Its operations keep it.

LEMMA CoinInitInv == CoinInit => CoinInv
<1> SUFFICES ASSUME CoinInit PROVE CoinInv
  OBVIOUS
<1>1. CoinTypeOK
  <2>1. NewLimiter(0, 0, Window) \in Limiter
    BY CoinBridgeAssumption DEF NewLimiter, Limiter
  <2>2. 0 \in 0 .. MaxTime
    BY BridgeAssumption
  <2> QED
    BY <2>1, <2>2 DEF CoinInit, CoinTypeOK
<1>2. WindowsBegun
  BY DEF CoinInit, WindowsBegun, NewLimiter
<1>3. UnsetIsEmpty
  BY DEF CoinInit, UnsetIsEmpty
<1> QED
  BY <1>1, <1>2, <1>3 DEF CoinInv

\* The operations of the owner, the clock, and the registration of accounts.
Configure ==
  \/ \E coin \in Coins, cap \in Caps : register_coin(coin, cap)
  \/ \E coin \in Coins, enabled \in BOOLEAN, cap \in Caps :
       set_limiter_cap(coin, enabled, cap)
  \/ \E coin \in Coins, chain \in Chains : set_remote_coin(coin, chain)
  \/ \E paused \in BOOLEAN : set_global_pause(paused)
  \/ \E coin \in Coins, paused \in BOOLEAN : set_pause(coin, paused)
  \/ \E coin \in Coins, account \in Accounts : RegisterAccount(account, coin)
  \/ now < MaxTime /\ CoinTick

LEMMA ConfigureInv ==
  ASSUME CoinInv, Configure PROVE CoinInv'
<1> USE DEF CoinInv, CoinTypeOK
<1>1. Caps \subseteq Nat
  BY BridgeAssumption
<1>2. ASSUME NEW coin \in Coins, NEW cap \in Caps, register_coin(coin, cap)
      PROVE  CoinInv'
  <2>1. NewLimiter(now, cap, Window) \in Limiter
    BY <1>1, CoinBridgeAssumption DEF NewLimiter, Limiter
  <2>2. CoinTypeOK'
    BY <1>2, <2>1 DEF register_coin, pauseVars, ledgerVars
  <2>3. WindowsBegun'
    BY <1>2 DEF register_coin, WindowsBegun, NewLimiter
  <2>4. UnsetIsEmpty'
    BY <1>2 DEF register_coin, UnsetIsEmpty
  <2> QED
    BY <2>2, <2>3, <2>4
<1>3. ASSUME NEW coin \in Coins, NEW flag \in BOOLEAN, NEW cap \in Caps,
             set_limiter_cap(coin, flag, cap)
      PROVE  CoinInv'
  <2>1. WithLimit(limiters[coin], flag, cap, Window) \in Limiter
    BY <1>1, CoinBridgeAssumption DEF WithLimit, Limiter
  <2>2. CoinTypeOK'
    BY <1>3, <2>1 DEF set_limiter_cap, pauseVars, ledgerVars
  <2>3. WindowsBegun'
    BY <1>3 DEF set_limiter_cap, WindowsBegun, WithLimit, Limiter
  <2>4. UnsetIsEmpty'
    BY <1>3 DEF set_limiter_cap, UnsetIsEmpty
  <2> QED
    BY <2>2, <2>3, <2>4
<1>4. ASSUME NEW coin \in Coins, NEW chain \in Chains, set_remote_coin(coin, chain)
      PROVE  CoinInv'
  <2>1. CoinTypeOK'
    BY <1>4 DEF set_remote_coin, pauseVars, ledgerVars
  <2>2. WindowsBegun'
    BY <1>4 DEF set_remote_coin, WindowsBegun
  <2>3. UnsetIsEmpty'
    BY <1>4 DEF set_remote_coin, UnsetIsEmpty
  <2> QED
    BY <2>1, <2>2, <2>3
<1>5. ASSUME NEW flag \in BOOLEAN, set_global_pause(flag) PROVE CoinInv'
  BY <1>5 DEF set_global_pause, ledgerVars, WindowsBegun, UnsetIsEmpty
<1>6. ASSUME NEW coin \in Coins, NEW flag \in BOOLEAN, set_pause(coin, flag)
      PROVE  CoinInv'
  BY <1>6 DEF set_pause, ledgerVars, WindowsBegun, UnsetIsEmpty
<1>7. ASSUME NEW coin \in Coins, NEW account \in Accounts, RegisterAccount(account, coin)
      PROVE  CoinInv'
  BY <1>7 DEF RegisterAccount, pauseVars, WindowsBegun, UnsetIsEmpty
<1>8. CASE now < MaxTime /\ CoinTick
  <2>1. now' \in 0 .. MaxTime /\ now' = now + 1
    <3>1. now' = now + 1 /\ now < MaxTime
      BY <1>8 DEF CoinTick
    <3>2. MaxTime \in Nat /\ now \in 0 .. MaxTime
      BY BridgeAssumption
    <3> QED
      BY <3>1, <3>2
  <2>2. CoinTypeOK'
    BY <1>8, <2>1 DEF CoinTick, pauseVars, ledgerVars
  <2>3. WindowsBegun'
    BY <1>8, <2>1 DEF CoinTick, WindowsBegun, Limiter
  <2>4. UnsetIsEmpty'
    BY <1>8 DEF CoinTick, UnsetIsEmpty
  <2> QED
    BY <2>2, <2>3, <2>4
<1> QED
  BY <1>2, <1>3, <1>4, <1>5, <1>6, <1>7, <1>8 DEF Configure

-----------------------------------------------------------------------------
\* Ledgers: a number per coin and account, or per coin and chain.

\* From F to G one entry changes.
EntryChanges(S, F, G, coin, x) ==
  /\ F \in [Coins -> [S -> Nat]] /\ G \in [Coins -> [S -> Nat]]
  /\ coin \in Coins /\ x \in S
  /\ \A c \in Coins : \A y \in S : c # coin \/ y # x => G[c][y] = F[c][y]

\* The sum of its coin changes by as much, the sums of the others do not.
Shifts(F, G, coin, change) ==
  \A c \in Coins :
    /\ SumFunction(F[c]) \in Nat /\ SumFunction(G[c]) \in Nat
    /\ SumFunction(G[c]) = SumFunction(F[c]) + (IF c = coin THEN change ELSE 0)

LEMMA LedgerUpdate ==
  ASSUME NEW S, IsFiniteSet(S), NEW F, NEW G, NEW coin, NEW x, NEW change,
         EntryChanges(S, F, G, coin, x), change = G[coin][x] - F[coin][x]
  PROVE  Shifts(F, G, coin, change)
<1> USE DEF EntryChanges
<1>1. ASSUME NEW c \in Coins
      PROVE  SumFunction(F[c]) \in Nat /\ SumFunction(G[c]) \in Nat
  <2>1. /\ DOMAIN F[c] = S /\ \A y \in S : F[c][y] \in Nat
        /\ DOMAIN G[c] = S /\ \A y \in S : G[c][y] \in Nat
    OBVIOUS
  <2> QED
    BY <2>1, SumNat DEF SumFunction
<1>2. SumFunction(G[coin]) = SumFunction(F[coin]) - F[coin][x] + G[coin][x]
  <2> DEFINE f == F[coin]
             g == G[coin]
  <2>1. /\ f \in [S -> Int] /\ g \in [S -> Int]
        /\ \A y \in S : y # x => g[y] = f[y]
    OBVIOUS
  <2> HIDE DEF f, g
  <2>2. SumFunction(g) = SumFunction(f) - f[x] + g[x]
    BY <2>1, SumUpdate
  <2> QED
    BY <2>2 DEF f, g
<1>3. F[coin][x] \in Nat /\ G[coin][x] \in Nat
  OBVIOUS
<1>4. ASSUME NEW c \in Coins, c # coin PROVE G[c] = F[c]
  BY <1>4
<1>5. ASSUME NEW c \in Coins
      PROVE  SumFunction(G[c]) = SumFunction(F[c]) + (IF c = coin THEN change ELSE 0)
  <2>1. CASE c = coin
    BY <1>1, <1>2, <1>3, <2>1
  <2>2. CASE c # coin
    BY <1>1, <1>4, <2>2
  <2> QED
    BY <2>1, <2>2
<1> QED
  BY <1>1, <1>5 DEF Shifts

\* Two changes of the same coin add up.
LEMMA ShiftsAdd ==
  ASSUME NEW F, NEW G, NEW H, NEW coin, NEW d \in Int, NEW e \in Int,
         Shifts(F, G, coin, d), Shifts(G, H, coin, e)
  PROVE  Shifts(F, H, coin, d + e)
BY DEF Shifts

\* All of a coin on Aptos, and what the chains' tvl_sd count of it.
Supply(coin) == SumFunction(balance[coin]) + SumFunction(claimable_amt_ld[coin])

TotalTvl(coin) == SumFunction(tvl_sd[coin])

\* The accounts and the chains are finitely many.
LEMMA FiniteLedgers ==
  IsFiniteSet(Users) /\ IsFiniteSet(Chains) /\ IsFiniteSet(Accounts)
<1>1. IsFiniteSet(Users) /\ IsFiniteSet(Chains)
  BY BridgeAssumption
<1> QED
  BY <1>1, FS_AddElement DEF Accounts

LEMMA SupplyNat ==
  ASSUME CoinTypeOK, NEW coin \in Coins
  PROVE  /\ SumFunction(balance[coin]) \in Nat
         /\ SumFunction(claimable_amt_ld[coin]) \in Nat
         /\ Supply(coin) \in Nat /\ TotalTvl(coin) \in Nat
<1>1. /\ DOMAIN balance[coin] = Accounts /\ \A a \in Accounts : balance[coin][a] \in Nat
      /\ DOMAIN claimable_amt_ld[coin] = Users
      /\ \A u \in Users : claimable_amt_ld[coin][u] \in Nat
      /\ DOMAIN tvl_sd[coin] = Chains /\ \A ch \in Chains : tvl_sd[coin][ch] \in Nat
  BY DEF CoinTypeOK
<1>2. /\ SumFunction(balance[coin]) \in Nat
      /\ SumFunction(claimable_amt_ld[coin]) \in Nat
      /\ SumFunction(tvl_sd[coin]) \in Nat
  BY <1>1, FiniteLedgers, SumNat DEF SumFunction
<1> QED
  BY <1>2 DEF Supply, TotalTvl

\* What changes on Aptos when shared units of a coin come from a chain, or go
\* to it: its tvl there and, worth as much, its supply.
Comes(coin, chain, amount_sd) ==
  /\ tvl_sd' = [tvl_sd EXCEPT ![coin][chain] = tvl_sd[coin][chain] + amount_sd]
  /\ \A c \in Coins :
       Supply(c)' = Supply(c) + (IF c = coin THEN sd2ld(amount_sd) ELSE 0)

Goes(coin, chain, amount_sd) ==
  /\ tvl_sd[coin][chain] >= amount_sd
  /\ tvl_sd' = [tvl_sd EXCEPT ![coin][chain] = tvl_sd[coin][chain] - amount_sd]
  /\ \A c \in Coins :
       Supply(c)' = Supply(c) - (IF c = coin THEN sd2ld(amount_sd) ELSE 0)

-----------------------------------------------------------------------------
\* Transfers on Aptos.

\* What the two ways to send share: the sender's coins without their dust are
\* burned, and the dust, if it leaves the sender, stays with @bridge.
LEMMA SendEffect ==
  ASSUME CoinInv, NEW coin \in Coins, NEW chain \in Chains, NEW sender \in Users,
         NEW amount_ld \in Amounts,
         \/ send_coin_from(sender, coin, chain, amount_ld)
         \/ send_coin_with_zro(sender, coin, chain, amount_ld)
  PROVE  CoinInv' /\ Goes(coin, chain, ld2sd(amount_ld))
<1> DEFINE sd == ld2sd(amount_ld)
           send == remove_dust_ld(amount_ld)
           dust == amount_ld - send
<1>1. /\ amount_ld \in Nat /\ sd \in Nat /\ send \in Nat /\ dust \in Nat
      /\ ld2sd(send) = sd /\ send = sd2ld(sd)
  <2>1. amount_ld \in Nat
    BY DEF Amounts
  <2> QED
    BY <2>1, Decimals DEF remove_dust_ld
<1>2. /\ CoinTypeOK /\ WindowsBegun /\ UnsetIsEmpty
      /\ sender \in Accounts /\ BridgeAccount \in Accounts /\ sender # BridgeAccount
  BY CoinBridgeAssumption DEF CoinInv, Accounts
<1>3. send_coin_internal(coin, chain, send)
  BY DEF send_coin_from, send_coin_with_zro
<1> HIDE DEF sd, send
<1>4. /\ CanInsert(limiters[coin], now, sd)
      /\ limiters' = [limiters EXCEPT ![coin] = Inserted(limiters[coin], now, sd)]
      /\ tvl_sd[coin][chain] >= sd
      /\ tvl_sd' = [tvl_sd EXCEPT ![coin][chain] = tvl_sd[coin][chain] - sd]
      /\ <<coin, chain>> \in remote_coins
      /\ UNCHANGED <<coins, remote_coins, pauseVars, now>>
  BY <1>1, <1>3 DEF send_coin_internal
<1>5. UNCHANGED <<coin_accounts, claimable_amt_ld>>
  BY DEF send_coin_from, send_coin_with_zro
<1>6. /\ balance' \in [Coins -> [Accounts -> Nat]]
      /\ Shifts(balance, balance', coin, 0 - send)
  <2>0. balance \in [Coins -> [Accounts -> Nat]]
    BY <1>2 DEF CoinTypeOK
  <2>1. CASE send_coin_from(sender, coin, chain, amount_ld)
    <3> DEFINE v == balance[coin][sender] - send
    <3>1. v \in Nat /\ balance' = [balance EXCEPT ![coin][sender] = v]
      BY <1>1, <1>2, <2>0, <2>1 DEF send_coin_from, send
    <3> HIDE DEF v
    <3>2. /\ balance' \in [Coins -> [Accounts -> Nat]]
          /\ balance'[coin][sender] = v
          /\ EntryChanges(Accounts, balance, balance', coin, sender)
      BY <1>2, <2>0, <3>1 DEF EntryChanges
    <3>3. 0 - send = balance'[coin][sender] - balance[coin][sender]
      BY <1>1, <1>2, <2>0, <3>2 DEF v
    <3> QED
      BY <3>2, <3>3, FiniteLedgers, LedgerUpdate
  <2>2. CASE send_coin_with_zro(sender, coin, chain, amount_ld)
    <3> DEFINE v == balance[coin][sender] - amount_ld
               B == [balance EXCEPT ![coin][sender] = v]
               w == balance[coin][BridgeAccount] + dust
    <3>1. v \in Nat /\ w \in Nat
      BY <1>1, <1>2, <2>0, <2>2 DEF send_coin_with_zro
    <3>2. balance' = [balance EXCEPT ![coin][sender] = v,
                                     ![coin][BridgeAccount] = @ + dust]
      BY <2>2 DEF send_coin_with_zro, send
    <3> HIDE DEF v, dust
    <3>3. /\ B \in [Coins -> [Accounts -> Nat]] /\ B[coin][sender] = v
          /\ B[coin][BridgeAccount] = balance[coin][BridgeAccount]
          /\ EntryChanges(Accounts, balance, B, coin, sender)
      BY <1>2, <2>0, <3>1 DEF EntryChanges
    <3>4. Shifts(balance, B, coin, 0 - amount_ld)
      <4>1. 0 - amount_ld = B[coin][sender] - balance[coin][sender]
        BY <1>1, <1>2, <2>0, <3>3 DEF v
      <4> HIDE DEF B
      <4> QED
        BY <3>3, <4>1, FiniteLedgers, LedgerUpdate
    <3>5. balance' = [B EXCEPT ![coin][BridgeAccount] = w]
      BY <1>2, <2>0, <3>2
    <3> HIDE DEF B
    <3>6. dust = w - B[coin][BridgeAccount]
      BY <1>1, <1>2, <2>0, <3>3 DEF dust
    <3> HIDE DEF w
    <3>7. /\ balance' \in [Coins -> [Accounts -> Nat]]
          /\ balance'[coin][BridgeAccount] = w
          /\ EntryChanges(Accounts, B, balance', coin, BridgeAccount)
      BY <1>2, <3>1, <3>3, <3>5 DEF EntryChanges
    <3>8. Shifts(B, balance', coin, dust)
      BY <3>6, <3>7, FiniteLedgers, LedgerUpdate
    <3>9. /\ 0 - amount_ld \in Int /\ dust \in Int
          /\ (0 - amount_ld) + dust = 0 - send
      BY <1>1 DEF dust
    <3> DEFINE out == 0 - amount_ld
    <3>10. Shifts(balance, balance', coin, out + dust)
      <4> HIDE DEF out, dust
      <4> QED
        BY <3>4, <3>8, <3>9, ShiftsAdd DEF out
    <3> QED
      BY <3>7, <3>9, <3>10
  <2> QED
    BY <2>1, <2>2
<1>7. tvl_sd[coin][chain] - sd \in Nat
  BY <1>1, <1>2, <1>4 DEF CoinTypeOK
<1>8. CoinInv'
  <2>1. /\ limiters[coin] \in Limiter /\ limiters[coin].window_sec > 0
        /\ limiters[coin].t0_sec <= now /\ now \in Nat
    <3>1. Window > 0 /\ limiters[coin].window_sec = Window
      BY <1>2, CoinBridgeAssumption DEF WindowsBegun
    <3>2. now \in Nat
      BY <1>2, BridgeAssumption DEF CoinTypeOK
    <3> QED
      BY <1>2, <3>1, <3>2 DEF CoinTypeOK, WindowsBegun
  <2>2. /\ Inserted(limiters[coin], now, sd) \in Limiter
        /\ Inserted(limiters[coin], now, sd).window_sec = limiters[coin].window_sec
        /\ Inserted(limiters[coin], now, sd).t0_sec <= now
    BY <1>1, <2>1, InsertedType
  <2>3. CoinTypeOK'
    BY <1>2, <1>4, <1>5, <1>6, <1>7, <2>2 DEF CoinTypeOK, pauseVars
  <2>4. WindowsBegun'
    BY <1>2, <1>4, <2>2 DEF CoinTypeOK, WindowsBegun
  <2>5. UnsetIsEmpty'
    BY <1>2, <1>4, <1>7 DEF CoinTypeOK, UnsetIsEmpty
  <2> QED
    BY <2>3, <2>4, <2>5 DEF CoinInv
<1>9. ASSUME NEW c \in Coins
      PROVE  Supply(c)' = Supply(c) - (IF c = coin THEN sd2ld(sd) ELSE 0)
  <2>1. /\ SumFunction(balance'[c]) =
             SumFunction(balance[c]) + (IF c = coin THEN 0 - send ELSE 0)
        /\ SumFunction(balance[c]) \in Nat
        /\ SumFunction(claimable_amt_ld[c]) \in Nat
    BY <1>2, <1>6, SupplyNat DEF Shifts
  <2>2. Supply(c)' = SumFunction(balance'[c]) + SumFunction(claimable_amt_ld[c])
    BY <1>5 DEF Supply
  <2> QED
    BY <1>1, <2>1, <2>2 DEF Supply
<1> QED
  BY <1>4, <1>8, <1>9 DEF Goes, sd

\* A message that is received adds to its chain's tvl_sd and is minted or
\* stashed.
LEMMA ReceiveEffect ==
  ASSUME CoinInv, NEW coin \in Coins, NEW chain \in Chains, NEW message \in ToAptos,
         lz_receive(coin, chain, message)
  PROVE  /\ CoinInv' /\ message.coin = coin
         /\ Comes(coin, chain, message.amount_sd)
<1> DEFINE sd == message.amount_sd
           ld == sd2ld(sd)
           user == message.receiver
<1>1. sd \in Nat /\ ld \in Nat /\ user \in Users /\ user \in Accounts
  BY Decimals DEF ToAptos, Accounts
<1>2. CoinTypeOK /\ WindowsBegun /\ UnsetIsEmpty
  BY DEF CoinInv
<1> HIDE DEF sd, user
<1>3. /\ message.coin = coin /\ <<coin, chain>> \in remote_coins
      /\ tvl_sd' = [tvl_sd EXCEPT ![coin][chain] = tvl_sd[coin][chain] + sd]
      /\ UNCHANGED <<coins, remote_coins, pauseVars, limiters, now, coin_accounts>>
  BY DEF lz_receive, sd
<1> HIDE DEF ld
<1>4. /\ balance' \in [Coins -> [Accounts -> Nat]]
      /\ claimable_amt_ld' \in [Coins -> [Users -> Nat]]
      /\ \/ Shifts(balance, balance', coin, ld) /\ UNCHANGED claimable_amt_ld
         \/ Shifts(claimable_amt_ld, claimable_amt_ld', coin, ld) /\ UNCHANGED balance
  <2>0. /\ balance \in [Coins -> [Accounts -> Nat]]
        /\ claimable_amt_ld \in [Coins -> [Users -> Nat]]
    BY <1>2 DEF CoinTypeOK
  <2>1. CASE user \in coin_accounts[coin]
    <3> DEFINE v == balance[coin][user] + ld
    <3>1. /\ v \in Nat /\ balance' = [balance EXCEPT ![coin][user] = v]
          /\ UNCHANGED claimable_amt_ld
      BY <1>1, <2>0, <2>1 DEF lz_receive, user, ld, sd
    <3>2. ld = v - balance[coin][user]
      BY <1>1, <2>0
    <3> HIDE DEF v
    <3>3. /\ balance' \in [Coins -> [Accounts -> Nat]]
          /\ balance'[coin][user] = v
          /\ EntryChanges(Accounts, balance, balance', coin, user)
      BY <1>1, <2>0, <3>1 DEF EntryChanges
    <3>4. Shifts(balance, balance', coin, ld)
      BY <3>2, <3>3, FiniteLedgers, LedgerUpdate
    <3> QED
      BY <2>0, <3>1, <3>3, <3>4
  <2>2. CASE user \notin coin_accounts[coin]
    <3> DEFINE v == claimable_amt_ld[coin][user] + ld
    <3>1. /\ v \in Nat
          /\ claimable_amt_ld' = [claimable_amt_ld EXCEPT ![coin][user] = v]
          /\ UNCHANGED balance
      BY <1>1, <2>0, <2>2 DEF lz_receive, user, ld, sd
    <3>2. ld = v - claimable_amt_ld[coin][user]
      BY <1>1, <2>0
    <3> HIDE DEF v
    <3>3. /\ claimable_amt_ld' \in [Coins -> [Users -> Nat]]
          /\ claimable_amt_ld'[coin][user] = v
          /\ EntryChanges(Users, claimable_amt_ld, claimable_amt_ld', coin, user)
      BY <1>1, <2>0, <3>1 DEF EntryChanges
    <3>4. Shifts(claimable_amt_ld, claimable_amt_ld', coin, ld)
      BY <3>2, <3>3, FiniteLedgers, LedgerUpdate
    <3> QED
      BY <2>0, <3>1, <3>3, <3>4
  <2> QED
    BY <2>1, <2>2
<1>5. CoinInv'
  <2>1. tvl_sd[coin][chain] + sd \in Nat
    BY <1>1, <1>2 DEF CoinTypeOK
  <2>2. CoinTypeOK'
    BY <1>2, <1>3, <1>4, <2>1 DEF CoinTypeOK, pauseVars
  <2>3. WindowsBegun'
    BY <1>2, <1>3 DEF CoinTypeOK, WindowsBegun
  <2>4. UnsetIsEmpty'
    BY <1>2, <1>3, <2>1 DEF CoinTypeOK, UnsetIsEmpty
  <2> QED
    BY <2>2, <2>3, <2>4 DEF CoinInv
<1>6. ASSUME NEW c \in Coins
      PROVE  Supply(c)' = Supply(c) + (IF c = coin THEN ld ELSE 0)
  <2>1. /\ SumFunction(balance[c]) \in Nat
        /\ SumFunction(claimable_amt_ld[c]) \in Nat
    BY <1>2, SupplyNat
  <2>2. Supply(c)' = SumFunction(balance'[c]) + SumFunction(claimable_amt_ld'[c])
    BY DEF Supply
  <2> QED
    BY <1>1, <1>4, <2>1, <2>2 DEF Supply, Shifts
<1> QED
  BY <1>3, <1>5, <1>6 DEF Comes, sd, ld

\* A stash that is claimed moves into the receiver's balance.
LEMMA ClaimEffect ==
  ASSUME CoinInv, NEW coin \in Coins, NEW user \in Users, claim_coin(user, coin)
  PROVE  CoinInv' /\ UNCHANGED tvl_sd /\ \A c \in Coins : Supply(c)' = Supply(c)
<1> DEFINE stash == claimable_amt_ld[coin][user]
           v == balance[coin][user] + stash
<1>1. CoinTypeOK /\ WindowsBegun /\ UnsetIsEmpty /\ user \in Accounts
  BY DEF CoinInv, Accounts
<1>2. /\ balance \in [Coins -> [Accounts -> Nat]]
      /\ claimable_amt_ld \in [Coins -> [Users -> Nat]]
      /\ \A c \in Coins : /\ SumFunction(balance[c]) \in Nat
                          /\ SumFunction(claimable_amt_ld[c]) \in Nat
  BY <1>1, SupplyNat DEF CoinTypeOK
<1>3. /\ stash \in Nat /\ v \in Nat /\ balance[coin][user] \in Nat
      /\ v - balance[coin][user] = stash
  BY <1>1, <1>2
<1>4. /\ balance' = [balance EXCEPT ![coin][user] = v]
      /\ claimable_amt_ld' = [claimable_amt_ld EXCEPT ![coin][user] = 0]
      /\ coin_accounts' = [coin_accounts EXCEPT ![coin] = @ \union {user}]
      /\ UNCHANGED <<coins, remote_coins, tvl_sd, pauseVars, limiters, now>>
  BY DEF claim_coin
<1> HIDE DEF stash, v
<1>5. /\ balance' \in [Coins -> [Accounts -> Nat]]
      /\ balance'[coin][user] = v
      /\ EntryChanges(Accounts, balance, balance', coin, user)
  BY <1>1, <1>2, <1>3, <1>4 DEF EntryChanges
<1>6. /\ claimable_amt_ld' \in [Coins -> [Users -> Nat]]
      /\ claimable_amt_ld'[coin][user] = 0
      /\ EntryChanges(Users, claimable_amt_ld, claimable_amt_ld', coin, user)
  BY <1>1, <1>2, <1>3, <1>4 DEF EntryChanges
<1>7. ASSUME NEW c \in Coins PROVE Supply(c)' = Supply(c)
  <2>1. /\ stash = balance'[coin][user] - balance[coin][user]
        /\ 0 - stash = claimable_amt_ld'[coin][user] - claimable_amt_ld[coin][user]
    BY <1>3, <1>5, <1>6 DEF stash
  <2>2. /\ Shifts(balance, balance', coin, stash)
        /\ Shifts(claimable_amt_ld, claimable_amt_ld', coin, 0 - stash)
    BY <1>5, <1>6, <2>1, FiniteLedgers, LedgerUpdate
  <2>3. Supply(c)' = SumFunction(balance'[c]) + SumFunction(claimable_amt_ld'[c])
    BY DEF Supply
  <2> QED
    BY <1>3, <2>2, <2>3 DEF Supply, Shifts
<1>8. CoinInv'
  <2>1. CoinTypeOK'
    BY <1>1, <1>4, <1>5, <1>6 DEF CoinTypeOK, pauseVars
  <2>2. WindowsBegun'
    BY <1>1, <1>4 DEF CoinTypeOK, WindowsBegun
  <2>3. UnsetIsEmpty'
    BY <1>1, <1>4 DEF CoinTypeOK, UnsetIsEmpty
  <2> QED
    BY <2>1, <2>2, <2>3 DEF CoinInv
<1> QED
  BY <1>4, <1>7, <1>8

-----------------------------------------------------------------------------
\* What the messages of a queue carry.

Message == ToAptos \union ToEvm

LEMMA WorthNat ==
  ASSUME NEW message \in Message, NEW coin
  PROVE  Worth(message, coin) \in Nat
BY DEF Worth, Message, ToAptos, ToEvm

\* The messages to Aptos, and to an EVM chain, are messages.
LEMMA QueueOfMessages ==
  ASSUME NEW s, s \in Seq(ToAptos) \/ s \in Seq(ToEvm)
  PROVE  s \in Seq(Message)
BY DEF Message

LEMMA CarriedIs ==
  ASSUME NEW s \in Seq(Message), NEW coin
  PROVE  Carried(s, coin)
           = SumFunctionOnSet([i \in 1 .. Len(s) |-> Worth(s[i], coin)], 1 .. Len(s))
<1>1. DOMAIN s = 1 .. Len(s)
  OBVIOUS
<1> QED
  BY <1>1 DEF Carried, SumFunction

LEMMA CarriedNat ==
  ASSUME NEW s \in Seq(Message), NEW coin
  PROVE  Carried(s, coin) \in Nat
<1> DEFINE f == [i \in 1 .. Len(s) |-> Worth(s[i], coin)]
<1>1. \A i \in 1 .. Len(s) : f[i] \in Nat
  BY WorthNat
<1>2. IsFiniteSet(1 .. Len(s))
  BY FS_Interval
<1> HIDE DEF f
<1>3. SumFunctionOnSet(f, 1 .. Len(s)) \in Nat
  BY <1>1, <1>2, SumNat
<1> QED
  BY <1>3, CarriedIs DEF f

\* Nothing is carried by no message.
LEMMA CarriedEmpty ==
  ASSUME NEW coin PROVE Carried(<<>>, coin) = 0
<1>1. <<>> \in Seq(Message) /\ 1 .. Len(<<>>) = {}
  OBVIOUS
<1> QED
  BY <1>1, CarriedIs, SumEmpty

\* A message that joins a queue adds what it is worth.
LEMMA CarriedAppend ==
  ASSUME NEW s \in Seq(Message), NEW message \in Message, NEW coin
  PROVE  Carried(Append(s, message), coin) = Carried(s, coin) + Worth(message, coin)
<1> DEFINE n == Len(s)
           t == Append(s, message)
           f == [i \in 1 .. n |-> Worth(s[i], coin)]
           g == [i \in 1 .. Len(t) |-> Worth(t[i], coin)]
<1>1. /\ n \in Nat /\ t \in Seq(Message) /\ Len(t) = n + 1
      /\ t[n + 1] = message /\ \A i \in 1 .. n : t[i] = s[i] /\ s[i] \in Message
  OBVIOUS
<1> HIDE DEF n, t
<1>2. /\ \A i \in 1 .. n + 1 : g[i] \in Int
      /\ g[n + 1] = Worth(message, coin)
      /\ \A i \in 1 .. n : g[i] = f[i] /\ f[i] \in Nat
  BY <1>1, WorthNat
<1>3. Carried(s, coin) = SumFunctionOnSet(f, 1 .. n)
  BY CarriedIs DEF n
<1>4. Carried(t, coin) = SumFunctionOnSet(g, 1 .. n + 1)
  BY <1>1, CarriedIs
<1> HIDE DEF f, g
<1> DEFINE I == 1 .. n
           J == 1 .. n + 1
<1>5. IsFiniteSet(I) /\ IsFiniteSet(J)
  <2>1. n + 1 \in Int /\ n \in Int
    BY <1>1
  <2>2. IsFiniteSet(1 .. n)
    BY <2>1, FS_Interval
  <2>3. IsFiniteSet(1 .. n + 1)
    BY <2>1, FS_Interval
  <2> QED
    BY <2>2, <2>3
<1>6. J \ {n + 1} = I /\ n + 1 \in J
  BY <1>1
<1>7. /\ \A x \in J : g[x] \in Int
      /\ \A x \in I : g[x] = f[x] /\ f[x] \in Nat
  BY <1>2
<1> HIDE DEF I, J
<1>8. SumFunctionOnSet(g, J) = g[n + 1] + SumFunctionOnSet(g, I)
  <2>1. SumFunctionOnSet(g, J) = g[n + 1] + SumFunctionOnSet(g, J \ {n + 1})
    BY <1>5, <1>6, <1>7, SumRemove
  <2> QED
    BY <1>6, <2>1
<1>9. SumFunctionOnSet(g, I) = SumFunctionOnSet(f, I)
  BY <1>5, <1>7, SumAgree
<1>10. SumFunctionOnSet(f, I) \in Nat
  BY <1>5, <1>7, SumNat
<1>11. Worth(message, coin) \in Nat
  BY WorthNat
<1>12. /\ Carried(s, coin) = SumFunctionOnSet(f, I)
       /\ Carried(t, coin) = SumFunctionOnSet(g, J)
       /\ g[n + 1] = Worth(message, coin)
  BY <1>1, <1>2, <1>3, <1>4 DEF I, J
<1> QED
  BY <1>8, <1>9, <1>10, <1>11, <1>12 DEF t

\* From s to t the message at i is taken out.
TakenOut(s, t, i) ==
  /\ s \in Seq(Message) /\ t \in Seq(Message)
  /\ i \in 1 .. Len(s) /\ Len(s) = Len(t) + 1
  /\ \A j \in 1 .. Len(t) : t[j] = IF j < i THEN s[j] ELSE s[j + 1]

\* A message that leaves a queue takes what it is worth.
LEMMA CarriedRemove ==
  ASSUME NEW s, NEW t, NEW i, TakenOut(s, t, i), NEW coin
  PROVE  Carried(s, coin) = Carried(t, coin) + Worth(s[i], coin)
<1> DEFINE n == Len(t)
           f == [j \in 1 .. Len(s) |-> Worth(s[j], coin)]
           g == [j \in 1 .. n |-> Worth(t[j], coin)]
           b == [j \in 1 .. n |-> IF j < i THEN j ELSE j + 1]
           rest == (1 .. n + 1) \ {i}
<1>1. /\ n \in Nat /\ Len(s) = n + 1 /\ i \in 1 .. n + 1
      /\ \A j \in 1 .. n : t[j] = (IF j < i THEN s[j] ELSE s[j + 1]) /\ t[j] \in Message
      /\ \A j \in 1 .. n + 1 : s[j] \in Message
  BY DEF TakenOut
<1> HIDE DEF n
<1>2. /\ \A j \in 1 .. n + 1 : f[j] = Worth(s[j], coin) /\ f[j] \in Int
      /\ \A j \in 1 .. n : g[j] = Worth(t[j], coin) /\ g[j] \in Nat
  BY <1>1, WorthNat
<1>3. Carried(s, coin) = SumFunctionOnSet(f, 1 .. n + 1)
  BY <1>1, CarriedIs DEF TakenOut
<1>4. Carried(t, coin) = SumFunctionOnSet(g, 1 .. n)
  BY CarriedIs DEF n, TakenOut
<1> HIDE DEF f, g
<1>5. \A j \in 1 .. n : b[j] = IF j < i THEN j ELSE j + 1
  OBVIOUS
<1>6. \A j \in 1 .. n : b[j] \in rest /\ g[j] = f[b[j]] /\ g[j] \in Int
  BY <1>1, <1>2, <1>5
<1>7. \A j, k \in 1 .. n : b[j] = b[k] => j = k
  BY <1>1, <1>5
<1>8. \A k \in rest : \E j \in 1 .. n : b[j] = k
  <2> SUFFICES ASSUME NEW k \in rest PROVE \E j \in 1 .. n : b[j] = k
    OBVIOUS
  <2>1. CASE k < i
    <3>1. k \in 1 .. n /\ b[k] = k
      BY <1>1, <1>5, <2>1
    <3> QED
      BY <3>1
  <2>2. CASE k > i
    <3>1. k - 1 \in 1 .. n /\ b[k - 1] = k
      BY <1>1, <1>5, <2>2
    <3> QED
      BY <3>1
  <2> QED
    BY <1>1, <2>1, <2>2
<1> DEFINE I == 1 .. n
           J == 1 .. n + 1
<1>9. IsFiniteSet(I) /\ IsFiniteSet(J)
  <2>1. n + 1 \in Int /\ n \in Int
    BY <1>1
  <2>2. IsFiniteSet(1 .. n)
    BY <2>1, FS_Interval
  <2>3. IsFiniteSet(1 .. n + 1)
    BY <2>1, FS_Interval
  <2> QED
    BY <2>2, <2>3
<1>10. /\ \A x \in I : b[x] \in rest /\ g[x] = f[b[x]] /\ g[x] \in Int /\ g[x] \in Nat
       /\ \A x, y \in I : b[x] = b[y] => x = y
       /\ \A k \in rest : \E x \in I : b[x] = k
       /\ \A x \in J : f[x] \in Int
       /\ i \in J /\ rest = J \ {i}
  BY <1>1, <1>2, <1>6, <1>7, <1>8
<1> HIDE DEF b, rest, I, J
<1>11. SumFunctionOnSet(g, I) = SumFunctionOnSet(f, rest)
  BY <1>9, <1>10, SumReindex
<1>12. SumFunctionOnSet(f, J) = f[i] + SumFunctionOnSet(f, J \ {i})
  BY <1>9, <1>10, SumRemove
<1>13. SumFunctionOnSet(g, I) \in Nat /\ f[i] \in Int
  BY <1>9, <1>10, SumNat
<1> QED
  BY <1>1, <1>2, <1>3, <1>4, <1>10, <1>11, <1>12, <1>13 DEF I, J

\* The first message of a queue may leave it, and so may any other.
LEMMA TailTakesOut ==
  ASSUME NEW s \in Seq(Message), s # <<>>
  PROVE  TakenOut(s, Tail(s), 1) /\ s[1] = Head(s)
BY DEF TakenOut

LEMMA RemoveAtTakesOut ==
  ASSUME NEW s \in Seq(Message), NEW i \in 1 .. Len(s)
  PROVE  TakenOut(s, RemoveAt(s, i), i)
<1> DEFINE a == SubSeq(s, 1, i - 1)
           z == SubSeq(s, i + 1, Len(s))
<1>1. /\ a \in Seq(Message) /\ Len(a) = i - 1
      /\ \A j \in 1 .. i - 1 : a[j] = s[j]
  OBVIOUS
<1>2. /\ z \in Seq(Message) /\ Len(z) = Len(s) - i
      /\ \A j \in 1 .. Len(s) - i : z[j] = s[i + j]
  OBVIOUS
<1>3. RemoveAt(s, i) = a \o z
  BY DEF RemoveAt
<1> HIDE DEF a, z
<1>4. /\ a \o z \in Seq(Message) /\ Len(a \o z) = Len(a) + Len(z)
      /\ \A j \in 1 .. Len(a) + Len(z) :
           (a \o z)[j] = IF j <= Len(a) THEN a[j] ELSE z[j - Len(a)]
  <2>1. a \in Seq(Message) /\ z \in Seq(Message)
    BY <1>1, <1>2
  <2> QED
    BY <2>1
<1> DEFINE t == a \o z
<1>5. t \in Seq(Message) /\ Len(s) = Len(t) + 1 /\ Len(s) \in Nat
  BY <1>1, <1>2, <1>4
<1>6. ASSUME NEW j \in 1 .. Len(t)
      PROVE  t[j] = IF j < i THEN s[j] ELSE s[j + 1]
  <2>1. j \in 1 .. Len(a) + Len(z) /\ j \in 1 .. Len(s) - 1
    BY <1>1, <1>2, <1>4, <1>5
  <2>2. CASE j < i
    BY <1>1, <1>4, <2>1, <2>2
  <2>3. CASE j >= i
    <3>1. j - (i - 1) \in 1 .. Len(s) - i /\ i + (j - (i - 1)) = j + 1
      BY <2>1, <2>3
    <3>2. t[j] = z[j - (i - 1)]
      BY <1>1, <1>4, <2>1, <2>3
    <3> QED
      BY <1>2, <2>3, <3>1, <3>2
  <2> QED
    BY <2>1, <2>2, <2>3
<1> HIDE DEF t
<1> QED
  BY <1>3, <1>5, <1>6 DEF TakenOut, t

-----------------------------------------------------------------------------
\* The steps of Aptos that move no coins between it and the chains.

\* Nothing is created, lost or counted anew.
Conserved == UNCHANGED tvl_sd /\ \A c \in Coins : Supply(c)' = Supply(c)

LEMMA ConfigureConserves ==
  ASSUME CoinInv, Configure PROVE Conserved
<1>1. UNCHANGED <<balance, claimable_amt_ld>>
  BY DEF Configure, register_coin, set_limiter_cap, set_remote_coin,
     set_global_pause, set_pause, RegisterAccount, CoinTick, ledgerVars
<1>2. UNCHANGED tvl_sd
  <2>1. ASSUME NEW coin \in Coins, NEW chain \in Chains, set_remote_coin(coin, chain)
        PROVE  UNCHANGED tvl_sd
    <3>1. tvl_sd' = [tvl_sd EXCEPT ![coin][chain] = 0] /\ tvl_sd[coin][chain] = 0
      BY <2>1 DEF set_remote_coin, CoinInv, UnsetIsEmpty
    <3> QED
      BY <3>1 DEF CoinInv, CoinTypeOK
  <2> QED
    BY <2>1 DEF Configure, register_coin, set_limiter_cap, set_global_pause,
       set_pause, RegisterAccount, CoinTick
<1> QED
  BY <1>1, <1>2 DEF Conserved, Supply

LEMMA OnAptosEffect ==
  ASSUME CoinInv, OnAptos
  PROVE  CoinInv' /\ Conserved
<1>1. ASSUME NEW coin \in Coins, NEW user \in Users, claim_coin(user, coin)
      PROVE  CoinInv' /\ Conserved
  BY <1>1, ClaimEffect DEF Conserved
<1>2. Configure \/ \E coin \in Coins : \E user \in Users : claim_coin(user, coin)
  BY DEF OnAptos, Configure, Accounts
<1> QED
  BY <1>1, <1>2, ConfigureInv, ConfigureConserves

-----------------------------------------------------------------------------
\* The supply is what the chains' tvl counts.

LEMMA ConservedSupply ==
  ASSUME SupplyMatchesTvl, Conserved PROVE SupplyMatchesTvl'
<1>1. ASSUME NEW coin \in Coins PROVE Supply(coin)' = sd2ld(TotalTvl(coin))'
  <2>1. Supply(coin) = sd2ld(TotalTvl(coin))
    BY DEF SupplyMatchesTvl, Supply, TotalTvl
  <2>2. Supply(coin)' = Supply(coin) /\ TotalTvl(coin)' = TotalTvl(coin)
    BY DEF Conserved, TotalTvl
  <2> QED
    BY <2>1, <2>2 DEF sd2ld
<1> QED
  BY <1>1 DEF SupplyMatchesTvl, Supply, TotalTvl, sd2ld

\* The tvl of a chain changes, and the supply by as much.
LEMMA MovedSupply ==
  ASSUME CoinInv, CoinInv', SupplyMatchesTvl,
         NEW coin \in Coins, NEW chain \in Chains, NEW amount_sd \in Nat,
         Goes(coin, chain, amount_sd) \/ Comes(coin, chain, amount_sd)
  PROVE  SupplyMatchesTvl'
<1>1. tvl_sd \in [Coins -> [Chains -> Nat]] /\ tvl_sd' \in [Coins -> [Chains -> Nat]]
  BY DEF CoinInv, CoinTypeOK
<1>2. sd2ld(amount_sd) \in Nat
  BY Decimals
<1>3. ASSUME NEW c \in Coins
      PROVE  /\ Supply(c) = sd2ld(TotalTvl(c))
             /\ Supply(c) \in Nat /\ TotalTvl(c) \in Nat /\ TotalTvl(c)' \in Nat
  <2>1. Supply(c) = sd2ld(TotalTvl(c))
    BY DEF SupplyMatchesTvl, Supply, TotalTvl
  <2>2. TotalTvl(c)' \in Nat
    <3>1. DOMAIN tvl_sd'[c] = Chains /\ \A ch \in Chains : tvl_sd'[c][ch] \in Nat
      BY <1>1
    <3>2. SumFunction(tvl_sd'[c]) \in Nat
      BY <3>1, FiniteLedgers, SumNat DEF SumFunction
    <3> QED
      BY <3>2 DEF TotalTvl
  <2> QED
    BY <2>1, <2>2, SupplyNat DEF CoinInv
<1>4. CASE Goes(coin, chain, amount_sd)
  <2>1. /\ EntryChanges(Chains, tvl_sd, tvl_sd', coin, chain)
        /\ 0 - amount_sd = tvl_sd'[coin][chain] - tvl_sd[coin][chain]
    BY <1>1, <1>4 DEF Goes, EntryChanges
  <2>2. Shifts(tvl_sd, tvl_sd', coin, 0 - amount_sd)
    BY <2>1, FiniteLedgers, LedgerUpdate
  <2>3. ASSUME NEW c \in Coins PROVE Supply(c)' = sd2ld(TotalTvl(c)')
    <3>1. TotalTvl(c)' = TotalTvl(c) - (IF c = coin THEN amount_sd ELSE 0)
      BY <1>3, <2>2 DEF Shifts, TotalTvl
    <3>2. Supply(c)' = Supply(c) - (IF c = coin THEN sd2ld(amount_sd) ELSE 0)
      BY <1>4 DEF Goes
    <3>3. /\ sd2ld(TotalTvl(c) - amount_sd) = sd2ld(TotalTvl(c)) - sd2ld(amount_sd)
          /\ Supply(c) = sd2ld(TotalTvl(c)) /\ Supply(c) \in Nat /\ TotalTvl(c) \in Nat
      BY <1>3, Sd2LdLinear
    <3>4. CASE c = coin
      BY <3>1, <3>2, <3>3, <3>4
    <3>5. CASE c # coin
      BY <3>1, <3>2, <3>3, <3>5
    <3> QED
      BY <3>4, <3>5
  <2> QED
    BY <2>3 DEF SupplyMatchesTvl, Supply, TotalTvl, sd2ld
<1>5. CASE Comes(coin, chain, amount_sd)
  <2>1. /\ EntryChanges(Chains, tvl_sd, tvl_sd', coin, chain)
        /\ amount_sd = tvl_sd'[coin][chain] - tvl_sd[coin][chain]
    BY <1>1, <1>5 DEF Comes, EntryChanges
  <2>2. Shifts(tvl_sd, tvl_sd', coin, amount_sd)
    BY <2>1, FiniteLedgers, LedgerUpdate
  <2>3. ASSUME NEW c \in Coins PROVE Supply(c)' = sd2ld(TotalTvl(c)')
    <3>1. TotalTvl(c)' = TotalTvl(c) + (IF c = coin THEN amount_sd ELSE 0)
      BY <1>3, <2>2 DEF Shifts, TotalTvl
    <3>2. Supply(c)' = Supply(c) + (IF c = coin THEN sd2ld(amount_sd) ELSE 0)
      BY <1>5 DEF Comes
    <3>3. /\ sd2ld(TotalTvl(c) + amount_sd) = sd2ld(TotalTvl(c)) + sd2ld(amount_sd)
          /\ Supply(c) = sd2ld(TotalTvl(c)) /\ Supply(c) \in Nat /\ TotalTvl(c) \in Nat
      BY <1>3, Sd2LdLinear
    <3>4. CASE c = coin
      BY <3>1, <3>2, <3>3, <3>4
    <3>5. CASE c # coin
      BY <3>1, <3>2, <3>3, <3>5
    <3> QED
      BY <3>4, <3>5
  <2> QED
    BY <2>3 DEF SupplyMatchesTvl, Supply, TotalTvl, sd2ld
<1> QED
  BY <1>4, <1>5

-----------------------------------------------------------------------------
\* Both ends and what is between them.

EvmConfigOK ==
  /\ supportedTokens \in [Chains -> SUBSET Coins]
  /\ globalPaused \in [Chains -> BOOLEAN] /\ pausedTokens \in [Chains -> SUBSET Coins]
  /\ emergencyWithdraw \in [Chains -> {"locked", "waiting", "unlocked"}]

NetworkOK ==
  /\ toAptos \in [Chains -> Seq(ToAptos)]
  /\ withdrawn \in [Chains -> [Coins -> Nat]] /\ dropped \in [Chains -> [Coins -> Nat]]

LedgerInv ==
  IInv /\ CoinInv /\ EvmConfigOK /\ NetworkOK /\ BooksAgree /\ SupplyMatchesTvl

\* What a message on the path of a chain is worth on the path of another, and
\* in a coin.
Share(c, k, chain, message) ==
  IF c = chain /\ k = message.coin THEN message.amount_sd ELSE 0

LEMMA ShareNat ==
  ASSUME NEW c, NEW k, NEW chain, NEW message \in Message
  PROVE  Share(c, k, chain, message) \in Nat
BY DEF Share, Message, ToAptos, ToEvm

LEMMA QueueNat ==
  ASSUME NEW M \in SUBSET Message, NEW q \in [Chains -> Seq(M)], NEW c \in Chains, NEW k
  PROVE  q[c] \in Seq(Message) /\ Carried(q[c], k) \in Nat
<1>1. q[c] \in Seq(Message)
  OBVIOUS
<1> QED
  BY <1>1, CarriedNat

\* From the queues q to the queues r, those of a chain gain a message.
Gained(q, r, chain, message) ==
  \A c \in Chains, k \in Coins :
    Carried(r[c], k) = Carried(q[c], k) + Share(c, k, chain, message)

\* It is appended to them, or another one is taken out of them.
Joined(M, q, r, chain, message) ==
  /\ M \in SUBSET Message /\ q \in [Chains -> Seq(M)]
  /\ chain \in Chains /\ message \in M
  /\ r = [q EXCEPT ![chain] = Append(q[chain], message)]

Left(M, q, r, chain, i) ==
  /\ M \in SUBSET Message /\ q \in [Chains -> Seq(M)]
  /\ chain \in Chains
  /\ \E t \in Seq(M) : TakenOut(q[chain], t, i) /\ r = [q EXCEPT ![chain] = t]

LEMMA QueueJoined ==
  ASSUME NEW M, NEW q, NEW r, NEW chain, NEW message, Joined(M, q, r, chain, message)
  PROVE  r \in [Chains -> Seq(M)] /\ Gained(q, r, chain, message)
<1> USE DEF Joined
<1>1. Append(q[chain], message) \in Seq(M)
  OBVIOUS
<1>2. r \in [Chains -> Seq(M)]
  BY <1>1
<1>3. ASSUME NEW c \in Chains, NEW k \in Coins
      PROVE  Carried(r[c], k) = Carried(q[c], k) + Share(c, k, chain, message)
  <2>1. q[c] \in Seq(Message) /\ Carried(q[c], k) \in Nat /\ message \in Message
    BY QueueNat
  <2>2. CASE c = chain
    <3>1. r[c] = Append(q[c], message)
      BY <2>2
    <3>2. Carried(r[c], k) = Carried(q[c], k) + Worth(message, k)
      BY <2>1, <3>1, CarriedAppend
    <3> QED
      BY <2>2, <3>2 DEF Worth, Share
  <2>3. CASE c # chain
    <3>1. r[c] = q[c]
      BY <2>3
    <3> QED
      BY <2>1, <2>3, <3>1 DEF Share
  <2> QED
    BY <2>2, <2>3
<1> QED
  BY <1>2, <1>3 DEF Gained

LEMMA QueueLeft ==
  ASSUME NEW M, NEW q, NEW r, NEW chain, NEW i, Left(M, q, r, chain, i)
  PROVE  /\ r \in [Chains -> Seq(M)] /\ q[chain][i] \in M
         /\ Gained(r, q, chain, q[chain][i])
<1> USE DEF Left
<1>0. PICK t \in Seq(M) : TakenOut(q[chain], t, i) /\ r = [q EXCEPT ![chain] = t]
  OBVIOUS
<1>1. r \in [Chains -> Seq(M)]
  BY <1>0
<1>2. q[chain][i] \in M
  BY <1>0 DEF TakenOut
<1>3. ASSUME NEW c \in Chains, NEW k \in Coins
      PROVE  Carried(q[c], k) = Carried(r[c], k) + Share(c, k, chain, q[chain][i])
  <2>1. Carried(q[c], k) \in Nat
    BY QueueNat
  <2>2. CASE c = chain
    <3>1. r[c] = t
      BY <1>0, <2>2
    <3>2. Carried(q[c], k) = Carried(r[c], k) + Worth(q[c][i], k)
      BY <1>0, <2>2, <3>1, CarriedRemove
    <3> QED
      BY <2>2, <3>2 DEF Worth, Share
  <2>3. CASE c # chain
    <3>1. r[c] = q[c]
      BY <1>0, <2>3
    <3> QED
      BY <2>1, <2>3, <3>1 DEF Share
  <2> QED
    BY <2>2, <2>3
<1> QED
  BY <1>1, <1>2, <1>3 DEF Gained

\* The books of a chain and a coin before a step.
LEMMA BooksBefore ==
  ASSUME LedgerInv, NEW c \in Chains, NEW k \in Coins
  PROVE  /\ tvlSDs[c][k] \in Nat /\ withdrawn[c][k] \in Nat
         /\ tvl_sd[k][c] \in Nat /\ dropped[c][k] \in Nat
         /\ Carried(toAptos[c], k) \in Nat
         /\ Carried(toEvm[c], k) \in Nat /\ Carried(failed[c], k) \in Nat
         /\ tvlSDs[c][k] + withdrawn[c][k]
            = tvl_sd[k][c] + dropped[c][k] + Carried(toAptos[c], k)
              + Carried(toEvm[c], k) + Carried(failed[c], k)
<1> USE DEF LedgerInv, IInv, CoinInv, CoinTypeOK, EvmTypeOK, NetworkOK
<1>1. ToAptos \in SUBSET Message /\ ToEvm \in SUBSET Message
  BY DEF Message
<1>2. /\ Carried(toAptos[c], k) \in Nat
      /\ Carried(toEvm[c], k) \in Nat /\ Carried(failed[c], k) \in Nat
  BY <1>1, QueueNat
<1>3. /\ tvlSDs[c][k] \in Nat /\ withdrawn[c][k] \in Nat
      /\ tvl_sd[k][c] \in Nat /\ dropped[c][k] \in Nat
  OBVIOUS
<1> QED
  BY <1>2, <1>3 DEF BooksAgree

\* And after it.
BooksAfter(c, k) ==
  tvlSDs'[c][k] + withdrawn'[c][k]
  = tvl_sd'[k][c] + dropped'[c][k] + Carried(toAptos'[c], k)
    + Carried(toEvm'[c], k) + Carried(failed'[c], k)

LEMMA BooksPrime ==
  ASSUME \A c \in Chains, k \in Coins : BooksAfter(c, k) PROVE BooksAgree'
BY DEF BooksAgree, BooksAfter, Carried, Worth

-----------------------------------------------------------------------------
\* The steps of the EVM ends, but for what IInv says already.

\* A message that is paid out takes its worth from the tvl.
LEMMA PaidOut ==
  ASSUME IInv, EvmConfigOK, NEW chain \in Chains, NEW message \in ToEvm,
         Evm!nonblockingLzReceive(chain, message)
  PROVE  /\ EvmConfigOK'
         /\ \A c \in Chains, k \in Coins :
              tvlSDs[c][k] = tvlSDs'[c][k] + Share(c, k, chain, message)
<1>1. message.coin \in Coins /\ message.amount_sd \in Nat
  BY DEF ToEvm
<1>2. tvlSDs \in [Chains -> [Coins -> Nat]]
  BY DEF IInv, EvmTypeOK
<1> DEFINE v == tvlSDs[chain][message.coin] - message.amount_sd
<1>3. /\ v \in Nat /\ tvlSDs' = [tvlSDs EXCEPT ![chain][message.coin] = v]
      /\ UNCHANGED <<supportedTokens, globalPaused, pausedTokens, emergencyWithdraw>>
  BY <1>1, <1>2 DEF Evm!nonblockingLzReceive, Evm!CanPay, Evm!evmPauseVars
<1>4. ASSUME NEW c \in Chains, NEW k \in Coins
      PROVE  tvlSDs[c][k] = tvlSDs'[c][k] + Share(c, k, chain, message)
  BY <1>1, <1>2, <1>3 DEF Share
<1> QED
  BY <1>3, <1>4 DEF EvmConfigOK

\* The administration of an EVM chain keeps its configuration well formed, and
\* what leaves the tvl in an emergency is written down as withdrawn.
LEMMA OnEvmEffect ==
  ASSUME IInv, IInv', EvmConfigOK, NetworkOK, NEW chain \in Chains, OnEvm(chain)
  PROVE  /\ EvmConfigOK'
         /\ withdrawn' \in [Chains -> [Coins -> Nat]]
         /\ \A c \in Chains, k \in Coins :
              tvlSDs'[c][k] + withdrawn'[c][k] = tvlSDs[c][k] + withdrawn[c][k]
<1>1. /\ tvlSDs \in [Chains -> [Coins -> Nat]] /\ tvlSDs' \in [Chains -> [Coins -> Nat]]
      /\ withdrawn \in [Chains -> [Coins -> Nat]]
  BY DEF IInv, EvmTypeOK, NetworkOK
<1>2. EvmConfigOK'
  BY DEF OnEvm, EvmConfigOK, Evm!registerToken, Evm!setGlobalPause, Evm!setTokenPause,
     Evm!setBridgeFeeBP, Evm!withdrawFee, Evm!enableEmergencyWithdraw, Evm!WeekPasses,
     Evm!withdrawTVL, Evm!withdrawEmergency, Evm!evmPauseVars
<1>3. CASE UNCHANGED <<withdrawn, tvlSDs>>
  BY <1>1, <1>2, <1>3
<1>4. ASSUME NEW coin \in Coins,
             \/ \E amountSD \in 1 .. MaxTvl : Evm!withdrawTVL(chain, coin, amountSD)
             \/ Evm!withdrawEmergency(chain, coin),
             withdrawn' = [withdrawn EXCEPT
               ![chain][coin] = @ + tvlSDs[chain][coin] - tvlSDs'[chain][coin]]
      PROVE  /\ withdrawn' \in [Chains -> [Coins -> Nat]]
             /\ \A c \in Chains, k \in Coins :
                  tvlSDs'[c][k] + withdrawn'[c][k] = tvlSDs[c][k] + withdrawn[c][k]
  <2> DEFINE v == tvlSDs'[chain][coin]
             w == withdrawn[chain][coin] + tvlSDs[chain][coin] - v
  <2>1. v \in Nat /\ v <= tvlSDs[chain][coin] /\ tvlSDs' = [tvlSDs EXCEPT ![chain][coin] = v]
    <3>1. CASE \E amountSD \in 1 .. MaxTvl : Evm!withdrawTVL(chain, coin, amountSD)
      <4>1. PICK amountSD \in 1 .. MaxTvl : Evm!withdrawTVL(chain, coin, amountSD)
        BY <3>1
      <4> QED
        BY <1>1, <4>1 DEF Evm!withdrawTVL
    <3>2. CASE Evm!withdrawEmergency(chain, coin)
      BY <1>1, <3>2 DEF Evm!withdrawEmergency
    <3> QED
      BY <1>4, <3>1, <3>2
  <2>2. w \in Nat /\ withdrawn' = [withdrawn EXCEPT ![chain][coin] = w]
    BY <1>1, <1>4, <2>1
  <2> HIDE DEF v
  <2>3. v + w = tvlSDs[chain][coin] + withdrawn[chain][coin]
    BY <1>1, <2>1
  <2> HIDE DEF w
  <2>4. withdrawn' \in [Chains -> [Coins -> Nat]]
    BY <1>1, <2>2
  <2>5. ASSUME NEW c \in Chains, NEW k \in Coins
        PROVE  tvlSDs'[c][k] + withdrawn'[c][k] = tvlSDs[c][k] + withdrawn[c][k]
    <3>1. CASE c = chain /\ k = coin
      <4>1. tvlSDs'[c][k] = v /\ withdrawn'[c][k] = w
        BY <1>1, <2>1, <2>2, <3>1
      <4> QED
        BY <2>3, <3>1, <4>1
    <3>2. CASE ~(c = chain /\ k = coin)
      <4>1. tvlSDs'[c][k] = tvlSDs[c][k] /\ withdrawn'[c][k] = withdrawn[c][k]
        BY <1>1, <2>1, <2>2, <3>2
      <4> QED
        BY <4>1
    <3> QED
      BY <3>1, <3>2
  <2> QED
    BY <2>4, <2>5
<1>5. \/ UNCHANGED <<withdrawn, tvlSDs>>
      \/ \E coin \in Coins :
           /\ \/ \E amountSD \in 1 .. MaxTvl : Evm!withdrawTVL(chain, coin, amountSD)
              \/ Evm!withdrawEmergency(chain, coin)
           /\ withdrawn' = [withdrawn EXCEPT
                ![chain][coin] = @ + tvlSDs[chain][coin] - tvlSDs'[chain][coin]]
  BY DEF OnEvm, Evm!registerToken, Evm!setGlobalPause, Evm!setTokenPause,
     Evm!setBridgeFeeBP, Evm!withdrawFee, Evm!enableEmergencyWithdraw, Evm!WeekPasses
<1> QED
  BY <1>2, <1>3, <1>4, <1>5

-----------------------------------------------------------------------------
\* Each step keeps the books.

LEMMA LedgerInit == Init => LedgerInv
<1> SUFFICES ASSUME Init PROVE LedgerInv
  OBVIOUS
<1>1. IInv /\ CoinInv
  BY InitIInv, CoinInitInv DEF Init
<1>2. EvmConfigOK /\ NetworkOK
  BY DEF Init, Evm!TokenInit, EvmConfigOK, NetworkOK, PerToken
<1>3. BooksAgree
  <2>1. ASSUME NEW c \in Chains, NEW k \in Coins
        PROVE  /\ Carried(toAptos[c], k) = 0 /\ Carried(toEvm[c], k) = 0
               /\ Carried(failed[c], k) = 0
    BY CarriedEmpty DEF Init
  <2>2. ASSUME NEW c \in Chains, NEW k \in Coins
        PROVE  /\ tvlSDs[c][k] = 0 /\ withdrawn[c][k] = 0
               /\ tvl_sd[k][c] = 0 /\ dropped[c][k] = 0
    BY DEF Init, CoinInit, Evm!TokenInit, PerToken
  <2> QED
    BY <2>1, <2>2 DEF BooksAgree
<1>4. SupplyMatchesTvl
  <2>1. ASSUME NEW coin \in Coins
        PROVE  /\ SumFunction(balance[coin]) = 0 /\ SumFunction(tvl_sd[coin]) = 0
               /\ SumFunction(claimable_amt_ld[coin]) = 0
    <3>1. /\ DOMAIN balance[coin] = Accounts /\ \A a \in Accounts : balance[coin][a] = 0
          /\ DOMAIN claimable_amt_ld[coin] = Users
          /\ \A u \in Users : claimable_amt_ld[coin][u] = 0
          /\ DOMAIN tvl_sd[coin] = Chains /\ \A ch \in Chains : tvl_sd[coin][ch] = 0
      BY DEF Init, CoinInit
    <3> QED
      BY <3>1, FiniteLedgers, SumZero DEF SumFunction
  <2>2. sd2ld(0) = 0
    BY CoinBridgeAssumption DEF sd2ld
  <2> QED
    BY <2>1, <2>2 DEF SupplyMatchesTvl
<1> QED
  BY <1>1, <1>2, <1>3, <1>4 DEF LedgerInv

LEMMA OnAptosLedger ==
  ASSUME LedgerInv, IInv', OnAptos PROVE LedgerInv'
<1>1. CoinInv' /\ Conserved
  BY OnAptosEffect DEF LedgerInv
<1>2. SupplyMatchesTvl'
  BY <1>1, ConservedSupply DEF LedgerInv
<1>3. UNCHANGED <<tvl_sd, evmVars, networkVars, historyVars>>
  BY <1>1 DEF OnAptos, Conserved
<1>4. EvmConfigOK' /\ NetworkOK' /\ BooksAgree'
  BY <1>3 DEF LedgerInv, EvmConfigOK, NetworkOK, evmVars, networkVars, historyVars,
     BooksAgree, Carried, Worth
<1> QED
  BY <1>1, <1>2, <1>4 DEF LedgerInv

\* CoinInv and the supply are of the Aptos end alone.
LEMMA AptosUntouched ==
  ASSUME LedgerInv, UNCHANGED coinVars PROVE CoinInv' /\ SupplyMatchesTvl'
<1>1. CoinInv'
  BY DEF LedgerInv, coinVars, pauseVars, ledgerVars, CoinInv, CoinTypeOK,
     WindowsBegun, UnsetIsEmpty
<1>2. SupplyMatchesTvl'
  BY DEF LedgerInv, coinVars, ledgerVars, SupplyMatchesTvl, sd2ld
<1> QED
  BY <1>1, <1>2

LEMMA OnEvmLedger ==
  ASSUME LedgerInv, IInv', NEW chain \in Chains, OnEvm(chain) PROVE LedgerInv'
<1>1. UNCHANGED <<coinVars, networkVars, dropped>>
  BY DEF OnEvm
<1>2. CoinInv' /\ SupplyMatchesTvl'
  BY <1>1, AptosUntouched
<1>3. /\ EvmConfigOK' /\ withdrawn' \in [Chains -> [Coins -> Nat]]
      /\ \A c \in Chains, k \in Coins :
           tvlSDs'[c][k] + withdrawn'[c][k] = tvlSDs[c][k] + withdrawn[c][k]
  BY OnEvmEffect DEF LedgerInv
<1>4. NetworkOK'
  BY <1>1, <1>3 DEF LedgerInv, NetworkOK, networkVars
<1>5. ASSUME NEW c \in Chains, NEW k \in Coins PROVE BooksAfter(c, k)
  <2>1. tvl_sd' = tvl_sd /\ dropped' = dropped /\ toAptos' = toAptos
        /\ toEvm' = toEvm /\ failed' = failed
    BY <1>1 DEF coinVars, networkVars
  <2> QED
    BY <1>3, <2>1, BooksBefore DEF BooksAfter
<1> QED
  BY <1>2, <1>3, <1>4, <1>5, BooksPrime DEF LedgerInv

LEMMA MessageKinds == ToAptos \in SUBSET Message /\ ToEvm \in SUBSET Message
BY DEF Message

LEMMA SendToAptosLedger ==
  ASSUME LedgerInv, IInv', NEW chain \in Chains, NEW coin \in Coins, NEW user \in Users,
         SendToAptos(chain, coin, user)
  PROVE  LedgerInv'
<1>1. PICK amountLD \in Amounts : \E arrived \in 0 .. amountLD :
        /\ Evm!sendToAptos(chain, coin, amountLD, arrived)
        /\ toAptos' = [toAptos EXCEPT ![chain] =
             Append(@, [coin |-> coin, receiver |-> user,
                        amount_sd |-> Evm!LDtoSD(arrived)])]
        /\ UNCHANGED <<coinVars, toEvm, failed, historyVars>>
  BY DEF SendToAptos
<1>2. PICK arrived \in 0 .. amountLD :
        /\ Evm!sendToAptos(chain, coin, amountLD, arrived)
        /\ toAptos' = [toAptos EXCEPT ![chain] =
             Append(@, [coin |-> coin, receiver |-> user,
                        amount_sd |-> Evm!LDtoSD(arrived)])]
        /\ UNCHANGED <<coinVars, toEvm, failed, historyVars>>
  BY <1>1
<1> DEFINE sd == Evm!LDtoSD(arrived)
           message == [coin |-> coin, receiver |-> user, amount_sd |-> sd]
<1>3. sd \in Nat
  BY LDtoSDRoundsDown
<1>4. /\ tvlSDs' = [tvlSDs EXCEPT ![chain][coin] = tvlSDs[chain][coin] + sd]
      /\ UNCHANGED <<supportedTokens, globalPaused, pausedTokens, emergencyWithdraw>>
  BY <1>2 DEF Evm!sendToAptos, Evm!evmPauseVars
<1>5. toAptos' = [toAptos EXCEPT ![chain] = Append(toAptos[chain], message)]
  BY <1>2
<1> HIDE DEF sd
<1>6. message \in ToAptos /\ message.coin = coin /\ message.amount_sd = sd
  BY <1>3 DEF ToAptos
<1> HIDE DEF message
<1>7. /\ toAptos \in [Chains -> Seq(ToAptos)]
      /\ tvlSDs \in [Chains -> [Coins -> Nat]]
  BY DEF LedgerInv, NetworkOK, IInv, EvmTypeOK
<1>8. /\ toAptos' \in [Chains -> Seq(ToAptos)]
      /\ Gained(toAptos, toAptos', chain, message)
  <2>1. Joined(ToAptos, toAptos, toAptos', chain, message)
    BY <1>5, <1>6, <1>7, MessageKinds DEF Joined
  <2> QED
    BY <2>1, QueueJoined
<1>9. \A c \in Chains, k \in Coins :
        tvlSDs'[c][k] = tvlSDs[c][k] + Share(c, k, chain, message)
  BY <1>3, <1>4, <1>6, <1>7 DEF Share
<1>10. CoinInv' /\ SupplyMatchesTvl'
  BY <1>2, AptosUntouched
<1>11. EvmConfigOK' /\ NetworkOK'
  BY <1>2, <1>4, <1>8 DEF LedgerInv, EvmConfigOK, NetworkOK, historyVars
<1>12. ASSUME NEW c \in Chains, NEW k \in Coins PROVE BooksAfter(c, k)
  <2>1. /\ tvl_sd' = tvl_sd /\ dropped' = dropped /\ withdrawn' = withdrawn
        /\ toEvm' = toEvm /\ failed' = failed
    BY <1>2 DEF coinVars, historyVars
  <2>2. Share(c, k, chain, message) \in Nat
    BY <1>6, MessageKinds, ShareNat
  <2>3. /\ tvlSDs'[c][k] = tvlSDs[c][k] + Share(c, k, chain, message)
        /\ Carried(toAptos'[c], k) = Carried(toAptos[c], k) + Share(c, k, chain, message)
    BY <1>8, <1>9 DEF Gained
  <2> QED
    BY <2>1, <2>2, <2>3, BooksBefore DEF BooksAfter
<1> QED
  BY <1>10, <1>11, <1>12, BooksPrime DEF LedgerInv

\* The first message to Aptos leaves the queue, received or dropped.
LEMMA FirstToAptosLeaves ==
  ASSUME LedgerInv, NEW chain \in Chains, toAptos[chain] # <<>>,
         toAptos' = [toAptos EXCEPT ![chain] = Tail(@)]
  PROVE  /\ toAptos' \in [Chains -> Seq(ToAptos)] /\ Head(toAptos[chain]) \in ToAptos
         /\ Gained(toAptos', toAptos, chain, Head(toAptos[chain]))
<1>1. toAptos \in [Chains -> Seq(ToAptos)]
  BY DEF LedgerInv, NetworkOK
<1>2. toAptos[chain] \in Seq(Message) /\ Tail(toAptos[chain]) \in Seq(ToAptos)
  BY <1>1, MessageKinds, QueueNat
<1> DEFINE t == Tail(toAptos[chain])
<1>3. TakenOut(toAptos[chain], t, 1) /\ toAptos[chain][1] = Head(toAptos[chain])
  BY <1>2, TailTakesOut
<1>4. t \in Seq(ToAptos) /\ toAptos' = [toAptos EXCEPT ![chain] = t]
  BY <1>2
<1> HIDE DEF t
<1>5. Left(ToAptos, toAptos, toAptos', chain, 1)
  BY <1>1, <1>3, <1>4, MessageKinds DEF Left
<1>6. /\ toAptos' \in [Chains -> Seq(ToAptos)] /\ toAptos[chain][1] \in ToAptos
      /\ Gained(toAptos', toAptos, chain, toAptos[chain][1])
  BY <1>5, QueueLeft
<1> QED
  BY <1>3, <1>6

LEMMA ReceiveOnAptosLedger ==
  ASSUME LedgerInv, IInv', NEW chain \in Chains, NEW coin \in Coins,
         ReceiveOnAptos(chain, coin)
  PROVE  LedgerInv'
<1> DEFINE message == Head(toAptos[chain])
<1>1. /\ lz_receive(coin, chain, message)
      /\ toAptos[chain] # <<>>
      /\ toAptos' = [toAptos EXCEPT ![chain] = Tail(@)]
      /\ UNCHANGED <<evmVars, toEvm, failed, historyVars>>
  BY DEF ReceiveOnAptos
<1>2. /\ toAptos' \in [Chains -> Seq(ToAptos)] /\ message \in ToAptos
      /\ Gained(toAptos', toAptos, chain, message)
  BY <1>1, FirstToAptosLeaves
<1> HIDE DEF message
<1>3. /\ CoinInv' /\ message.coin = coin /\ message.amount_sd \in Nat
      /\ Comes(coin, chain, message.amount_sd)
  BY <1>1, <1>2, ReceiveEffect DEF LedgerInv, ToAptos
<1>4. SupplyMatchesTvl'
  BY <1>3, MovedSupply DEF LedgerInv
<1>5. EvmConfigOK' /\ NetworkOK'
  BY <1>1, <1>2 DEF LedgerInv, EvmConfigOK, NetworkOK, evmVars, historyVars
<1>6. \A c \in Chains, k \in Coins :
        tvl_sd'[k][c] = tvl_sd[k][c] + Share(c, k, chain, message)
  <2>1. tvl_sd \in [Coins -> [Chains -> Nat]]
    BY DEF LedgerInv, CoinInv, CoinTypeOK
  <2> QED
    BY <1>3, <2>1 DEF Comes, Share
<1>7. ASSUME NEW c \in Chains, NEW k \in Coins PROVE BooksAfter(c, k)
  <2>1. /\ tvlSDs' = tvlSDs /\ dropped' = dropped /\ withdrawn' = withdrawn
        /\ toEvm' = toEvm /\ failed' = failed
    BY <1>1 DEF evmVars, historyVars
  <2>2. Share(c, k, chain, message) \in Nat /\ Carried(toAptos'[c], k) \in Nat
    BY <1>2, MessageKinds, ShareNat, QueueNat
  <2>3. /\ tvl_sd'[k][c] = tvl_sd[k][c] + Share(c, k, chain, message)
        /\ Carried(toAptos[c], k) = Carried(toAptos'[c], k) + Share(c, k, chain, message)
    BY <1>2, <1>6 DEF Gained
  <2> QED
    BY <2>1, <2>2, <2>3, BooksBefore DEF BooksAfter
<1> QED
  BY <1>3, <1>4, <1>5, <1>7, BooksPrime DEF LedgerInv

LEMMA DropOnAptosLedger ==
  ASSUME LedgerInv, IInv', NEW chain \in Chains, DropOnAptos(chain) PROVE LedgerInv'
<1> DEFINE message == Head(toAptos[chain])
           v == dropped[chain][message.coin] + message.amount_sd
<1>1. /\ toAptos[chain] # <<>>
      /\ toAptos' = [toAptos EXCEPT ![chain] = Tail(@)]
      /\ dropped' = [dropped EXCEPT ![chain][message.coin] = v]
      /\ UNCHANGED <<coinVars, evmVars, toEvm, failed, withdrawn>>
  BY DEF DropOnAptos
<1>2. /\ toAptos' \in [Chains -> Seq(ToAptos)] /\ message \in ToAptos
      /\ Gained(toAptos', toAptos, chain, message)
  BY <1>1, FirstToAptosLeaves
<1>3. dropped \in [Chains -> [Coins -> Nat]]
  BY DEF LedgerInv, NetworkOK
<1> HIDE DEF message
<1>4. message.coin \in Coins /\ message.amount_sd \in Nat /\ v \in Nat
  BY <1>2, <1>3 DEF ToAptos
<1>5. /\ dropped' \in [Chains -> [Coins -> Nat]]
      /\ \A c \in Chains, k \in Coins :
           dropped'[c][k] = dropped[c][k] + Share(c, k, chain, message)
  BY <1>1, <1>3, <1>4 DEF Share
<1>6. CoinInv' /\ SupplyMatchesTvl'
  BY <1>1, AptosUntouched
<1>7. EvmConfigOK' /\ NetworkOK'
  BY <1>1, <1>2, <1>5 DEF LedgerInv, EvmConfigOK, NetworkOK, evmVars
<1>8. ASSUME NEW c \in Chains, NEW k \in Coins PROVE BooksAfter(c, k)
  <2>1. /\ tvlSDs' = tvlSDs /\ tvl_sd' = tvl_sd /\ withdrawn' = withdrawn
        /\ toEvm' = toEvm /\ failed' = failed
    BY <1>1 DEF evmVars, coinVars
  <2>2. Share(c, k, chain, message) \in Nat /\ Carried(toAptos'[c], k) \in Nat
    BY <1>2, MessageKinds, ShareNat, QueueNat
  <2>3. /\ dropped'[c][k] = dropped[c][k] + Share(c, k, chain, message)
        /\ Carried(toAptos[c], k) = Carried(toAptos'[c], k) + Share(c, k, chain, message)
    BY <1>2, <1>5 DEF Gained
  <2> QED
    BY <2>1, <2>2, <2>3, BooksBefore DEF BooksAfter
<1> QED
  BY <1>6, <1>7, <1>8, BooksPrime DEF LedgerInv

LEMMA SendToEvmLedger ==
  ASSUME LedgerInv, IInv', NEW chain \in Chains, NEW coin \in Coins, NEW user \in Users,
         SendToEvm(chain, coin, user)
  PROVE  LedgerInv'
<1>1. PICK amount_ld \in Amounts :
        /\ \/ send_coin_from(user, coin, chain, amount_ld)
           \/ send_coin_with_zro(user, coin, chain, amount_ld)
        /\ toEvm' = [toEvm EXCEPT ![chain] =
             Append(@, [coin |-> coin, amount_sd |-> ld2sd(amount_ld)])]
        /\ UNCHANGED <<evmVars, toAptos, failed, historyVars>>
  BY DEF SendToEvm
<1> DEFINE sd == ld2sd(amount_ld)
           message == [coin |-> coin, amount_sd |-> sd]
<1>2. CoinInv' /\ Goes(coin, chain, sd)
  BY <1>1, SendEffect DEF LedgerInv
<1>3. sd \in Nat
  BY Decimals DEF Amounts
<1>4. toEvm' = [toEvm EXCEPT ![chain] = Append(toEvm[chain], message)]
  BY <1>1
<1> HIDE DEF sd
<1>5. message \in ToEvm /\ message.coin = coin /\ message.amount_sd = sd
  BY <1>3 DEF ToEvm
<1> HIDE DEF message
<1>6. toEvm \in [Chains -> Seq(ToEvm)] /\ tvl_sd \in [Coins -> [Chains -> Nat]]
  BY DEF LedgerInv, IInv, EvmTypeOK, CoinInv, CoinTypeOK
<1>7. Gained(toEvm, toEvm', chain, message)
  <2>1. Joined(ToEvm, toEvm, toEvm', chain, message)
    BY <1>4, <1>5, <1>6, MessageKinds DEF Joined
  <2> QED
    BY <2>1, QueueJoined
<1>8. SupplyMatchesTvl'
  BY <1>2, <1>3, MovedSupply DEF LedgerInv
<1>9. EvmConfigOK' /\ NetworkOK'
  BY <1>1 DEF LedgerInv, EvmConfigOK, NetworkOK, evmVars, historyVars
<1>10. \A c \in Chains, k \in Coins :
         /\ tvl_sd'[k][c] \in Nat
         /\ tvl_sd[k][c] = tvl_sd'[k][c] + Share(c, k, chain, message)
  <2>1. tvl_sd[coin][chain] - sd \in Nat
    BY <1>2, <1>3, <1>6 DEF Goes
  <2> QED
    BY <1>2, <1>3, <1>5, <1>6, <2>1 DEF Goes, Share
<1>11. ASSUME NEW c \in Chains, NEW k \in Coins PROVE BooksAfter(c, k)
  <2>1. /\ tvlSDs' = tvlSDs /\ dropped' = dropped /\ withdrawn' = withdrawn
        /\ toAptos' = toAptos /\ failed' = failed
    BY <1>1 DEF evmVars, historyVars
  <2>2. Share(c, k, chain, message) \in Nat
    BY <1>5, MessageKinds, ShareNat
  <2> QED
    BY <1>7, <1>10, <2>1, <2>2, BooksBefore DEF BooksAfter, Gained
<1> QED
  BY <1>2, <1>8, <1>9, <1>11, BooksPrime DEF LedgerInv

\* The first message to an EVM chain leaves the queue, paid out or not.
LEMMA FirstToEvmLeaves ==
  ASSUME LedgerInv, NEW chain \in Chains, toEvm[chain] # <<>>,
         toEvm' = [toEvm EXCEPT ![chain] = Tail(@)]
  PROVE  /\ toEvm' \in [Chains -> Seq(ToEvm)] /\ Head(toEvm[chain]) \in ToEvm
         /\ Gained(toEvm', toEvm, chain, Head(toEvm[chain]))
<1>1. toEvm \in [Chains -> Seq(ToEvm)]
  BY DEF LedgerInv, IInv, EvmTypeOK
<1>2. toEvm[chain] \in Seq(Message) /\ Tail(toEvm[chain]) \in Seq(ToEvm)
  BY <1>1, MessageKinds, QueueNat
<1> DEFINE t == Tail(toEvm[chain])
<1>3. TakenOut(toEvm[chain], t, 1) /\ toEvm[chain][1] = Head(toEvm[chain])
  BY <1>2, TailTakesOut
<1>4. t \in Seq(ToEvm) /\ toEvm' = [toEvm EXCEPT ![chain] = t]
  BY <1>2
<1> HIDE DEF t
<1>5. Left(ToEvm, toEvm, toEvm', chain, 1)
  BY <1>1, <1>3, <1>4, MessageKinds DEF Left
<1>6. /\ toEvm' \in [Chains -> Seq(ToEvm)] /\ toEvm[chain][1] \in ToEvm
      /\ Gained(toEvm', toEvm, chain, toEvm[chain][1])
  BY <1>5, QueueLeft
<1> QED
  BY <1>3, <1>6

LEMMA ReceiveOnEvmLedger ==
  ASSUME LedgerInv, IInv', NEW chain \in Chains, ReceiveOnEvm(chain) PROVE LedgerInv'
<1> DEFINE message == Head(toEvm[chain])
<1>1. /\ toEvm[chain] # <<>>
      /\ Evm!nonblockingLzReceive(chain, message)
      /\ toEvm' = [toEvm EXCEPT ![chain] = Tail(@)]
      /\ UNCHANGED <<coinVars, toAptos, failed, historyVars>>
  BY DEF ReceiveOnEvm
<1>2. /\ toEvm' \in [Chains -> Seq(ToEvm)] /\ message \in ToEvm
      /\ Gained(toEvm', toEvm, chain, message)
  BY <1>1, FirstToEvmLeaves
<1> HIDE DEF message
<1>3. /\ EvmConfigOK'
      /\ \A c \in Chains, k \in Coins :
           tvlSDs[c][k] = tvlSDs'[c][k] + Share(c, k, chain, message)
  BY <1>1, <1>2, PaidOut DEF LedgerInv
<1>4. CoinInv' /\ SupplyMatchesTvl'
  BY <1>1, AptosUntouched
<1>5. NetworkOK'
  BY <1>1 DEF LedgerInv, NetworkOK, historyVars
<1>6. ASSUME NEW c \in Chains, NEW k \in Coins PROVE BooksAfter(c, k)
  <2>1. /\ tvl_sd'[k][c] = tvl_sd[k][c] /\ dropped'[c][k] = dropped[c][k]
        /\ withdrawn'[c][k] = withdrawn[c][k]
        /\ Carried(toAptos'[c], k) = Carried(toAptos[c], k)
        /\ Carried(failed'[c], k) = Carried(failed[c], k)
    BY <1>1 DEF coinVars, historyVars
  <2>2. /\ Share(c, k, chain, message) \in Nat /\ Carried(toEvm'[c], k) \in Nat
        /\ tvlSDs'[c][k] \in Nat
    BY <1>2, MessageKinds, ShareNat, QueueNat DEF IInv, EvmTypeOK
  <2>3. /\ tvlSDs[c][k] = tvlSDs'[c][k] + Share(c, k, chain, message)
        /\ Carried(toEvm[c], k) = Carried(toEvm'[c], k) + Share(c, k, chain, message)
    BY <1>2, <1>3 DEF Gained
  <2>4. /\ withdrawn[c][k] \in Nat /\ tvl_sd[k][c] \in Nat /\ dropped[c][k] \in Nat
        /\ Carried(toAptos[c], k) \in Nat
        /\ Carried(toEvm[c], k) \in Nat /\ Carried(failed[c], k) \in Nat
        /\ tvlSDs[c][k] + withdrawn[c][k]
           = tvl_sd[k][c] + dropped[c][k] + Carried(toAptos[c], k)
             + Carried(toEvm[c], k) + Carried(failed[c], k)
    BY BooksBefore
  <2> QED
    BY <2>1, <2>2, <2>3, <2>4 DEF BooksAfter
<1> QED
  BY <1>3, <1>4, <1>5, <1>6, BooksPrime DEF LedgerInv

LEMMA FailOnEvmLedger ==
  ASSUME LedgerInv, IInv', NEW chain \in Chains, FailOnEvm(chain) PROVE LedgerInv'
<1> DEFINE message == Head(toEvm[chain])
<1>1. /\ toEvm[chain] # <<>>
      /\ toEvm' = [toEvm EXCEPT ![chain] = Tail(@)]
      /\ failed' = [failed EXCEPT ![chain] = Append(failed[chain], message)]
      /\ UNCHANGED <<coinVars, evmVars, toAptos, historyVars>>
  BY DEF FailOnEvm
<1>2. /\ toEvm' \in [Chains -> Seq(ToEvm)] /\ message \in ToEvm
      /\ Gained(toEvm', toEvm, chain, message)
  BY <1>1, FirstToEvmLeaves
<1> HIDE DEF message
<1>3. failed \in [Chains -> Seq(ToEvm)]
  BY DEF LedgerInv, IInv, EvmTypeOK
<1>4. Gained(failed, failed', chain, message)
  <2>1. Joined(ToEvm, failed, failed', chain, message)
    BY <1>1, <1>2, <1>3, MessageKinds DEF Joined
  <2> QED
    BY <2>1, QueueJoined
<1>5. CoinInv' /\ SupplyMatchesTvl'
  BY <1>1, AptosUntouched
<1>6. EvmConfigOK' /\ NetworkOK'
  BY <1>1 DEF LedgerInv, EvmConfigOK, NetworkOK, evmVars, historyVars
<1>7. ASSUME NEW c \in Chains, NEW k \in Coins PROVE BooksAfter(c, k)
  <2>1. /\ tvl_sd' = tvl_sd /\ dropped' = dropped /\ withdrawn' = withdrawn
        /\ toAptos' = toAptos /\ tvlSDs' = tvlSDs
    BY <1>1 DEF coinVars, evmVars, historyVars
  <2>2. Share(c, k, chain, message) \in Nat /\ Carried(toEvm'[c], k) \in Nat
    BY <1>2, MessageKinds, ShareNat, QueueNat
  <2> QED
    BY <1>2, <1>4, <2>1, <2>2, BooksBefore DEF BooksAfter, Gained
<1> QED
  BY <1>5, <1>6, <1>7, BooksPrime DEF LedgerInv

LEMMA RetryOnEvmLedger ==
  ASSUME LedgerInv, IInv', NEW chain \in Chains, NEW i \in 1 .. MaxInFlight,
         RetryOnEvm(chain, i)
  PROVE  LedgerInv'
<1> DEFINE message == failed[chain][i]
           t == RemoveAt(failed[chain], i)
<1>1. failed \in [Chains -> Seq(ToEvm)]
  BY DEF LedgerInv, IInv, EvmTypeOK
<1>2. failed[chain] \in Seq(ToEvm) /\ failed[chain] \in Seq(Message)
  BY <1>1, MessageKinds, QueueNat
<1>3. /\ i \in 1 .. Len(failed[chain])
      /\ Evm!nonblockingLzReceive(chain, message)
      /\ failed' = [failed EXCEPT ![chain] = t]
      /\ UNCHANGED <<coinVars, toAptos, toEvm, historyVars>>
  BY <1>2 DEF RetryOnEvm
<1>4. t \in Seq(ToEvm)
  BY <1>2, <1>3 DEF RemoveAt
<1>5. TakenOut(failed[chain], t, i)
  BY <1>2, <1>3, RemoveAtTakesOut
<1> HIDE DEF t
<1>6. /\ failed' \in [Chains -> Seq(ToEvm)] /\ message \in ToEvm
      /\ Gained(failed', failed, chain, message)
  BY <1>1, <1>3, <1>4, <1>5, MessageKinds, QueueLeft DEF Left
<1> HIDE DEF message
<1>7. /\ EvmConfigOK'
      /\ \A c \in Chains, k \in Coins :
           tvlSDs[c][k] = tvlSDs'[c][k] + Share(c, k, chain, message)
  BY <1>3, <1>6, PaidOut DEF LedgerInv
<1>8. CoinInv' /\ SupplyMatchesTvl'
  BY <1>3, AptosUntouched
<1>9. NetworkOK'
  BY <1>3 DEF LedgerInv, NetworkOK, historyVars
<1>10. ASSUME NEW c \in Chains, NEW k \in Coins PROVE BooksAfter(c, k)
  <2>1. /\ tvl_sd'[k][c] = tvl_sd[k][c] /\ dropped'[c][k] = dropped[c][k]
        /\ withdrawn'[c][k] = withdrawn[c][k]
        /\ Carried(toAptos'[c], k) = Carried(toAptos[c], k)
        /\ Carried(toEvm'[c], k) = Carried(toEvm[c], k)
    BY <1>3 DEF coinVars, historyVars
  <2>2. /\ Share(c, k, chain, message) \in Nat /\ Carried(failed'[c], k) \in Nat
        /\ tvlSDs'[c][k] \in Nat
    BY <1>6, MessageKinds, ShareNat, QueueNat DEF IInv, EvmTypeOK
  <2>3. /\ tvlSDs[c][k] = tvlSDs'[c][k] + Share(c, k, chain, message)
        /\ Carried(failed[c], k) = Carried(failed'[c], k) + Share(c, k, chain, message)
    BY <1>6, <1>7 DEF Gained
  <2>4. /\ withdrawn[c][k] \in Nat /\ tvl_sd[k][c] \in Nat /\ dropped[c][k] \in Nat
        /\ Carried(toAptos[c], k) \in Nat
        /\ Carried(toEvm[c], k) \in Nat /\ Carried(failed[c], k) \in Nat
        /\ tvlSDs[c][k] + withdrawn[c][k]
           = tvl_sd[k][c] + dropped[c][k] + Carried(toAptos[c], k)
             + Carried(toEvm[c], k) + Carried(failed[c], k)
    BY BooksBefore
  <2> QED
    BY <2>1, <2>2, <2>3, <2>4 DEF BooksAfter
<1> QED
  BY <1>7, <1>8, <1>9, <1>10, BooksPrime DEF LedgerInv

-----------------------------------------------------------------------------
\* The ledgers of the bridge.

\* LedgerInv is inductive.
LEMMA NextLedger == LedgerInv /\ [Next]_vars => LedgerInv'
<1> SUFFICES ASSUME LedgerInv, [Next]_vars PROVE LedgerInv'
  OBVIOUS
<1>1. IInv'
  BY NextIInv DEF LedgerInv
<1>2. CASE UNCHANGED vars
  <2>1. UNCHANGED <<coinVars, evmVars, networkVars, historyVars>>
    BY <1>2 DEF vars
  <2>2. CoinInv' /\ SupplyMatchesTvl'
    BY <2>1, AptosUntouched
  <2>3. EvmConfigOK' /\ NetworkOK' /\ BooksAgree'
    BY <2>1 DEF LedgerInv, EvmConfigOK, NetworkOK, evmVars, networkVars, historyVars,
       coinVars, BooksAgree, Carried, Worth
  <2> QED
    BY <1>1, <2>2, <2>3 DEF LedgerInv
<1>3. CASE OnAptos
  BY <1>1, <1>3, OnAptosLedger
<1>4. ASSUME NEW ch \in Chains, OnEvm(ch) PROVE LedgerInv'
  BY <1>1, <1>4, OnEvmLedger
<1>5. ASSUME NEW ch \in Chains, DropOnAptos(ch) PROVE LedgerInv'
  BY <1>1, <1>5, DropOnAptosLedger
<1>6. ASSUME NEW ch \in Chains, ReceiveOnEvm(ch) PROVE LedgerInv'
  BY <1>1, <1>6, ReceiveOnEvmLedger
<1>7. ASSUME NEW ch \in Chains, FailOnEvm(ch) PROVE LedgerInv'
  BY <1>1, <1>7, FailOnEvmLedger
<1>8. ASSUME NEW ch \in Chains, NEW i \in 1 .. MaxInFlight, RetryOnEvm(ch, i)
      PROVE  LedgerInv'
  BY <1>1, <1>8, RetryOnEvmLedger
<1>9. ASSUME NEW ch \in Chains, NEW coin \in Coins, ReceiveOnAptos(ch, coin)
      PROVE  LedgerInv'
  BY <1>1, <1>9, ReceiveOnAptosLedger
<1>10. ASSUME NEW ch \in Chains, NEW coin \in Coins, NEW user \in Users,
              SendToAptos(ch, coin, user) \/ SendToEvm(ch, coin, user)
       PROVE  LedgerInv'
  BY <1>1, <1>10, SendToAptosLedger, SendToEvmLedger
<1> QED
  BY <1>2, <1>3, <1>4, <1>5, <1>6, <1>7, <1>8, <1>9, <1>10 DEF Next

\* LedgerInv holds in every reachable state.
THEOREM LedgerInvariance == Spec => []LedgerInv
BY LedgerInit, NextLedger, PTL DEF Spec

\* All coins on Aptos are those that the chains' tvl_sd account for, whatever
\* is sent, dusted, stashed and claimed.
THEOREM SupplyMatchesTvlHolds == Spec => []SupplyMatchesTvl
BY LedgerInvariance, PTL DEF LedgerInv

\* The books of the two ends agree, chain by chain and coin by coin.
THEOREM BooksAgreeHolds == Spec => []BooksAgree
BY LedgerInvariance, PTL DEF LedgerInv

\* What Aptos has burned for a chain can be paid out there, in any order.
THEOREM BurnedIsLiquidHolds == Spec => []BurnedIsLiquid
<1>1. LedgerInv => BurnedIsLiquid
  <2> SUFFICES ASSUME LedgerInv, NEW c \in Chains, NEW k \in Coins, withdrawn[c][k] = 0
               PROVE  Carried(toEvm[c], k) + Carried(failed[c], k) <= tvlSDs[c][k]
    BY DEF BurnedIsLiquid
  <2> QED
    BY BooksBefore
<1> QED
  BY <1>1, LedgerInvariance, PTL

\* The state of the bridge is well formed; what the contract of a chain holds
\* is never negative.
THEOREM TypeCorrect == Spec => []TypeOK
<1>1. LedgerInv => TypeOK
  <2> SUFFICES ASSUME LedgerInv PROVE TypeOK
    OBVIOUS
  <2>1. balanceOf \in [Chains -> [Coins -> Nat]]
    <3>1. ASSUME NEW c \in Chains, NEW k \in Coins PROVE balanceOf[c][k] \in Nat
      <4>1. /\ balanceOf[c][k] \in Int /\ tvlSDs[c][k] \in Nat
            /\ balanceOf[c][k] >= Evm!SDtoLD(tvlSDs[c][k])
        BY DEF LedgerInv, IInv, EvmTypeOK, TvlIsHeld
      <4> QED
        BY <4>1, SDtoLDNat
    <3> QED
      BY <3>1 DEF LedgerInv, IInv, EvmTypeOK
  <2> QED
    BY <2>1 DEF TypeOK, LedgerInv, CoinInv, CoinTypeOK, IInv, EvmTypeOK, EvmConfigOK,
       NetworkOK
<1> QED
  BY <1>1, LedgerInvariance, PTL
===============================================================================
