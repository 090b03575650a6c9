----------------------------- MODULE TokenBridge -----------------------------
(***************************************************************************)
(* The EVM end of the token bridge,                                        *)
(* apps/bridge-evm/contracts/TokenBridge.sol, on each of its chains.  It   *)
(* locks tokens that go to Aptos and pays out those that come back.  What  *)
(* it holds beyond its tvl is the accrued fee: bridge fees, and what a     *)
(* token that charges for transfers leaves below one shared unit.          *)
(*                                                                         *)
(* A revert leaves no trace, so each require of a function is a guard of   *)
(* its action.  As WETH, ETH is one token more.                            *)
(***************************************************************************)
EXTENDS Integers

CONSTANTS
  Tokens,       \* the tokens
  EvmChains,
  ChargingTokens, \* the tokens that charge a fee on each transfer
  ld2sdRate     \* ld2sdRates[token], the same for all tokens

VARIABLES
  supportedTokens, \* per chain
  tvlSDs,          \* per chain and token
  balanceOf,       \* what the contract holds, per chain and token
  globalPaused, pausedTokens,
  bridgeFeeBP,
  emergencyWithdraw \* per chain: "locked", "waiting" for the week, "unlocked"

evmPauseVars == <<globalPaused, pausedTokens>>
tokenVars == <<supportedTokens, tvlSDs, balanceOf, evmPauseVars, bridgeFeeBP,
               emergencyWithdraw>>

BP_DENOMINATOR == 10000

SDtoLD(amountSD) == amountSD * ld2sdRate
LDtoSD(amountLD) == amountLD \div ld2sdRate
removeDust(amountLD) == SDtoLD(LDtoSD(amountLD))

\* Mutant of accruedFeeLD: all that the contract holds.
WholeBalance(chain, token) == balanceOf[chain][token]

accruedFeeLD(chain, token) ==
  balanceOf[chain][token] - SDtoLD(tvlSDs[chain][token])

whenNotPaused(chain, token) ==
  ~globalPaused[chain] /\ token \notin pausedTokens[chain]

\* Mutant of payFee: the fee comes on top.
payFeeOnTop(chain, amountLD) ==
  amountLD + (amountLD * bridgeFeeBP[chain]) \div BP_DENOMINATOR

payFee(chain, amountLD) ==
  amountLD - (amountLD * bridgeFeeBP[chain]) \div BP_DENOMINATOR

------------------------------------------------------------------------------

TokenInit ==
  /\ supportedTokens = [ch \in EvmChains |-> {}]
  /\ tvlSDs    = [ch \in EvmChains |-> [t \in Tokens |-> 0]]
  /\ balanceOf = [ch \in EvmChains |-> [t \in Tokens |-> 0]]
  /\ globalPaused = [ch \in EvmChains |-> FALSE]
  /\ pausedTokens = [ch \in EvmChains |-> {}]
  /\ bridgeFeeBP = [ch \in EvmChains |-> 0]
  /\ emergencyWithdraw = [ch \in EvmChains |-> "locked"]

registerToken(chain, token) ==
  /\ token \notin supportedTokens[chain]
  /\ supportedTokens' = [supportedTokens EXCEPT ![chain] = @ \union {token}]
  /\ UNCHANGED <<tvlSDs, balanceOf, evmPauseVars, bridgeFeeBP, emergencyWithdraw>>

setBridgeFeeBP(chain, feeBP) ==
  /\ feeBP <= BP_DENOMINATOR
  /\ bridgeFeeBP' = [bridgeFeeBP EXCEPT ![chain] = feeBP]
  /\ UNCHANGED <<supportedTokens, tvlSDs, balanceOf, evmPauseVars, emergencyWithdraw>>

setGlobalPause(chain, paused) ==
  /\ globalPaused' = [globalPaused EXCEPT ![chain] = paused]
  /\ UNCHANGED <<supportedTokens, tvlSDs, balanceOf, pausedTokens, bridgeFeeBP,
                 emergencyWithdraw>>

setTokenPause(chain, token, paused) ==
  /\ pausedTokens' = [pausedTokens EXCEPT
       ![chain] = IF paused THEN @ \union {token} ELSE @ \ {token}]
  /\ UNCHANGED <<supportedTokens, tvlSDs, balanceOf, globalPaused, bridgeFeeBP,
                 emergencyWithdraw>>

\* What arrives of an amount whose transfer may be charged for.
lockTokenFrom(token, amountLD, arrived) ==
  IF token \in ChargingTokens THEN arrived \in 0 .. amountLD ELSE arrived = amountLD

\* The message carries LDtoSD(arrived).
sendToAptos(chain, token, amountLD, arrived) ==
  /\ token \in supportedTokens[chain] /\ whenNotPaused(chain, token)
  /\ lockTokenFrom(token, removeDust(amountLD), arrived)
  /\ LDtoSD(arrived) > 0
  /\ tvlSDs' = [tvlSDs EXCEPT ![chain][token] = @ + LDtoSD(arrived)]
  /\ balanceOf' = [balanceOf EXCEPT ![chain][token] = @ + arrived]
  /\ UNCHANGED <<supportedTokens, evmPauseVars, bridgeFeeBP, emergencyWithdraw>>

\* Whatever makes this revert is caught by the nonblocking receiver.
CanPay(chain, message) ==
  /\ whenNotPaused(chain, message.coin)
  /\ message.coin \in supportedTokens[chain]
  /\ tvlSDs[chain][message.coin] >= message.amount_sd

nonblockingLzReceive(chain, message) ==
  /\ CanPay(chain, message)
  /\ tvlSDs' = [tvlSDs EXCEPT ![chain][message.coin] = @ - message.amount_sd]
  /\ balanceOf' = [balanceOf EXCEPT
       ![chain][message.coin] = @ - payFee(chain, SDtoLD(message.amount_sd))]
  /\ UNCHANGED <<supportedTokens, evmPauseVars, bridgeFeeBP, emergencyWithdraw>>

withdrawFee(chain, token, amountLD) ==
  /\ amountLD <= accruedFeeLD(chain, token)
  /\ balanceOf' = [balanceOf EXCEPT ![chain][token] = @ - amountLD]
  /\ UNCHANGED <<supportedTokens, tvlSDs, evmPauseVars, bridgeFeeBP, emergencyWithdraw>>

withdrawTVL(chain, token, amountSD) ==
  /\ emergencyWithdraw[chain] = "unlocked"
  /\ tvlSDs[chain][token] >= amountSD
  /\ tvlSDs' = [tvlSDs EXCEPT ![chain][token] = @ - amountSD]
  /\ balanceOf' = [balanceOf EXCEPT ![chain][token] = @ - SDtoLD(amountSD)]
  /\ UNCHANGED <<supportedTokens, evmPauseVars, bridgeFeeBP, emergencyWithdraw>>

\* The accrued fee first, then the whole tvl.
withdrawEmergency(chain, token) ==
  /\ emergencyWithdraw[chain] = "unlocked"
  /\ tvlSDs' = [tvlSDs EXCEPT ![chain][token] = 0]
  /\ balanceOf' = [balanceOf EXCEPT
       ![chain][token] = @ - accruedFeeLD(chain, token) - SDtoLD(tvlSDs[chain][token])]
  /\ UNCHANGED <<supportedTokens, evmPauseVars, bridgeFeeBP, emergencyWithdraw>>

\* Enabling restarts the week.
enableEmergencyWithdraw(chain, enabled) ==
  /\ emergencyWithdraw' = [emergencyWithdraw EXCEPT
       ![chain] = IF enabled THEN "waiting" ELSE "locked"]
  /\ UNCHANGED <<supportedTokens, tvlSDs, balanceOf, evmPauseVars, bridgeFeeBP>>

WeekPasses(chain) ==
  /\ emergencyWithdraw[chain] = "waiting"
  /\ emergencyWithdraw' = [emergencyWithdraw EXCEPT ![chain] = "unlocked"]
  /\ UNCHANGED <<supportedTokens, tvlSDs, balanceOf, evmPauseVars, bridgeFeeBP>>
==============================================================================
