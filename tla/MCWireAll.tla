------------------------------ MODULE MCWireAll ------------------------------
(***************************************************************************)
(* Small instances of WireAll: one remote chain, two coins, three          *)
(* validators.                                                             *)
(***************************************************************************)
EXTENDS WireAll, TLC

CONSTANTS o1, o2, r1, weth, usdc, v1, v2, v3

V(major, minor) == [major |-> major, minor |-> minor]

Limit(enabled, cap, window) ==
  [enabled |-> enabled, cap |-> cap, window |-> window]

MCDefaultLimiter == Limit(TRUE, 10, 4)

App(oracle, confirmations) ==
  [oracle |-> oracle, relayer |-> "relayer",
   inbound_confirmations |-> confirmations, outbound_confirmations |-> 5]

Only(value) == r1 :> value

\* The configuration of a deployment with one coin and two validators.
Old ==
  [addressSize |-> 20,
   appConfig |-> Only(App("oracle", 10)),
   defaultSendVersion |-> V(1, 0), defaultReceiveVersion |-> V(1, 0),
   defaultExecutor |-> [address |-> "executor", version |-> 1],
   uaGas |-> Only(3),
   executorFee |-> Only([airdropAmtCap |-> 6, priceRatio |-> 1, gasPrice |-> 1]),
   relayerFee |-> Only([baseFee |-> 2, feePerByte |-> 1]),
   oracleFee |-> Only([baseFee |-> 2, feePerByte |-> 0]),
   validatorOrder |-> <<v1, v2, v3>>,
   validators |-> v1 :> TRUE @@ v2 :> TRUE @@ v3 :> FALSE,
   threshold |-> 1,
   enableCustomAdapterParams |-> TRUE,
   remoteBridge |-> Only("0xb1"), minDstGas |-> Only(2),
   coinOrder |-> <<weth>>,
   coins |-> weth :> [limiter |-> MCDefaultLimiter, remotes |-> Only("0xe1")]]

\* A second coin and a third validator.
New ==
  [Old EXCEPT !.validators[v3] = TRUE,
              !.coinOrder = <<weth, usdc>>,
              !.coins = @ @@ usdc :> [limiter |-> Limit(FALSE, 10, 4),
                                      remotes |-> Only(None)]]

MCConfigs == "new" :> New

\* Wired to the configuration Old, with the relayer to come.
WiredToOld ==
  [chain_address_size |-> Only(20), default_config |-> Old.appConfig,
   send_version |-> Only(V(1, 0)), receive_version |-> Only(V(1, 0)),
   default_executor |-> Only([executor |-> "executor", version |-> 1]),
   adapter_params |-> Old.uaGas, executor_fee |-> Old.executorFee,
   signer_fee |-> [key \in Signers \X Remotes |->
      IF key[1] = "relayer" THEN None ELSE [base_fee |-> 2, fee_per_byte |-> 0]],
   registered |-> "relayer" :> FALSE @@ "oracle" :> TRUE @@ "executor" :> TRUE,
   validators |-> Old.validators, threshold |-> Single :> 1,
   custom_adapter_params |-> Single :> TRUE,
   coin_store |-> weth :> 10 @@ usdc :> None,
   limiter |-> weth :> MCDefaultLimiter @@ usdc :> None,
   remote_bridge |-> Old.remoteBridge, min_dst_gas |-> Old.minDstGas,
   remote_coin |-> <<weth, r1>> :> "0xe1" @@ <<usdc, r1>> :> None]

MCExecutors == {1, 2}
MCLibraries == {V(1, 0), V(2, 1)}
MCRemotes == {r1}
MCCoins == {weth, usdc}
MCValidators == {v1, v2, v3}
MCToNetworks == <<r1>>
MCOperators == {o1, o2}

\* Two operators with the same configuration.
MCConfigsOf == [o \in MCOperators |-> {"new"}]

MCInitialChains == {WiredToOld}

\* The new validator is removed by hand.
MCDrifts == <<setValidatorPayload(v3, FALSE)>>
==============================================================================
