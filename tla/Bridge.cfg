\* One coin on two chains: what is locked on one chain may be redeemed on the
\* other, each chain has its own liquidity with
\* dust on Aptos, under emergency withdrawals or a limiter that gets set.
CONSTANTS
  Coins = {usdc}
  Chains = {eth, bsc}
  Users = {alice}
  BridgeAccount = bridge
  Ld2SdRate = 2
  Window = 1
  EvmRate = 1
  ChargingTokens = {}
  FeeBPs = {}
  Caps = {1}
  Administrations = {{"emergency", "dust"}, {"limit", "dust"}}
  MaxAmountLD = 3
  MaxTvl = 3
  MaxBalance = 3
  MaxInFlight = 3
  MaxGone = 1
  MaxTime = 1
SPECIFICATION Spec
SYMMETRY ChainSymmetry
INVARIANTS
  BooksAgree
  BurnedIsLiquid
  SupplyMatchesTvl
\* The amounts are bounded.
CHECK_DEADLOCK FALSE
