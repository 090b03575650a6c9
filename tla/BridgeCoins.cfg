\* Two coins that share the queue of a chain, one of which charges for
\* transfers, with dust on both ends, and under pauses, under fees and emergency
\* withdrawals, or under limits and drops.
CONSTANTS
  Coins = {usdc, weth}
  Chains = {eth}
  Users = {alice}
  BridgeAccount = bridge
  Ld2SdRate = 2
  Window = 1
  EvmRate = 2
  ChargingTokens = {usdc}
  FeeBPs = {10000}
  Caps = {1}
  Administrations = {{"pause"}, {"fee", "emergency"}, {"limit", "drop"}}
  MaxAmountLD = 3
  MaxTvl = 2
  MaxBalance = 4
  MaxInFlight = 2
  MaxGone = 1
  MaxTime = 1
SPECIFICATION FairSpec
INVARIANTS
  TypeOK
  SupplyMatchesTvl
  BooksAgree
  TvlIsHeld
PROPERTY QueueMoves
\* The amounts are bounded.
CHECK_DEADLOCK FALSE
