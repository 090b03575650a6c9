\* Two operators wire a second coin, a third validator and a new relayer; one
\* trouble: a crash, a lost transaction or answer, a read that fails unnoticed, or
\* a validator removed.
CONSTANTS
  o1 = o1
  o2 = o2
  r1 = r1
  weth = weth
  usdc = usdc
  v1 = v1
  v2 = v2
  v3 = v3
  None = None
  Remotes <- MCRemotes
  Coins <- MCCoins
  Validators <- MCValidators
  Libraries <- MCLibraries
  Executors <- MCExecutors
  MaxU64 = 999
  DefaultLimiter <- MCDefaultLimiter
  Operators <- MCOperators
  Configs <- MCConfigs
  ConfigsOf <- MCConfigsOf
  ToNetworks <- MCToNetworks
  InitialChains <- MCInitialChains
  Drifts <- MCDrifts
  MaxTroubles = 1
SPECIFICATION LiveWireAllSpec
INVARIANTS
  SuccessIsWired
PROPERTIES
  NothingUndone
  RerunsConverge
