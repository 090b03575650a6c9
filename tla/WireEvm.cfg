\* Two operators of one network, and one trouble: the deployment removed, a
\* setting changed otherwise, or a transaction refused or given up on.
SPECIFICATION WireSpec
CONSTANTS
  n1 = n1
  weth = weth
  Operators = {a, b}
  Networks = {n1}
  SrcNetworks <- MCSrcNetworks
  Coins <- MCCoins
  WETH = weth
  FeeBP = 6
  UseCustomAdapterParams = 1
  MinDstGas = 5
  Fees = {10001, 0}
  MaxTroubles = 1
INVARIANT SuccessIsWired
PROPERTIES
  TrustedIsReady
  RerunsConverge
\* Nothing is left to do once everything is wired and every run aborted.
CHECK_DEADLOCK FALSE
