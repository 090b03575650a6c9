\* One message, a change of settings or a bundle at any moment, one request without
\* an answer, at any step, or one transaction that expires.
SPECIFICATION Spec
CONSTANTS
  UA = ua
  OtherUA = other
  Signers = {o, r}
  Executors = {x, y}
  Priced = x
  Null = null
  None = none
  PayloadSize = 2
  MaxU64 = 35
  BpsDenominator = 10
  PriceRatioDenominator = 4
  SignerFees <- MCSignerFees
  ExecutorFees <- MCExecutorFees
  TreasuryFees = {0, 3}
  Gas = {2, 5}
  Airdrops = {0, 3}
  InitialSettings <- MCSettings
  Wallet = 30
  MaxOrders = 1
  MaxChanges = 1
  MaxFaults = 1
INVARIANTS QuoteIsExact
PROPERTIES ChargedIsQuoted RefusedForACause OrdersAreSent
CHECK_DEADLOCK FALSE
