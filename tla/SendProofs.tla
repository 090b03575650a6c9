------------------------------ MODULE SendProofs ------------------------------
(***************************************************************************)
(* The fee the SDK puts together is the one the chain takes, for any       *)
(* settings, prices and payload size, and every coin of it is somebody's   *)
(* afterwards.                                                             *)
(***************************************************************************)
EXTENDS Send, Induction

-----------------------------------------------------------------------------
\* The arithmetic that aborts.

\* What it computes with: numbers, of any size, and the abort.
U == Nat \union {Abort}

LEMMA PlusExact ==
  ASSUME NEW a \in U, NEW b \in U
  PROVE  /\ Plus[<<a, b>>] \in U
         /\ Plus[<<a, b>>] # Abort <=> a # Abort /\ b # Abort /\ a + b <= MaxU64
         /\ Plus[<<a, b>>] # Abort => Plus[<<a, b>>] = a + b
<1>1. a \in Int /\ b \in Int /\ MaxU64 \in Nat
  BY SendAssumption DEF U, Abort
<1>2. Plus[<<a, b>>] = IF Abort \in {a, b} \/ a + b > MaxU64 THEN Abort ELSE a + b
  BY <1>1 DEF Plus
<1> QED
  BY <1>1, <1>2 DEF U, Abort

LEMMA TimesExact ==
  ASSUME NEW a \in U, NEW b \in U
  PROVE  /\ Times[<<a, b>>] \in U
         /\ Times[<<a, b>>] # Abort => a # Abort /\ b # Abort
         /\ Times[<<a, b>>] # Abort => Times[<<a, b>>] = a * b
<1>1. a \in Int /\ b \in Int /\ MaxU64 \in Nat
  BY SendAssumption DEF U, Abort
<1>2. Times[<<a, b>>] = IF Abort \in {a, b} \/ a * b > MaxU64 THEN Abort ELSE a * b
  BY <1>1 DEF Times
<1>3. a \in Nat /\ b \in Nat => a * b \in Nat
  OBVIOUS
<1> DEFINE product == a * b
<1> HIDE DEF product
<1> QED
  BY <1>1, <1>2, <1>3 DEF U, Abort, product

LEMMA DivideExact ==
  ASSUME NEW a \in U, NEW b \in Nat \ {0}
  PROVE  /\ Divide[<<a, b>>] \in U
         /\ Divide[<<a, b>>] # Abort <=> a # Abort
         /\ Divide[<<a, b>>] # Abort => Divide[<<a, b>>] = a \div b
<1>1. a \in Int
  BY DEF U, Abort
<1>2. Divide[<<a, b>>] = IF a = Abort THEN Abort ELSE a \div b
  BY <1>1 DEF Divide
<1>3. a \in Nat => a \div b \in Nat
  OBVIOUS
<1> DEFINE quotient == a \div b
<1> HIDE DEF quotient
<1> QED
  BY <1>1, <1>2, <1>3 DEF U, Abort, quotient

LEMMA TakeExact ==
  ASSUME NEW fee \in U, NEW due \in U
  PROVE  /\ TakeFrom[<<fee, due>>] \in U
         /\ TakeFrom[<<fee, due>>] # Abort <=> fee # Abort /\ due # Abort /\ due <= fee
         /\ TakeFrom[<<fee, due>>] # Abort => TakeFrom[<<fee, due>>] = fee - due
<1>1. fee \in Int /\ due \in Int
  BY DEF U, Abort
<1>2. TakeFrom[<<fee, due>>] = IF Abort \notin {fee, due} /\ due <= fee THEN fee - due ELSE Abort
  BY <1>1 DEF TakeFrom
<1> QED
  BY <1>1, <1>2 DEF U, Abort

-----------------------------------------------------------------------------
\* What the chain quotes, part by part, is what the SDK computes.

LEMMA UlnConfigType ==
  ASSUME settings \in Settings PROVE get_uln_config \in [UlnFields -> Signers]
BY DEF Settings, get_uln_config, merge, UlnFields

LEMMA SignerQuoteExact ==
  ASSUME settings \in Settings, NEW s \in Signers
  PROVE  /\ SignerQuote(s) \in U /\ SignerFee(s) \in Nat
         /\ SignerQuote(s) # Abort => SignerQuote(s) = SignerFee(s)
<1> DEFINE fee == settings.signer[s].fee
           perByte == fee.fee_per_byte
           base == fee.base_fee
<1>1. fee # None => perByte \in Nat /\ base \in Nat
  BY SendAssumption DEF Settings, Prices
<1>2. PayloadSize \in Nat
  BY SendAssumption
<1>3. /\ SignerQuote(s) = IF is_allowed(settings.signer[s].acl, UA) /\ fee # None
                          THEN Plus[<<Times[<<perByte, PayloadSize>>], base>>] ELSE Abort
      /\ SignerFee(s) = IF fee = None THEN 0 ELSE base + perByte * PayloadSize
  BY DEF SignerQuote, SignerFee
<1> HIDE DEF fee, perByte, base
<1>4. CASE fee = None
  BY <1>3, <1>4 DEF U, Abort
<1>5. CASE fee # None
  <2> DEFINE bytes == Times[<<perByte, PayloadSize>>]
             product == perByte * PayloadSize
  <2>1. perByte \in Nat /\ base \in Nat /\ perByte \in U /\ PayloadSize \in U /\ base \in U
    BY <1>1, <1>2, <1>5 DEF U
  <2>2. bytes \in U /\ (bytes # Abort => bytes = product)
    BY <2>1, TimesExact
  <2>3. product \in Nat
    BY <1>2, <2>1
  <2> HIDE DEF bytes, product
  <2>4. /\ Plus[<<bytes, base>>] \in U
        /\ Plus[<<bytes, base>>] # Abort => bytes # Abort /\ Plus[<<bytes, base>>] = bytes + base
    BY <2>1, <2>2, PlusExact
  <2>5. SignerFee(s) = base + product
    BY <1>3, <1>5 DEF product
  <2>6. SignerQuote(s) \in {Abort, Plus[<<bytes, base>>]}
    BY <1>3 DEF bytes
  <2> QED
    BY <2>1, <2>2, <2>3, <2>4, <2>5, <2>6 DEF U
<1> QED
  BY <1>4, <1>5

LEMMA TreasuryQuoteExact ==
  ASSUME settings \in Settings, NEW o \in U, NEW r \in U
  PROVE  /\ quote_treasury(o, r) \in U
         /\ quote_treasury(o, r) # Abort =>
              /\ o # Abort /\ r # Abort /\ o + r \in Nat
              /\ o + r + quote_treasury(o, r) = WithTreasuryFee(o + r)
<1> DEFINE bps == settings.treasury_fee_bps
           sum == Plus[<<o, r>>]
           product == Times[<<sum, bps>>]
           quote == Divide[<<product, BpsDenominator>>]
<1>1. bps \in Nat /\ bps \in U /\ BpsDenominator \in Nat \ {0}
  BY SendAssumption DEF Settings, U
<1>2. /\ sum \in U
      /\ sum # Abort => o # Abort /\ r # Abort /\ sum = o + r
  BY PlusExact
<1> HIDE DEF sum, bps
<1>3. /\ product \in U
      /\ product # Abort => sum # Abort /\ product = sum * bps
  BY <1>1, <1>2, TimesExact
<1> HIDE DEF product
<1>4. /\ quote \in U
      /\ quote # Abort => product # Abort /\ quote = product \div BpsDenominator
  BY <1>1, <1>3, DivideExact
<1>5. quote_treasury(o, r) = quote
  BY DEF quote_treasury, quote, product, sum, bps
<1> HIDE DEF quote
<1>6. ASSUME quote # Abort
      PROVE  /\ o # Abort /\ r # Abort /\ o + r \in Nat
             /\ o + r + quote = WithTreasuryFee(o + r)
  <2>1. /\ o # Abort /\ r # Abort /\ sum = o + r /\ sum \in Nat
        /\ quote = (sum * bps) \div BpsDenominator
    BY <1>2, <1>3, <1>4, <1>6 DEF U
  <2>2. sum * bps = bps * sum
    BY <1>1, <2>1
  <2>3. WithTreasuryFee(sum) = sum + quote
    BY <2>1, <2>2 DEF WithTreasuryFee, bps
  <2> QED
    BY <2>1, <2>3
<1> QED
  BY <1>4, <1>5, <1>6

\* The parameters that stand for the ones given.
Chosen(adapter_params) ==
  IF adapter_params = None THEN settings.default_params ELSE adapter_params

LEMMA ChosenType ==
  ASSUME settings \in Settings, NEW params \in AdapterParams
  PROVE  Chosen(params) \in Params
BY SendAssumption DEF Settings, AdapterParams, buildAirdropAdapterParams,
   defaultParams, Chosen, Params

LEMMA ExecutorFeeType ==
  ASSUME settings \in Settings, NEW x \in Executors \union {Null}, NEW params \in Params
  PROVE  ExecutorFee(x, params) \in Nat
<1> DEFINE fee == IF x = Null THEN None ELSE settings.worker[x].fee
           gas == params.gas
           airdrop == params.airdrop
           price == fee.gas_price
           ratio == fee.price_ratio
<1>1. ExecutorFee(x, params) =
        IF fee = None THEN 0
        ELSE ((gas * price + airdrop) * ratio) \div PriceRatioDenominator
  BY DEF ExecutorFee
<1>2. fee # None => price \in Nat /\ ratio \in Nat
  BY SendAssumption DEF Settings, Prices
<1>3. gas \in Nat /\ airdrop \in Nat /\ PriceRatioDenominator \in Nat \ {0}
  BY SendAssumption DEF Params
<1> HIDE DEF fee, gas, airdrop, price, ratio
<1>4. ASSUME fee # None PROVE ((gas * price + airdrop) * ratio) \div PriceRatioDenominator \in Nat
  <2> DEFINE coins == gas * price + airdrop
             product == coins * ratio
  <2>1. coins \in Nat
    BY <1>2, <1>3, <1>4
  <2> HIDE DEF coins
  <2>2. product \in Nat
    BY <1>2, <1>4, <2>1
  <2> HIDE DEF product
  <2>3. product \div PriceRatioDenominator \in Nat
    BY <1>3, <2>2
  <2> QED
    BY <2>3 DEF product, coins
<1> QED
  BY <1>1, <1>4

\* Parameters without gas and without an airdrop cost nothing, at any price.
LEMMA NothingForNoGas ==
  ASSUME settings \in Settings, NEW x \in Executors \union {Null}
  PROVE  defaultParams(0) \in Params /\ ExecutorFee(x, defaultParams(0)) = 0
<1> DEFINE fee == IF x = Null THEN None ELSE settings.worker[x].fee
           price == fee.gas_price
           ratio == fee.price_ratio
<1>1. defaultParams(0) \in Params /\ defaultParams(0).gas = 0 /\ defaultParams(0).airdrop = 0
  BY DEF defaultParams, Params
<1>2. ExecutorFee(x, defaultParams(0)) =
        IF fee = None THEN 0
        ELSE ((0 * price + 0) * ratio) \div PriceRatioDenominator
  BY <1>1 DEF ExecutorFee
<1>3. fee # None => price \in Nat /\ ratio \in Nat
  BY SendAssumption DEF Settings, Prices
<1>4. PriceRatioDenominator \in Nat \ {0}
  BY SendAssumption
<1> HIDE DEF fee, price, ratio
<1>5. fee # None => (0 * price + 0) * ratio = 0
  BY <1>3
<1>6. 0 \div PriceRatioDenominator = 0
  BY <1>4
<1> QED
  BY <1>1, <1>2, <1>5, <1>6

LEMMA ExecutorQuoteExact ==
  ASSUME settings \in Settings, NEW x \in Executors, NEW params \in AdapterParams
  PROVE  /\ ExecutorQuote(x, params) \in U
         /\ ExecutorQuote(x, params) # Abort =>
              ExecutorQuote(x, params) = ExecutorFee(x, Chosen(params))
<1> DEFINE fee == settings.worker[x].fee
           gas == Chosen(params).gas
           airdrop == Chosen(params).airdrop
           price == fee.gas_price
           ratio == fee.price_ratio
           spent == Times[<<gas, price>>]
           coins == Plus[<<spent, airdrop>>]
           product == Times[<<coins, ratio>>]
           quote == Divide[<<product, PriceRatioDenominator>>]
<1>1. ExecutorQuote(x, params) =
        IF /\ is_allowed(settings.worker[x].acl, UA) /\ fee # None
           /\ airdrop <= fee.airdrop_amt_cap
        THEN quote ELSE Abort
  BY DEF ExecutorQuote, Chosen
<1>2. x # Null
  BY SendAssumption
<1>3. ExecutorFee(x, Chosen(params)) =
        IF fee = None THEN 0
        ELSE ((gas * price + airdrop) * ratio) \div PriceRatioDenominator
  BY <1>2 DEF ExecutorFee
<1>4. fee # None => price \in Nat /\ ratio \in Nat
  BY SendAssumption DEF Settings, Prices
<1>5. gas \in Nat /\ airdrop \in Nat /\ PriceRatioDenominator \in Nat \ {0}
  BY SendAssumption, ChosenType DEF Params
<1>6. CASE fee = None
  BY <1>1, <1>6 DEF U
<1>7. CASE fee # None
  <2> HIDE DEF fee, gas, airdrop, price, ratio
  <2>1. /\ gas \in U /\ price \in U /\ airdrop \in U /\ ratio \in U
        /\ gas \in Nat /\ price \in Nat /\ airdrop \in Nat /\ ratio \in Nat
    BY <1>4, <1>5, <1>7 DEF U
  <2>2. spent \in U /\ (spent # Abort => spent = gas * price)
    BY <2>1, TimesExact
  <2> HIDE DEF spent
  <2>3. coins \in U /\ (coins # Abort => spent # Abort /\ coins = spent + airdrop)
    BY <2>1, <2>2, PlusExact
  <2> HIDE DEF coins
  <2>4. product \in U /\ (product # Abort => coins # Abort /\ product = coins * ratio)
    BY <2>1, <2>3, TimesExact
  <2> HIDE DEF product
  <2>5. /\ quote \in U
        /\ quote # Abort => product # Abort /\ quote = product \div PriceRatioDenominator
    BY <1>5, <2>4, DivideExact
  <2> HIDE DEF quote
  <2>6. quote # Abort =>
          quote = ((gas * price + airdrop) * ratio) \div PriceRatioDenominator
    BY <2>2, <2>3, <2>4, <2>5
  <2> QED
    BY <1>1, <1>3, <1>7, <2>5, <2>6 DEF U
<1> QED
  BY <1>6, <1>7

-----------------------------------------------------------------------------
\* What the chain takes out of a fee.

OracleQuote == SignerQuote(get_uln_config.oracle)
RelayerQuote == SignerQuote(get_uln_config.relayer)
TreasuryQuote == quote_treasury(OracleQuote, RelayerQuote)

LEMMA ExecutorType ==
  ASSUME settings \in Settings
  PROVE  get_executor.executor \in Executors
BY DEF Settings, get_executor

LEMMA QuoteTypes ==
  ASSUME settings \in Settings, NEW params \in AdapterParams
  PROVE  /\ OracleQuote \in U /\ RelayerQuote \in U /\ TreasuryQuote \in U
         /\ ExecutorQuote(get_executor.executor, params) \in U
         /\ TreasuryQuote # Abort => OracleQuote # Abort /\ RelayerQuote # Abort
<1>1. get_uln_config.oracle \in Signers /\ get_uln_config.relayer \in Signers
  BY UlnConfigType DEF UlnFields
<1>2. OracleQuote \in U /\ RelayerQuote \in U
  BY <1>1, SignerQuoteExact DEF OracleQuote, RelayerQuote
<1>3. TreasuryQuote \in U /\ (TreasuryQuote # Abort => OracleQuote # Abort /\ RelayerQuote # Abort)
  BY <1>2, TreasuryQuoteExact DEF TreasuryQuote
<1>4. ExecutorQuote(get_executor.executor, params) \in U
  BY ExecutorType, ExecutorQuoteExact
<1> QED
  BY <1>2, <1>3, <1>4

\* The chain quotes the sum of the parts, or nothing.
LEMMA QuoteIsSum ==
  ASSUME settings \in Settings, NEW params \in AdapterParams
  PROVE  LET e == ExecutorQuote(get_executor.executor, params)
             sum == OracleQuote + RelayerQuote + TreasuryQuote + e
         IN  /\ quote_fee(params) \in U
             /\ quote_fee(params) # Abort <=>
                  /\ get_send_msglib = "1.0"
                  /\ TreasuryQuote # Abort /\ e # Abort /\ sum <= MaxU64
             /\ quote_fee(params) # Abort => quote_fee(params) = sum
<1> DEFINE o == OracleQuote
           r == RelayerQuote
           t == TreasuryQuote
           e == ExecutorQuote(get_executor.executor, params)
           m == IF get_send_msglib = "1.0" THEN Plus[<<Plus[<<o, r>>], t>>] ELSE Abort
<1>1. /\ o \in U /\ r \in U /\ t \in U /\ e \in U
      /\ t # Abort => o # Abort /\ r # Abort
  BY QuoteTypes
<1>2. quote_fee(params) = Plus[<<m, e>>]
  BY DEF quote_fee, MsgLibQuote, OracleQuote, RelayerQuote, TreasuryQuote
<1>3. MaxU64 \in Nat
  BY SendAssumption
<1> HIDE DEF o, r, t, e
<1>4. /\ Plus[<<o, r>>] \in U
      /\ Plus[<<o, r>>] # Abort <=> o # Abort /\ r # Abort /\ o + r <= MaxU64
      /\ Plus[<<o, r>>] # Abort => Plus[<<o, r>>] = o + r
  BY <1>1, PlusExact
<1>5. /\ Plus[<<Plus[<<o, r>>], t>>] \in U
      /\ Plus[<<Plus[<<o, r>>], t>>] # Abort <=>
           Plus[<<o, r>>] # Abort /\ t # Abort /\ Plus[<<o, r>>] + t <= MaxU64
      /\ Plus[<<Plus[<<o, r>>], t>>] # Abort => Plus[<<Plus[<<o, r>>], t>>] = Plus[<<o, r>>] + t
  BY <1>1, <1>4, PlusExact
<1>6. /\ m \in U
      /\ m # Abort <=> get_send_msglib = "1.0" /\ t # Abort /\ o + r + t <= MaxU64
      /\ m # Abort => m = o + r + t
  BY <1>1, <1>3, <1>4, <1>5 DEF U, Abort
<1> HIDE DEF m
<1>7. /\ Plus[<<m, e>>] \in U
      /\ Plus[<<m, e>>] # Abort <=> m # Abort /\ e # Abort /\ m + e <= MaxU64
      /\ Plus[<<m, e>>] # Abort => Plus[<<m, e>>] = m + e
  BY <1>1, <1>6, PlusExact
<1>8. LET sum == o + r + t + e
      IN  /\ quote_fee(params) \in U
          /\ quote_fee(params) # Abort <=>
               get_send_msglib = "1.0" /\ t # Abort /\ e # Abort /\ sum <= MaxU64
          /\ quote_fee(params) # Abort => quote_fee(params) = sum
  BY <1>1, <1>2, <1>3, <1>6, <1>7 DEF U, Abort
<1> QED
  BY <1>8 DEF o, r, t, e

\* A message is sent exactly if the fee covers what the chain quotes and the
\* wallet the fee; the rest of the fee is given back.
LEMMA SendsIfCovered ==
  ASSUME settings \in Settings, NEW params \in AdapterParams, NEW fee \in Nat,
         balance[UA] \in 0 .. Wallet
  PROVE  /\ Sends(fee, params) <=>
              /\ fee <= balance[UA]
              /\ quote_fee(params) # Abort /\ quote_fee(params) <= fee
         /\ Sends(fee, params) => send_to_remote(fee, params) = fee - quote_fee(params)
<1> DEFINE o == OracleQuote
           r == RelayerQuote
           t == TreasuryQuote
           e == ExecutorQuote(get_executor.executor, params)
           due == Plus[<<Plus[<<t, o>>], r>>]
           coins == IF fee <= balance[UA] THEN fee ELSE Abort
           left == IF get_send_msglib = "1.0" THEN TakeFrom[<<coins, due>>] ELSE Abort
           version == get_send_msglib
           quote == quote_fee(params)
           wallet == balance[UA]
<1>1. /\ o \in U /\ r \in U /\ t \in U /\ e \in U
      /\ t # Abort => o # Abort /\ r # Abort
  BY QuoteTypes
<1>2. send_to_remote(fee, params) = TakeFrom[<<left, e>>]
  BY DEF send_to_remote, request, MsgLibSend, withdraw, pay_fee, OracleQuote,
     RelayerQuote, TreasuryQuote
<1>3. /\ wallet \in Nat /\ wallet <= MaxU64 /\ MaxU64 \in Nat
  BY SendAssumption
<1>4. /\ quote \in U
      /\ quote # Abort <=>
           version = "1.0" /\ t # Abort /\ e # Abort /\ o + r + t + e <= MaxU64
      /\ quote # Abort => quote = o + r + t + e
  BY QuoteIsSum
<1> HIDE DEF o, r, t, e, quote, wallet
<1>5. /\ Plus[<<t, o>>] \in U
      /\ Plus[<<t, o>>] # Abort <=> t # Abort /\ o # Abort /\ t + o <= MaxU64
      /\ Plus[<<t, o>>] # Abort => Plus[<<t, o>>] = t + o
  BY <1>1, PlusExact
<1>6. /\ due \in U
      /\ due # Abort <=> Plus[<<t, o>>] # Abort /\ r # Abort /\ Plus[<<t, o>>] + r <= MaxU64
      /\ due # Abort => due = Plus[<<t, o>>] + r
  BY <1>1, <1>5, PlusExact
<1>7. /\ due \in U
      /\ due # Abort <=> t # Abort /\ t + o + r <= MaxU64
      /\ due # Abort => due = t + o + r
  BY <1>1, <1>3, <1>5, <1>6 DEF U, Abort
<1> HIDE DEF due
<1>8. coins \in U /\ (coins # Abort <=> fee <= wallet) /\ (coins # Abort => coins = fee)
  BY DEF U, Abort, wallet
<1> HIDE DEF coins
<1>9. /\ TakeFrom[<<coins, due>>] \in U
      /\ TakeFrom[<<coins, due>>] # Abort <=> coins # Abort /\ due # Abort /\ due <= coins
      /\ TakeFrom[<<coins, due>>] # Abort => TakeFrom[<<coins, due>>] = coins - due
  BY <1>7, <1>8, TakeExact
<1>10. /\ left \in U
       /\ left # Abort <=> version = "1.0" /\ coins # Abort /\ due # Abort /\ due <= coins
       /\ left # Abort => left = coins - due
  BY <1>9 DEF U
<1> HIDE DEF left, version
<1>11. /\ TakeFrom[<<left, e>>] # Abort <=> left # Abort /\ e # Abort /\ e <= left
       /\ TakeFrom[<<left, e>>] # Abort => TakeFrom[<<left, e>>] = left - e
  BY <1>1, <1>10, TakeExact
<1>12. /\ TakeFrom[<<left, e>>] # Abort <=> fee <= wallet /\ quote # Abort /\ quote <= fee
       /\ TakeFrom[<<left, e>>] # Abort => TakeFrom[<<left, e>>] = fee - quote
  BY <1>1, <1>3, <1>4, <1>7, <1>8, <1>10, <1>11 DEF U, Abort
<1> QED
  BY <1>2, <1>12 DEF Sends, quote, wallet

-----------------------------------------------------------------------------
\* What the state is made of.

UlnConfigs == [UlnFields -> Signers]

Transactions == [id : Nat, sequence : Nat, fee : Nat, params : AdapterParams]

ChainTyped ==
  /\ settings \in Settings
  /\ changes \in Nat /\ nonce \in Nat /\ sequence \in Nat /\ faults \in Nat
  /\ bundle \in [at : 0 .. 2, config : [UlnFields -> Signers \union {Null}]]
  /\ pool \subseteq Transactions

BalanceTyped == balance \in [Accounts -> Int] /\ balance[UA] \in 0 .. Wallet

Stages ==
  {"idle", "quote", "ua_config", "oracle_fee", "relayer_fee", "treasury_fee",
   "executor", "default_executor", "params", "executor_fee", "simulate", "sign",
   "wait", "sent", "failed"}

AppRecords ==
  [at : Stages, params : AdapterParams, since : Nat,
   config : {None} \union UlnConfigs \union Params,
   executor : Executors \union {Null}, unread : BOOLEAN, total : Nat,
   tx : {None} \union Transactions, attempts : Nat, done : Nat]

AppTyped ==
  /\ app \in AppRecords
  /\ app.at \in {"ua_config", "oracle_fee", "relayer_fee"} => app.config \in UlnConfigs
  /\ app.at = "executor_fee" => app.config \in Params

Typed == ChainTyped /\ BalanceTyped /\ AppTyped

\* A price or an access list is replaced.
SignerEntry == [fee : Prices(SignerFees), acl : Acl]
WorkerEntry == [fee : Prices(ExecutorFees), acl : Acl]

LEMMA EntryTyped ==
  ASSUME settings \in Settings
  PROVE  /\ \A s \in Signers : settings.signer[s] \in SignerEntry
         /\ \A x \in Executors : settings.worker[x] \in WorkerEntry
         /\ \A s \in Signers, entry \in SignerEntry :
              [settings EXCEPT !.signer = [@ EXCEPT ![s] = entry]] \in Settings
         /\ \A x \in Executors, entry \in WorkerEntry :
              [settings EXCEPT !.worker = [@ EXCEPT ![x] = entry]] \in Settings
BY DEF Settings, SignerEntry, WorkerEntry

LEMMA SettingsStayTyped ==
  ASSUME settings \in Settings, OthersChange
  PROVE  /\ settings' \in Settings /\ changes' = changes + 1
         /\ UNCHANGED <<bundle, chain, pool, app, faults>>
<1>1. ASSUME NEW s \in Signers, NEW fee \in SignerFees, uln_signer_set_fee(s, fee)
      PROVE  settings' \in Settings
  <2> DEFINE entry == [settings.signer[s] EXCEPT !.fee = fee]
  <2>1. entry \in SignerEntry
    BY EntryTyped DEF SignerEntry, Prices
  <2>2. settings' = [settings EXCEPT !.signer = [@ EXCEPT ![s] = entry]]
    BY <1>1 DEF uln_signer_set_fee, Change
  <2> QED
    BY <2>1, <2>2, EntryTyped
<1>2. ASSUME NEW s \in Signers, NEW ua \in {UA, OtherUA},
             uln_signer_allowlist(s, ua) \/ uln_signer_denylist(s, ua)
      PROVE  settings' \in Settings
  <2> DEFINE listed(acl) == [settings.signer[s] EXCEPT !.acl = acl]
             old == settings.signer[s].acl
  <2>1. old \in Acl /\ \A acl \in Acl : listed(acl) \in SignerEntry
    BY EntryTyped DEF SignerEntry
  <2>2. allowlist(old, ua) \in Acl /\ denylist(old, ua) \in Acl
    BY <2>1 DEF Acl, allowlist, denylist, Toggle
  <2>3. \E acl \in {allowlist(old, ua), denylist(old, ua)} :
          settings' = [settings EXCEPT !.signer = [@ EXCEPT ![s] = listed(acl)]]
    BY <1>2 DEF uln_signer_allowlist, uln_signer_denylist, Change
  <2> QED
    BY <2>1, <2>2, <2>3, EntryTyped
<1>3. ASSUME NEW x \in Executors, NEW fee \in ExecutorFees, executor_set_fee(x, fee)
      PROVE  settings' \in Settings
  <2> DEFINE entry == [settings.worker[x] EXCEPT !.fee = fee]
  <2>1. entry \in WorkerEntry
    BY EntryTyped DEF WorkerEntry, Prices
  <2>2. settings' = [settings EXCEPT !.worker = [@ EXCEPT ![x] = entry]]
    BY <1>3 DEF executor_set_fee, Change
  <2> QED
    BY <2>1, <2>2, EntryTyped
<1>4. ASSUME NEW x \in Executors, NEW ua \in {UA, OtherUA},
             executor_allowlist(x, ua) \/ executor_denylist(x, ua)
      PROVE  settings' \in Settings
  <2> DEFINE listed(acl) == [settings.worker[x] EXCEPT !.acl = acl]
             old == settings.worker[x].acl
  <2>1. old \in Acl /\ \A acl \in Acl : listed(acl) \in WorkerEntry
    BY EntryTyped DEF WorkerEntry
  <2>2. allowlist(old, ua) \in Acl /\ denylist(old, ua) \in Acl
    BY <2>1 DEF Acl, allowlist, denylist, Toggle
  <2>3. \E acl \in {allowlist(old, ua), denylist(old, ua)} :
          settings' = [settings EXCEPT !.worker = [@ EXCEPT ![x] = listed(acl)]]
    BY <1>4 DEF executor_allowlist, executor_denylist, Change
  <2> QED
    BY <2>1, <2>2, <2>3, EntryTyped
<1>5. ASSUME NEW x \in Executors, set_default_executor(x) PROVE settings' \in Settings
  BY <1>5 DEF set_default_executor, Change, Settings
<1>6. ASSUME NEW version \in {0, 1}, NEW x \in Executors \union {Null},
             set_executor(version, x)
      PROVE  settings' \in Settings
  BY <1>6 DEF set_executor, Change, Settings
<1>7. ASSUME NEW config \in [UlnFields -> Signers], set_default_config(config)
      PROVE  settings' \in Settings
  BY <1>7 DEF set_default_config, Change, Settings
<1>8. ASSUME NEW bps \in TreasuryFees, set_treasury_fee(bps) PROVE settings' \in Settings
  BY <1>8 DEF set_treasury_fee, Change, Settings
<1>9. ASSUME NEW version \in {"1.0", "blocking"}, set_default_send_msglib(version)
      PROVE  settings' \in Settings
  BY <1>9 DEF set_default_send_msglib, Change, Settings
<1>10. ASSUME NEW version \in {"default", "1.0", "blocking"}, set_send_msglib(version)
       PROVE  settings' \in Settings
  BY <1>10 DEF set_send_msglib, Change, Settings
<1>11. ASSUME NEW gas \in Gas, set_default_adapter_params(gas) PROVE settings' \in Settings
  <2>1. defaultParams(gas) \in Params
    BY SendAssumption DEF defaultParams, Params
  <2> QED
    BY <1>11, <2>1 DEF set_default_adapter_params, Change, Settings
<1>12. settings' \in Settings
  BY <1>1, <1>2, <1>3, <1>4, <1>5, <1>6, <1>7, <1>8, <1>9, <1>10, <1>11 DEF OthersChange
<1>13. \E new : Change(new)
  BY DEF OthersChange, uln_signer_set_fee, uln_signer_allowlist, uln_signer_denylist,
     executor_set_fee, executor_allowlist, executor_denylist, set_default_executor,
     set_executor, set_default_config, set_treasury_fee, set_default_send_msglib,
     set_send_msglib, set_default_adapter_params
<1> QED
  BY <1>12, <1>13 DEF Change

\* What a transaction leaves: the application pays what the chain quotes, and
\* the ones it pays get all of it.
LEMMA PaysQuote ==
  ASSUME ChainTyped, BalanceTyped, NEW tx \in Transactions, Sends(tx.fee, tx.params)
  PROVE  /\ quote_fee(tx.params) \in 0 .. balance[UA]
         /\ quote_fee(tx.params) =
              OracleQuote + RelayerQuote + TreasuryQuote
                + ExecutorQuote(get_executor.executor, tx.params)
         /\ Paid(tx.fee, tx.params) =
              Deposit(Deposit(Deposit(Deposit(Deposit(balance,
                get_uln_config.oracle, OracleQuote),
                get_uln_config.relayer, RelayerQuote),
                "layerzero", TreasuryQuote),
                get_executor.executor, ExecutorQuote(get_executor.executor, tx.params)),
                UA, -quote_fee(tx.params))
         /\ {OracleQuote, RelayerQuote, TreasuryQuote,
             ExecutorQuote(get_executor.executor, tx.params)} \subseteq Nat
         /\ {get_uln_config.oracle, get_uln_config.relayer, get_executor.executor}
              \subseteq Signers \union Executors
<1> DEFINE quote == quote_fee(tx.params)
           e == ExecutorQuote(get_executor.executor, tx.params)
<1>1. /\ settings \in Settings /\ tx.params \in AdapterParams /\ tx.fee \in Nat
      /\ balance[UA] \in 0 .. Wallet /\ balance[UA] \in Nat
  BY SendAssumption DEF ChainTyped, BalanceTyped, Transactions
<1>2. /\ tx.fee <= balance[UA] /\ quote # Abort /\ quote <= tx.fee
      /\ send_to_remote(tx.fee, tx.params) = tx.fee - quote
  BY <1>1, SendsIfCovered
<1>3. /\ quote \in U /\ quote = OracleQuote + RelayerQuote + TreasuryQuote + e
      /\ TreasuryQuote # Abort /\ e # Abort
  BY <1>1, <1>2, QuoteIsSum
<1>4. {OracleQuote, RelayerQuote, TreasuryQuote, e} \subseteq Nat
  BY <1>1, <1>3, QuoteTypes DEF U
<1>5. quote \in 0 .. balance[UA]
  BY <1>1, <1>2, <1>3 DEF U
<1>6. {get_uln_config.oracle, get_uln_config.relayer, get_executor.executor}
        \subseteq Signers \union Executors
  BY <1>1, UlnConfigType, ExecutorType DEF UlnFields
<1>7. tx.fee - send_to_remote(tx.fee, tx.params) = quote
  BY <1>1, <1>2, <1>5
<1> HIDE DEF quote
<1>8. Paid(tx.fee, tx.params) =
        Deposit(Deposit(Deposit(Deposit(Deposit(balance,
          get_uln_config.oracle, OracleQuote),
          get_uln_config.relayer, RelayerQuote),
          "layerzero", TreasuryQuote), get_executor.executor, e), UA, -quote)
  BY <1>7 DEF Paid, OracleQuote, RelayerQuote, TreasuryQuote
<1> QED
  BY <1>3, <1>4, <1>5, <1>6, <1>8 DEF quote

LEMMA DepositType ==
  ASSUME NEW b \in [Accounts -> Int], NEW a \in Accounts, NEW n \in Int
  PROVE  /\ Deposit(b, a, n) \in [Accounts -> Int]
         /\ Deposit(b, a, n) = [b EXCEPT ![a] = b[a] + n]
         /\ Deposit(b, a, n)[UA] = IF a = UA THEN b[UA] + n ELSE b[UA]
<1>1. UA \in Accounts
  BY DEF Accounts
<1> QED
  BY <1>1 DEF Deposit

\* Sums: FoldFunction is the sum the library proves about.
LEMMA AccountsFinite == IsFiniteSet(Accounts)
<1>1. IsFiniteSet(Signers) /\ IsFiniteSet(Executors)
  BY SendAssumption
<1>2. IsFiniteSet({UA}) /\ IsFiniteSet({"layerzero"})
  BY FS_Singleton
<1> QED
  <2>1. IsFiniteSet({UA} \union {"layerzero"}) /\ IsFiniteSet(Signers \union Executors)
    BY <1>1, <1>2, FS_Union
  <2>2. Accounts = ({UA} \union {"layerzero"}) \union (Signers \union Executors)
    BY DEF Accounts
  <2> QED
    BY <2>1, <2>2, FS_Union

LEMMA DepositSum ==
  ASSUME NEW b \in [Accounts -> Int], NEW a \in Accounts, NEW n \in Int
  PROVE  SumFunction(Deposit(b, a, n)) = SumFunction(b) + n /\ SumFunction(b) \in Int
<1> DEFINE c == Deposit(b, a, n)
<1>1. c \in [Accounts -> Int] /\ c = [b EXCEPT ![a] = b[a] + n]
  BY DepositType
<1>2. /\ \A y \in Accounts : b[y] \in Int /\ c[y] \in Int
      /\ \A y \in Accounts \ {a} : b[y] = c[y]
      /\ c[a] = b[a] + n
  BY <1>1
<1>3. DOMAIN b = Accounts /\ DOMAIN c = Accounts
  BY <1>1
<1> HIDE DEF c
<1>4. SumFunctionOnSet(c, Accounts) = SumFunctionOnSet(b, Accounts) - b[a] + c[a]
  BY <1>2, AccountsFinite, SumChange
<1>5. SumFunctionOnSet(b, Accounts) \in Int
  BY <1>2, AccountsFinite, SumInt
<1>6. SumFunction(c) = SumFunctionOnSet(c, Accounts) /\ SumFunction(b) = SumFunctionOnSet(b, Accounts)
  BY <1>3 DEF SumFunction
<1> DEFINE sb == SumFunction(b)
           sc == SumFunction(c)
<1>7. sc = sb - b[a] + c[a] /\ sb \in Int
  BY <1>4, <1>5, <1>6
<1> HIDE DEF sb, sc
<1>8. sc = sb + n
  BY <1>2, <1>7
<1> QED
  BY <1>7, <1>8 DEF sb, sc, c

\* Somebody is paid who is not the application.
Ledgers == [Accounts -> Int]

LEMMA OtherIsPaid ==
  ASSUME NEW b \in Ledgers, NEW a \in Accounts, NEW n \in Int, a # UA
  PROVE  /\ Deposit(b, a, n) \in Ledgers /\ Deposit(b, a, n)[UA] = b[UA]
         /\ SumFunction(Deposit(b, a, n)) = SumFunction(b) + n
BY DepositType, DepositSum DEF Ledgers

LEMMA ApplicationIsPaid ==
  ASSUME NEW b \in Ledgers, NEW n \in Int
  PROVE  /\ Deposit(b, UA, n) \in Ledgers /\ Deposit(b, UA, n)[UA] = b[UA] + n
         /\ SumFunction(Deposit(b, UA, n)) = SumFunction(b) + n
<1>1. UA \in Accounts
  BY DEF Accounts
<1> QED
  BY <1>1, DepositType, DepositSum DEF Ledgers

\* The balances after a transaction: the application has the quote less, and
\* the sum is what it was.
LEMMA PaidBalances ==
  ASSUME ChainTyped, BalanceTyped, NEW tx \in Transactions, Sends(tx.fee, tx.params)
  PROVE  LET paid == Paid(tx.fee, tx.params)
         IN  /\ paid \in [Accounts -> Int]
             /\ paid[UA] = balance[UA] - quote_fee(tx.params)
             /\ paid[UA] \in 0 .. Wallet
             /\ SumFunction(paid) = SumFunction(balance)
<1> DEFINE o == OracleQuote
           r == RelayerQuote
           t == TreasuryQuote
           e == ExecutorQuote(get_executor.executor, tx.params)
           quote == quote_fee(tx.params)
           oracle == get_uln_config.oracle
           relayer == get_uln_config.relayer
           executor == get_executor.executor
           b1 == Deposit(balance, oracle, o)
           b2 == Deposit(b1, relayer, r)
           b3 == Deposit(b2, "layerzero", t)
           b4 == Deposit(b3, executor, e)
           b5 == Deposit(b4, UA, -quote)
           wallet == balance[UA]
<1>1. /\ quote \in 0 .. wallet /\ quote = o + r + t + e
      /\ Paid(tx.fee, tx.params) = b5
      /\ o \in Nat /\ r \in Nat /\ t \in Nat /\ e \in Nat
      /\ oracle \in Signers \union Executors /\ relayer \in Signers \union Executors
      /\ executor \in Signers \union Executors
  BY PaysQuote
<1>2. balance \in [Accounts -> Int] /\ wallet \in 0 .. Wallet /\ Wallet \in Nat
  BY SendAssumption DEF BalanceTyped
<1>3. /\ oracle \in Accounts /\ relayer \in Accounts /\ executor \in Accounts
      /\ "layerzero" \in Accounts /\ UA \in Accounts
      /\ UA \notin {oracle, relayer, executor, "layerzero"}
  BY <1>1, SendAssumption DEF Accounts
<1> HIDE DEF o, r, t, e, quote, oracle, relayer, executor
<1>4. o \in Int /\ r \in Int /\ t \in Int /\ e \in Int /\ -quote \in Int
  BY <1>1, <1>2
<1>5. balance \in Ledgers /\ SumFunction(balance) \in Int
  BY <1>2, <1>3, <1>4, DepositSum DEF Ledgers
<1>6. /\ b1 \in Ledgers /\ b1[UA] = balance[UA] /\ SumFunction(b1) = SumFunction(balance) + o
  BY <1>3, <1>4, <1>5, OtherIsPaid
<1> HIDE DEF b1
<1>7. /\ b2 \in Ledgers /\ b2[UA] = b1[UA] /\ SumFunction(b2) = SumFunction(b1) + r
  BY <1>3, <1>4, <1>6, OtherIsPaid
<1> HIDE DEF b2
<1>8. /\ b3 \in Ledgers /\ b3[UA] = b2[UA] /\ SumFunction(b3) = SumFunction(b2) + t
  BY <1>3, <1>4, <1>7, OtherIsPaid
<1> HIDE DEF b3
<1>9. /\ b4 \in Ledgers /\ b4[UA] = b3[UA] /\ SumFunction(b4) = SumFunction(b3) + e
  BY <1>3, <1>4, <1>8, OtherIsPaid
<1> HIDE DEF b4
<1> DEFINE back == -quote
<1>10. back \in Int /\ back = 0 - quote
  BY <1>1, <1>2
<1>11. b5 = Deposit(b4, UA, back)
  OBVIOUS
<1> HIDE DEF b5, back
<1>12. /\ b5 \in Ledgers /\ b5[UA] = b4[UA] + back
       /\ SumFunction(b5) = SumFunction(b4) + back
  BY <1>9, <1>10, <1>11, ApplicationIsPaid
<1> HIDE DEF wallet
<1> DEFINE s0 == SumFunction(balance)
           s1 == SumFunction(b1)
           s2 == SumFunction(b2)
           s3 == SumFunction(b3)
           s4 == SumFunction(b4)
           s5 == SumFunction(b5)
<1>13. s0 \in Int /\ s1 = s0 + o /\ s2 = s1 + r /\ s3 = s2 + t /\ s4 = s3 + e /\ s5 = s4 + back
  BY <1>5, <1>6, <1>7, <1>8, <1>9, <1>12
<1> HIDE DEF s0, s1, s2, s3, s4, s5
<1>14. s5 = s0
  BY <1>1, <1>4, <1>10, <1>13
<1>15. b5[UA] = wallet + back
  BY <1>6, <1>7, <1>8, <1>9, <1>12 DEF wallet
<1>16. b5[UA] = wallet - quote /\ b5[UA] \in 0 .. Wallet
  BY <1>1, <1>2, <1>10, <1>15
<1> QED
  BY <1>1, <1>12, <1>14, <1>16 DEF s0, s5, wallet, quote, Ledgers

-----------------------------------------------------------------------------
\* The quote the application is putting together.

SdkOracle == SignerFee(get_uln_config.oracle)
SdkRelayer == SignerFee(get_uln_config.relayer)
SdkMsgLib == WithTreasuryFee(SdkOracle + SdkRelayer)

StoredExecutor ==
  IF settings.executor = None THEN settings.default_executor.executor
                              ELSE settings.executor.executor

SdkExecutor(params) == ExecutorFee(StoredExecutor, Chosen(params))

\* As long as nothing has changed since the quote was begun, what has been
\* added up is the part of the quote that belongs to the settings as they are.
QuotedSoFar ==
  /\ app.since <= changes
  /\ app.since = changes =>
       /\ app.at = "ua_config" => app.config = settings.default_config
       /\ app.at \in {"oracle_fee", "relayer_fee"} => app.config = get_uln_config
       /\ app.at = "relayer_fee" => app.total = SdkOracle
       /\ app.at = "treasury_fee" => app.total = SdkOracle + SdkRelayer
       /\ app.at \in {"executor", "default_executor", "params", "executor_fee"} =>
            app.total = SdkMsgLib
       /\ app.at = "default_executor" => settings.executor = None
       /\ app.at \in {"params", "executor_fee"} => app.executor = StoredExecutor
       /\ app.at = "executor_fee" =>
            app.config = IF app.unread THEN defaultParams(0) ELSE Chosen(app.params)
       /\ app.at = "simulate" =>
            app.total = IF app.unread THEN SdkMsgLib
                                      ELSE SdkMsgLib + SdkExecutor(app.params)

AppSame == UNCHANGED <<settings, changes, bundle, chain, pool, faults>>

LEMMA SdkSame ==
  ASSUME AppSame
  PROVE  /\ SdkOracle' = SdkOracle /\ SdkRelayer' = SdkRelayer /\ SdkMsgLib' = SdkMsgLib
         /\ StoredExecutor' = StoredExecutor /\ get_uln_config' = get_uln_config
         /\ settings' = settings /\ changes' = changes
<1>1. settings' = settings /\ changes' = changes
  BY DEF AppSame
<1> QED
  BY <1>1 DEF SdkOracle, SdkRelayer, SdkMsgLib, StoredExecutor, get_uln_config, merge,
     SignerFee, WithTreasuryFee

LEMMA SdkTypes ==
  ASSUME settings \in Settings
  PROVE  /\ SdkOracle \in Nat /\ SdkRelayer \in Nat /\ SdkMsgLib \in Nat
         /\ StoredExecutor \in Executors \union {Null}
         /\ get_uln_config \in UlnConfigs
         /\ \A n \in Nat : WithTreasuryFee(n) \in Nat
<1>1. get_uln_config \in UlnConfigs
  BY UlnConfigType DEF UlnConfigs
<1>2. get_uln_config.oracle \in Signers /\ get_uln_config.relayer \in Signers
  BY <1>1 DEF UlnConfigs, UlnFields
<1>3. SdkOracle \in Nat /\ SdkRelayer \in Nat
  BY <1>2, SignerQuoteExact DEF SdkOracle, SdkRelayer
<1>4. ASSUME NEW n \in Nat PROVE WithTreasuryFee(n) \in Nat
  <2> DEFINE bps == settings.treasury_fee_bps
             product == bps * n
  <2>1. bps \in Nat /\ BpsDenominator \in Nat \ {0}
    BY SendAssumption DEF Settings
  <2> HIDE DEF bps
  <2>2. product \in Nat
    BY <2>1
  <2> HIDE DEF product
  <2>3. product \div BpsDenominator \in Nat
    BY <2>1, <2>2
  <2>4. WithTreasuryFee(n) = n + product \div BpsDenominator
    BY DEF WithTreasuryFee, product, bps
  <2> QED
    BY <2>3, <2>4
<1>5. StoredExecutor \in Executors \union {Null}
  BY DEF StoredExecutor, Settings
<1>6. SdkOracle + SdkRelayer \in Nat
  BY <1>3
<1> QED
  BY <1>1, <1>3, <1>4, <1>5, <1>6 DEF SdkMsgLib

AppOk == AppTyped /\ QuotedSoFar

LEMMA OrderOk ==
  ASSUME ChainTyped, AppOk, Order PROVE AppSame /\ AppOk'
<1>1. AppSame
  BY DEF Order, App, AppSame
<1>2. PICK params \in AdapterParams : app' = [app EXCEPT !.at = "quote", !.params = params]
  BY DEF Order, App
<1>3. AppTyped'
  BY <1>2 DEF AppOk, AppTyped, AppRecords, Stages
<1>4. QuotedSoFar'
  BY <1>1, <1>2 DEF AppOk, AppTyped, AppRecords, QuotedSoFar, AppSame
<1> QED
  BY <1>1, <1>3, <1>4 DEF AppOk

\* A new quote is begun.
LEMMA RetryOk ==
  ASSUME ChainTyped, AppOk, app' = Retry, changes' = changes PROVE AppOk'
<1>1. AppTyped'
  BY DEF AppOk, AppTyped, AppRecords, Stages, Retry
<1>2. QuotedSoFar'
  BY DEF AppOk, AppTyped, AppRecords, QuotedSoFar, Retry, ChainTyped
<1> QED
  BY <1>1, <1>2 DEF AppOk

LEMMA DefaultConfigRead ==
  ASSUME ChainTyped, AppOk, getDefaultAppConfig PROVE AppSame /\ AppOk'
<1>1. AppSame
  BY DEF getDefaultAppConfig, App, AppSame
<1>2. app.at = "quote" /\ app' = [app EXCEPT !.at = "ua_config", !.since = changes, !.config = settings.default_config]
  BY DEF getDefaultAppConfig, App
<1>3. settings.default_config \in UlnConfigs /\ changes \in Nat
  BY DEF ChainTyped, Settings, UlnConfigs
<1>4. AppTyped'
  BY <1>2, <1>3 DEF AppOk, AppTyped, AppRecords, Stages
<1>5. QuotedSoFar'
  BY <1>1, <1>2, <1>3, SdkSame DEF AppOk, AppTyped, AppRecords, QuotedSoFar, ChainTyped
<1> QED
  BY <1>1, <1>4, <1>5 DEF AppOk

LEMMA ConfigRead ==
  ASSUME ChainTyped, AppOk, getAppConfig PROVE AppSame /\ AppOk'
<1>1. AppSame
  BY DEF getAppConfig, App, AppSame
<1>2. app.at = "ua_config" /\ app' = [app EXCEPT !.at = "oracle_fee", !.config = IF settings.ua_config = None THEN app.config ELSE merge(settings.ua_config, app.config)]
  BY DEF getAppConfig, App
<1>3. /\ app.config \in UlnConfigs /\ app.at = "ua_config"
      /\ app'.config \in UlnConfigs
  BY <1>2 DEF AppOk, AppTyped, AppRecords, ChainTyped, Settings, UlnConfigs, merge, getAppConfig
<1>4. AppTyped'
  BY <1>2, <1>3 DEF AppOk, AppTyped, AppRecords, Stages
<1>5. QuotedSoFar'
  BY <1>1, <1>2, <1>3, SdkSame DEF AppOk, AppTyped, AppRecords, QuotedSoFar, ChainTyped, get_uln_config
<1> QED
  BY <1>1, <1>4, <1>5 DEF AppOk

LEMMA OracleFeeRead ==
  ASSUME ChainTyped, AppOk, getOracleFee PROVE AppSame /\ AppOk'
<1>1. AppSame
  BY DEF getOracleFee, App, AppSame
<1>2. app.at = "oracle_fee" /\ app' = [app EXCEPT !.at = "relayer_fee", !.total = SignerFee(app.config.oracle)]
  BY DEF getOracleFee, App
<1>3. app.config \in UlnConfigs /\ SignerFee(app.config.oracle) \in Nat
  BY SignerQuoteExact DEF AppOk, AppTyped, AppRecords, UlnConfigs, UlnFields, ChainTyped, getOracleFee
<1>4. AppTyped'
  BY <1>2, <1>3 DEF AppOk, AppTyped, AppRecords, Stages
<1>5. QuotedSoFar'
  BY <1>1, <1>2, <1>3, SdkSame DEF AppOk, AppTyped, AppRecords, QuotedSoFar, ChainTyped, SdkOracle
<1> QED
  BY <1>1, <1>4, <1>5 DEF AppOk

LEMMA RelayerFeeRead ==
  ASSUME ChainTyped, AppOk, getRelayerFee PROVE AppSame /\ AppOk'
<1>1. AppSame
  BY DEF getRelayerFee, App, AppSame
<1>2. app.at = "relayer_fee" /\ app' = [app EXCEPT !.at = "treasury_fee", !.config = None, !.total = @ + SignerFee(app.config.relayer)]
  BY DEF getRelayerFee, App
<1>3. /\ app.config \in UlnConfigs /\ SignerFee(app.config.relayer) \in Nat
      /\ app.total + SignerFee(app.config.relayer) \in Nat
  BY SignerQuoteExact DEF AppOk, AppTyped, AppRecords, UlnConfigs, UlnFields, ChainTyped, getRelayerFee
<1>4. AppTyped'
  BY <1>2, <1>3 DEF AppOk, AppTyped, AppRecords, Stages
<1>5. QuotedSoFar'
  BY <1>1, <1>2, <1>3, SdkSame DEF AppOk, AppTyped, AppRecords, QuotedSoFar, ChainTyped, SdkRelayer
<1> QED
  BY <1>1, <1>4, <1>5 DEF AppOk

LEMMA TreasuryFeeRead ==
  ASSUME ChainTyped, AppOk, getTreasuryFee PROVE AppSame /\ AppOk'
<1>1. AppSame
  BY DEF getTreasuryFee, App, AppSame
<1>2. app.at = "treasury_fee" /\ app' = [app EXCEPT !.at = "executor", !.total = WithTreasuryFee(@)]
  BY DEF getTreasuryFee, App
<1>3. app.total \in Nat /\ WithTreasuryFee(app.total) \in Nat
  BY SdkTypes DEF AppOk, AppTyped, AppRecords, ChainTyped
<1>4. AppTyped'
  BY <1>2, <1>3 DEF AppOk, AppTyped, AppRecords, Stages
<1>5. QuotedSoFar'
  BY <1>1, <1>2, <1>3, SdkSame DEF AppOk, AppTyped, AppRecords, QuotedSoFar, ChainTyped, SdkMsgLib
<1> QED
  BY <1>1, <1>4, <1>5 DEF AppOk

LEMMA ExecutorRead ==
  ASSUME ChainTyped, AppOk, getExecutor PROVE AppSame /\ AppOk'
<1>1. AppSame
  BY DEF getExecutor, App, AppSame
<1>2. app.at = "executor" /\ app' = IF settings.executor = None THEN [app EXCEPT !.at = "default_executor"] ELSE [app EXCEPT !.at = "params", !.executor = settings.executor.executor]
  BY DEF getExecutor, App
<1>3. settings.executor # None => settings.executor.executor \in Executors \union {Null}
  BY DEF ChainTyped, Settings
<1>4. AppTyped'
  BY <1>2, <1>3 DEF AppOk, AppTyped, AppRecords, Stages
<1>5. QuotedSoFar'
  BY <1>1, <1>2, <1>3, SdkSame DEF AppOk, AppTyped, AppRecords, QuotedSoFar, ChainTyped, StoredExecutor
<1> QED
  BY <1>1, <1>4, <1>5 DEF AppOk

LEMMA DefaultExecutorRead ==
  ASSUME ChainTyped, AppOk, getDefaultExecutor PROVE AppSame /\ AppOk'
<1>1. AppSame
  BY DEF getDefaultExecutor, App, AppSame
<1>2. app.at = "default_executor" /\ app' = [app EXCEPT !.at = "params", !.executor = settings.default_executor.executor]
  BY DEF getDefaultExecutor, App
<1>3. settings.default_executor.executor \in Executors
  BY DEF ChainTyped, Settings
<1>4. AppTyped'
  BY <1>2, <1>3 DEF AppOk, AppTyped, AppRecords, Stages
<1>5. QuotedSoFar'
  BY <1>1, <1>2, <1>3, SdkSame DEF AppOk, AppTyped, AppRecords, QuotedSoFar, ChainTyped, StoredExecutor
<1> QED
  BY <1>1, <1>4, <1>5 DEF AppOk

LEMMA ParamsRead ==
  ASSUME ChainTyped, AppOk, getDefaultAdapterParams PROVE AppSame /\ AppOk'
<1>1. AppSame
  BY DEF getDefaultAdapterParams, App, AppSame
<1>2. app.at = "params" /\ app' = [app EXCEPT !.at = "executor_fee", !.unread = FALSE, !.config = Chosen(app.params)]
  BY DEF getDefaultAdapterParams, App, Chosen
<1>3. Chosen(app.params) \in Params
  BY ChosenType DEF AppOk, AppTyped, AppRecords, ChainTyped
<1>4. AppTyped'
  BY <1>2, <1>3 DEF AppOk, AppTyped, AppRecords, Stages
<1>5. QuotedSoFar'
  BY <1>1, <1>2, <1>3, SdkSame DEF AppOk, AppTyped, AppRecords, QuotedSoFar, ChainTyped, Chosen
<1> QED
  BY <1>1, <1>4, <1>5 DEF AppOk

\* A read that fails changes nothing but what the application believes.
LEMMA ParamsUnread ==
  ASSUME ChainTyped, BalanceTyped, AppOk, defaultAdapterParamsUnread
  PROVE  ChainTyped' /\ BalanceTyped' /\ AppOk'
<1>1. /\ UNCHANGED <<settings, changes, bundle, chain, pool>> /\ faults' = faults + 1
      /\ app.at = "params"
      /\ app' = [app EXCEPT !.at = "executor_fee", !.unread = TRUE, !.config = defaultParams(0)]
  BY DEF defaultAdapterParamsUnread
<1>2. ChainTyped' /\ BalanceTyped'
  BY <1>1 DEF ChainTyped, BalanceTyped, chain
<1>3. defaultParams(0) \in Params
  BY NothingForNoGas DEF ChainTyped
<1>4. AppTyped'
  BY <1>1, <1>3 DEF AppOk, AppTyped, AppRecords, Stages
<1>5. SdkMsgLib' = SdkMsgLib /\ StoredExecutor' = StoredExecutor
  BY <1>1 DEF SdkOracle, SdkRelayer, SdkMsgLib, StoredExecutor, get_uln_config, merge,
     SignerFee, WithTreasuryFee
<1> DEFINE gasless == defaultParams(0)
<1> HIDE DEF gasless
<1>6. defaultParams(0)' = gasless
  BY DEF defaultParams, gasless
<1>7. /\ app'.at = "executor_fee" /\ app'.unread /\ app'.config = gasless
      /\ app'.total = app.total /\ app'.executor = app.executor /\ app'.since = app.since
  BY <1>1 DEF AppOk, AppTyped, AppRecords, gasless
<1>8. QuotedSoFar'
  BY <1>1, <1>5, <1>6, <1>7 DEF AppOk, QuotedSoFar
<1> QED
  BY <1>2, <1>4, <1>8 DEF AppOk

LEMMA ExecutorFeeRead ==
  ASSUME ChainTyped, AppOk, getExecutorFee PROVE AppSame /\ AppOk'
<1>1. AppSame
  BY DEF getExecutorFee, App, AppSame
<1>2. app.at = "executor_fee" /\ app' = [app EXCEPT !.at = "simulate", !.config = None, !.executor = Null, !.total = @ + ExecutorFee(app.executor, app.config)]
  BY DEF getExecutorFee, App
<1>3. /\ app.config \in Params /\ app.executor \in Executors \union {Null}
      /\ app.total \in Nat
  BY DEF AppOk, AppTyped, AppRecords, getExecutorFee
<1>4. ExecutorFee(app.executor, app.config) \in Nat
  BY <1>3, ExecutorFeeType DEF ChainTyped
<1>5. app.total + ExecutorFee(app.executor, app.config) \in Nat
  BY <1>3, <1>4
<1>6. app'.params = app.params /\ SdkExecutor(app.params)' = SdkExecutor(app.params)
  <2>1. app'.params = app.params
    BY <1>2 DEF AppOk, AppTyped, AppRecords
  <2> QED
    BY <1>1, <2>1, SdkSame DEF SdkExecutor, Chosen, ExecutorFee
<1>7. AppTyped'
  BY <1>2, <1>3, <1>5 DEF AppOk, AppTyped, AppRecords, Stages
<1>8. app.config = defaultParams(0) => app'.total = app.total
  BY <1>2, <1>3, NothingForNoGas DEF AppOk, AppTyped, AppRecords, ChainTyped
<1>9. QuotedSoFar'
  <2>1. /\ app'.at = "simulate" /\ app'.since = app.since /\ app'.unread = app.unread
        /\ app'.total = app.total + ExecutorFee(app.executor, app.config)
        /\ app.at = "executor_fee" /\ app.unread \in BOOLEAN
    BY <1>2 DEF AppOk, AppTyped, AppRecords
  <2>2. app.since <= changes /\ changes' = changes
    BY <1>1 DEF AppOk, QuotedSoFar, AppSame
  <2>3. ASSUME app.since = changes
        PROVE  app'.total = IF app.unread THEN SdkMsgLib
                                          ELSE SdkMsgLib + SdkExecutor(app.params)
    <3>1. /\ app.total = SdkMsgLib /\ app.executor = StoredExecutor
          /\ app.config = IF app.unread THEN defaultParams(0) ELSE Chosen(app.params)
      BY <2>1, <2>3 DEF AppOk, QuotedSoFar
    <3> QED
      BY <1>8, <2>1, <3>1 DEF SdkExecutor
  <2>4. app'.params = app.params /\ SdkMsgLib' = SdkMsgLib
    BY <1>1, <1>6, SdkSame
  <2>5. SdkExecutor(app.params)' = SdkExecutor(app.params)
    BY <1>6
  <2> QED
    BY <2>1, <2>2, <2>3, <2>4, <2>5 DEF QuotedSoFar
<1> QED
  BY <1>1, <1>7, <1>9 DEF AppOk

-----------------------------------------------------------------------------
\* The rest of the application's steps, and everybody else's.

Leaving == {"idle", "quote", "sign", "wait", "sent", "failed"}

\* Outside a quote nothing is known of the total.
LEMMA LeavingOk ==
  ASSUME ChainTyped, AppOk, AppTyped', app'.at \in Leaving, app'.since \in {0, app.since},
         changes' \in Nat, changes' >= changes
  PROVE  AppOk'
BY DEF AppOk, QuotedSoFar, Leaving, AppTyped, AppRecords, ChainTyped

\* Once something has changed nothing is known either.
LEMMA StaleOk ==
  ASSUME ChainTyped, AppOk, UNCHANGED app, changes' = changes + 1
  PROVE  AppOk'
BY DEF AppOk, QuotedSoFar, AppTyped, AppRecords, ChainTyped

LEMMA GasEstimated ==
  ASSUME ChainTyped, AppOk, estimateGas PROVE AppSame /\ AppOk'
<1>1. AppSame
  BY DEF estimateGas, App, AppSame
<1>2. changes' = changes /\ changes' \in Nat /\ changes' >= changes
  BY <1>1 DEF AppSame, ChainTyped
<1>3. CASE app' = Retry
  BY <1>1, <1>2, <1>3, RetryOk
<1>4. CASE app' = [app EXCEPT !.at = "sign"]
  <2>1. AppTyped' /\ app'.at \in Leaving /\ app'.since = app.since
    BY <1>4 DEF AppOk, AppTyped, AppRecords, Stages, Leaving
  <2> QED
    BY <1>1, <1>2, <2>1, LeavingOk
<1> QED
  BY <1>3, <1>4 DEF estimateGas, App

LEMMA Submitted ==
  ASSUME ChainTyped, BalanceTyped, AppOk, Submit
  PROVE  ChainTyped' /\ BalanceTyped' /\ AppOk'
<1> DEFINE tx == [id |-> app.attempts, sequence |-> sequence,
                  fee |-> app.total, params |-> app.params]
<1>1. tx \in Transactions
  BY DEF AppOk, AppTyped, AppRecords, ChainTyped, Transactions
<1>2. /\ pool' = pool \union {tx}
      /\ app' = [app EXCEPT !.at = "wait", !.tx = tx, !.attempts = @ + 1]
      /\ UNCHANGED <<settings, changes, bundle, chain, faults>>
  BY DEF Submit
<1> HIDE DEF tx
<1>3. ChainTyped' /\ BalanceTyped'
  BY <1>1, <1>2 DEF ChainTyped, BalanceTyped, chain
<1>4. AppTyped' /\ app'.at \in Leaving /\ app'.since = app.since
  <2>1. app.attempts + 1 \in Nat
    BY DEF AppOk, AppTyped, AppRecords
  <2> QED
    BY <1>1, <1>2, <2>1 DEF AppOk, AppTyped, AppRecords, Stages, Leaving
<1>5. changes' \in Nat /\ changes' >= changes
  BY <1>2 DEF ChainTyped
<1> QED
  BY <1>3, <1>4, <1>5, LeavingOk

\* What an answer does to the application.
LEMMA Answered ==
  ASSUME ChainTyped, AppOk, changes' = changes, NEW at \in {"sent", "failed"},
         app' \in {app, [app EXCEPT !.at = at]}, UNCHANGED settings
  PROVE  AppOk'
<1>1. changes' \in Nat /\ changes' >= changes
  BY DEF ChainTyped
<1>2. CASE app' = [app EXCEPT !.at = at]
  <2>1. AppTyped' /\ app'.at \in Leaving /\ app'.since = app.since
    BY <1>2 DEF AppOk, AppTyped, AppRecords, Stages, Leaving
  <2> QED
    BY <1>1, <2>1, LeavingOk
<1>3. CASE app' = app
  <2>1. AppTyped'
    BY <1>3 DEF AppOk, AppTyped, AppRecords
  <2>2. /\ SdkOracle' = SdkOracle /\ SdkRelayer' = SdkRelayer /\ SdkMsgLib' = SdkMsgLib
        /\ StoredExecutor' = StoredExecutor /\ get_uln_config' = get_uln_config
        /\ Chosen(app.params)' = Chosen(app.params)
        /\ SdkExecutor(app.params)' = SdkExecutor(app.params)
    BY <1>3 DEF SdkOracle, SdkRelayer, SdkMsgLib, StoredExecutor, get_uln_config, merge,
       SignerFee, WithTreasuryFee, SdkExecutor, ExecutorFee, Chosen
  <2>3. QuotedSoFar'
    BY <1>3, <2>2 DEF AppOk, QuotedSoFar
  <2> QED
    BY <2>1, <2>3 DEF AppOk
<1> QED
  BY <1>2, <1>3

LEMMA Executed ==
  ASSUME ChainTyped, BalanceTyped, AppOk, NEW tx \in pool, Execute(tx)
  PROVE  ChainTyped' /\ BalanceTyped' /\ AppOk'
<1>1. tx \in Transactions
  BY DEF ChainTyped
<1>2. pool' \subseteq pool /\ UNCHANGED <<settings, changes, bundle, faults>>
  BY DEF Execute
<1>3. \E at \in {"sent", "failed"} : app' \in {app, [app EXCEPT !.at = at]}
  BY DEF Execute
<1>4. AppOk'
  BY <1>2, <1>3, Answered
<1>5. CASE UNCHANGED <<nonce, balance>> /\ sequence' \in {sequence, sequence + 1}
  BY <1>2, <1>4, <1>5 DEF ChainTyped, BalanceTyped
<1>6. CASE /\ Sends(tx.fee, tx.params) /\ nonce' = nonce + 1
           /\ sequence' = sequence + 1 /\ balance' = Paid(tx.fee, tx.params)
  <2>1. BalanceTyped'
    BY <1>1, <1>6, PaidBalances DEF BalanceTyped
  <2>2. ChainTyped'
    BY <1>2, <1>6 DEF ChainTyped
  <2> QED
    BY <1>4, <2>1, <2>2
<1> QED
  BY <1>5, <1>6 DEF Execute, chain

LEMMA Confirmed ==
  ASSUME ChainTyped, AppOk, Confirm PROVE AppSame /\ AppOk'
<1>1. AppSame
  BY DEF Confirm, App, AppSame
<1>2. changes' = changes /\ changes' \in Nat /\ changes' >= changes
  BY <1>1 DEF AppSame, ChainTyped
<1>3. CASE app' = Retry
  BY <1>1, <1>2, <1>3, RetryOk
<1>4. CASE app' = [Retry EXCEPT !.at = "idle", !.params = None, !.done = @ + 1]
  <2> DEFINE r == Retry
  <2>1. r \in AppRecords
    BY DEF AppOk, AppTyped, AppRecords, Stages, Retry
  <2>2. r.since = 0
    BY DEF AppOk, AppTyped, AppRecords, Retry
  <2> HIDE DEF r
  <2>3. app' = [r EXCEPT !.at = "idle", !.params = None, !.done = r.done + 1]
    BY <1>4 DEF r
  <2>4. r.done + 1 \in Nat /\ None \in AdapterParams
    BY <2>1 DEF AppRecords, AdapterParams
  <2>5. AppTyped' /\ app'.at \in Leaving /\ app'.since = 0
    BY <2>1, <2>2, <2>3, <2>4 DEF AppTyped, AppRecords, Stages, Leaving
  <2> QED
    BY <1>1, <1>2, <2>5, LeavingOk
<1> QED
  BY <1>3, <1>4 DEF Confirm, App

LEMMA Faulted ==
  ASSUME ChainTyped, BalanceTyped, AppOk, Unanswered \/ \E tx \in pool : Expire(tx)
  PROVE  ChainTyped' /\ BalanceTyped' /\ AppOk'
<1>1. /\ UNCHANGED <<settings, changes, bundle, chain>>
      /\ faults' = faults + 1 /\ pool' \subseteq pool
  BY DEF Unanswered, Expire
<1>2. ChainTyped' /\ BalanceTyped'
  BY <1>1 DEF ChainTyped, BalanceTyped, chain
<1>3. app' \in {Retry, app, [app EXCEPT !.at = "failed"]}
  BY DEF Unanswered, Expire
<1>4. AppOk'
  BY <1>1, <1>3, RetryOk, Answered
<1> QED
  BY <1>2, <1>4

LEMMA SettingChanged ==
  ASSUME ChainTyped, BalanceTyped, AppOk, OthersChange
  PROVE  ChainTyped' /\ BalanceTyped' /\ AppOk'
<1>1. /\ settings' \in Settings /\ changes' = changes + 1
      /\ UNCHANGED <<bundle, chain, pool, app, faults>>
  BY SettingsStayTyped DEF ChainTyped
<1>2. ChainTyped' /\ BalanceTyped'
  BY <1>1 DEF ChainTyped, BalanceTyped, chain
<1> QED
  BY <1>1, <1>2, StaleOk

\* The bundle sets one field of a configuration the application has, or begins
\* one.
LEMMA ConfigStaysTyped ==
  ASSUME settings \in Settings, NEW f \in UlnFields,
         NEW value \in Signers \union {Null}, set_ua_config(f, value)
  PROVE  settings' \in Settings
<1> DEFINE Configs == [UlnFields -> Signers \union {Null}]
           config == IF settings.ua_config = None
                     THEN [g \in UlnFields |-> Null] ELSE settings.ua_config
<1>1. config \in Configs
  BY DEF Settings
<1>2. settings' = [settings EXCEPT !.ua_config = [config EXCEPT ![f] = value]]
  BY DEF set_ua_config
<1> HIDE DEF config
<1>3. [config EXCEPT ![f] = value] \in Configs
  BY <1>1
<1> DEFINE new == [config EXCEPT ![f] = value]
<1> HIDE DEF new
<1>4. settings' = [settings EXCEPT !.ua_config = new] /\ new \in Configs
  BY <1>2, <1>3 DEF new
<1> QED
  BY <1>4 DEF Settings

LEMMA BundleMoved ==
  ASSUME ChainTyped, BalanceTyped, AppOk,
         \/ \E config \in [UlnFields -> Signers] : StartBundle(config)
         \/ BundleStep \/ BundleFails
  PROVE  ChainTyped' /\ BalanceTyped' /\ AppOk'
<1> DEFINE Configs == [UlnFields -> Signers \union {Null}]
           Bundles == [at : 0 .. 2, config : Configs]
<1>1. ASSUME NEW config \in [UlnFields -> Signers], StartBundle(config)
      PROVE  ChainTyped' /\ BalanceTyped' /\ AppOk'
  <2>1. /\ changes' = changes + 1 /\ bundle' = [at |-> 1, config |-> config]
        /\ UNCHANGED <<settings, chain, pool, app, faults>>
    BY <1>1 DEF StartBundle
  <2>2. config \in Configs
    OBVIOUS
  <2>3. ChainTyped' /\ BalanceTyped'
    BY <2>1, <2>2 DEF ChainTyped, BalanceTyped, chain
  <2> QED
    BY <2>1, <2>3, StaleOk
<1>2. CASE BundleStep
  <2> DEFINE field == BundleFields[bundle.at]
             value == bundle.config[field]
  <2>1. /\ set_ua_config(field, value) /\ bundle.at # 0
        /\ bundle' = IF bundle.at = Len(BundleFields) THEN NoBundle
                     ELSE [bundle EXCEPT !.at = @ + 1]
        /\ changes' = changes + 1 /\ UNCHANGED <<chain, pool, app, faults>>
    BY <1>2 DEF BundleStep
  <2>2. bundle \in Bundles /\ bundle.at \in 1 .. 2
    BY <2>1 DEF ChainTyped
  <2>3. field \in UlnFields /\ Len(BundleFields) = 2
    BY <2>2 DEF BundleFields, UlnFields
  <2>4. value \in Signers \union {Null}
    BY <2>2, <2>3
  <2>5. settings' \in Settings
    BY <2>1, <2>3, <2>4, ConfigStaysTyped DEF ChainTyped
  <2>6. NoBundle \in Bundles
    BY DEF NoBundle
  <2>7. bundle.at # 2 => [bundle EXCEPT !.at = @ + 1] \in Bundles
    BY <2>2
  <2>8. bundle' \in Bundles
    BY <2>1, <2>3, <2>6, <2>7
  <2>9. ChainTyped' /\ BalanceTyped'
    BY <2>1, <2>5, <2>8 DEF ChainTyped, BalanceTyped, chain
  <2> QED
    BY <2>1, <2>9, StaleOk
<1>3. CASE BundleFails
  <2>1. /\ faults' = faults + 1 /\ bundle' = [bundle EXCEPT !.at = 1]
        /\ UNCHANGED <<settings, changes, chain, pool, app>>
    BY <1>3 DEF BundleFails
  <2>2. ChainTyped' /\ BalanceTyped'
    BY <2>1 DEF ChainTyped, BalanceTyped, chain
  <2> QED
    BY <2>1, <2>2, Answered
<1> QED
  BY <1>1, <1>2, <1>3

-----------------------------------------------------------------------------
IInv == ChainTyped /\ BalanceTyped /\ AppOk

LEMMA AppSameOk ==
  ASSUME ChainTyped, BalanceTyped, AppSame PROVE ChainTyped' /\ BalanceTyped'
BY DEF ChainTyped, BalanceTyped, AppSame, chain

LEMMA InitInv == Init => IInv
<1> SUFFICES ASSUME Init PROVE IInv
  OBVIOUS
<1>1. ChainTyped
  BY SendAssumption DEF Init, ChainTyped, NoBundle
<1>2. BalanceTyped
  BY SendAssumption DEF Init, BalanceTyped, Accounts
<1>3. AppTyped
  BY DEF Init, AppTyped, AppRecords, Stages, Idle, AdapterParams
<1>4. QuotedSoFar
  BY DEF Init, QuotedSoFar, Idle
<1> QED
  BY <1>1, <1>2, <1>3, <1>4 DEF IInv, AppOk

LEMMA NextInv == IInv /\ [Next]_vars => IInv'
<1> SUFFICES ASSUME ChainTyped, BalanceTyped, AppOk, [Next]_vars
             PROVE  ChainTyped' /\ BalanceTyped' /\ AppOk'
  BY DEF IInv
<1>1. CASE OthersChange
  BY <1>1, SettingChanged
<1>2. CASE \/ \E config \in [UlnFields -> Signers] : StartBundle(config)
           \/ BundleStep \/ BundleFails
  BY <1>2, BundleMoved
<1>3. CASE Order
  BY <1>3, OrderOk, AppSameOk
<1>4. CASE AppStep
  <2>1. CASE getDefaultAppConfig
    BY <2>1, DefaultConfigRead, AppSameOk
  <2>2. CASE getAppConfig
    BY <2>2, ConfigRead, AppSameOk
  <2>3. CASE getOracleFee
    BY <2>3, OracleFeeRead, AppSameOk
  <2>4. CASE getRelayerFee
    BY <2>4, RelayerFeeRead, AppSameOk
  <2>5. CASE getTreasuryFee
    BY <2>5, TreasuryFeeRead, AppSameOk
  <2>6. CASE getExecutor
    BY <2>6, ExecutorRead, AppSameOk
  <2>7. CASE getDefaultExecutor
    BY <2>7, DefaultExecutorRead, AppSameOk
  <2>8. CASE getDefaultAdapterParams
    BY <2>8, ParamsRead, AppSameOk
  <2>9. CASE getExecutorFee
    BY <2>9, ExecutorFeeRead, AppSameOk
  <2>10. CASE estimateGas
    BY <2>10, GasEstimated, AppSameOk
  <2>11. CASE Submit
    BY <2>11, Submitted
  <2>12. CASE Confirm
    BY <2>12, Confirmed, AppSameOk
  <2> QED
    BY <1>4, <2>1, <2>2, <2>3, <2>4, <2>5, <2>6, <2>7, <2>8, <2>9, <2>10, <2>11,
       <2>12 DEF AppStep
<1>5. CASE ExecuteSome
  BY <1>5, Executed DEF ExecuteSome
<1>6. CASE Unanswered \/ \E tx \in pool : Expire(tx)
  BY <1>6, Faulted
<1>7. CASE defaultAdapterParamsUnread
  BY <1>7, ParamsUnread
<1>8. CASE UNCHANGED vars
  <2>1. AppSame /\ UNCHANGED app
    BY <1>8 DEF vars, AppSame
  <2> QED
    BY <2>1, AppSameOk, Answered DEF AppSame
<1> QED
  BY <1>1, <1>2, <1>3, <1>4, <1>5, <1>6, <1>7, <1>8 DEF Next

\* Whatever the prices, the settings and their changes, and however many
\* transactions fail, what is stored has its form, the application cannot spend
\* more than it has, and the part of the quote it has added up is exact as long
\* as nothing has changed since.
THEOREM Invariance == Spec => []IInv
BY InitInv, NextInv, PTL DEF Spec

\* With the settings as they are, the SDK's sum is the chain's, if the chain
\* quotes and does not store a default executor.
LEMMA SdkIsChain ==
  ASSUME settings \in Settings, NEW params \in AdapterParams, CanQuote(params)
  PROVE  /\ quote_fee(params) = SdkMsgLib + SdkExecutor(params)
         /\ MsgLibQuote = SdkMsgLib /\ MsgLibQuote <= quote_fee(params)
         /\ MsgLibQuote \in Nat /\ quote_fee(params) \in Nat
<1> DEFINE o == OracleQuote
           r == RelayerQuote
           t == TreasuryQuote
           x == get_executor.executor
           e == ExecutorQuote(x, params)
<1>1. /\ quote_fee(params) = o + r + t + e /\ t # Abort /\ e # Abort
      /\ o \in U /\ r \in U /\ t \in U /\ e \in U /\ o # Abort /\ r # Abort
  BY QuoteIsSum, QuoteTypes DEF CanQuote
<1>2. get_uln_config.oracle \in Signers /\ get_uln_config.relayer \in Signers
  BY UlnConfigType DEF UlnFields
<1>3. o = SdkOracle /\ r = SdkRelayer
  BY <1>1, <1>2, SignerQuoteExact DEF OracleQuote, RelayerQuote, SdkOracle, SdkRelayer
<1>4. o + r + t = WithTreasuryFee(o + r)
  BY <1>1, TreasuryQuoteExact DEF TreasuryQuote
<1>5. o + r + t = SdkMsgLib
  BY <1>3, <1>4 DEF SdkMsgLib
<1>6. x = StoredExecutor /\ x \in Executors
  BY ExecutorType DEF CanQuote, StoresDefault, get_executor, StoredExecutor
<1>7. e = SdkExecutor(params)
  BY <1>1, <1>6, ExecutorQuoteExact DEF SdkExecutor
<1>8. MsgLibQuote = o + r + t
  <2>1. MsgLibQuote = Plus[<<Plus[<<o, r>>], t>>] /\ quote_fee(params) = Plus[<<MsgLibQuote, e>>]
    <3>1. get_send_msglib = "1.0"
      BY QuoteIsSum DEF CanQuote
    <3> QED
      BY <3>1 DEF MsgLibQuote, quote_fee, OracleQuote, RelayerQuote, TreasuryQuote
  <2> DEFINE m == Plus[<<Plus[<<o, r>>], t>>]
  <2> HIDE DEF o, r, t, e
  <2>2. /\ Plus[<<o, r>>] \in U
        /\ Plus[<<o, r>>] # Abort => Plus[<<o, r>>] = o + r
    BY <1>1, PlusExact
  <2>3. m \in U /\ (m # Abort => Plus[<<o, r>>] # Abort /\ m = Plus[<<o, r>>] + t)
    BY <1>1, <2>2, PlusExact
  <2>4. m # Abort
    BY <1>1, <2>1, <2>3, PlusExact DEF CanQuote
  <2> QED
    BY <2>1, <2>2, <2>3, <2>4
<1>9. MsgLibQuote <= quote_fee(params) /\ MsgLibQuote \in Nat /\ quote_fee(params) \in Nat
  <2> HIDE DEF o, r, t, e
  <2> QED
    BY <1>1, <1>8 DEF U
<1> QED
  BY <1>1, <1>5, <1>7, <1>8, <1>9

\* At the end of a quote during which nothing changed, the fee the SDK has
\* added up is what endpoint::quote_fee computes, for any prices, divisors,
\* parameters and payload size (sdk: endpoint.ts quoteFee), and if the default
\* parameters could not be read it is what the library takes of that, without
\* the executor's share (executor.ts:56-58).
THEOREM QuoteIsExactHolds == Spec => []QuoteIsExact
<1>1. IInv => QuoteIsExact
  BY SdkIsChain DEF IInv, ChainTyped, AppOk, AppTyped, AppRecords, QuotedSoFar, QuoteIsExact
<1> QED
  BY <1>1, Invariance, PTL

\* The message that is sent costs the application what the chain quotes at that
\* moment, whatever fee the transaction brings along, and the coins are all
\* somebody's (executor_v1, msglib_v1_0: the shares and the refund).
THEOREM ChargedIsQuotedHolds == Spec => ChargedIsQuoted
<1> DEFINE Charged ==
      nonce' # nonce =>
        /\ \E tx \in pool \ pool' : balance[UA] - balance'[UA] = quote_fee(tx.params)
        /\ SumFunction(balance') = SumFunction(balance)
<1>1. ASSUME IInv, [Next]_vars PROVE [Charged]_vars
  <2>1. CASE UNCHANGED nonce
    BY <2>1
  <2>2. ASSUME NEW tx \in pool, Execute(tx), nonce' # nonce PROVE Charged
    <3>1. tx \in Transactions /\ ChainTyped /\ BalanceTyped
      BY <1>1 DEF IInv, ChainTyped
    <3>2. Sends(tx.fee, tx.params) /\ balance' = Paid(tx.fee, tx.params) /\ pool' = pool \ {tx}
      BY <2>2 DEF Execute, chain
    <3>3. /\ balance'[UA] = balance[UA] - quote_fee(tx.params)
          /\ SumFunction(balance') = SumFunction(balance)
      BY <3>1, <3>2, PaidBalances
    <3>4. quote_fee(tx.params) \in Int /\ balance[UA] \in Int
      BY <3>1, <3>2, PaysQuote, SendAssumption DEF BalanceTyped
    <3>5. balance[UA] - balance'[UA] = quote_fee(tx.params)
      BY <3>3, <3>4
    <3>6. tx \in pool \ pool'
      BY <3>2
    <3> QED
      BY <3>3, <3>5, <3>6
  <2>3. ASSUME nonce' # nonce PROVE \E tx \in pool : Execute(tx)
    <3>1. ~ OthersChange
      BY <1>1, <2>3, SettingsStayTyped DEF IInv, ChainTyped, chain
    <3>2. /\ \A config \in [UlnFields -> Signers] : ~ StartBundle(config)
          /\ ~ BundleStep /\ ~ BundleFails /\ ~ defaultAdapterParamsUnread
      BY <2>3 DEF StartBundle, BundleStep, BundleFails, defaultAdapterParamsUnread, chain
    <3>3. ~ Order /\ ~ AppStep
      BY <2>3 DEF Order, AppStep, getDefaultAppConfig, getAppConfig, getOracleFee,
         getRelayerFee, getTreasuryFee, getExecutor, getDefaultExecutor,
         getDefaultAdapterParams, getExecutorFee, estimateGas, Submit, Confirm, App, chain
    <3>4. ~ Unanswered /\ \A tx \in pool : ~ Expire(tx)
      BY <2>3 DEF Unanswered, Expire, chain
    <3>5. ~ UNCHANGED vars
      BY <2>3 DEF vars, chain
    <3> QED
      BY <1>1, <3>1, <3>2, <3>3, <3>4, <3>5 DEF Next, ExecuteSome
  <2> QED
    BY <2>1, <2>2, <2>3
<1> QED
  BY <1>1, Invariance, PTL DEF Spec, ChargedIsQuoted

\* A node that answers refuses a send with a fresh quote for a cause: something
\* changed on the way, the chain quotes nothing, the wallet does not hold the
\* fee, or the default parameters were not read and the quote is too low.
THEOREM RefusedForACauseHolds == Spec => RefusedForACause
<1> DEFINE Caused == \/ app.since # changes
                     \/ ~CanQuote(app.params)
                     \/ balance[UA] < quote_fee(app.params)
                     \/ app.unread /\ app.total < quote_fee(app.params)
<1>1. ASSUME IInv, app.at = "simulate", app'.at = "quote", faults' = faults, [Next]_vars
      PROVE  Caused
  <2>1. /\ ChainTyped /\ BalanceTyped /\ app \in AppRecords /\ QuotedSoFar
        /\ settings \in Settings /\ app.params \in AdapterParams /\ app.total \in Nat
    BY <1>1 DEF IInv, ChainTyped, AppOk, AppTyped, AppRecords
  <2>2. SUFFICES ASSUME app.since = changes, CanQuote(app.params),
                        ~ (balance[UA] < quote_fee(app.params)),
                        ~ (app.unread /\ app.total < quote_fee(app.params))
                 PROVE  app'.at # "quote"
    BY <1>1
  <2>3. app.total = quote_fee(app.params)
    <3> DEFINE quote == quote_fee(app.params)
               total == app.total
    <3>1. ~ app.unread => total = quote
      BY <1>1, <2>1, <2>2, SdkIsChain DEF QuotedSoFar
    <3>2. app.unread => total = MsgLibQuote
      BY <1>1, <2>1, <2>2, SdkIsChain DEF QuotedSoFar
    <3>3. MsgLibQuote <= quote /\ MsgLibQuote \in Nat /\ quote \in Nat
      BY <2>1, <2>2, SdkIsChain
    <3>4. app.unread => ~ (total < quote)
      BY <2>2
    <3> HIDE DEF quote, total
    <3>5. total = quote
      BY <3>1, <3>2, <3>3, <3>4
    <3> QED
      BY <3>5 DEF quote, total
  <2>4. balance[UA] \in Int /\ app.total <= balance[UA] /\ balance[UA] \in 0 .. Wallet
    BY <2>1, <2>2, <2>3, SendAssumption DEF BalanceTyped
  <2>5. Sends(app.total, app.params)
    BY <2>1, <2>2, <2>3, <2>4, SendsIfCovered DEF CanQuote
  <2>6. ~ AppStep \/ app' = [app EXCEPT !.at = "sign"]
    BY <1>1, <2>5 DEF AppStep, getDefaultAppConfig, getAppConfig, getOracleFee,
       getRelayerFee, getTreasuryFee, getExecutor, getDefaultExecutor,
       getDefaultAdapterParams, getExecutorFee, estimateGas, Submit, Confirm, App
  <2>7. app' # app
    BY <1>1
  <2>8. ~ Order /\ ~ Unanswered /\ ~ defaultAdapterParamsUnread
    <3>1. faults \in Nat
      BY <2>1 DEF ChainTyped
    <3> QED
      BY <1>1, <3>1 DEF Order, Unanswered, defaultAdapterParamsUnread
  <2>9. ~ OthersChange
    BY <2>1, <2>7, SettingsStayTyped
  <2>10. /\ \A config \in [UlnFields -> Signers] : ~ StartBundle(config)
         /\ ~ BundleStep /\ ~ BundleFails /\ ~ UNCHANGED vars
    BY <2>7 DEF StartBundle, BundleStep, BundleFails, vars
  <2>11. \/ app' = [app EXCEPT !.at = "sign"]
         \/ ExecuteSome \/ \E tx \in pool : Expire(tx)
    BY <1>1, <2>6, <2>8, <2>9, <2>10 DEF Next
  <2>12. app'.at \in {"sign", "sent", "failed"}
    BY <2>1, <2>7, <2>11 DEF ExecuteSome, Execute, Expire, AppRecords
  <2> QED
    BY <2>12
<1>2. ASSUME IInv, [Next]_vars
      PROVE  [app.at = "simulate" /\ app'.at = "quote" /\ faults' = faults => Caused]_vars
  BY <1>1, <1>2
<1> QED
  BY <1>2, Invariance, PTL DEF Spec, RefusedForACause
==============================================================================
