------------------------------- MODULE MCSend -------------------------------
(* A wired chain, with the application's own settings absent or set.       *)
EXTENDS Send

CONSTANT Priced  \* the executor with a price

\* One signer costs two by the message, another one by the byte as well.
MCSignerFees == {[base_fee |-> 2, fee_per_byte |-> 0],
                 [base_fee |-> 1, fee_per_byte |-> 2]}

\* A cap without airdrops and with one, and a price the quotient rounds.
MCExecutorFees == {[airdrop_amt_cap |-> 0, price_ratio |-> 4, gas_price |-> 1],
                   [airdrop_amt_cap |-> 3, price_ratio |-> 3, gas_price |-> 2]}

Open == [allow_list |-> {}, deny_list |-> {}]

\* Everything by default, with the first executor or the second one, which has
\* no price yet.
ByDefault(x) ==
  [default_config |-> [f \in UlnFields |-> CHOOSE s \in Signers : TRUE],
   ua_config |-> None,
   signer |-> [s \in Signers |->
                 [fee |-> [base_fee |-> 2, fee_per_byte |-> 0], acl |-> Open]],
   treasury_fee_bps |-> 3,
   default_send_version |-> "1.0",
   send_version |-> None,
   default_executor |-> [version |-> 1, executor |-> x],
   executor |-> None,
   worker |-> [y \in Executors |->
                 [fee |-> IF y = Priced
                          THEN [airdrop_amt_cap |-> 3, price_ratio |-> 3,
                                gas_price |-> 2]
                          ELSE None,
                  acl |-> Open]],
   default_params |-> defaultParams(2)]

\* Settings of its own: a relayer, but no oracle; an executor, or the default
\* one by number; and a library that blocks while the default does not.
Own ==
  LET s == ByDefault(Priced)
      relayer == CHOOSE s2 \in Signers : s2 # s.default_config.oracle
  IN  [s EXCEPT !.ua_config = [oracle |-> Null, relayer |-> relayer],
                !.send_version = "1.0",
                !.executor = [version |-> 1, executor |-> Priced],
                !.default_send_version = "blocking"]

MCSettings ==
  {ByDefault(x) : x \in Executors}
    \union {Own, [Own EXCEPT !.executor = [version |-> 0, executor |-> Null],
                             !.send_version = "default"],
            [ByDefault(Priced) EXCEPT
               !.worker[Priced].acl.allow_list = {OtherUA}]}

==============================================================================
