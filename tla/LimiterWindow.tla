---------------------------- MODULE LimiterWindow ----------------------------
(***************************************************************************)
(* The limiter of one coin under an advancing clock, with the outflow it   *)
(* lets through: how well it is "a simple way to approximate a sliding     *)
(* window" (limiter.move:40).                                              *)
(***************************************************************************)
EXTENDS Limiter, FiniteSetsExt

CONSTANTS
  Caps,       \* the caps that get configured, in shared decimals
  Windows,    \* the window lengths that get configured, in seconds
  Jumps,      \* how far the clock moves at once
  MaxTime,    \* bound on the clock
  MaxAmount   \* bound on one amount

ASSUME LimiterAssumption ==
  /\ Caps \subseteq Nat /\ Windows \subseteq Nat /\ Jumps \subseteq Nat \ {0}
  /\ MaxTime \in Nat /\ MaxAmount \in Nat

VARIABLES
  limiter,    \* the Limiter resource of the coin
  now,        \* timestamp::now_seconds()
  \* History since the coin was registered, or its window was shortened last:
  outflow,    \* outflow[t]: what the enabled limiter has let through in second t
  span,       \* the window length then, the shortest since
  longest,    \* the last window length that was not 0, the longest since
  peak        \* the highest cap

history == <<outflow, span, longest, peak>>
vars == <<limiter, now, history>>

Seconds == 0 .. MaxTime

NoOutflow == [t \in Seconds |-> 0]

Init ==
  /\ now = 0
  /\ outflow = NoOutflow
  /\ peak \in Caps /\ span \in Windows \ {0} /\ longest = span
  /\ limiter = NewLimiter(now, peak, span)

Tick(seconds) ==
  /\ now + seconds <= MaxTime
  /\ now' = now + seconds
  /\ UNCHANGED <<limiter, history>>

Shortened(window) == 0 < window /\ window < longest

\* What was counted is kept, but a shorter window halves it more often than
\* windows have passed: nothing is known of the stretches before.
set_limiter(enabled, cap, window) ==
  /\ limiter' = WithLimit(limiter, enabled, cap, window)
  /\ UNCHANGED now
  /\ \/ /\ Shortened(window)
        /\ outflow' = NoOutflow
        /\ span' = window /\ longest' = window /\ peak' = cap
     \/ /\ ~Shortened(window)
        /\ longest' = IF window = 0 THEN longest ELSE window
        /\ peak' = IF cap > peak THEN cap ELSE peak
        /\ UNCHANGED <<outflow, span>>

try_insert(amount) ==
  /\ CanInsert(limiter, now, amount)
  /\ limiter' = Inserted(limiter, now, amount)
  /\ outflow' = IF limiter.enabled THEN [outflow EXCEPT ![now] = @ + amount]
                ELSE outflow
  /\ UNCHANGED <<now, span, longest, peak>>

\* Mutant of getLimitedAmount: the sum of the window that ended still counts.
LimitedAmountUnhalved ==
  IF ~limiter.enabled THEN [limited |-> FALSE, amount |-> 0]
  ELSE [limited |-> TRUE, amount |-> limiter.cap_sd - limiter.sum_sd]

\* What the SDK tells a user who is about to send, in shared decimals: the cap
\* less the sum, halved once per window that has passed; it may be negative.
getLimitedAmount ==
  IF ~limiter.enabled THEN [limited |-> FALSE, amount |-> 0]
  ELSE LET halved[count \in Nat] ==
             IF count = 0 THEN limiter.sum_sd ELSE halved[count - 1] \div 2
       IN  [limited |-> TRUE,
            amount |-> limiter.cap_sd
                       - halved[(now - limiter.t0_sec) \div limiter.window_sec]]

Next ==
  \/ \E seconds \in Jumps : Tick(seconds)
  \/ \E enabled \in BOOLEAN, cap \in Caps, window \in Windows :
       set_limiter(enabled, cap, window)
  \/ \E amount \in 1 .. MaxAmount : try_insert(amount)

Spec == Init /\ [][Next]_vars

------------------------------------------------------------------------------
\* Properties.

\* The state has the types of the Move struct; the window in progress has
\* begun, so that try_insert never subtracts below 0.
TypeOK ==
  /\ limiter \in Limiter
  /\ now \in Seconds /\ limiter.t0_sec <= now
  /\ outflow \in [Seconds -> Nat]
  /\ {span, longest} \subseteq Nat \ {0} /\ peak \in Nat

\* What the SDK answers a user is what the chain will do: for every amount, a
\* send in the same second passes the limiter iff the amount was quoted as
\* allowed.  (With a window of 0 seconds both divide by zero.)
QuotedIsAccepted ==
  limiter.window_sec > 0 =>
    \A amount \in 1 .. MaxAmount :
      CanInsert(limiter, now, amount) <=>
        (getLimitedAmount.limited => amount <= getLimitedAmount.amount)

\* What flowed out in a stretch of that many seconds.
Outflow(from, seconds) ==
  SumFunctionOnSet(outflow, Seconds \intersect from .. from + seconds - 1)

\* Wherever a stretch of one window length is laid, across the limiter's own
\* windows and across caps lowered or raised, pauses, windows made longer and
\* windows of 0 seconds (set_limiter keeps t0_sec and sum_sd), no more than one
\* and a half times the highest cap flows out in it.
OutflowBounded ==
  \A from \in Seconds : Outflow(from, span) <= peak + (peak + 1) \div 2

\* A lowered cap binds at once: an amount is let through only if the last window
\* length, with the outflow under any higher cap before, holds no more than
\* twice the cap of now, and the one that halving rounds away.
LoweredCapBinds ==
  [][outflow'[now] > outflow[now]
       => Outflow(now - span + 1, span)' <= 2 * limiter.cap_sd + 1]_vars
==============================================================================
