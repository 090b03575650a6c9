------------------------------- MODULE Limiter -------------------------------
(***************************************************************************)
(* The outflow limiter of the bridge, apps/bridge/sources/limiter.move, as *)
(* operators on struct Limiter.  The outflow of a coin is summed per       *)
(* window; a new window inherits the prior sum, halved once per window     *)
(* that has passed.                                                        *)
(***************************************************************************)
EXTENDS Integers

Limiter == [enabled : BOOLEAN, t0_sec : Nat, window_sec : Nat,
            sum_sd : Nat, cap_sd : Nat]

\* register_coin; the window is 4 hours in the code.
NewLimiter(now, cap, window) ==
  [enabled |-> TRUE, t0_sec |-> now, window_sec |-> window,
   sum_sd |-> 0, cap_sd |-> cap]

\* Mutant of WithLimit: the limiter is set up afresh, without its sum.
WithLimitAfresh(limiter, enabled, cap, window) ==
  [limiter EXCEPT !.enabled = enabled, !.cap_sd = cap, !.window_sec = window,
                  !.sum_sd = 0]

\* set_limiter leaves the window in progress and its sum as they are.
WithLimit(limiter, enabled, cap, window) ==
  [limiter EXCEPT !.enabled = enabled, !.cap_sd = cap, !.window_sec = window]

\* pow(2, count), as a recursive function: proofs know nothing of the ^ of
\* Integers.
pow2[count \in Nat] == IF count = 0 THEN 1 ELSE 2 * pow2[count - 1]

\* Mutant of Advanced: a new window forgets the prior sum.
AdvancedForgetting(limiter, now) ==
  LET count == (now - limiter.t0_sec) \div limiter.window_sec
  IN  [limiter EXCEPT !.t0_sec = @ + limiter.window_sec * count,
                      !.sum_sd = IF count > 0 THEN 0 ELSE @]

\* Mutant of Advanced: the new window begins one window late.
AdvancedTooFar(limiter, now) ==
  LET count == (now - limiter.t0_sec) \div limiter.window_sec
  IN  [limiter EXCEPT
         !.t0_sec = @ + limiter.window_sec * (IF count > 0 THEN count + 1 ELSE 0),
         !.sum_sd = @ \div pow2[count]]

\* The limiter in the window of this second; a shift by 64 is a reset.
Advanced(limiter, now) ==
  LET count == (now - limiter.t0_sec) \div limiter.window_sec
  IN  [limiter EXCEPT !.t0_sec = @ + limiter.window_sec * count,
                      !.sum_sd = IF count >= 64 THEN 0 ELSE @ \div pow2[count]]

\* A disabled limiter is left as it is, its window included.
Inserted(limiter, now, amount) ==
  IF limiter.enabled
  THEN [Advanced(limiter, now) EXCEPT !.sum_sd = @ + amount]
  ELSE limiter

\* A sum above the cap aborts; so does the division by a window of 0 seconds.
CanInsert(limiter, now, amount) ==
  limiter.enabled =>
    /\ limiter.window_sec > 0
    /\ Inserted(limiter, now, amount).sum_sd <= limiter.cap_sd
==============================================================================
