------------------------ MODULE LimiterWireAllProofs ------------------------
(***************************************************************************)
(* The limiter of a coin, and the tool that sets it with everything else.  *)
(*                                                                         *)
(* The limiter lets at most one and a half times its highest cap out in    *)
(* any stretch of one window length, however it is configured meanwhile,   *)
(* short of a shorter window, and the SDK quotes exactly what it will let  *)
(* out: for all caps, window lengths, amounts and clocks.  The bound is    *)
(* inductive once it is known what the sum of the limiter stands for: the  *)
(* outflow of its window, and half of what flowed out in the stretch       *)
(* before that window, both of which another stretch can catch.            *)
(*                                                                         *)
(* wireAll reports success only if every setting is as configured, and     *)
(* stale plans undo nothing: for all configurations, operators and chains. *)
(* Success is inductive once it is known what a run still has in hand: a   *)
(* setting that is not as configured is to be read, or its transaction is  *)
(* to be sent.  The limiter of a coin that is not registered yet reads as  *)
(* the default, which is what it will be.                                  *)
(***************************************************************************)
EXTENDS LimiterWindow, WireAll, Induction, SequenceTheorems

-----------------------------------------------------------------------------
\* The limiter: what has flowed out.

\* The seconds from one up to another, and what flowed out in them.
Within(from, end) == {t \in Seconds : from <= t /\ t < end}

Flow(from, end) == SumFunctionOnSet(outflow, Within(from, end))

Begin == limiter.t0_sec

Bound == peak + (peak + 1) \div 2

\* No cap and no stretch is larger than the ones on record.
OnRecord ==
  /\ limiter.window_sec \in {0, longest}
  /\ span <= longest /\ limiter.cap_sd <= peak

\* Nothing has flowed out after the window of the limiter.
NothingLater == \A t \in Seconds : t >= Begin + longest => outflow[t] = 0

\* The sum counts the outflow of the window, and half of the stretch before.
SumCounts ==
  /\ limiter.sum_sd >= Flow(Begin, Begin + longest) + Flow(Begin - span, Begin) \div 2
  /\ Flow(Begin - span, Begin) <= peak
  /\ Flow(Begin, Begin + longest) > 0 => limiter.sum_sd <= peak

StretchesBounded == \A from \in Seconds : Flow(from, from + span) <= Bound

LimiterInv == TypeOK /\ OnRecord /\ NothingLater /\ SumCounts /\ StretchesBounded

-----------------------------------------------------------------------------
\* Sums of the outflow.

LEMMA FiniteSeconds ==
  ASSUME NEW S \in SUBSET Seconds PROVE IsFiniteSet(S)
<1>1. IsFiniteSet(Seconds)
  BY LimiterAssumption, FS_Interval DEF Seconds
<1> QED
  BY <1>1, FS_Subset

\* A flow is a number of shared units.
LEMMA FlowNat ==
  ASSUME NEW f \in [Seconds -> Nat], NEW S \in SUBSET Seconds
  PROVE  SumFunctionOnSet(f, S) \in Nat
BY FiniteSeconds, SumNat

\* Without outflow there is no flow.
LEMMA NoFlow ==
  ASSUME NEW f, NEW S \in SUBSET Seconds, \A t \in S : f[t] = 0
  PROVE  SumFunctionOnSet(f, S) = 0
BY FiniteSeconds, SumZero

\* Where only the later seconds differ, an earlier set of them is all the same.
LEMMA FlowWithin ==
  ASSUME NEW f \in [Seconds -> Nat], NEW S \in SUBSET Seconds, NEW T \in SUBSET Seconds,
         \A t \in S \ T : f[t] = 0
  PROVE  SumFunctionOnSet(f, S) <= SumFunctionOnSet(f, T)
<1> DEFINE both == S \intersect T
           rest == S \ T
<1>1. /\ IsFiniteSet(both) /\ IsFiniteSet(rest) /\ IsFiniteSet(T)
      /\ both \intersect rest = {} /\ both \union rest = S
      /\ both \subseteq T /\ both \in SUBSET Seconds /\ rest \in SUBSET Seconds
  BY FiniteSeconds
<1>2. /\ \A t \in both \union rest : f[t] \in Int
      /\ \A t \in T : f[t] \in Nat
      /\ \A t \in rest : f[t] = 0
  BY <1>1
<1> HIDE DEF both, rest
<1>3. SumFunctionOnSet(f, both \union rest)
      = SumFunctionOnSet(f, both) + SumFunctionOnSet(f, rest)
  BY <1>1, <1>2, SumUnion
<1>4. SumFunctionOnSet(f, S) = SumFunctionOnSet(f, both) + SumFunctionOnSet(f, rest)
  BY <1>1, <1>3, Zenon
<1>5. SumFunctionOnSet(f, rest) = 0
  BY <1>1, <1>2, NoFlow
<1>6. SumFunctionOnSet(f, both) <= SumFunctionOnSet(f, T)
  BY <1>1, <1>2, SumMonotone
<1>7. SumFunctionOnSet(f, both) \in Nat
  BY <1>1, FlowNat
<1> QED
  BY <1>4, <1>5, <1>6, <1>7

\* A stretch falls into two parts.
LEMMA FlowSplit ==
  ASSUME NEW f \in [Seconds -> Nat], NEW a \in Int, NEW b \in Int, NEW c \in Int,
         a <= b, b <= c
  PROVE  SumFunctionOnSet(f, Within(a, c))
         = SumFunctionOnSet(f, Within(a, b)) + SumFunctionOnSet(f, Within(b, c))
<1> DEFINE S == Within(a, b)
           T == Within(b, c)
<1>1. /\ S \in SUBSET Seconds /\ T \in SUBSET Seconds /\ Seconds \subseteq Int
      /\ S \intersect T = {} /\ Within(a, c) = S \union T
  BY LimiterAssumption DEF Within, Seconds
<1> HIDE DEF S, T
<1>2. IsFiniteSet(S) /\ IsFiniteSet(T) /\ \A t \in S \union T : f[t] \in Int
  <2>1. \A t \in S \union T : f[t] \in Int
    BY <1>1
  <2> QED
    BY <1>1, <2>1, FiniteSeconds
<1>3. SumFunctionOnSet(f, S \union T) = SumFunctionOnSet(f, S) + SumFunctionOnSet(f, T)
  BY <1>1, <1>2, SumUnion
<1>4. SumFunctionOnSet(f, Within(a, c)) = SumFunctionOnSet(f, S) + SumFunctionOnSet(f, T)
  BY <1>1, <1>3, Zenon
<1> QED
  BY <1>4 DEF S, T

\* More flows out in one second.
LEMMA FlowAdd ==
  ASSUME NEW f \in [Seconds -> Nat], NEW g \in [Seconds -> Nat],
         NEW x \in Seconds, NEW amount \in Nat,
         g[x] = f[x] + amount, \A y \in Seconds \ {x} : g[y] = f[y],
         NEW S \in SUBSET Seconds
  PROVE  SumFunctionOnSet(g, S)
         = SumFunctionOnSet(f, S) + (IF x \in S THEN amount ELSE 0)
<1>1. IsFiniteSet(S) /\ SumFunctionOnSet(f, S) \in Nat
  BY FiniteSeconds, FlowNat
<1>2. CASE x \in S
  <2> DEFINE rest == S \ {x}
  <2>1. /\ \A y \in S : f[y] \in Int /\ g[y] \in Int
        /\ \A y \in rest : f[y] = g[y]
        /\ g[x] = f[x] + amount /\ f[x] \in Nat
    OBVIOUS
  <2>2. IsFiniteSet(rest) /\ SumFunctionOnSet(f, rest) \in Nat
    BY FiniteSeconds, FlowNat
  <2>3. /\ SumFunctionOnSet(f, S) = f[x] + SumFunctionOnSet(f, rest)
        /\ SumFunctionOnSet(g, S) = g[x] + SumFunctionOnSet(g, rest)
    BY <1>1, <1>2, <2>1, SumRemove
  <2> HIDE DEF rest
  <2>4. SumFunctionOnSet(f, rest) = SumFunctionOnSet(g, rest)
    BY <2>1, <2>2, SumAgree
  <2> QED
    BY <1>2, <2>1, <2>2, <2>3, <2>4
<1>3. CASE x \notin S
  <2>1. \A y \in S : g[y] = f[y]
    BY <1>3
  <2>2. SumFunctionOnSet(g, S) = SumFunctionOnSet(f, S)
    BY <1>1, <2>1, SumAgree
  <2> QED
    BY <1>1, <1>3, <2>2
<1> QED
  BY <1>2, <1>3

-----------------------------------------------------------------------------
\* The operations of the limiter.

\* pow(2, count): a power of two, known for the first two windows.
LEMMA Powers ==
  /\ pow2 \in [Nat -> Nat \ {0}] /\ pow2[0] = 1 /\ pow2[1] = 2
  /\ \A n \in Nat : pow2[n + 1] = 2 * pow2[n]
<1>1. /\ pow2 \in [Nat -> Nat \ {0}] /\ pow2[0] = 1
      /\ \A n \in Nat : pow2[n + 1] = 2 * pow2[n]
  BY PowersOfTwo DEF pow2
<1>2. pow2[0 + 1] = 2 * pow2[0]
  BY <1>1
<1> QED
  BY <1>1, <1>2

\* Where a new window begins, and what it inherits: the window is the old one,
\* or the next one, or a later one.
Moved(old, start, inherited) ==
  \/ start = old.t0_sec /\ inherited = old.sum_sd
  \/ start = old.t0_sec + old.window_sec /\ inherited = old.sum_sd \div 2
  \/ start >= old.t0_sec + 2 * old.window_sec

\* What the limiter becomes when an amount is let in at t.
LetIn(old, t, amount, start, inherited) ==
  /\ start <= t /\ t < start + old.window_sec
  /\ Moved(old, start, inherited)
  /\ Inserted(old, t, amount)
     = [old EXCEPT !.t0_sec = start, !.sum_sd = inherited + amount]

LEMMA InsertedFields ==
  ASSUME NEW old \in Limiter, old.enabled, old.window_sec > 0,
         NEW t \in Nat, old.t0_sec <= t, NEW amount \in Nat
  PROVE  \E start \in Nat, inherited \in Nat : LetIn(old, t, amount, start, inherited)
<1> DEFINE window == old.window_sec
           t0 == old.t0_sec
           count == (t - t0) \div window
           start == t0 + window * count
           inherited == IF count >= 64 THEN 0 ELSE old.sum_sd \div pow2[count]
<1>1. window \in Nat /\ window > 0 /\ t0 \in Nat /\ t0 <= t /\ old.sum_sd \in Nat
  BY DEF Limiter
<1> HIDE DEF window, t0
<1>2. /\ count \in Nat /\ window * count \in Nat
      /\ window * count <= t - t0 /\ t - t0 < window * count + window
  BY <1>1
<1>3. start \in Nat /\ start <= t /\ t < start + window
  BY <1>1, <1>2
<1>4. inherited \in Nat
  <2> DEFINE power == pow2[count]
  <2>1. power \in Nat \ {0}
    BY <1>2, Powers
  <2> HIDE DEF power
  <2>2. old.sum_sd \div power \in Nat
    BY <1>1, <2>1
  <2> QED
    BY <2>2 DEF power
<1>5. Moved(old, start, inherited)
  <2> HIDE DEF count
  <2>1. CASE count = 0
    <3>1. start = t0 /\ inherited = old.sum_sd
      BY <1>1, <2>1, Powers
    <3> QED
      BY <3>1 DEF Moved, t0
  <2>2. CASE count = 1
    <3>1. start = t0 + window /\ inherited = old.sum_sd \div 2
      BY <1>1, <2>2, Powers
    <3> QED
      BY <3>1 DEF Moved, t0, window
  <2>3. CASE count >= 2
    <3>1. window * count >= 2 * window
      BY <1>1, <1>2, <2>3
    <3>2. start >= t0 + 2 * window
      BY <1>1, <1>2, <3>1
    <3> QED
      BY <3>2 DEF Moved, t0, window
  <2> QED
    BY <1>2, <2>1, <2>2, <2>3
<1>6. Inserted(old, t, amount)
      = [old EXCEPT !.t0_sec = start, !.sum_sd = inherited + amount]
  <2>1. Advanced(old, t) = [old EXCEPT !.t0_sec = start, !.sum_sd = inherited]
    BY DEF Advanced, start, inherited, count, window, t0
  <2> HIDE DEF start, inherited
  <2>2. Inserted(old, t, amount) = [Advanced(old, t) EXCEPT !.sum_sd = @ + amount]
    BY DEF Inserted
  <2> QED
    BY <2>1, <2>2 DEF Limiter
<1> HIDE DEF start, inherited
<1> QED
  BY <1>3, <1>4, <1>5, <1>6 DEF window, LetIn

-----------------------------------------------------------------------------
\* The invariant.

\* Without outflow it holds, whatever is configured.
LEMMA NothingYet ==
  ASSUME TypeOK, OnRecord, outflow = NoOutflow
  PROVE  LimiterInv
<1>1. ASSUME NEW a, NEW b PROVE Flow(a, b) = 0
  <2>1. Within(a, b) \in SUBSET Seconds
    BY DEF Within
  <2>2. \A t \in Within(a, b) : outflow[t] = 0
    BY DEF NoOutflow, Within
  <2> QED
    BY <2>1, <2>2, NoFlow DEF Flow
<1>2. limiter.sum_sd \in Nat /\ peak \in Nat
  BY DEF TypeOK, Limiter
<1>3. NothingLater
  BY DEF NothingLater, NoOutflow
<1>4. SumCounts
  BY <1>1, <1>2 DEF SumCounts
<1>5. StretchesBounded
  BY <1>1, <1>2 DEF StretchesBounded, Bound
<1> QED
  BY <1>3, <1>4, <1>5 DEF LimiterInv

LEMMA InitInv == Init => LimiterInv
<1> SUFFICES ASSUME Init PROVE LimiterInv
  OBVIOUS
<1>1. /\ limiter = NewLimiter(now, peak, span) /\ now = 0
      /\ peak \in Nat /\ span \in Nat \ {0} /\ longest = span
  BY LimiterAssumption DEF Init
<1>2. /\ limiter \in Limiter /\ limiter.t0_sec = now
      /\ limiter.window_sec = longest /\ limiter.cap_sd = peak
  BY <1>1 DEF NewLimiter, Limiter
<1>3. outflow \in [Seconds -> Nat] /\ now \in Seconds
  BY <1>1, LimiterAssumption DEF Init, NoOutflow, Seconds
<1>4. TypeOK
  BY <1>1, <1>2, <1>3 DEF TypeOK
<1>5. OnRecord
  BY <1>1, <1>2 DEF OnRecord
<1> QED
  BY <1>4, <1>5, NothingYet DEF Init

\* A new configuration keeps the sum and the window in progress, which a longer
\* window only extends; a shorter one begins a new history.
LEMMA ConfigureInv ==
  ASSUME LimiterInv, NEW enabled \in BOOLEAN, NEW cap \in Caps, NEW window \in Windows,
         set_limiter(enabled, cap, window)
  PROVE  LimiterInv'
<1>1. cap \in Nat /\ window \in Nat
  BY LimiterAssumption
<1>2. /\ limiter \in Limiter /\ outflow \in [Seconds -> Nat] /\ Begin \in Nat
      /\ span \in Nat \ {0} /\ longest \in Nat \ {0} /\ peak \in Nat
      /\ limiter.sum_sd \in Nat
  BY DEF LimiterInv, TypeOK, Limiter, Begin
<1>3. /\ limiter' \in Limiter /\ limiter'.t0_sec = limiter.t0_sec
      /\ limiter'.sum_sd = limiter.sum_sd
      /\ limiter'.window_sec = window /\ limiter'.cap_sd = cap /\ now' = now
  BY <1>1, <1>2 DEF set_limiter, WithLimit, Limiter
<1>4. CASE Shortened(window)
  <2>1. outflow' = NoOutflow /\ span' = window /\ longest' = window /\ peak' = cap
    BY <1>4 DEF set_limiter
  <2>2. outflow' \in [Seconds -> Nat]
    BY <2>1 DEF NoOutflow
  <2>3. TypeOK'
    BY <1>1, <1>3, <1>4, <2>1, <2>2 DEF LimiterInv, TypeOK, Shortened
  <2>4. OnRecord'
    BY <1>1, <1>3, <2>1 DEF OnRecord
  <2>5. (TypeOK /\ OnRecord /\ outflow = NoOutflow => LimiterInv)'
    BY NothingYet, PTL
  <2>6. NoOutflow' = NoOutflow
    BY DEF NoOutflow, Seconds
  <2> QED
    BY <2>1, <2>3, <2>4, <2>5, <2>6
<1>5. CASE ~Shortened(window)
  <2>1. /\ outflow' = outflow /\ span' = span
        /\ longest' = IF window = 0 THEN longest ELSE window
        /\ peak' = IF cap > peak THEN cap ELSE peak
    BY <1>5 DEF set_limiter
  <2>2. /\ longest' \in Nat \ {0} /\ longest <= longest'
        /\ peak' \in Nat /\ peak <= peak' /\ cap <= peak'
    BY <1>1, <1>2, <1>5, <2>1 DEF Shortened
  <2>3. TypeOK'
    BY <1>2, <1>3, <2>1, <2>2 DEF LimiterInv, TypeOK
  <2>4. OnRecord'
    BY <1>1, <1>2, <1>3, <2>1, <2>2 DEF LimiterInv, OnRecord
  <2>5. NothingLater'
    <3> DEFINE b == limiter.t0_sec
               new == longest'
               old == longest
    <3>1. b \in Nat /\ new \in Nat /\ old \in Nat /\ old <= new
      BY <1>2, <2>2 DEF Begin
    <3>2. limiter'.t0_sec = b /\ outflow' = outflow
      BY <1>3, <2>1
    <3>3. \A t \in Seconds : t >= b + old => outflow[t] = 0
      BY DEF LimiterInv, NothingLater, Begin
    <3>4. Seconds \subseteq Int
      BY LimiterAssumption DEF Seconds
    <3> HIDE DEF b, new, old
    <3>5. \A t \in Seconds : t >= b + new => outflow[t] = 0
      BY <3>1, <3>3, <3>4
    <3> QED
      BY <3>2, <3>5 DEF NothingLater, Begin, Seconds, new
  <2> DEFINE before == Flow(Begin - span, Begin)
             inside == Flow(Begin, Begin + longest)
             wider == Within(Begin, Begin + longest')
  <2>6. before \in Nat /\ inside \in Nat
    BY <1>2, FlowNat DEF Flow, Within
  <2>7. Begin' = Begin /\ Within(Begin, Begin + longest)' = wider
    BY <1>3 DEF Begin, Within, Seconds
  <2>8. SumFunctionOnSet(outflow, wider) = inside
    <3> DEFINE a == Begin
               b == Begin + longest
               c == Begin + longest'
    <3>1. a \in Int /\ b \in Int /\ c \in Int /\ a <= b /\ b <= c
      <4> DEFINE new == longest'
      <4>1. Begin \in Nat /\ longest \in Nat /\ new \in Nat /\ longest <= new
        BY <1>2, <2>2
      <4> HIDE DEF new
      <4>2. /\ Begin \in Int /\ Begin + longest \in Int /\ Begin + new \in Int
            /\ Begin <= Begin + longest /\ Begin + longest <= Begin + new
        BY <4>1
      <4> QED
        BY <4>2, Zenon DEF new
    <3>2. Within(b, c) \in SUBSET Seconds /\ \A t \in Within(b, c) : outflow[t] = 0
      BY DEF LimiterInv, NothingLater, Within
    <3> HIDE DEF a, b, c
    <3>3. SumFunctionOnSet(outflow, Within(a, c))
          = SumFunctionOnSet(outflow, Within(a, b)) + SumFunctionOnSet(outflow, Within(b, c))
      BY <1>2, <3>1, FlowSplit
    <3>4. SumFunctionOnSet(outflow, Within(b, c)) = 0
      BY <3>2, NoFlow
    <3>5. SumFunctionOnSet(outflow, Within(a, b)) = inside
      BY DEF a, b, Flow
    <3> HIDE DEF inside
    <3>6. SumFunctionOnSet(outflow, Within(a, c)) = inside
      BY <2>6, <3>3, <3>4, <3>5
    <3> QED
      BY <3>6 DEF a, c
  <2>9. /\ Flow(Begin, Begin + longest)' = inside
        /\ Flow(Begin - span, Begin)' = before
    BY <2>1, <2>7, <2>8 DEF Flow, Within, Seconds
  <2> HIDE DEF before, inside
  <2>10. /\ limiter.sum_sd >= inside + before \div 2 /\ before <= peak
         /\ inside > 0 => limiter.sum_sd <= peak
    BY DEF LimiterInv, SumCounts, before, inside
  <2>11. SumCounts'
    BY <1>2, <1>3, <2>2, <2>6, <2>9, <2>10 DEF SumCounts
  <2>12. StretchesBounded'
    <3>1. ASSUME NEW from \in Seconds PROVE Flow(from, from + span) <= Bound'
      <4>1. Flow(from, from + span) \in Nat
        BY <1>2, FlowNat DEF Flow, Within
      <4>2. Flow(from, from + span) <= Bound
        BY DEF LimiterInv, StretchesBounded
      <4>3. Bound \in Nat /\ Bound' \in Nat /\ Bound <= Bound'
        <5> DEFINE before2 == peak
                   after2 == peak'
        <5>1. before2 \in Nat /\ after2 \in Nat /\ before2 <= after2
          BY <1>2, <2>2
        <5>2. Bound = before2 + (before2 + 1) \div 2 /\ Bound' = after2 + (after2 + 1) \div 2
          BY DEF Bound
        <5> HIDE DEF before2, after2
        <5>3. before2 + (before2 + 1) \div 2 <= after2 + (after2 + 1) \div 2
          BY <5>1
        <5> QED
          BY <5>1, <5>2, <5>3
      <4> QED
        BY <4>1, <4>2, <4>3
    <3>2. \A from : Flow(from, from + span)' = Flow(from, from + span)
      BY <2>1 DEF Flow, Within, Seconds
    <3> QED
      BY <3>1, <3>2 DEF StretchesBounded, Seconds
  <2> QED
    BY <2>3, <2>4, <2>5, <2>11, <2>12 DEF LimiterInv
<1> QED
  BY <1>4, <1>5

\* What is let in is counted in the window of the second it is let in, and the
\* stretches that reach that second reach over this window and the one before.
LEMMA InsertInv ==
  ASSUME LimiterInv, limiter.enabled, NEW amount \in Nat, try_insert(amount)
  PROVE  LimiterInv' /\ Flow(now + 1 - span, now + 1)' <= 2 * limiter.cap_sd + 1
<1> DEFINE old == limiter
           W == old.window_sec
<1>1. /\ old \in Limiter /\ W \in Nat /\ W > 0 /\ old.t0_sec \in Nat
      /\ old.sum_sd \in Nat /\ old.cap_sd \in Nat
      /\ old.t0_sec <= now /\ now \in Nat /\ now \in Seconds /\ Seconds \subseteq Nat
      /\ span \in Nat /\ span > 0 /\ peak \in Nat
      /\ W = longest /\ span <= W /\ old.cap_sd <= peak
  BY LimiterAssumption DEF LimiterInv, TypeOK, OnRecord, try_insert, CanInsert, Limiter,
     Seconds
<1>2. outflow \in [Seconds -> Nat]
  BY DEF LimiterInv, TypeOK
<1>3. PICK start \in Nat, inherited \in Nat :
        /\ start <= now /\ now < start + W
        /\ Moved(old, start, inherited)
        /\ Inserted(old, now, amount)
           = [old EXCEPT !.t0_sec = start, !.sum_sd = inherited + amount]
  <2>1. PICK start \in Nat, inherited \in Nat : LetIn(old, now, amount, start, inherited)
    BY <1>1, InsertedFields
  <2> QED
    BY <2>1 DEF LetIn
<1>4. /\ limiter' \in Limiter /\ limiter'.t0_sec = start
      /\ limiter'.window_sec = W /\ limiter'.cap_sd = old.cap_sd
      /\ limiter'.sum_sd = inherited + amount
      /\ inherited + amount <= old.cap_sd
  <2>1. limiter' = [old EXCEPT !.t0_sec = start, !.sum_sd = inherited + amount]
    BY <1>3 DEF try_insert
  <2>2. limiter'.sum_sd <= old.cap_sd
    BY DEF try_insert, CanInsert
  <2> DEFINE sum == inherited + amount
  <2>3. sum \in Nat /\ limiter' = [old EXCEPT !.t0_sec = start, !.sum_sd = sum]
    BY <2>1
  <2> HIDE DEF sum
  <2>4. /\ limiter' \in Limiter /\ limiter'.t0_sec = start /\ limiter'.sum_sd = sum
        /\ limiter'.window_sec = W /\ limiter'.cap_sd = old.cap_sd
    BY <1>1, <2>3 DEF Limiter
  <2> QED
    BY <2>2, <2>4 DEF sum
<1>5. /\ outflow' \in [Seconds -> Nat] /\ now' = now
      /\ span' = span /\ longest' = longest /\ peak' = peak
      /\ outflow'[now] = outflow[now] + amount
      /\ \A t \in Seconds \ {now} : outflow'[t] = outflow[t]
  BY <1>1, <1>2 DEF try_insert
<1>6. /\ NothingLater /\ SumCounts /\ StretchesBounded
  BY DEF LimiterInv
<1>7. TypeOK' /\ OnRecord'
  BY <1>1, <1>3, <1>4, <1>5 DEF LimiterInv, TypeOK, OnRecord
<1> DEFINE sum(S) == SumFunctionOnSet(outflow, S)
           sumAfter(S) == SumFunctionOnSet(outflow', S)
           this == Within(start, start + W)
           last == Within(start - span, start)
<1>8. this \in SUBSET Seconds /\ last \in SUBSET Seconds
  BY DEF Within
<1>9. now \in this /\ now \notin last
  BY <1>1, <1>3 DEF Within
<1>10. sum(this) \in Nat /\ sum(last) \in Nat
  BY <1>2, <1>8, FlowNat
\* Before the amount is let in, seen from the new window.
<1>11. sum(last) <= peak /\ inherited >= sum(this) + sum(last) \div 2
  <2> DEFINE thisBefore == Within(old.t0_sec, old.t0_sec + W)
             lastBefore == Within(old.t0_sec - span, old.t0_sec)
  <2>1. /\ thisBefore \in SUBSET Seconds /\ lastBefore \in SUBSET Seconds
        /\ sum(thisBefore) \in Nat /\ sum(lastBefore) \in Nat
    <3>1. thisBefore \in SUBSET Seconds /\ lastBefore \in SUBSET Seconds
      BY DEF Within
    <3> QED
      BY <1>2, <3>1, FlowNat
  <2>2. /\ old.sum_sd >= sum(thisBefore) + sum(lastBefore) \div 2
        /\ sum(lastBefore) <= peak
        /\ sum(thisBefore) > 0 => old.sum_sd <= peak
    BY <1>1, <1>6 DEF SumCounts, Flow, Begin
  <2>3. CASE start = old.t0_sec /\ inherited = old.sum_sd
    BY <2>2, <2>3
  <2>4. CASE start = old.t0_sec + W /\ inherited = old.sum_sd \div 2
    <3>1. last \in SUBSET Seconds /\ last \subseteq thisBefore
      <4> DEFINE b == old.t0_sec
      <4>1. b \in Nat /\ start - span \in Int /\ b <= start - span /\ start = b + W
        BY <1>1, <2>4
      <4>2. \A t \in last : t \in Seconds /\ t \in Int /\ start - span <= t /\ t < start
        BY <1>1 DEF Within
      <4> HIDE DEF b, last
      <4>3. \A t \in last : t \in Within(b, b + W)
        BY <1>1, <4>1, <4>2 DEF Within
      <4> QED
        BY <4>2, <4>3 DEF b
    <3>2. sum(last) <= sum(thisBefore)
      <4>1. \A x \in last \ thisBefore : outflow[x] = 0
        BY <3>1
      <4> QED
        BY <1>2, <2>1, <3>1, <4>1, FlowWithin
    <3>3. sum(this) = 0
      <4>1. \A t \in this : outflow[t] = 0
        BY <1>1, <1>6, <2>4 DEF NothingLater, Begin, Within
      <4> QED
        BY <1>8, <4>1, NoFlow
    <3> HIDE DEF sum, thisBefore, lastBefore
    <3>4. sum(thisBefore) <= peak /\ sum(thisBefore) <= old.sum_sd
      BY <1>1, <2>1, <2>2
    <3> QED
      BY <1>1, <1>3, <1>10, <2>1, <2>4, <3>2, <3>3, <3>4
  <2>5. CASE start >= old.t0_sec + 2 * W
    <3>1. /\ \A t \in this : outflow[t] = 0
          /\ \A t \in last : outflow[t] = 0
      BY <1>1, <1>6, <2>5 DEF NothingLater, Begin, Within
    <3>2. sum(this) = 0 /\ sum(last) = 0
      BY <1>8, <3>1, NoFlow
    <3> HIDE DEF sum
    <3> QED
      BY <1>1, <1>3, <3>2
  <2> QED
    BY <1>3, <2>3, <2>4, <2>5 DEF Moved
<1>12. sumAfter(this) = sum(this) + amount /\ sumAfter(last) = sum(last)
  <2>1. ASSUME NEW S \in SUBSET Seconds
        PROVE  sumAfter(S) = sum(S) + (IF now \in S THEN amount ELSE 0)
    BY <1>1, <1>2, <1>5, FlowAdd
  <2> HIDE DEF sum, sumAfter, this, last
  <2>2. /\ sumAfter(this) = sum(this) + (IF now \in this THEN amount ELSE 0)
        /\ sumAfter(last) = sum(last) + (IF now \in last THEN amount ELSE 0)
    BY <1>8, <2>1
  <2> QED
    BY <1>9, <1>10, <2>2
<1>13. SumCounts'
  <2>1. /\ Flow(Begin, Begin + longest)' = sumAfter(this)
        /\ Flow(Begin - span, Begin)' = sumAfter(last)
    BY <1>1, <1>4, <1>5 DEF Flow, Begin, Within
  <2> HIDE DEF sum, sumAfter, this, last
  <2> QED
    BY <1>1, <1>4, <1>5, <1>10, <1>11, <1>12, <2>1 DEF SumCounts
<1>14. NothingLater'
  <2>1. ASSUME NEW t \in Seconds, t >= start + W PROVE outflow'[t] = 0
    <3>1. t # now /\ t >= old.t0_sec + W
      BY <1>1, <1>3, <2>1 DEF Moved
    <3> QED
      BY <1>1, <1>5, <1>6, <3>1 DEF NothingLater, Begin
  <2> QED
    BY <1>1, <1>4, <1>5, <2>1 DEF NothingLater, Begin, Seconds
\* A stretch that reaches this second lies within the two.
<1>15. ASSUME NEW S \in SUBSET Seconds, \A t \in S : start - span <= t /\ t < start + 2 * W
       PROVE  sumAfter(S) <= sumAfter(last) + sumAfter(this)
  <2> DEFINE both == Within(start - span, start + W)
  <2>1. both \in SUBSET Seconds
    BY DEF Within
  <2>2. \A t \in S \ both : outflow'[t] = 0
    <3>1. ASSUME NEW t \in S \ both PROVE t \in Seconds /\ t >= start + W
      BY <1>1, <1>15 DEF Within
    <3>2. \A t \in Seconds : t >= start + W => outflow'[t] = 0
      BY <1>1, <1>4, <1>5, <1>14 DEF NothingLater, Begin
    <3> QED
      BY <3>1, <3>2
  <2>3. sumAfter(S) <= sumAfter(both)
    BY <1>5, <2>1, <2>2, FlowWithin
  <2>4. sumAfter(both) = sumAfter(last) + sumAfter(this)
    <3> DEFINE a == start - span
               b == start
               c == start + W
    <3>1. a \in Int /\ b \in Int /\ c \in Int /\ a <= b /\ b <= c
      BY <1>1
    <3> HIDE DEF a, b, c
    <3>2. sumAfter(Within(a, c)) = sumAfter(Within(a, b)) + sumAfter(Within(b, c))
      BY <1>5, <3>1, FlowSplit
    <3> QED
      BY <3>2 DEF a, b, c
  <2> QED
    BY <2>3, <2>4
<1>16. StretchesBounded'
  <2>1. ASSUME NEW from \in Seconds
        PROVE  sumAfter(Within(from, from + span)) <= Bound
    <3> DEFINE stretch == Within(from, from + span)
    <3>1. stretch \in SUBSET Seconds
      BY DEF Within
    <3>2. CASE now \in stretch
      <4>1. \A t \in stretch : start - span <= t /\ t < start + 2 * W
        BY <1>1, <1>3, <3>2 DEF Within
      <4>2. sumAfter(stretch) <= sumAfter(last) + sumAfter(this)
        BY <1>15, <3>1, <4>1
      <4>3. sumAfter(stretch) \in Nat
        BY <1>5, <3>1, FlowNat
      <4> HIDE DEF sum, sumAfter, this, last, stretch
      <4>4. sumAfter(last) + sumAfter(this) <= Bound
        BY <1>1, <1>3, <1>4, <1>10, <1>11, <1>12 DEF Bound
      <4>5. sumAfter(last) + sumAfter(this) \in Nat /\ Bound \in Nat
        BY <1>1, <1>10, <1>12 DEF Bound
      <4> QED
        BY <4>2, <4>3, <4>4, <4>5 DEF stretch
    <3>3. CASE now \notin stretch
      <4>1. sum(stretch) <= Bound
        BY <1>6 DEF StretchesBounded, Flow
      <4>2. sumAfter(stretch) = sum(stretch)
        <5>1. \A t \in stretch : outflow'[t] = outflow[t]
          BY <1>5, <3>1, <3>3
        <5>2. IsFiniteSet(stretch)
          BY <3>1, FiniteSeconds
        <5> HIDE DEF stretch
        <5> QED
          BY <5>1, <5>2, SumAgree
      <4> QED
        BY <4>1, <4>2
    <3> QED
      BY <3>2, <3>3
  <2> QED
    BY <1>5, <2>1 DEF StretchesBounded, Flow, Bound, Within
\* And what is let in keeps the sum, which counts half of the stretch before,
\* below the cap.
<1>17. Flow(now + 1 - span, now + 1)' <= 2 * old.cap_sd + 1
  <2> DEFINE S == Within(now + 1 - span, now + 1)
  <2>1. S \in SUBSET Seconds /\ \A t \in S : start - span <= t /\ t < start + 2 * W
    BY <1>1, <1>3 DEF Within
  <2>2. sumAfter(S) <= sumAfter(last) + sumAfter(this)
    BY <1>15, <2>1
  <2>3. sumAfter(S) \in Nat
    BY <1>5, <2>1, FlowNat
  <2>4. Flow(now + 1 - span, now + 1)' = sumAfter(S)
    BY <1>5 DEF Flow, Within
  <2> HIDE DEF sum, sumAfter, this, last, S
  <2> QED
    BY <1>1, <1>3, <1>4, <1>10, <1>11, <1>12, <2>2, <2>3, <2>4
<1> QED
  BY <1>7, <1>13, <1>14, <1>16, <1>17 DEF LimiterInv

LEMMA NextInv == LimiterInv /\ [Next]_vars => LimiterInv'
<1> SUFFICES ASSUME LimiterInv, [Next]_vars PROVE LimiterInv'
  OBVIOUS
<1>1. ASSUME UNCHANGED <<limiter, history>>, now' \in Seconds, now <= now'
      PROVE  LimiterInv'
  <2>1. TypeOK'
    <3>1. limiter.t0_sec \in Nat /\ now \in Int /\ now' \in Int /\ limiter.t0_sec <= now
      BY <1>1, LimiterAssumption DEF LimiterInv, TypeOK, Limiter, Seconds
    <3> QED
      BY <1>1, <3>1 DEF LimiterInv, TypeOK, history
  <2>2. OnRecord' /\ NothingLater' /\ SumCounts' /\ StretchesBounded'
    BY <1>1 DEF LimiterInv, OnRecord, NothingLater, SumCounts, StretchesBounded, Flow,
       Begin, Bound, Within, history
  <2> QED
    BY <2>1, <2>2 DEF LimiterInv
<1>2. now \in Seconds /\ now \in Nat
  BY LimiterAssumption DEF LimiterInv, TypeOK, Seconds
<1>3. CASE UNCHANGED vars
  BY <1>1, <1>2, <1>3 DEF vars
<1>4. ASSUME NEW seconds \in Jumps, Tick(seconds) PROVE LimiterInv'
  <2>1. seconds \in Nat /\ MaxTime \in Nat
    BY LimiterAssumption
  <2>2. now' = now + seconds /\ now + seconds <= MaxTime
    BY <1>4 DEF Tick
  <2>3. now' \in Seconds /\ now <= now'
    BY <1>2, <2>1, <2>2 DEF Seconds
  <2> QED
    BY <1>1, <1>4, <2>3 DEF Tick
<1>5. ASSUME NEW enabled \in BOOLEAN, NEW cap \in Caps, NEW window \in Windows,
             set_limiter(enabled, cap, window)
      PROVE  LimiterInv'
  BY <1>5, ConfigureInv
<1>6. ASSUME NEW amount \in 1 .. MaxAmount, try_insert(amount) PROVE LimiterInv'
  <2>1. amount \in Nat
    OBVIOUS
  <2>2. CASE limiter.enabled
    BY <1>6, <2>1, <2>2, InsertInv
  <2>3. CASE ~limiter.enabled
    BY <1>1, <1>2, <1>6, <2>3 DEF try_insert, Inserted, history
  <2> QED
    BY <2>2, <2>3
<1> QED
  BY <1>3, <1>4, <1>5, <1>6 DEF Next

\* LimiterInv holds in every reachable state.
THEOREM Invariance == Spec => []LimiterInv
BY InitInv, NextInv, PTL DEF Spec

\* The limiter is well formed and its window has begun, so that try_insert never
\* subtracts below 0.
THEOREM TypeCorrect == Spec => []TypeOK
BY Invariance, PTL DEF LimiterInv

\* Outflow, in the terms of the proof.
LEMMA StretchIsWithin ==
  ASSUME NEW from \in Int, NEW seconds \in Nat
  PROVE  Outflow(from, seconds) = Flow(from, from + seconds)
<1>1. Seconds \intersect from .. from + seconds - 1 = Within(from, from + seconds)
  BY LimiterAssumption DEF Within, Seconds
<1> QED
  BY <1>1, Zenon DEF Outflow, Flow

\* In a stretch of one window length, wherever it is laid and whatever
\* set_limiter does meanwhile, short of shortening the window, no more than one
\* and a half times the highest cap flows out.
THEOREM OutflowBoundedHolds == Spec => []OutflowBounded
<1>1. LimiterInv => OutflowBounded
  <2> SUFFICES ASSUME LimiterInv, NEW from \in Seconds PROVE Outflow(from, span) <= Bound
    BY DEF OutflowBounded, Bound
  <2>1. span \in Nat /\ from \in Int
    BY LimiterAssumption DEF LimiterInv, TypeOK, Seconds
  <2>2. Outflow(from, span) = Flow(from, from + span)
    BY <2>1, StretchIsWithin
  <2>3. Flow(from, from + span) <= Bound
    BY DEF LimiterInv, StretchesBounded
  <2> QED
    BY <2>2, <2>3
<1> QED
  BY <1>1, Invariance, PTL

\* An amount that is let through leaves no more than twice the cap of now, and
\* one, in the window length that ends now, whatever the cap was before.
THEOREM LoweredCapBindsHolds == Spec => LoweredCapBinds
<1> DEFINE Bound2 == outflow'[now] > outflow[now]
                       => Outflow(now - span + 1, span)' <= 2 * limiter.cap_sd + 1
<1>1. ASSUME LimiterInv, [Next]_vars PROVE [Bound2]_vars
  <2>1. ASSUME NEW amount \in 1 .. MaxAmount, try_insert(amount), limiter.enabled
        PROVE  Bound2
    <3>1. amount \in Nat
      OBVIOUS
    <3>2. Flow(now + 1 - span, now + 1)' <= 2 * limiter.cap_sd + 1
      BY <1>1, <2>1, <3>1, InsertInv
    <3>3. span \in Nat /\ now \in Int /\ span' = span /\ now' = now
      BY <1>1, <2>1, LimiterAssumption DEF LimiterInv, TypeOK, Seconds, try_insert
    <3> DEFINE a == now + 1 - span
    <3>4. a \in Int /\ now - span + 1 = a /\ now + 1 = a + span
      BY <3>3
    <3>5. Outflow(now - span + 1, span)' = Flow(now + 1 - span, now + 1)'
      <4>1. (now + 1 - span)' = a /\ (now - span + 1)' = a /\ (now + 1)' = a + span
        BY <3>3, <3>4
      <4>2. Seconds \intersect (a .. a + span - 1) = Within(a, a + span)
        BY <3>3, <3>4, LimiterAssumption DEF Within, Seconds
      <4> HIDE DEF a
      <4> QED
        BY <3>3, <4>1, <4>2 DEF Outflow, Flow, Seconds, Within
    <3> QED
      BY <3>2, <3>5
  <2>2. ASSUME NEW amount \in 1 .. MaxAmount, try_insert(amount), ~limiter.enabled
        PROVE  outflow' = outflow
    BY <2>2 DEF try_insert
  <2>3. ASSUME NEW seconds \in Jumps, Tick(seconds) PROVE outflow' = outflow
    BY <2>3 DEF Tick, history
  <2>4. ASSUME NEW enabled \in BOOLEAN, NEW cap \in Caps, NEW window \in Windows,
               set_limiter(enabled, cap, window)
        PROVE  outflow' \in {outflow, NoOutflow}
    BY <2>4 DEF set_limiter
  <2>5. outflow' \in {outflow, NoOutflow} => ~(outflow'[now] > outflow[now])
    <3>1. outflow[now] \in Nat /\ now \in Seconds
      BY <1>1 DEF LimiterInv, TypeOK
    <3> QED
      BY <3>1 DEF NoOutflow
  <2> QED
    BY <1>1, <2>1, <2>2, <2>3, <2>4, <2>5 DEF Next
<1> QED
  BY <1>1, Invariance, PTL DEF Spec, LoweredCapBinds

-----------------------------------------------------------------------------
\* What the SDK quotes.

\* Halving a number once per window.
Halves(sum, h) == h = [n \in Nat |-> IF n = 0 THEN sum ELSE h[n - 1] \div 2]

LEMMA HalvesExist ==
  ASSUME NEW sum \in Nat PROVE \E h : Halves(sum, h)
<1> DEFINE step == [v \in Nat |-> v \div 2]
<1>1. step \in [Nat -> Nat] /\ \A v \in Nat : step[v] = v \div 2
  OBVIOUS
<1> DEFINE T == Nat
           first == sum
<1>t. first \in T /\ step \in [T -> T]
  BY <1>1
<1> HIDE DEF step, T, first
<1>2. PICK h \in [Nat -> T] : h[0] = first /\ \A n \in Nat : h[n + 1] = step[h[n]]
  BY <1>t, NatRecursion
<1>3. ASSUME NEW n \in Nat, n # 0 PROVE h[n] = h[n - 1] \div 2
  <2>1. n - 1 \in Nat /\ (n - 1) + 1 = n
    BY <1>3
  <2> QED
    BY <1>1, <1>2, <2>1 DEF T
<1>4. Halves(sum, h)
  BY <1>2, <1>3 DEF Halves, first
<1> QED
  BY <1>4

\* q is the quotient of a by b.
Quotient(a, b, q) == q \in Nat /\ b * q <= a /\ a < b * q + b

LEMMA QuotientUnique ==
  ASSUME NEW a \in Nat, NEW b \in Nat \ {0}, NEW q, Quotient(a, b, q)
  PROVE  q = a \div b
<1> DEFINE d == a \div b
<1>1. d \in Nat /\ b * d <= a /\ a < b * d + b
  OBVIOUS
<1> HIDE DEF d
<1>2. q \in Nat /\ b * q <= a /\ a < b * q + b
  BY DEF Quotient
<1>3. CASE q < d
  <2>1. b * (q + 1) <= b * d /\ b * (q + 1) = b * q + b
    BY <1>1, <1>2, <1>3
  <2> QED
    BY <1>1, <1>2, <2>1
<1>4. CASE d < q
  <2>1. b * (d + 1) <= b * q /\ b * (d + 1) = b * d + b
    BY <1>1, <1>2, <1>4
  <2> QED
    BY <1>1, <1>2, <2>1
<1> QED
  BY <1>1, <1>2, <1>3, <1>4 DEF d

\* Halving n times divides by the n-th power of two.
LEMMA HalvesDivide ==
  ASSUME NEW sum \in Nat, NEW h, Halves(sum, h), NEW n \in Nat
  PROVE  h[n] = sum \div pow2[n]
<1> DEFINE Good == {k \in Nat : Quotient(sum, pow2[k], h[k])}
<1>1. /\ h[0] = sum
      /\ \A k \in Nat : h[k + 1] = h[k] \div 2
  <2>1. \A k \in Nat : h[k] = IF k = 0 THEN sum ELSE h[k - 1] \div 2
    BY DEF Halves
  <2>2. ASSUME NEW k \in Nat PROVE h[k + 1] = h[k] \div 2
    <3>1. k + 1 \in Nat /\ k + 1 # 0 /\ (k + 1) - 1 = k
      OBVIOUS
    <3> QED
      BY <2>1, <3>1
  <2> QED
    BY <2>1, <2>2
<1>2. 0 \in Good
  BY <1>1, Powers DEF Quotient
<1>3. ASSUME NEW k \in Nat, k \in Good PROVE k + 1 \in Good
  <2> DEFINE p == pow2[k]
             q == h[k]
             r == h[k + 1]
  <2>1. p \in Nat \ {0} /\ pow2[k + 1] = 2 * p
    BY Powers
  <2>2. q \in Nat /\ p * q <= sum /\ sum < p * q + p
    BY <1>3 DEF Quotient
  <2>3. r = q \div 2
    BY <1>1
  <2> HIDE DEF p, q, r
  <2>4. r \in Nat /\ 2 * r <= q /\ q <= 2 * r + 1
    BY <2>2, <2>3
  <2>5. p * (2 * r) <= p * q /\ p * q <= p * (2 * r + 1)
    BY <2>1, <2>2, <2>4
  <2>6. p * (2 * r) = (2 * p) * r /\ p * (2 * r + 1) = (2 * p) * r + p
    BY <2>1, <2>4
  <2>7. Quotient(sum, 2 * p, r)
    BY <2>1, <2>2, <2>4, <2>5, <2>6 DEF Quotient
  <2> QED
    BY <2>1, <2>7 DEF r
<1>4. Nat \subseteq Good
  <2> HIDE DEF Good
  <2> QED
    BY <1>2, <1>3, NatSetInduction
<1>5. Quotient(sum, pow2[n], h[n]) /\ pow2[n] \in Nat \ {0}
  BY <1>4, Powers
<1> QED
  BY <1>5, QuotientUnique

\* The powers of two grow.
LEMMA PowersGrow ==
  ASSUME NEW m \in Nat, NEW n \in Nat, m <= n PROVE pow2[m] <= pow2[n]
<1> DEFINE Good == {k \in Nat : m <= k => pow2[m] <= pow2[k]}
<1>1. 0 \in Good
  BY Powers
<1>2. ASSUME NEW k \in Nat, k \in Good PROVE k + 1 \in Good
  <2>1. pow2[k] \in Nat /\ pow2[m] \in Nat /\ pow2[k + 1] = 2 * pow2[k]
    BY Powers
  <2>2. CASE m <= k
    BY <1>2, <2>1, <2>2
  <2>3. CASE m = k + 1
    BY <2>1, <2>3
  <2>4. CASE m > k + 1
    BY <2>4
  <2> QED
    BY <2>2, <2>3, <2>4
<1>3. Nat \subseteq Good
  <2> HIDE DEF Good
  <2> QED
    BY <1>1, <1>2, NatSetInduction
<1> QED
  BY <1>3

\* The sum is a u64, as the caps are.
CapsAreU64 == \A cap \in Caps : cap < pow2[64]

SumIsU64 == limiter.cap_sd \in Caps /\ limiter.sum_sd < pow2[64]

\* What is inherited after count windows, as the SDK halves it.
LEMMA QuoteIsInherited ==
  ASSUME NEW sum \in Nat, sum < pow2[64], NEW count \in Nat, NEW h, Halves(sum, h)
  PROVE  h[count] = IF count >= 64 THEN 0 ELSE sum \div pow2[count]
<1>1. h[count] = sum \div pow2[count]
  BY HalvesDivide
<1>2. CASE count >= 64
  <2> DEFINE p == pow2[count]
  <2>1. p \in Nat \ {0} /\ pow2[64] \in Nat /\ pow2[64] <= p
    BY <1>2, Powers, PowersGrow
  <2> HIDE DEF p
  <2>2. Quotient(sum, p, 0)
    BY <2>1 DEF Quotient
  <2>3. 0 = sum \div p
    BY <2>1, <2>2, QuotientUnique
  <2> QED
    BY <1>1, <1>2, <2>3 DEF p
<1> QED
  BY <1>1, <1>2

LEMMA QuoteExact ==
  ASSUME LimiterInv, SumIsU64 PROVE QuotedIsAccepted
<1> SUFFICES ASSUME limiter.window_sec > 0, NEW amount \in 1 .. MaxAmount
             PROVE  CanInsert(limiter, now, amount) <=>
                      (getLimitedAmount.limited => amount <= getLimitedAmount.amount)
  BY DEF QuotedIsAccepted
<1>1. /\ limiter \in Limiter /\ limiter.window_sec \in Nat /\ limiter.sum_sd \in Nat
      /\ limiter.cap_sd \in Nat /\ limiter.t0_sec \in Nat
      /\ now \in Nat /\ limiter.t0_sec <= now /\ amount \in Nat
  BY LimiterAssumption DEF LimiterInv, TypeOK, Limiter, Seconds
<1>2. CASE ~limiter.enabled
  BY <1>2 DEF CanInsert, getLimitedAmount
<1>3. CASE limiter.enabled
  <2> DEFINE count == (now - limiter.t0_sec) \div limiter.window_sec
             h == CHOOSE g : Halves(limiter.sum_sd, g)
             inherited == IF count >= 64 THEN 0 ELSE limiter.sum_sd \div pow2[count]
  <2>1. count \in Nat
    <3> DEFINE elapsed == now - limiter.t0_sec
               window == limiter.window_sec
    <3>1. elapsed \in Nat /\ window \in Nat /\ window > 0
      BY <1>1
    <3> HIDE DEF elapsed, window
    <3>2. elapsed \div window \in Nat
      BY <3>1
    <3> QED
      BY <3>2 DEF elapsed, window
  <2>2. Halves(limiter.sum_sd, h)
    BY <1>1, HalvesExist
  <2>3. getLimitedAmount = [limited |-> TRUE, amount |-> limiter.cap_sd - h[count]]
    BY <1>3 DEF getLimitedAmount, Halves
  <2>4. Inserted(limiter, now, amount).sum_sd = inherited + amount
    BY <1>1, <1>3 DEF Inserted, Advanced, Limiter
  <2> HIDE DEF count, h
  <2>5. h[count] = inherited
    BY <1>1, <2>1, <2>2, QuoteIsInherited DEF SumIsU64
  <2> HIDE DEF inherited
  <2>6. CanInsert(limiter, now, amount) <=> inherited + amount <= limiter.cap_sd
    BY <1>3, <2>4 DEF CanInsert
  <2>7. inherited \in Nat
    <3> DEFINE power == pow2[count]
    <3>1. power \in Nat \ {0}
      BY <2>1, Powers
    <3> HIDE DEF power
    <3>2. limiter.sum_sd \div power \in Nat
      BY <1>1, <3>1
    <3> QED
      BY <3>2 DEF inherited, power
  <2> QED
    BY <1>1, <2>3, <2>5, <2>6, <2>7
<1> QED
  BY <1>2, <1>3

LEMMA U64Init == CapsAreU64 /\ Init => SumIsU64
<1> SUFFICES ASSUME CapsAreU64, Init PROVE SumIsU64
  OBVIOUS
<1>1. pow2[64] \in Nat \ {0}
  BY Powers
<1> QED
  BY <1>1 DEF Init, NewLimiter, SumIsU64

LEMMA U64Next == CapsAreU64 /\ LimiterInv /\ SumIsU64 /\ [Next]_vars => SumIsU64'
<1> SUFFICES ASSUME CapsAreU64, LimiterInv, SumIsU64, [Next]_vars PROVE SumIsU64'
  OBVIOUS
<1> USE DEF SumIsU64
<1>1. limiter \in Limiter /\ Caps \subseteq Nat /\ pow2[64] \in Nat
  BY LimiterAssumption, Powers DEF LimiterInv, TypeOK
<1>2. CASE UNCHANGED limiter
  BY <1>2
<1>3. ASSUME NEW enabled \in BOOLEAN, NEW cap \in Caps, NEW window \in Windows,
             set_limiter(enabled, cap, window)
      PROVE  SumIsU64'
  BY <1>1, <1>3 DEF set_limiter, WithLimit, Limiter
<1>4. ASSUME NEW amount \in 1 .. MaxAmount, try_insert(amount) PROVE SumIsU64'
  <2>1. CASE limiter.enabled
    <3>1. limiter' = Inserted(limiter, now, amount) /\ limiter'.sum_sd <= limiter.cap_sd
      BY <1>4, <2>1 DEF try_insert, CanInsert
    <3>2. amount \in Nat /\ LimiterInv'
      BY <1>4, <2>1, InsertInv
    <3>3. limiter'.cap_sd = limiter.cap_sd
      BY <1>1, <2>1, <3>1 DEF Inserted, Advanced, Limiter
    <3>4. limiter'.sum_sd \in Nat /\ limiter.cap_sd \in Nat /\ limiter.cap_sd < pow2[64]
      BY <1>1, <3>2 DEF LimiterInv, TypeOK, Limiter, CapsAreU64
    <3> QED
      BY <1>1, <3>1, <3>3, <3>4
  <2>2. CASE ~limiter.enabled
    BY <1>4, <2>2 DEF try_insert, Inserted
  <2> QED
    BY <2>1, <2>2
<1> QED
  BY <1>2, <1>3, <1>4 DEF Next, Tick, vars

\* What the SDK answers a user is what the chain does, as long as the caps are
\* numbers of 64 bits: the chain takes a sum that 64 windows have passed over
\* for 0.
THEOREM QuotedIsAcceptedHolds == CapsAreU64 => (Spec => []QuotedIsAccepted)
<1> SUFFICES ASSUME CapsAreU64 PROVE Spec => []QuotedIsAccepted
  OBVIOUS
<1>1. Init => SumIsU64
  BY U64Init
<1>2. LimiterInv /\ SumIsU64 /\ [Next]_vars => SumIsU64'
  BY U64Next
<1>3. LimiterInv /\ SumIsU64 => QuotedIsAccepted
  BY QuoteExact
<1> QED
  BY <1>1, <1>2, <1>3, Invariance, PTL DEF Spec

-----------------------------------------------------------------------------
\* WireAll: what is read, the setting each read is about and the transaction
\* it calls for.

\* The settings of a remote chain, by the account that plans for them.
OfRemotes ==
  [setChainAddressSize |-> "layerzero", setDefaultAppConfig |-> "layerzero",
   setDefaultSendMsgLib |-> "layerzero", setDefaultReceiveMsgLib |-> "layerzero",
   setDefaultExecutor |-> "layerzero", setDefaultAdapterParams |-> "layerzero",
   setFeeForRelayer |-> "relayer", setFeeForExecutor |-> "executor",
   setFeeForOracle |-> "oracle", setRemoteBridge |-> "bridge",
   setMinDstGas |-> "bridge"]

RemoteReads(remote) == {Read(OfRemotes[diff], diff, remote) : diff \in DOMAIN OfRemotes}

\* The reads of a plan, in any order.
AllReads ==
  {Read("oracle", "setValidatorsForOracle", v) : v \in Validators}
  \union {Read("oracle", "setThresholdForOracle", Single),
          Read("bridge", "enableCustomAdapterParams", Single)}
  \union {Read("bridge", diff, coin) : diff \in {"registerCoin", "setLimiter"},
                                       coin \in Coins}
  \union {Read("bridge", "setRemoteCoin", key) : key \in Coins \X Remotes}
  \union UNION {RemoteReads(remote) : remote \in Remotes}

\* The slot and the key that a read is about.
About(d) ==
  CASE d.diff = "setChainAddressSize" -> <<"chain_address_size", d.key>>
    [] d.diff = "setDefaultAppConfig" -> <<"default_config", d.key>>
    [] d.diff = "setDefaultSendMsgLib" -> <<"send_version", d.key>>
    [] d.diff = "setDefaultReceiveMsgLib" -> <<"receive_version", d.key>>
    [] d.diff = "setDefaultExecutor" -> <<"default_executor", d.key>>
    [] d.diff = "setDefaultAdapterParams" -> <<"adapter_params", d.key>>
    [] d.diff = "setFeeForExecutor" -> <<"executor_fee", d.key>>
    [] d.diff = "setFeeForRelayer" -> <<"signer_fee", <<"relayer", d.key>>>>
    [] d.diff = "setFeeForOracle" -> <<"signer_fee", <<"oracle", d.key>>>>
    [] d.diff = "setValidatorsForOracle" -> <<"validators", d.key>>
    [] d.diff = "setThresholdForOracle" -> <<"threshold", d.key>>
    [] d.diff = "enableCustomAdapterParams" -> <<"custom_adapter_params", d.key>>
    [] d.diff = "registerCoin" -> <<"coin_store", d.key>>
    [] d.diff = "setLimiter" -> <<"limiter", d.key>>
    [] d.diff = "setRemoteBridge" -> <<"remote_bridge", d.key>>
    [] d.diff = "setMinDstGas" -> <<"min_dst_gas", d.key>>
    [] d.diff = "setRemoteCoin" -> <<"remote_coin", d.key>>

\* What a setting is to be.
Value(config, slot, key) ==
  CASE slot = "chain_address_size" -> config.addressSize
    [] slot = "default_config" -> config.appConfig[key]
    [] slot = "send_version" -> config.defaultReceiveVersion
    [] slot = "receive_version" -> config.defaultReceiveVersion
    [] slot = "default_executor" ->
         [executor |-> config.defaultExecutor.address,
          version |-> config.defaultExecutor.version]
    [] slot = "adapter_params" -> config.uaGas[key]
    [] slot = "executor_fee" -> config.executorFee[key]
    [] slot = "signer_fee" ->
         IF key[1] = "relayer"
         THEN [base_fee |-> config.relayerFee[key[2]].baseFee,
               fee_per_byte |-> config.relayerFee[key[2]].feePerByte]
         ELSE [base_fee |-> config.oracleFee[key[2]].baseFee, fee_per_byte |-> 0]
    [] slot = "validators" -> config.validators[key]
    [] slot = "threshold" -> config.threshold
    [] slot = "custom_adapter_params" -> config.enableCustomAdapterParams
    [] slot = "coin_store" -> config.coins[key].limiter.cap
    [] slot = "limiter" -> config.coins[key].limiter
    [] slot = "remote_bridge" -> config.remoteBridge[key]
    [] slot = "min_dst_gas" -> config.minDstGas[key]
    [] slot = "remote_coin" -> config.coins[key[1]].remotes[key[2]]

\* The transaction a setting calls for.
Meant(config, s) == Payload(s[1], s[2], Value(config, s[1], s[2]))

\* What a plan may contain.
Planned(config) == {p \in {Meant(config, About(d)) : d \in AllReads} : Storable(p)}

-----------------------------------------------------------------------------
\* The inductive invariant: every setting that a run is responsible for is as
\* configured, or the run has yet to read it, or to send what it planned.

\* A setting is as configured, or will be when its coin is registered.
Fine(config, s, settings) ==
  \/ AsConfigured(config, s[1], s[2], settings[s[1]][s[2]])
  \/ /\ s[1] = "limiter" /\ settings.coin_store[s[2]] = None
     /\ config.coins[s[2]].limiter = DefaultLimiter

Stages == {"idle", "plan", "prompt", "send", "wired", "failed"}

\* The runs with the configuration c.
Runs(c) ==
  [stage : Stages, config : {c}, reads : Seq(AllReads),
   txns : [Accounts -> Seq(Planned(Configs[c]))], failed : SUBSET Accounts,
   quiet : BOOLEAN]

\* Every setting is fine, still to be read, or about to be sent.
Handled(r, d, settings) ==
  \/ Fine(Configs[r.config], About(d), settings)
  \/ d \in Range(r.reads)
  \/ \E a \in Accounts : Meant(Configs[r.config], About(d)) \in Range(r.txns[a])

\* A run plans as long as there is something to read, and nothing has failed
\* before the first transaction.
Shape(r) ==
  /\ r.stage = "plan" <=> r.reads # <<>>
  /\ r.stage \in {"plan", "prompt"} => r.failed = {}

\* A run that nobody interfered with, and that nothing failed in, forgets no
\* setting.
Pursued(r, settings) ==
  /\ r.stage \in Planning /\ r.quiet /\ r.failed = {} =>
       \A d \in AllReads : Handled(r, d, settings)
  /\ r.stage = "wired" /\ r.quiet =>
       \A d \in AllReads : Fine(Configs[r.config], About(d), settings)

RunOK(r, settings) ==
  /\ r.config \in DOMAIN Configs
  /\ r \in Runs(r.config)
  /\ Shape(r)
  /\ Pursued(r, settings)

WireAllInv ==
  /\ Stored(chain)
  /\ DOMAIN run = Operators
  /\ \A o \in Operators : RunOK(run[o], chain)

-----------------------------------------------------------------------------
\* The keys and values of every slot.

LEMMA KeysAt ==
  /\ "chain_address_size" \in DOMAIN Keys /\ Keys["chain_address_size"] = Remotes
  /\ "default_config" \in DOMAIN Keys /\ Keys["default_config"] = Remotes
  /\ "send_version" \in DOMAIN Keys /\ Keys["send_version"] = Remotes
  /\ "receive_version" \in DOMAIN Keys /\ Keys["receive_version"] = Remotes
  /\ "default_executor" \in DOMAIN Keys /\ Keys["default_executor"] = Remotes
  /\ "adapter_params" \in DOMAIN Keys /\ Keys["adapter_params"] = Remotes
  /\ "executor_fee" \in DOMAIN Keys /\ Keys["executor_fee"] = Remotes
  /\ "signer_fee" \in DOMAIN Keys /\ Keys["signer_fee"] = Signers \X Remotes
  /\ "registered" \in DOMAIN Keys /\ Keys["registered"] = {"relayer", "oracle", "executor"}
  /\ "validators" \in DOMAIN Keys /\ Keys["validators"] = Validators
  /\ "threshold" \in DOMAIN Keys /\ Keys["threshold"] = {Single}
  /\ "custom_adapter_params" \in DOMAIN Keys /\ Keys["custom_adapter_params"] = {Single}
  /\ "coin_store" \in DOMAIN Keys /\ Keys["coin_store"] = Coins
  /\ "limiter" \in DOMAIN Keys /\ Keys["limiter"] = Coins
  /\ "remote_bridge" \in DOMAIN Keys /\ Keys["remote_bridge"] = Remotes
  /\ "min_dst_gas" \in DOMAIN Keys /\ Keys["min_dst_gas"] = Remotes
  /\ "remote_coin" \in DOMAIN Keys /\ Keys["remote_coin"] = Coins \X Remotes
BY DEF Keys

LEMMA ValuesAt ==
  /\ Values["chain_address_size"] = Nat
  /\ Values["default_executor"] = [executor : STRING, version : Nat]
  /\ Values["default_config"] = [oracle : STRING, relayer : STRING,
                                   inbound_confirmations : Nat,
                                   outbound_confirmations : Nat]
  /\ Values["send_version"] = [major : Nat, minor : Nat]
  /\ Values["receive_version"] = [major : Nat, minor : Nat]
  /\ Values["adapter_params"] = Nat
  /\ Values["executor_fee"] = [airdropAmtCap : Nat, priceRatio : Nat, gasPrice : Nat]
  /\ Values["signer_fee"] = [base_fee : Nat, fee_per_byte : Nat]
  /\ Values["registered"] = BOOLEAN
  /\ Values["validators"] = BOOLEAN
  /\ Values["threshold"] = Nat
  /\ Values["custom_adapter_params"] = BOOLEAN
  /\ Values["coin_store"] = Nat
  /\ Values["limiter"] = [enabled : BOOLEAN, cap : Nat, window : Nat]
  /\ Values["remote_bridge"] = STRING
  /\ Values["min_dst_gas"] = Nat
  /\ Values["remote_coin"] = STRING
BY DEF Values

-----------------------------------------------------------------------------
\* What is read: the list of reads has every read, and no other.

LEMMA OverAllIs ==
  ASSUME NEW S, NEW T, NEW seq, NEW reads, AreLists(seq, reads, S, T)
  PROVE  /\ OverAll(seq, reads) \in Seq(T)
         /\ \A x : x \in Range(OverAll(seq, reads))
                    <=> \E y \in Range(seq) : x \in Range(reads[y])
<1> DEFINE over == CHOOSE g : PutTogether(g, seq, reads)
<1>1. OverAll(seq, reads) = over[Len(seq)]
  BY DEF OverAll, PutTogether
<1>2. /\ over[Len(seq)] \in Seq(T)
      /\ \A x : x \in Range(over[Len(seq)])
                 <=> \E y \in Range(seq) : x \in Range(reads[y])
  BY RangeOfAll, Zenon
<1> HIDE DEF over
<1> QED
  BY <1>1, <1>2

\* One list made of lists of one element, or of two.
LEMMA OverSingles ==
  ASSUME NEW S, NEW T, NEW seq \in Seq(S), NEW one,
         \A x \in S : one[x] \in T,
         NEW reads, reads = [x \in S |-> <<one[x]>>]
  PROVE  /\ OverAll(seq, reads) \in Seq(T)
         /\ \A x \in Range(seq) : one[x] \in Range(OverAll(seq, reads))
<1>1. \A x \in S : reads[x] \in Seq(T) /\ Range(reads[x]) = {one[x]}
  <2> SUFFICES ASSUME NEW x \in S PROVE reads[x] \in Seq(T) /\ Range(reads[x]) = {one[x]}
    OBVIOUS
  <2> DEFINE y == one[x]
  <2>1. y \in T /\ reads[x] = <<y>>
    OBVIOUS
  <2> HIDE DEF y
  <2>2. <<y>> \in Seq(T) /\ Range(<<y>>) = {y}
    BY <2>1, RangeOfOne
  <2>3. y = one[x]
    BY DEF y
  <2> QED
    BY <2>1, <2>2, <2>3
<1>2. AreLists(seq, reads, S, T) /\ Range(seq) \subseteq S
  BY <1>1, RangeIn DEF AreLists
<1>3. /\ OverAll(seq, reads) \in Seq(T)
      /\ \A x : x \in Range(OverAll(seq, reads))
                 <=> \E y \in Range(seq) : x \in Range(reads[y])
  BY <1>2, OverAllIs
<1> QED
  BY <1>1, <1>2, <1>3

LEMMA OneRead ==
  ASSUME NEW x \in AllReads
  PROVE  <<x>> \in Seq(AllReads) /\ Range(<<x>>) = {x}
BY RangeOfOne

LEMMA Joined ==
  ASSUME NEW s \in Seq(AllReads), NEW t \in Seq(AllReads)
  PROVE  s \o t \in Seq(AllReads) /\ Range(s \o t) = Range(s) \union Range(t)
BY RangeOfTwo

LEMMA AllReadsAre ==
  /\ \A v \in Validators : Read("oracle", "setValidatorsForOracle", v) \in AllReads
  /\ Read("oracle", "setThresholdForOracle", Single) \in AllReads
  /\ Read("bridge", "enableCustomAdapterParams", Single) \in AllReads
  /\ \A coin \in Coins : /\ Read("bridge", "registerCoin", coin) \in AllReads
                         /\ Read("bridge", "setLimiter", coin) \in AllReads
  /\ \A key \in Coins \X Remotes : Read("bridge", "setRemoteCoin", key) \in AllReads
  /\ \A remote \in Remotes : RemoteReads(remote) \subseteq AllReads
BY DEF AllReads

LEMMA RemoteReadsAre ==
  ASSUME NEW remote
  PROVE  RemoteReads(remote) =
           {Read("layerzero", "setChainAddressSize", remote),
            Read("layerzero", "setDefaultAppConfig", remote),
            Read("layerzero", "setDefaultSendMsgLib", remote),
            Read("layerzero", "setDefaultReceiveMsgLib", remote),
            Read("layerzero", "setDefaultExecutor", remote),
            Read("layerzero", "setDefaultAdapterParams", remote),
            Read("relayer", "setFeeForRelayer", remote),
            Read("executor", "setFeeForExecutor", remote),
            Read("oracle", "setFeeForOracle", remote),
            Read("bridge", "setRemoteBridge", remote),
            Read("bridge", "setMinDstGas", remote)}
BY DEF RemoteReads, OfRemotes

LEMMA LayerzeroReads ==
  ASSUME NEW remote \in Remotes
  PROVE  /\ configureLayerzeroWithRemote(remote) \in Seq(AllReads)
         /\ Range(configureLayerzeroWithRemote(remote)) =
              {Read("layerzero", "setChainAddressSize", remote),
               Read("layerzero", "setDefaultAppConfig", remote),
               Read("layerzero", "setDefaultSendMsgLib", remote),
               Read("layerzero", "setDefaultReceiveMsgLib", remote),
               Read("layerzero", "setDefaultExecutor", remote),
               Read("layerzero", "setDefaultAdapterParams", remote)}
<1> DEFINE a == Read("layerzero", "setChainAddressSize", remote)
           b == Read("layerzero", "setDefaultAppConfig", remote)
           c == Read("layerzero", "setDefaultSendMsgLib", remote)
           d == Read("layerzero", "setDefaultReceiveMsgLib", remote)
           e == Read("layerzero", "setDefaultExecutor", remote)
           f == Read("layerzero", "setDefaultAdapterParams", remote)
<1>1. {a, b, c, d, e, f} \subseteq AllReads
  BY AllReadsAre, RemoteReadsAre
<1>2. configureLayerzeroWithRemote(remote) = <<a, b, c, d, e, f>>
  BY DEF configureLayerzeroWithRemote
<1> HIDE DEF a, b, c, d, e, f
<1>3. <<a, b, c, d, e, f>> \in Seq(AllReads)
  BY <1>1
<1>4. Range(<<a, b, c, d, e, f>>) = {a, b, c, d, e, f}
  BY DEF Range
<1> QED
  BY <1>2, <1>3, <1>4 DEF a, b, c, d, e, f

LEMMA OracleReads ==
  ASSUME NEW config, Complete(config)
  PROVE  /\ configureOracle(config) \in Seq(AllReads)
         /\ \A v \in Validators :
              Read("oracle", "setValidatorsForOracle", v) \in Range(configureOracle(config))
         /\ Read("oracle", "setThresholdForOracle", Single) \in Range(configureOracle(config))
<1> DEFINE one == [v \in Validators |-> Read("oracle", "setValidatorsForOracle", v)]
           reads == [v \in Validators |-> <<Read("oracle", "setValidatorsForOracle", v)>>]
           s == OverAll(config.validatorOrder, reads)
           x == Read("oracle", "setThresholdForOracle", Single)
<1>1. config.validatorOrder \in Seq(Validators) /\ Range(config.validatorOrder) = Validators
  BY DEF Complete
<1>2. \A v \in Validators : one[v] \in AllReads
  BY AllReadsAre
<1>3. reads = [v \in Validators |-> <<one[v]>>]
  OBVIOUS
<1>4. \A v \in Validators : one[v] = Read("oracle", "setValidatorsForOracle", v)
  OBVIOUS
<1> HIDE DEF one
<1>5. s \in Seq(AllReads) /\ \A v \in Validators : one[v] \in Range(s)
  <2> HIDE DEF reads
  <2> QED
    BY <1>1, <1>2, <1>3, OverSingles
<1>6. x \in AllReads
  BY AllReadsAre
<1>7. configureOracle(config) = s \o <<x>>
  BY DEF configureOracle
<1> HIDE DEF s, x
<1>8. <<x>> \in Seq(AllReads) /\ Range(<<x>>) = {x}
  BY <1>6, OneRead
<1>9. s \o <<x>> \in Seq(AllReads) /\ Range(s \o <<x>>) = Range(s) \union {x}
  BY <1>5, <1>8, Joined
<1> QED
  BY <1>4, <1>5, <1>7, <1>9 DEF x

LEMMA BridgeReads ==
  ASSUME NEW config, Complete(config)
  PROVE  /\ configureBridge(config) \in Seq(AllReads)
         /\ Read("bridge", "enableCustomAdapterParams", Single)
              \in Range(configureBridge(config))
         /\ \A coin \in Coins :
              /\ Read("bridge", "registerCoin", coin) \in Range(configureBridge(config))
              /\ Read("bridge", "setLimiter", coin) \in Range(configureBridge(config))
<1> DEFINE one == [coin \in Coins |-> Read("bridge", "registerCoin", coin)]
           two == [coin \in Coins |-> Read("bridge", "setLimiter", coin)]
           reads == [coin \in Coins |->
             <<Read("bridge", "registerCoin", coin), Read("bridge", "setLimiter", coin)>>]
           s == OverAll(config.coinOrder, reads)
           x == Read("bridge", "enableCustomAdapterParams", Single)
<1>1. config.coinOrder \in Seq(Coins) /\ Range(config.coinOrder) = Coins
  BY DEF Complete
<1>2. \A coin \in Coins : one[coin] \in AllReads /\ two[coin] \in AllReads
  BY AllReadsAre
<1>3. reads = [coin \in Coins |-> <<one[coin], two[coin]>>]
  OBVIOUS
<1>4. \A coin \in Coins : /\ one[coin] = Read("bridge", "registerCoin", coin)
                          /\ two[coin] = Read("bridge", "setLimiter", coin)
  OBVIOUS
<1> HIDE DEF one, two, reads
<1>5. ASSUME NEW coin \in Coins
      PROVE  /\ reads[coin] \in Seq(AllReads)
             /\ one[coin] \in Range(reads[coin]) /\ two[coin] \in Range(reads[coin])
  <2> DEFINE a == one[coin]
             b == two[coin]
  <2>1. a \in AllReads /\ b \in AllReads /\ reads[coin] = <<a, b>>
    BY <1>2, <1>3
  <2> HIDE DEF a, b
  <2>2. <<a, b>> \in Seq(AllReads)
    BY <2>1
  <2>3. a \in Range(<<a, b>>) /\ b \in Range(<<a, b>>)
    BY DEF Range
  <2> QED
    BY <2>1, <2>2, <2>3 DEF a, b
<1>6. AreLists(config.coinOrder, reads, Coins, AllReads)
  BY <1>1, <1>5 DEF AreLists
<1>7. /\ s \in Seq(AllReads)
      /\ \A y : y \in Range(s) <=> \E coin \in Range(config.coinOrder) :
                                      y \in Range(reads[coin])
  BY <1>6, OverAllIs
<1>8. x \in AllReads
  BY AllReadsAre
<1>9. configureBridge(config) = <<x>> \o s
  BY DEF configureBridge, reads
<1> HIDE DEF s, x
<1>10. <<x>> \in Seq(AllReads) /\ Range(<<x>>) = {x}
  BY <1>8, OneRead
<1>11. <<x>> \o s \in Seq(AllReads) /\ Range(<<x>> \o s) = {x} \union Range(s)
  BY <1>7, <1>10, Joined
<1>12. \A coin \in Coins : one[coin] \in Range(s) /\ two[coin] \in Range(s)
  BY <1>1, <1>5, <1>7
<1> QED
  BY <1>4, <1>9, <1>11, <1>12 DEF x

LEMMA RemoteBridgeReads ==
  ASSUME NEW config, Complete(config), NEW remote \in Remotes
  PROVE  /\ configureBridgeWithRemote(config, remote) \in Seq(AllReads)
         /\ Read("bridge", "setRemoteBridge", remote)
              \in Range(configureBridgeWithRemote(config, remote))
         /\ Read("bridge", "setMinDstGas", remote)
              \in Range(configureBridgeWithRemote(config, remote))
         /\ \A coin \in Coins : Read("bridge", "setRemoteCoin", <<coin, remote>>)
              \in Range(configureBridgeWithRemote(config, remote))
<1> DEFINE one == [coin \in Coins |-> Read("bridge", "setRemoteCoin", <<coin, remote>>)]
           reads == [coin \in Coins |->
                       <<Read("bridge", "setRemoteCoin", <<coin, remote>>)>>]
           s == OverAll(config.coinOrder, reads)
           a == Read("bridge", "setRemoteBridge", remote)
           b == Read("bridge", "setMinDstGas", remote)
<1>1. config.coinOrder \in Seq(Coins) /\ Range(config.coinOrder) = Coins
  BY DEF Complete
<1>2. \A coin \in Coins : one[coin] \in AllReads
  BY AllReadsAre
<1>3. reads = [coin \in Coins |-> <<one[coin]>>]
  OBVIOUS
<1>4. \A coin \in Coins : one[coin] = Read("bridge", "setRemoteCoin", <<coin, remote>>)
  OBVIOUS
<1> HIDE DEF one
<1>5. s \in Seq(AllReads) /\ \A coin \in Coins : one[coin] \in Range(s)
  <2> HIDE DEF reads
  <2> QED
    BY <1>1, <1>2, <1>3, OverSingles
<1>6. a \in AllReads /\ b \in AllReads
  BY AllReadsAre, RemoteReadsAre
<1>7. configureBridgeWithRemote(config, remote) = <<a, b>> \o s
  BY DEF configureBridgeWithRemote
<1> HIDE DEF s, a, b
<1>8. <<a, b>> \in Seq(AllReads)
  BY <1>6
<1>9. a \in Range(<<a, b>>) /\ b \in Range(<<a, b>>)
  BY DEF Range
<1>10. <<a, b>> \o s \in Seq(AllReads)
       /\ Range(<<a, b>> \o s) = Range(<<a, b>>) \union Range(s)
  BY <1>5, <1>8, Joined
<1> QED
  BY <1>4, <1>5, <1>7, <1>9, <1>10 DEF a, b

\* The reads for one remote chain.
ReadsFor(config, remote) ==
  configureLayerzeroWithRemote(remote) \o configureRelayerWithRemote(remote)
  \o configureExecutorWithRemote(remote) \o configureOracleWithRemote(remote)
  \o configureBridgeWithRemote(config, remote)

LEMMA ReadsForAre ==
  ASSUME NEW config, Complete(config), NEW remote \in Remotes
  PROVE  /\ ReadsFor(config, remote) \in Seq(AllReads)
         /\ RemoteReads(remote) \subseteq Range(ReadsFor(config, remote))
         /\ \A coin \in Coins : Read("bridge", "setRemoteCoin", <<coin, remote>>)
                                  \in Range(ReadsFor(config, remote))
<1> DEFINE a == configureLayerzeroWithRemote(remote)
           b == configureRelayerWithRemote(remote)
           c == configureExecutorWithRemote(remote)
           d == configureOracleWithRemote(remote)
           e == configureBridgeWithRemote(config, remote)
<1>1. a \in Seq(AllReads)
  BY LayerzeroReads
<1>2. /\ b \in Seq(AllReads) /\ c \in Seq(AllReads) /\ d \in Seq(AllReads)
      /\ Range(b) = {Read("relayer", "setFeeForRelayer", remote)}
      /\ Range(c) = {Read("executor", "setFeeForExecutor", remote)}
      /\ Range(d) = {Read("oracle", "setFeeForOracle", remote)}
  <2>1. /\ Read("relayer", "setFeeForRelayer", remote) \in AllReads
        /\ Read("executor", "setFeeForExecutor", remote) \in AllReads
        /\ Read("oracle", "setFeeForOracle", remote) \in AllReads
    BY AllReadsAre, RemoteReadsAre
  <2> QED
    BY <2>1, OneRead DEF configureRelayerWithRemote, configureExecutorWithRemote,
       configureOracleWithRemote
<1>3. e \in Seq(AllReads)
  BY RemoteBridgeReads
<1>4. ReadsFor(config, remote) = a \o b \o c \o d \o e
  BY DEF ReadsFor
<1> HIDE DEF a, b, c, d, e
<1>5. a \o b \in Seq(AllReads) /\ Range(a \o b) = Range(a) \union Range(b)
  BY <1>1, <1>2, Joined
<1> DEFINE s == a \o b
<1> HIDE DEF s
<1>6. s \o c \in Seq(AllReads) /\ Range(s \o c) = Range(s) \union Range(c)
  BY <1>2, <1>5, Joined DEF s
<1> DEFINE t == s \o c
<1> HIDE DEF t
<1>7. t \o d \in Seq(AllReads) /\ Range(t \o d) = Range(t) \union Range(d)
  BY <1>2, <1>6, Joined DEF t
<1> DEFINE u == t \o d
<1> HIDE DEF u
<1>8. u \o e \in Seq(AllReads) /\ Range(u \o e) = Range(u) \union Range(e)
  BY <1>3, <1>7, Joined DEF u
<1>9. ReadsFor(config, remote) = u \o e
  BY <1>4 DEF s, t, u
<1>10. Range(ReadsFor(config, remote))
         = Range(a) \union Range(b) \union Range(c) \union Range(d) \union Range(e)
  BY <1>5, <1>6, <1>7, <1>8, <1>9 DEF s, t, u
<1>11. RemoteReads(remote) \subseteq Range(ReadsFor(config, remote))
  BY <1>2, <1>10, LayerzeroReads, RemoteBridgeReads, RemoteReadsAre DEF a, e
<1> QED
  BY <1>8, <1>9, <1>10, <1>11, RemoteBridgeReads DEF e

\* Everything is read, and nothing else.
LEMMA ReadsAre ==
  ASSUME NEW config, Complete(config)
  PROVE  Reads(config) \in Seq(AllReads) /\ Range(Reads(config)) = AllReads
<1> DEFINE reads == [remote \in Remotes |-> ReadsFor(config, remote)]
           a == configureOracle(config)
           b == configureBridge(config)
           c == OverAll(ToNetworks, reads)
<1>1. AreLists(ToNetworks, reads, Remotes, AllReads) /\ Range(ToNetworks) = Remotes
  BY ReadsForAre, WireAllAssumption DEF AreLists
<1>2. \A remote \in Remotes : reads[remote] = ReadsFor(config, remote)
  OBVIOUS
<1>3. Reads(config) = a \o b \o c
  BY DEF Reads, ReadsFor
<1> HIDE DEF reads
<1>4. /\ c \in Seq(AllReads)
      /\ \A x : x \in Range(c) <=> \E remote \in Range(ToNetworks) :
                                      x \in Range(reads[remote])
  BY <1>1, OverAllIs
<1>5. a \in Seq(AllReads) /\ b \in Seq(AllReads)
  BY OracleReads, BridgeReads
<1> HIDE DEF a, b, c
<1>6. a \o b \in Seq(AllReads) /\ Range(a \o b) = Range(a) \union Range(b)
  BY <1>5, Joined
<1> DEFINE s == a \o b
<1> HIDE DEF s
<1>7. s \o c \in Seq(AllReads) /\ Range(s \o c) = Range(s) \union Range(c)
  BY <1>4, <1>6, Joined DEF s
<1>8. /\ Reads(config) \in Seq(AllReads)
      /\ Range(Reads(config)) = Range(a) \union Range(b) \union Range(c)
  BY <1>3, <1>6, <1>7 DEF s
<1>9. \A remote \in Remotes :
        /\ RemoteReads(remote) \subseteq Range(c)
        /\ \A coin \in Coins : Read("bridge", "setRemoteCoin", <<coin, remote>>) \in Range(c)
  BY <1>1, <1>2, <1>4, ReadsForAre
<1>10. ASSUME NEW x \in AllReads PROVE x \in Range(Reads(config))
  <2>1. CASE \E v \in Validators : x = Read("oracle", "setValidatorsForOracle", v)
    BY <1>8, <2>1, OracleReads DEF a
  <2>2. CASE x = Read("oracle", "setThresholdForOracle", Single)
    BY <1>8, <2>2, OracleReads DEF a
  <2>3. CASE x = Read("bridge", "enableCustomAdapterParams", Single)
    BY <1>8, <2>3, BridgeReads DEF b
  <2>4. CASE \E coin \in Coins : \/ x = Read("bridge", "registerCoin", coin)
                                 \/ x = Read("bridge", "setLimiter", coin)
    BY <1>8, <2>4, BridgeReads DEF b
  <2>5. CASE \E key \in Coins \X Remotes : x = Read("bridge", "setRemoteCoin", key)
    <3>1. PICK key \in Coins \X Remotes : x = Read("bridge", "setRemoteCoin", key)
      BY <2>5
    <3>2. key = <<key[1], key[2]>> /\ key[1] \in Coins /\ key[2] \in Remotes
      OBVIOUS
    <3> QED
      BY <1>8, <1>9, <3>1, <3>2
  <2>6. CASE \E remote \in Remotes : x \in RemoteReads(remote)
    BY <1>8, <1>9, <2>6
  <2> QED
    BY <2>1, <2>2, <2>3, <2>4, <2>5, <2>6 DEF AllReads
<1>11. Range(Reads(config)) \subseteq AllReads
  BY <1>8, RangeIn
<1> QED
  BY <1>8, <1>10, <1>11

-----------------------------------------------------------------------------
\* What is planned: the transaction a setting calls for, or none if it is fine.

\* The read d is compared with what the configuration says of its setting:
\* nothing is planned if the setting is fine, and what is meant otherwise.
Right(config, d, slot, key) ==
  /\ About(d) = <<slot, key>> /\ d.account \in Accounts
  /\ slot \in DOMAIN Keys /\ slot # "registered" /\ key \in Keys[slot]
  /\ \/ Diff(d, config) = <<>> /\ Fine(config, <<slot, key>>, chain)
     \/ Diff(d, config) = <<Meant(config, <<slot, key>>)>>
          /\ Storable(Meant(config, <<slot, key>>))

LEMMA RightIf ==
  ASSUME NEW config, NEW a \in Accounts, NEW diff, NEW k, NEW slot, NEW key, NEW v,
         About(Read(a, diff, k)) = <<slot, key>>,
         slot \in DOMAIN Keys, slot # "registered", key \in Keys[slot],
         \/ /\ Diff(Read(a, diff, k), config) = <<>>
            /\ Fine(config, <<slot, key>>, chain)
         \/ /\ Diff(Read(a, diff, k), config) = <<Payload(slot, key, v)>>
            /\ v \in Values[slot] /\ Value(config, slot, key) = v
            /\ slot = "signer_fee" /\ key[1] = "oracle" => v.fee_per_byte = 0
  PROVE  Right(config, Read(a, diff, k), slot, key)
<1>1. Read(a, diff, k).account = a
  BY DEF Read
<1>2. Value(config, slot, key) = v => Meant(config, <<slot, key>>) = Payload(slot, key, v)
  BY DEF Meant
<1>3. v \in Values[slot] /\ (slot = "signer_fee" /\ key[1] = "oracle" => v.fee_per_byte = 0)
        => Storable(Payload(slot, key, v))
  BY DEF Storable, Payload
<1> QED
  BY <1>1, <1>2, <1>3 DEF Right

LEMMA FineIf ==
  ASSUME NEW config, NEW slot, NEW key, AsConfigured(config, slot, key, chain[slot][key])
  PROVE  Fine(config, <<slot, key>>, chain)
BY DEF Fine

\* The settings there are.
LEMMA StoredAt ==
  ASSUME NEW settings, Stored(settings), NEW slot \in DOMAIN Keys, NEW key \in Keys[slot]
  PROVE  /\ \/ settings[slot][key] \in Values[slot]
            \/ slot \in Optional /\ settings[slot][key] = None
         /\ slot = "signer_fee" /\ key[1] = "oracle" /\ settings[slot][key] # None =>
              settings[slot][key].fee_per_byte = 0
         /\ None \notin Values[slot]
BY AptosSettingsAssumption DEF Stored, Storable, Payload

LEMMA RightLayerzero ==
  ASSUME Stored(chain), NEW config, Complete(config), NEW k \in Remotes
  PROVE  /\ Right(config, Read("layerzero", "setChainAddressSize", k),
                  "chain_address_size", k)
         /\ Right(config, Read("layerzero", "setDefaultAppConfig", k),
                  "default_config", k)
         /\ Right(config, Read("layerzero", "setDefaultSendMsgLib", k), "send_version", k)
         /\ Right(config, Read("layerzero", "setDefaultReceiveMsgLib", k),
                  "receive_version", k)
         /\ Right(config, Read("layerzero", "setDefaultExecutor", k),
                  "default_executor", k)
         /\ Right(config, Read("layerzero", "setDefaultAdapterParams", k),
                  "adapter_params", k)
<1>1. "layerzero" \in Accounts
  BY DEF Accounts
<1>2. Right(config, Read("layerzero", "setChainAddressSize", k), "chain_address_size", k)
  <2> DEFINE v == config.addressSize
             t == setChainAddressSize(config, k)
             cur == chain["chain_address_size"][k]
  <2>1. v \in Nat /\ v # 0
    BY DEF Complete
  <2>2. \/ t = <<>> /\ cur = v
        \/ t = <<Payload("chain_address_size", k, v)>>
    BY <2>1 DEF setChainAddressSize, getChainAddressSize,
       setChainAddressSizePayload, Item, Transactions
  <2>3. AsConfigured(config, "chain_address_size", k, cur) <=> cur = v
    BY DEF AsConfigured
  <2>4. /\ Diff(Read("layerzero", "setChainAddressSize", k), config) = t
        /\ About(Read("layerzero", "setChainAddressSize", k)) = <<"chain_address_size", k>>
        /\ Value(config, "chain_address_size", k) = v
    BY DEF Diff, About, Value, Read
  <2> HIDE DEF t, v
  <2>5. t = <<>> => Fine(config, <<"chain_address_size", k>>, chain)
    BY <2>2, <2>3, FineIf
  <2>6. /\ "chain_address_size" \in DOMAIN Keys /\ k \in Keys["chain_address_size"]
        /\ v \in Values["chain_address_size"]
    BY <2>1, KeysAt, ValuesAt
  <2> QED
    BY <1>1, <2>2, <2>4, <2>5, <2>6, RightIf
<1>3. Right(config, Read("layerzero", "setDefaultAppConfig", k), "default_config", k)
  <2> DEFINE v == config.appConfig[k]
             t == setDefaultAppConfig(config, k)
             cur == chain["default_config"][k]
  <2>1. v \in Values["default_config"] /\ v # NoAppConfig
    BY DEF Complete
  <2>2. \/ t = <<>> /\ cur = v
        \/ t = <<Payload("default_config", k, v)>>
    BY <2>1 DEF setDefaultAppConfig, getDefaultAppConfig,
       setDefaultAppConfigPayload, Item, Transactions
  <2>3. AsConfigured(config, "default_config", k, cur) <=> cur = v
    BY DEF AsConfigured
  <2>4. /\ Diff(Read("layerzero", "setDefaultAppConfig", k), config) = t
        /\ About(Read("layerzero", "setDefaultAppConfig", k)) = <<"default_config", k>>
        /\ Value(config, "default_config", k) = v
    BY DEF Diff, About, Value, Read
  <2> HIDE DEF t, v
  <2>5. t = <<>> => Fine(config, <<"default_config", k>>, chain)
    BY <2>2, <2>3, FineIf
  <2>6. /\ "default_config" \in DOMAIN Keys /\ k \in Keys["default_config"]
        /\ v \in Values["default_config"]
    BY <2>1, KeysAt, ValuesAt
  <2> QED
    BY <1>1, <2>2, <2>4, <2>5, <2>6, RightIf
<1>4. Right(config, Read("layerzero", "setDefaultSendMsgLib", k), "send_version", k)
  <2> DEFINE v == config.defaultReceiveVersion
             t == setDefaultSendMsgLib(config, k)
             cur == chain["send_version"][k]
  <2>1. v \in Values["send_version"]
    BY ValuesAt DEF Complete
  <2>2. \/ t = <<>> /\ VersionKept(cur, v)
        \/ t = <<Payload("send_version", k, v)>>
    BY <2>1 DEF setDefaultSendMsgLib, getDefaultSendMsgLib, setDefaultSendMsgLibPayload,
       VersionNeedsChange, VersionKept, Item, Transactions
  <2>3. AsConfigured(config, "send_version", k, cur) <=> VersionKept(cur, v)
    BY DEF AsConfigured
  <2>4. /\ Diff(Read("layerzero", "setDefaultSendMsgLib", k), config) = t
        /\ About(Read("layerzero", "setDefaultSendMsgLib", k)) = <<"send_version", k>>
        /\ Value(config, "send_version", k) = v
    BY DEF Diff, About, Value, Read
  <2> HIDE DEF t, v
  <2>5. t = <<>> => Fine(config, <<"send_version", k>>, chain)
    BY <2>2, <2>3, FineIf
  <2>6. /\ "send_version" \in DOMAIN Keys /\ k \in Keys["send_version"]
        /\ v \in Values["send_version"]
    BY <2>1, KeysAt, ValuesAt
  <2> QED
    BY <1>1, <2>2, <2>4, <2>5, <2>6, RightIf
<1>5. Right(config, Read("layerzero", "setDefaultReceiveMsgLib", k), "receive_version", k)
  <2> DEFINE v == config.defaultReceiveVersion
             t == setDefaultReceiveMsgLib(config, k)
             cur == chain["receive_version"][k]
  <2>1. v \in Values["receive_version"]
    BY ValuesAt DEF Complete
  <2>2. \/ t = <<>> /\ VersionKept(cur, v)
        \/ t = <<Payload("receive_version", k, v)>>
    BY <2>1 DEF setDefaultReceiveMsgLib, getDefaultReceiveMsgLib,
       setDefaultReceiveMsgLibPayload,
       VersionNeedsChange, VersionKept, Item, Transactions
  <2>3. AsConfigured(config, "receive_version", k, cur) <=> VersionKept(cur, v)
    BY DEF AsConfigured
  <2>4. /\ Diff(Read("layerzero", "setDefaultReceiveMsgLib", k), config) = t
        /\ About(Read("layerzero", "setDefaultReceiveMsgLib", k)) = <<"receive_version", k>>
        /\ Value(config, "receive_version", k) = v
    BY DEF Diff, About, Value, Read
  <2> HIDE DEF t, v
  <2>5. t = <<>> => Fine(config, <<"receive_version", k>>, chain)
    BY <2>2, <2>3, FineIf
  <2>6. /\ "receive_version" \in DOMAIN Keys /\ k \in Keys["receive_version"]
        /\ v \in Values["receive_version"]
    BY <2>1, KeysAt, ValuesAt
  <2> QED
    BY <1>1, <2>2, <2>4, <2>5, <2>6, RightIf
<1>6. Right(config, Read("layerzero", "setDefaultExecutor", k), "default_executor", k)
  <2> DEFINE v == [executor |-> config.defaultExecutor.address,
                   version |-> config.defaultExecutor.version]
             t == setDefaultExecutor(config, k)
             cur == chain["default_executor"][k]
  <2>1. v \in Values["default_executor"] /\ v.executor # ""
    BY ValuesAt DEF Complete
  <2>2. \/ t = <<>> /\ cur = v
        \/ t = <<Payload("default_executor", k, v)>>
    <3>1. cur \in [executor : STRING, version : Nat] \/ cur = None
      <4>1. "default_executor" \in DOMAIN Keys /\ k \in Keys["default_executor"]
        BY KeysAt
      <4>2. cur \in Values["default_executor"] \/ cur = None
        BY <4>1, StoredAt
      <4> QED
        BY <4>2, ValuesAt
    <3>2. /\ v.executor = config.defaultExecutor.address
          /\ v.version = config.defaultExecutor.version
      OBVIOUS
    <3>3. t = Transactions(
                \/ Item("default_executor", k,
                        [executor |-> "", version |-> 0]).executor # v.executor
                \/ Item("default_executor", k,
                        [executor |-> "", version |-> 0]).version # v.version,
                Payload("default_executor", k, v))
      BY DEF setDefaultExecutor, getDefaultExecutor, setDefaultExecutorPayload
    <3> HIDE DEF t, v
    <3>4. v \in [executor : STRING, version : Nat]
      BY <2>1, ValuesAt
    <3>5. cur # None /\ cur.executor = v.executor /\ cur.version = v.version => cur = v
      BY <3>1, <3>4
    <3> QED
      BY <2>1, <3>3, <3>5 DEF Item, Transactions
  <2>3. AsConfigured(config, "default_executor", k, cur) <=> cur = v
    BY DEF AsConfigured
  <2>4. /\ Diff(Read("layerzero", "setDefaultExecutor", k), config) = t
        /\ About(Read("layerzero", "setDefaultExecutor", k)) = <<"default_executor", k>>
        /\ Value(config, "default_executor", k) = v
    BY DEF Diff, About, Value, Read
  <2> HIDE DEF t, v
  <2>5. t = <<>> => Fine(config, <<"default_executor", k>>, chain)
    BY <2>2, <2>3, FineIf
  <2>6. /\ "default_executor" \in DOMAIN Keys /\ k \in Keys["default_executor"]
        /\ v \in Values["default_executor"]
    BY <2>1, KeysAt, ValuesAt
  <2> QED
    BY <1>1, <2>2, <2>4, <2>5, <2>6, RightIf
<1>7. Right(config, Read("layerzero", "setDefaultAdapterParams", k), "adapter_params", k)
  <2> DEFINE v == config.uaGas[k]
             t == setDefaultAdapterParams(config, k)
             cur == chain["adapter_params"][k]
  <2>1. v \in Nat /\ v # 0
    BY DEF Complete
  <2>2. \/ t = <<>> /\ cur = v
        \/ t = <<Payload("adapter_params", k, v)>>
    BY <2>1 DEF setDefaultAdapterParams, AdapterParamsDiff, getDefaultAdapterParams,
       setDefaultAdapterParamsPayload, Item, Transactions
  <2>3. AsConfigured(config, "adapter_params", k, cur) <=> cur = v
    BY DEF AsConfigured
  <2>4. /\ Diff(Read("layerzero", "setDefaultAdapterParams", k), config) = t
        /\ About(Read("layerzero", "setDefaultAdapterParams", k)) = <<"adapter_params", k>>
        /\ Value(config, "adapter_params", k) = v
    BY DEF Diff, About, Value, Read
  <2> HIDE DEF t, v
  <2>5. t = <<>> => Fine(config, <<"adapter_params", k>>, chain)
    BY <2>2, <2>3, FineIf
  <2>6. /\ "adapter_params" \in DOMAIN Keys /\ k \in Keys["adapter_params"]
        /\ v \in Values["adapter_params"]
    BY <2>1, KeysAt, ValuesAt
  <2> QED
    BY <1>1, <2>2, <2>4, <2>5, <2>6, RightIf
<1> QED
  BY <1>2, <1>3, <1>4, <1>5, <1>6, <1>7

LEMMA RightRelayer ==
  ASSUME Stored(chain), NEW config, Complete(config), NEW k \in Remotes
  PROVE  Right(config, Read("relayer", "setFeeForRelayer", k),
               "signer_fee", <<"relayer", k>>)
<1>1. "relayer" \in Accounts
  BY DEF Accounts
<1>2. Right(config, Read("relayer", "setFeeForRelayer", k),
            "signer_fee", <<"relayer", k>>)
  <2> DEFINE v == [base_fee |-> config.relayerFee[k].baseFee,
                   fee_per_byte |-> config.relayerFee[k].feePerByte]
             t == setFeeForRelayer(config, k)
             cur == chain["signer_fee"][<<"relayer", k>>]
  <2>1. v \in [base_fee : Nat \ {0}, fee_per_byte : Nat]
    BY DEF Complete
  <2>2. "signer_fee" \in DOMAIN Keys /\ <<"relayer", k>> \in Keys["signer_fee"]
    BY KeysAt DEF Signers
  <2>3. cur \in [base_fee : Nat, fee_per_byte : Nat] \/ cur = None
    <3>1. \/ cur \in Values["signer_fee"]
          \/ "signer_fee" \in Optional /\ cur = None
      BY <2>2, StoredAt
    <3>2. TRUE
      BY <2>2, StoredAt
    <3>3. cur = None \/ cur \in Values["signer_fee"]
      BY <3>1
    <3> HIDE DEF cur
    <3> QED
      BY <3>2, <3>3, ValuesAt
  <2>4. t = Transactions(
              \/ Item("signer_fee", <<"relayer", k>>,
                      [base_fee |-> 0, fee_per_byte |-> 0]).base_fee # v.base_fee
              \/ Item("signer_fee", <<"relayer", k>>,
                      [base_fee |-> 0, fee_per_byte |-> 0]).fee_per_byte # v.fee_per_byte,
              Payload("signer_fee", <<"relayer", k>>, v))
    BY DEF setFeeForRelayer, getSignerFee, setSignerFeePayload
  <2>5. AsConfigured(config, "signer_fee", <<"relayer", k>>, cur) <=> cur = v
    BY DEF AsConfigured
  <2>6. /\ Diff(Read("relayer", "setFeeForRelayer", k), config) = t
        /\ About(Read("relayer", "setFeeForRelayer", k)) = <<"signer_fee", <<"relayer", k>>>>
        /\ Value(config, "signer_fee", <<"relayer", k>>) = v
    BY DEF Diff, About, Value, Read
  <2> HIDE DEF t, v
  <2>7. cur # None /\ cur.base_fee = v.base_fee /\ cur.fee_per_byte = v.fee_per_byte => cur = v
    BY <2>1, <2>3
  <2>8. \/ t = <<>> /\ cur = v
        \/ t = <<Payload("signer_fee", <<"relayer", k>>, v)>>
    BY <2>1, <2>4, <2>7 DEF Item, Transactions
  <2>9. t = <<>> => Fine(config, <<"signer_fee", <<"relayer", k>>>>, chain)
    BY <2>5, <2>8, FineIf
  <2>10. v \in Values["signer_fee"] /\ <<"relayer", k>>[1] # "oracle"
    BY <2>1, ValuesAt
  <2> QED
    BY <1>1, <2>2, <2>6, <2>8, <2>9, <2>10, RightIf
<1> QED
  BY <1>2

LEMMA RightOracleFee ==
  ASSUME Stored(chain), NEW config, Complete(config), NEW k \in Remotes
  PROVE  Right(config, Read("oracle", "setFeeForOracle", k),
               "signer_fee", <<"oracle", k>>)
<1>1. "oracle" \in Accounts
  BY DEF Accounts
<1>2. Right(config, Read("oracle", "setFeeForOracle", k), "signer_fee", <<"oracle", k>>)
  <2> DEFINE v == [base_fee |-> config.oracleFee[k].baseFee, fee_per_byte |-> 0]
             t == setFeeForOracle(config, k)
             cur == chain["signer_fee"][<<"oracle", k>>]
  <2>1. v \in [base_fee : Nat \ {0}, fee_per_byte : {0}] /\ config.oracleFee[k].feePerByte = 0
    BY DEF Complete
  <2>2. "signer_fee" \in DOMAIN Keys /\ <<"oracle", k>> \in Keys["signer_fee"]
    BY KeysAt DEF Signers
  <2>3. cur \in [base_fee : Nat, fee_per_byte : {0}] \/ cur = None
    <3>1. \/ cur \in Values["signer_fee"]
          \/ "signer_fee" \in Optional /\ cur = None
      BY <2>2, StoredAt
    <3>2. cur # None => cur.fee_per_byte = 0
      BY <2>2, StoredAt
    <3>3. cur = None \/ cur \in Values["signer_fee"]
      BY <3>1
    <3> HIDE DEF cur
    <3> QED
      BY <3>2, <3>3, ValuesAt
  <2>4. t = Transactions(
              Item("signer_fee", <<"oracle", k>>,
                   [base_fee |-> 0, fee_per_byte |-> 0]).base_fee # v.base_fee,
              Payload("signer_fee", <<"oracle", k>>, v))
    BY DEF setFeeForOracle, getSignerFee, setOracleFeePayload
  <2>5. AsConfigured(config, "signer_fee", <<"oracle", k>>, cur) <=> cur = v
    BY <2>1 DEF AsConfigured
  <2>6. /\ Diff(Read("oracle", "setFeeForOracle", k), config) = t
        /\ About(Read("oracle", "setFeeForOracle", k)) = <<"signer_fee", <<"oracle", k>>>>
        /\ Value(config, "signer_fee", <<"oracle", k>>) = v
    BY DEF Diff, About, Value, Read
  <2> HIDE DEF t, v
  <2>7. cur # None /\ cur.base_fee = v.base_fee => cur = v
    BY <2>1, <2>3
  <2>8. \/ t = <<>> /\ cur = v
        \/ t = <<Payload("signer_fee", <<"oracle", k>>, v)>>
    BY <2>1, <2>4, <2>7 DEF Item, Transactions
  <2>9. t = <<>> => Fine(config, <<"signer_fee", <<"oracle", k>>>>, chain)
    BY <2>5, <2>8, FineIf
  <2>10. v \in Values["signer_fee"] /\ v.fee_per_byte = 0
    BY <2>1, ValuesAt
  <2> QED
    BY <1>1, <2>2, <2>6, <2>8, <2>9, <2>10, RightIf
<1> QED
  BY <1>2

LEMMA RightExecutor ==
  ASSUME Stored(chain), NEW config, Complete(config), NEW k \in Remotes
  PROVE  Right(config, Read("executor", "setFeeForExecutor", k), "executor_fee", k)
<1>1. "executor" \in Accounts
  BY DEF Accounts
<1>2. Right(config, Read("executor", "setFeeForExecutor", k), "executor_fee", k)
  <2> DEFINE v == config.executorFee[k]
             t == setFeeForExecutor(config, k)
             cur == chain["executor_fee"][k]
  <2>1. v \in [airdropAmtCap : Nat, priceRatio : Nat \ {0}, gasPrice : Nat \ {0}]
    BY DEF Complete
  <2>2. "executor_fee" \in DOMAIN Keys /\ k \in Keys["executor_fee"]
    BY KeysAt DEF Signers
  <2>3. cur \in [airdropAmtCap : Nat, priceRatio : Nat, gasPrice : Nat] \/ cur = None
    <3>1. \/ cur \in Values["executor_fee"]
          \/ "executor_fee" \in Optional /\ cur = None
      BY <2>2, StoredAt
    <3>2. TRUE
      BY <2>2, StoredAt
    <3>3. cur = None \/ cur \in Values["executor_fee"]
      BY <3>1
    <3> HIDE DEF cur
    <3> QED
      BY <3>2, <3>3, ValuesAt
  <2>4. t = Transactions(
              \/ Item("executor_fee", k, [airdropAmtCap |-> 0, priceRatio |-> 0,
                                          gasPrice |-> 0]).airdropAmtCap # v.airdropAmtCap
              \/ Item("executor_fee", k, [airdropAmtCap |-> 0, priceRatio |-> 0,
                                          gasPrice |-> 0]).priceRatio = 0
              \/ Item("executor_fee", k, [airdropAmtCap |-> 0, priceRatio |-> 0,
                                          gasPrice |-> 0]).gasPrice = 0,
              Payload("executor_fee", k, v))
    BY DEF setFeeForExecutor, getExecutorFee, setExecutorFeePayload
  <2>5. AsConfigured(config, "executor_fee", k, cur) <=>
          /\ cur # None /\ cur.priceRatio > 0 /\ cur.gasPrice > 0
          /\ cur.airdropAmtCap = v.airdropAmtCap
    BY DEF AsConfigured
  <2>6. /\ Diff(Read("executor", "setFeeForExecutor", k), config) = t
        /\ About(Read("executor", "setFeeForExecutor", k)) = <<"executor_fee", k>>
        /\ Value(config, "executor_fee", k) = v
    BY DEF Diff, About, Value, Read
  <2> HIDE DEF t, v
  <2>7. \/ /\ t = <<>> /\ cur # None /\ cur.priceRatio # 0 /\ cur.gasPrice # 0
           /\ cur.airdropAmtCap = v.airdropAmtCap
        \/ t = <<Payload("executor_fee", k, v)>>
    BY <2>4 DEF Item, Transactions
  <2>8. t = <<>> => AsConfigured(config, "executor_fee", k, cur)
    BY <2>3, <2>5, <2>7
  <2>9. t = <<>> => Fine(config, <<"executor_fee", k>>, chain)
    BY <2>8, FineIf
  <2>10. v \in Values["executor_fee"]
    BY <2>1, ValuesAt
  <2> QED
    BY <1>1, <2>2, <2>6, <2>7, <2>9, <2>10, RightIf
<1> QED
  BY <1>2

LEMMA RightValidator ==
  ASSUME Stored(chain), NEW config, Complete(config), NEW k \in Validators
  PROVE  Right(config, Read("oracle", "setValidatorsForOracle", k), "validators", k)
<1>1. "oracle" \in Accounts
  BY DEF Accounts
<1>2. Right(config, Read("oracle", "setValidatorsForOracle", k), "validators", k)
  <2> DEFINE v == config.validators[k]
             t == setValidatorsForOracle(config, k)
             cur == chain["validators"][k]
  <2>1. v \in BOOLEAN
    BY DEF Complete
  <2>0. cur \in BOOLEAN
    <3>1. "validators" \in DOMAIN Keys /\ k \in Keys["validators"]
      BY KeysAt
    <3>2. "validators" \in Optional \/ cur \in Values["validators"]
      BY <3>1, StoredAt
    <3> QED
      BY <3>2, ValuesAt DEF Optional
  <2>2. \/ t = <<>> /\ cur = v
        \/ t = <<Payload("validators", k, v)>>
    BY <2>1, <2>0 DEF setValidatorsForOracle, isValidator, is_validator,
       setValidatorPayload, Item, Transactions
  <2>3. AsConfigured(config, "validators", k, cur) <=> cur = v
    BY DEF AsConfigured
  <2>4. /\ Diff(Read("oracle", "setValidatorsForOracle", k), config) = t
        /\ About(Read("oracle", "setValidatorsForOracle", k)) = <<"validators", k>>
        /\ Value(config, "validators", k) = v
    BY DEF Diff, About, Value, Read
  <2> HIDE DEF t, v
  <2>5. t = <<>> => Fine(config, <<"validators", k>>, chain)
    BY <2>2, <2>3, FineIf
  <2>6. /\ "validators" \in DOMAIN Keys /\ k \in Keys["validators"]
        /\ v \in Values["validators"]
    BY <2>1, KeysAt, ValuesAt
  <2> QED
    BY <1>1, <2>2, <2>4, <2>5, <2>6, RightIf
<1> QED
  BY <1>2

LEMMA RightThreshold ==
  ASSUME Stored(chain), NEW config, Complete(config)
  PROVE  Right(config, Read("oracle", "setThresholdForOracle", Single),
               "threshold", Single)
<1>1. "oracle" \in Accounts
  BY DEF Accounts
<1>2. Right(config, Read("oracle", "setThresholdForOracle", Single), "threshold", Single)
  <2> DEFINE v == config.threshold
             t == setThresholdForOracle(config)
             cur == chain["threshold"][Single]
  <2>1. v \in Nat
    BY DEF Complete
  <2>2. \/ t = <<>> /\ cur = v
        \/ t = <<Payload("threshold", Single, v)>>
    BY <2>1 DEF setThresholdForOracle, getThreshold, setThresholdPayload, Item,
       Transactions
  <2>3. AsConfigured(config, "threshold", Single, cur) <=> cur = v
    BY DEF AsConfigured
  <2>4. /\ Diff(Read("oracle", "setThresholdForOracle", Single), config) = t
        /\ About(Read("oracle", "setThresholdForOracle", Single)) = <<"threshold", Single>>
        /\ Value(config, "threshold", Single) = v
    BY DEF Diff, About, Value, Read
  <2> HIDE DEF t, v
  <2>5. t = <<>> => Fine(config, <<"threshold", Single>>, chain)
    BY <2>2, <2>3, FineIf
  <2>6. /\ "threshold" \in DOMAIN Keys /\ Single \in Keys["threshold"]
        /\ v \in Values["threshold"]
    BY <2>1, KeysAt, ValuesAt
  <2> QED
    BY <1>1, <2>2, <2>4, <2>5, <2>6, RightIf
<1> QED
  BY <1>2

LEMMA RightAdapterParams ==
  ASSUME Stored(chain), NEW config, Complete(config)
  PROVE  Right(config, Read("bridge", "enableCustomAdapterParams", Single),
               "custom_adapter_params", Single)
<1>1. "bridge" \in Accounts
  BY DEF Accounts
<1>2. Right(config, Read("bridge", "enableCustomAdapterParams", Single),
            "custom_adapter_params", Single)
  <2> DEFINE v == config.enableCustomAdapterParams
             t == enableCustomAdapterParams(config)
             cur == chain["custom_adapter_params"][Single]
  <2>1. v \in BOOLEAN
    BY DEF Complete
  <2>2. \/ t = <<>> /\ cur = v
        \/ t = <<Payload("custom_adapter_params", Single, v)>>
    BY <2>1 DEF enableCustomAdapterParams, customAdapterParamsEnabled,
       enableCustomAdapterParamsPayload, Item, Transactions
  <2>3. AsConfigured(config, "custom_adapter_params", Single, cur) <=> cur = v
    BY DEF AsConfigured
  <2>4. /\ Diff(Read("bridge", "enableCustomAdapterParams", Single), config) = t
        /\ About(Read("bridge", "enableCustomAdapterParams", Single)) = <<"custom_adapter_params", Single>>
        /\ Value(config, "custom_adapter_params", Single) = v
    BY DEF Diff, About, Value, Read
  <2> HIDE DEF t, v
  <2>5. t = <<>> => Fine(config, <<"custom_adapter_params", Single>>, chain)
    BY <2>2, <2>3, FineIf
  <2>6. /\ "custom_adapter_params" \in DOMAIN Keys /\ Single \in Keys["custom_adapter_params"]
        /\ v \in Values["custom_adapter_params"]
    BY <2>1, KeysAt, ValuesAt
  <2> QED
    BY <1>1, <2>2, <2>4, <2>5, <2>6, RightIf
<1> QED
  BY <1>2

LEMMA RightRemoteBridge ==
  ASSUME Stored(chain), NEW config, Complete(config), NEW k \in Remotes
  PROVE  /\ Right(config, Read("bridge", "setRemoteBridge", k), "remote_bridge", k)
         /\ Right(config, Read("bridge", "setMinDstGas", k), "min_dst_gas", k)
<1>1. "bridge" \in Accounts
  BY DEF Accounts
<1>2. Right(config, Read("bridge", "setRemoteBridge", k), "remote_bridge", k)
  <2> DEFINE v == config.remoteBridge[k]
             t == setRemoteBridge(config, k)
             cur == chain["remote_bridge"][k]
  <2>1. v \in STRING /\ v # "0x"
    BY DEF Complete
  <2>2. \/ t = <<>> /\ cur = v
        \/ t = <<Payload("remote_bridge", k, v)>>
    BY <2>1 DEF setRemoteBridge, getRemoteBridge, setRemoteBridgePayload, Item,
       Transactions
  <2>3. AsConfigured(config, "remote_bridge", k, cur) <=> cur = v
    BY DEF AsConfigured
  <2>4. /\ Diff(Read("bridge", "setRemoteBridge", k), config) = t
        /\ About(Read("bridge", "setRemoteBridge", k)) = <<"remote_bridge", k>>
        /\ Value(config, "remote_bridge", k) = v
    BY DEF Diff, About, Value, Read
  <2> HIDE DEF t, v
  <2>5. t = <<>> => Fine(config, <<"remote_bridge", k>>, chain)
    BY <2>2, <2>3, FineIf
  <2>6. /\ "remote_bridge" \in DOMAIN Keys /\ k \in Keys["remote_bridge"]
        /\ v \in Values["remote_bridge"]
    BY <2>1, KeysAt, ValuesAt
  <2> QED
    BY <1>1, <2>2, <2>4, <2>5, <2>6, RightIf
<1>3. Right(config, Read("bridge", "setMinDstGas", k), "min_dst_gas", k)
  <2> DEFINE v == config.minDstGas[k]
             t == setMinDstGas(config, k)
             cur == chain["min_dst_gas"][k]
  <2>1. v \in Nat /\ v # 0
    BY DEF Complete
  <2>2. \/ t = <<>> /\ cur = v
        \/ t = <<Payload("min_dst_gas", k, v)>>
    BY <2>1 DEF setMinDstGas, getMinDstGas, setMinDstGasPayload, Item, Transactions
  <2>3. AsConfigured(config, "min_dst_gas", k, cur) <=> cur = v
    BY DEF AsConfigured
  <2>4. /\ Diff(Read("bridge", "setMinDstGas", k), config) = t
        /\ About(Read("bridge", "setMinDstGas", k)) = <<"min_dst_gas", k>>
        /\ Value(config, "min_dst_gas", k) = v
    BY DEF Diff, About, Value, Read
  <2> HIDE DEF t, v
  <2>5. t = <<>> => Fine(config, <<"min_dst_gas", k>>, chain)
    BY <2>2, <2>3, FineIf
  <2>6. /\ "min_dst_gas" \in DOMAIN Keys /\ k \in Keys["min_dst_gas"]
        /\ v \in Values["min_dst_gas"]
    BY <2>1, KeysAt, ValuesAt
  <2> QED
    BY <1>1, <2>2, <2>4, <2>5, <2>6, RightIf
<1> QED
  BY <1>2, <1>3

LEMMA RightCoin ==
  ASSUME Stored(chain), NEW config, Complete(config), NEW k \in Coins
  PROVE  /\ Right(config, Read("bridge", "registerCoin", k), "coin_store", k)
         /\ Right(config, Read("bridge", "setLimiter", k), "limiter", k)
<1>1. "bridge" \in Accounts
  BY DEF Accounts
<1>2. Right(config, Read("bridge", "registerCoin", k), "coin_store", k)
  <2> DEFINE v == config.coins[k].limiter.cap
             t == registerCoin(config, k)
             cur == chain["coin_store"][k]
  <2>1. v \in Nat
    <3>1. config.coins[k].limiter \in Values["limiter"]
      BY DEF Complete
    <3> QED
      BY <3>1, ValuesAt
  <2>2. \/ t = <<>> /\ cur # None
        \/ t = <<Payload("coin_store", k, v)>>
    BY <2>1 DEF registerCoin, hasCoinRegistered, registerCoinPayload, Item, Transactions
  <2>3. AsConfigured(config, "coin_store", k, cur) <=> cur # None
    BY DEF AsConfigured
  <2>4. /\ Diff(Read("bridge", "registerCoin", k), config) = t
        /\ About(Read("bridge", "registerCoin", k)) = <<"coin_store", k>>
        /\ Value(config, "coin_store", k) = v
    BY DEF Diff, About, Value, Read
  <2> HIDE DEF t, v
  <2>5. t = <<>> => Fine(config, <<"coin_store", k>>, chain)
    BY <2>2, <2>3, FineIf
  <2>6. /\ "coin_store" \in DOMAIN Keys /\ k \in Keys["coin_store"]
        /\ v \in Values["coin_store"]
    BY <2>1, KeysAt, ValuesAt
  <2> QED
    BY <1>1, <2>2, <2>4, <2>5, <2>6, RightIf
<1>3. Right(config, Read("bridge", "setLimiter", k), "limiter", k)
  <2> DEFINE v == config.coins[k].limiter
             t == setLimiter(config, k)
             cur == chain["limiter"][k]
  <2>1. v \in Values["limiter"]
    BY DEF Complete
  <2>2. \/ t = <<>> /\ (cur = v \/ (cur = None /\ v = DefaultLimiter))
        \/ t = <<Payload("limiter", k, v)>>
    BY <2>1 DEF setLimiter, getLimitCap, setLimiterCapPayload, Item, Transactions
  <2>3. AsConfigured(config, "limiter", k, cur) <=> cur = v
    BY DEF AsConfigured
  <2>4. /\ Diff(Read("bridge", "setLimiter", k), config) = t
        /\ About(Read("bridge", "setLimiter", k)) = <<"limiter", k>>
        /\ Value(config, "limiter", k) = v
    BY DEF Diff, About, Value, Read
  <2> HIDE DEF t, v
  <2>5. t = <<>> => Fine(config, <<"limiter", k>>, chain)
    <3>1. CASE cur = v
      BY <2>3, <3>1, FineIf
    <3>2. CASE cur = None /\ v = DefaultLimiter
      BY <3>2 DEF Fine, Stored, v
    <3> QED
      BY <2>2, <3>1, <3>2
  <2>6. "limiter" \in DOMAIN Keys /\ k \in Keys["limiter"] /\ v \in Values["limiter"]
    BY <2>1, KeysAt, ValuesAt
  <2> QED
    BY <1>1, <2>2, <2>4, <2>5, <2>6, RightIf
<1> QED
  BY <1>2, <1>3

LEMMA RightRemoteCoin ==
  ASSUME Stored(chain), NEW config, Complete(config), NEW coin \in Coins, NEW remote \in Remotes
  PROVE  Right(config, Read("bridge", "setRemoteCoin", <<coin, remote>>),
               "remote_coin", <<coin, remote>>)
<1>1. "bridge" \in Accounts
  BY DEF Accounts
<1>2. Right(config, Read("bridge", "setRemoteCoin", <<coin, remote>>),
            "remote_coin", <<coin, remote>>)
  <2> DEFINE v == config.coins[coin].remotes[remote]
             t == setRemoteCoin(config, coin, remote)
             cur == chain["remote_coin"][<<coin, remote>>]
  <2>1. v \in STRING \union {None}
    BY DEF Complete
  <2>2. \/ t = <<>> /\ (cur # None \/ v = None)
        \/ t = <<Payload("remote_coin", <<coin, remote>>, v)>> /\ v # None
    BY <2>1 DEF setRemoteCoin, hasRemoteCoin, setRemoteCoinPayload, Item, Transactions
  <2>3. AsConfigured(config, "remote_coin", <<coin, remote>>, cur) <=> (cur # None \/ v = None)
    BY DEF AsConfigured
  <2>4. /\ Diff(Read("bridge", "setRemoteCoin", <<coin, remote>>), config) = t
        /\ About(Read("bridge", "setRemoteCoin", <<coin, remote>>)) = <<"remote_coin", <<coin, remote>>>>
        /\ Value(config, "remote_coin", <<coin, remote>>) = v
    BY DEF Diff, About, Value, Read
  <2> HIDE DEF t, v
  <2>5. t = <<>> => Fine(config, <<"remote_coin", <<coin, remote>>>>, chain)
    BY <2>2, <2>3, FineIf
  <2>6. /\ "remote_coin" \in DOMAIN Keys /\ <<coin, remote>> \in Keys["remote_coin"]
        /\ (v # None => v \in Values["remote_coin"])
    BY <2>1, KeysAt, ValuesAt
  <2> QED
    BY <1>1, <2>2, <2>4, <2>5, <2>6, RightIf
<1> QED
  BY <1>2

LEMMA DiffIs ==
  ASSUME Stored(chain), NEW config, Complete(config), NEW d \in AllReads
  PROVE  \E slot, key : Right(config, d, slot, key)
<1>1. CASE \E v \in Validators : d = Read("oracle", "setValidatorsForOracle", v)
  BY <1>1, RightValidator
<1>2. CASE \/ d = Read("oracle", "setThresholdForOracle", Single)
           \/ d = Read("bridge", "enableCustomAdapterParams", Single)
  BY <1>2, RightThreshold, RightAdapterParams
<1>3. CASE \E coin \in Coins : \/ d = Read("bridge", "registerCoin", coin)
                               \/ d = Read("bridge", "setLimiter", coin)
  BY <1>3, RightCoin
<1>4. CASE \E key \in Coins \X Remotes : d = Read("bridge", "setRemoteCoin", key)
  <2>1. PICK key \in Coins \X Remotes : d = Read("bridge", "setRemoteCoin", key)
    BY <1>4
  <2>2. key = <<key[1], key[2]>> /\ key[1] \in Coins /\ key[2] \in Remotes
    OBVIOUS
  <2>3. Right(config, Read("bridge", "setRemoteCoin", <<key[1], key[2]>>),
              "remote_coin", <<key[1], key[2]>>)
    BY <2>2, RightRemoteCoin
  <2> QED
    BY <2>1, <2>2, <2>3
<1>5. CASE \E remote \in Remotes : d \in RemoteReads(remote)
  BY <1>5, RemoteReadsAre, RightLayerzero, RightRelayer, RightExecutor, RightOracleFee,
     RightRemoteBridge
<1> QED
  BY <1>1, <1>2, <1>3, <1>4, <1>5 DEF AllReads

\* The settings that are planned for.
Setting(s) ==
  /\ s = <<s[1], s[2]>>
  /\ s[1] \in DOMAIN Keys /\ s[1] # "registered" /\ s[2] \in Keys[s[1]]

\* What is planned for a setting, by the reads.
LEMMA PlanIs ==
  ASSUME Stored(chain), NEW config, Complete(config), NEW d \in AllReads
  PROVE  /\ d.account \in Accounts /\ Setting(About(d))
         /\ Diff(d, config) \in Seq(Planned(config))
         /\ \/ Fine(config, About(d), chain)
            \/ Meant(config, About(d)) \in Range(Diff(d, config))
<1>1. PICK slot, key : Right(config, d, slot, key)
  BY DiffIs
<1> DEFINE s == About(d)
           m == Meant(config, s)
<1>2. /\ s = <<slot, key>> /\ d.account \in Accounts
      /\ slot \in DOMAIN Keys /\ slot # "registered" /\ key \in Keys[slot]
      /\ \/ Diff(d, config) = <<>> /\ Fine(config, s, chain)
         \/ Diff(d, config) = <<m>> /\ Storable(m)
  BY <1>1 DEF Right
<1>3. Storable(m) => m \in Planned(config)
  BY DEF Planned
<1> HIDE DEF s, m
<1>4. Setting(s)
  BY <1>2 DEF Setting
<1>5. CASE Diff(d, config) = <<>> /\ Fine(config, s, chain)
  <2>1. <<>> \in Seq(Planned(config))
    OBVIOUS
  <2> QED
    BY <1>2, <1>4, <1>5, <2>1 DEF s
<1>6. CASE Diff(d, config) = <<m>> /\ Storable(m)
  <2>1. <<m>> \in Seq(Planned(config)) /\ Range(<<m>>) = {m}
    BY <1>3, <1>6, RangeOfOne
  <2> QED
    BY <1>2, <1>4, <1>6, <2>1 DEF s, m
<1> QED
  BY <1>2, <1>5, <1>6

\* So it is when the default adapter parameters are not read: what is meant is
\* planned, whatever the chain has.
LEMMA UnreadIs ==
  ASSUME Stored(chain), NEW config, Complete(config), NEW d \in AllReads,
         d.diff = "setDefaultAdapterParams"
  PROVE  LET diff == AdapterParamsDiff(config, d.key, 0)
         IN  /\ d.account \in Accounts
             /\ diff \in Seq(Planned(config))
             /\ Meant(config, About(d)) \in Range(diff)
<1> DEFINE diff == AdapterParamsDiff(config, d.key, 0)
           m == Meant(config, About(d))
<1>1. PICK k \in Remotes : d = Read("layerzero", "setDefaultAdapterParams", k)
  <2>1. ASSUME NEW remote \in Remotes, d \in RemoteReads(remote)
        PROVE  d = Read("layerzero", "setDefaultAdapterParams", remote)
    BY <2>1, RemoteReadsAre DEF Read
  <2>2. \A remote \in Remotes : d \in RemoteReads(remote) =>
          d = Read("layerzero", "setDefaultAdapterParams", remote)
    BY <2>1
  <2>3. \E remote \in Remotes : d \in RemoteReads(remote)
    BY DEF AllReads, Read
  <2> QED
    BY <2>2, <2>3
<1>2. config.uaGas[k] \in Nat /\ config.uaGas[k] # 0
  BY DEF Complete
<1>3. d.account = "layerzero" /\ d.key = k /\ About(d) = <<"adapter_params", k>>
  BY <1>1 DEF Read, About
<1>4. m = Payload("adapter_params", k, config.uaGas[k])
  BY <1>3 DEF Meant, Value
<1>5. diff = <<m>>
  BY <1>2, <1>3, <1>4 DEF AdapterParamsDiff, Transactions,
     setDefaultAdapterParamsPayload
<1>6. Storable(m)
  BY <1>2, <1>4, KeysAt, ValuesAt DEF Storable, Payload
<1>7. m \in Planned(config)
  BY <1>6 DEF Planned
<1> HIDE DEF diff, m
<1>8. <<m>> \in Seq(Planned(config)) /\ Range(<<m>>) = {m}
  BY <1>7, RangeOfOne
<1> QED
  BY <1>3, <1>5, <1>8 DEF diff, m, Accounts

-----------------------------------------------------------------------------
\* What is sent: the settings after it.

\* A function of the keys of every slot, and one with another value at a key.
Table(f) == f = [slot \in DOMAIN Keys |-> [key \in Keys[slot] |-> f[slot][key]]]

Put(g, f, s, k, v) == g = [f EXCEPT ![s][k] = v]

LEMMA TableSet ==
  ASSUME NEW f, Table(f), NEW s \in DOMAIN Keys, NEW k \in Keys[s], NEW v,
         NEW g, Put(g, f, s, k, v)
  PROVE  /\ Table(g)
         /\ g[s][k] = v
         /\ \A slot \in DOMAIN Keys : \A key \in Keys[slot] :
              slot # s \/ key # k => g[slot][key] = f[slot][key]
<1>1. DOMAIN f = DOMAIN Keys /\ \A slot \in DOMAIN Keys :
        f[slot] = [key \in Keys[slot] |-> f[slot][key]]
  BY DEF Table
<1>2. g = [slot \in DOMAIN Keys |-> IF slot = s THEN [f[s] EXCEPT ![k] = v] ELSE f[slot]]
  BY <1>1 DEF Put
<1>3. g[s] = [key \in Keys[s] |-> IF key = k THEN v ELSE f[s][key]]
  BY <1>1, <1>2
<1>4. \A slot \in DOMAIN Keys : slot # s => g[slot] = f[slot]
  BY <1>2
<1>5. \A slot \in DOMAIN Keys : g[slot] = [key \in Keys[slot] |-> g[slot][key]]
  BY <1>1, <1>3, <1>4
<1>6. Table(g)
  BY <1>2, <1>5 DEF Table
<1> QED
  BY <1>3, <1>4, <1>6

\* A transaction changes one setting, and with a coin its limiter.
Changed(p, slot, key) ==
  IF slot = p.slot /\ key = p.key THEN p.value
  ELSE IF p.slot = "coin_store" /\ slot = "limiter" /\ key = p.key
    THEN [DefaultLimiter EXCEPT !.cap = p.value]
  ELSE chain[slot][key]

LEMMA ExecutedIs ==
  ASSUME Stored(chain), NEW p, Storable(p)
  PROVE  /\ Table(Executed(p))
         /\ \A slot \in DOMAIN Keys : \A key \in Keys[slot] :
              Executed(p)[slot][key] = Changed(p, slot, key)
<1>1. Table(chain)
  BY DEF Stored, Table
<1> DEFINE set == [chain EXCEPT ![p.slot][p.key] = p.value]
           cap == [DefaultLimiter EXCEPT !.cap = p.value]
           both == [set EXCEPT !["limiter"][p.key] = cap]
<1>2. p.slot \in DOMAIN Keys /\ p.key \in Keys[p.slot]
  BY DEF Storable
<1>3. Executed(p) = IF p.slot = "coin_store" THEN both ELSE set
  BY DEF Executed
<1> HIDE DEF cap
<1>4. /\ Table(set) /\ set[p.slot][p.key] = p.value
      /\ \A slot \in DOMAIN Keys : \A key \in Keys[slot] :
           slot # p.slot \/ key # p.key => set[slot][key] = chain[slot][key]
  <2> DEFINE s == p.slot
             k == p.key
             v == p.value
             g == set
  <2>1. s \in DOMAIN Keys /\ k \in Keys[s] /\ Put(g, chain, s, k, v)
    BY <1>2 DEF Put
  <2> HIDE DEF s, k, v, g
  <2>2. /\ Table(g) /\ g[s][k] = v
        /\ \A slot \in DOMAIN Keys : \A key \in Keys[slot] :
             slot # s \/ key # k => g[slot][key] = chain[slot][key]
    BY <1>1, <2>1, TableSet
  <2> QED
    BY <2>2 DEF s, k, v, g
<1> HIDE DEF set
<1>5. CASE p.slot # "coin_store"
  BY <1>3, <1>4, <1>5 DEF Changed
<1>6. CASE p.slot = "coin_store"
  <2> DEFINE g == both
             s == "limiter"
             k == p.key
  <2>1. s \in DOMAIN Keys /\ k \in Keys[s] /\ Put(g, set, s, k, cap)
        /\ s # p.slot
    BY <1>2, <1>6, KeysAt DEF Put
  <2>2. Executed(p) = g
    BY <1>3, <1>6
  <2> HIDE DEF s, k, g
  <2>3. /\ Table(g) /\ g[s][k] = cap
        /\ \A slot \in DOMAIN Keys : \A key \in Keys[slot] :
             slot # s \/ key # k => g[slot][key] = set[slot][key]
    BY <1>4, <2>1, TableSet
  <2>4. ASSUME NEW slot \in DOMAIN Keys, NEW key \in Keys[slot]
        PROVE  g[slot][key] = Changed(p, slot, key)
    BY <1>4, <1>6, <2>1, <2>3 DEF Changed, s, k, cap
  <2> QED
    BY <2>2, <2>3, <2>4
<1> QED
  BY <1>5, <1>6

\* A coin is registered once, and its limiter is set after that.
LEMMA ExecutableIs ==
  ASSUME NEW p, Executable(p)
  PROVE  /\ p.slot = "coin_store" => chain.coin_store[p.key] = None
         /\ p.slot = "limiter" => chain.coin_store[p.key] # None
BY DEF Executable, register_coin, set_limiter_cap

LEMMA LimiterIs ==
  ASSUME NEW cap \in Values["coin_store"]
  PROVE  [DefaultLimiter EXCEPT !.cap = cap] \in Values["limiter"]
BY AptosSettingsAssumption, ValuesAt

LEMMA StoredAfter ==
  ASSUME Stored(chain), NEW p, Storable(p), Executable(p)
  PROVE  Stored(Executed(p))
<1> DEFINE after == Executed(p)
<1>1. /\ Table(after)
      /\ \A slot \in DOMAIN Keys : \A key \in Keys[slot] :
           after[slot][key] = Changed(p, slot, key)
  BY ExecutedIs
<1> HIDE DEF after
<1>2. /\ p.slot \in DOMAIN Keys /\ p.key \in Keys[p.slot] /\ p.value \in Values[p.slot]
      /\ p.slot = "signer_fee" /\ p.key[1] = "oracle" => p.value.fee_per_byte = 0
  BY DEF Storable
<1>3. \A slot \in DOMAIN Keys : None \notin Values[slot]
  BY AptosSettingsAssumption
<1>4. p.slot = "coin_store" => [DefaultLimiter EXCEPT !.cap = p.value] \in Values["limiter"]
  BY <1>2, LimiterIs
<1>5. ASSUME NEW slot \in DOMAIN Keys, NEW key \in Keys[slot]
      PROVE  \/ Storable(Payload(slot, key, after[slot][key]))
             \/ slot \in Optional /\ after[slot][key] = None
  <2>1. CASE slot = p.slot /\ key = p.key
    <3>1. after[slot][key] = p.value
      BY <1>1, <2>1 DEF Changed
    <3> QED
      BY <1>2, <2>1, <3>1 DEF Storable, Payload
  <2>2. CASE p.slot = "coin_store" /\ slot = "limiter" /\ key = p.key
    <3>1. after[slot][key] = [DefaultLimiter EXCEPT !.cap = p.value]
      BY <1>1, <2>2 DEF Changed
    <3> DEFINE v == after[slot][key]
    <3>2. v \in Values[slot]
      BY <1>4, <2>2, <3>1
    <3> HIDE DEF v
    <3>3. Storable(Payload(slot, key, v))
      BY <2>2, <3>2 DEF Storable, Payload
    <3> QED
      BY <3>3 DEF v
  <2>3. CASE after[slot][key] = chain[slot][key]
    BY <2>3 DEF Stored
  <2> QED
    BY <1>1, <2>1, <2>2, <2>3 DEF Changed
<1>6. ASSUME NEW coin \in Coins
      PROVE  (after.limiter[coin] = None) <=> (after.coin_store[coin] = None)
  <2>1. /\ "limiter" \in DOMAIN Keys /\ coin \in Keys["limiter"]
        /\ "coin_store" \in DOMAIN Keys /\ coin \in Keys["coin_store"]
    BY KeysAt
  <2>2. /\ after.limiter[coin] = Changed(p, "limiter", coin)
        /\ after.coin_store[coin] = Changed(p, "coin_store", coin)
    BY <1>1, <2>1
  <2>3. (chain.limiter[coin] = None) <=> (chain.coin_store[coin] = None)
    BY DEF Stored
  <2> DEFINE new == [DefaultLimiter EXCEPT !.cap = p.value]
  <2>4. p.slot = "coin_store" => new # None
    BY <1>3, <1>4, KeysAt
  <2>5. /\ Changed(p, "limiter", coin) =
             IF p.slot = "limiter" /\ coin = p.key THEN p.value
             ELSE IF p.slot = "coin_store" /\ coin = p.key THEN new
             ELSE chain.limiter[coin]
        /\ Changed(p, "coin_store", coin) =
             IF p.slot = "coin_store" /\ coin = p.key THEN p.value
             ELSE chain.coin_store[coin]
    BY DEF Changed
  <2> HIDE DEF new
  <2> QED
    BY <1>2, <1>3, <2>2, <2>3, <2>4, <2>5, ExecutableIs
<1> QED
  BY <1>1, <1>5, <1>6 DEF Stored, Table, after

\* What is meant for a setting is as configured.
LEMMA Meets ==
  ASSUME NEW config, Complete(config), NEW s, Setting(s), Storable(Meant(config, s))
  PROVE  AsConfigured(config, s[1], s[2], Value(config, s[1], s[2]))
<1> DEFINE slot == s[1]
           key == s[2]
           v == Value(config, slot, key)
<1>1. slot \in DOMAIN Keys /\ slot # "registered" /\ key \in Keys[slot]
  BY DEF Setting
<1>2. v \in Values[slot] /\ v # None
  BY AptosSettingsAssumption DEF Meant, Storable, Payload
<1>3. CASE slot \in {"send_version", "receive_version"}
  <2>1. v = config.defaultReceiveVersion
    BY <1>3 DEF Value
  <2> QED
    BY <1>2, <1>3, <2>1 DEF AsConfigured, VersionKept
<1>4. CASE slot = "executor_fee"
  <2>1. v = config.executorFee[key] /\ key \in Remotes
    BY <1>1, <1>4, KeysAt DEF Value
  <2>2. config.executorFee[key] \in
          [airdropAmtCap : Nat, priceRatio : Nat \ {0}, gasPrice : Nat \ {0}]
    BY <2>1 DEF Complete
  <2>3. config.executorFee[key].priceRatio > 0 /\ config.executorFee[key].gasPrice > 0
    BY <2>2
  <2> QED
    BY <1>2, <1>4, <2>1, <2>3 DEF AsConfigured
<1>5. CASE slot = "signer_fee"
  <2>1. key[2] \in Remotes
    BY <1>1, <1>5, KeysAt
  <2>2. config.oracleFee[key[2]].feePerByte = 0
    BY <2>1 DEF Complete
  <2> QED
    BY <1>5, <2>2 DEF AsConfigured, Value
<1>6. CASE slot = "coin_store"
  BY <1>2, <1>6 DEF AsConfigured
<1>7. CASE slot = "remote_coin"
  BY <1>2, <1>7 DEF AsConfigured
<1>8. CASE slot \in {"chain_address_size", "default_config", "default_executor",
                     "adapter_params", "validators", "threshold",
                     "custom_adapter_params", "limiter", "remote_bridge", "min_dst_gas"}
  BY <1>8 DEF AsConfigured, Value
<1> QED
  BY <1>1, <1>3, <1>4, <1>5, <1>6, <1>7, <1>8 DEF Keys

\* What is planned by one that has the configuration undoes nothing.
LEMMA ConfiguredKept ==
  ASSUME Stored(chain), NEW config, Complete(config), NEW t, Setting(t),
         NEW p, p = Meant(config, t), Storable(p), Executable(p), NEW s, Setting(s),
         AsConfigured(config, s[1], s[2], chain[s[1]][s[2]])
  PROVE  AsConfigured(config, s[1], s[2], Executed(p)[s[1]][s[2]])
<1>1. s[1] \in DOMAIN Keys /\ s[2] \in Keys[s[1]]
  BY DEF Setting
<1>2. p.slot = t[1] /\ p.key = t[2] /\ p.value = Value(config, t[1], t[2])
  BY DEF Meant, Payload
<1>3. Executed(p)[s[1]][s[2]] = Changed(p, s[1], s[2])
  BY <1>1, ExecutedIs
<1>4. CASE s[1] = p.slot /\ s[2] = p.key
  BY <1>2, <1>3, <1>4, Meets DEF Changed
<1>5. CASE p.slot = "coin_store" /\ s[1] = "limiter" /\ s[2] = p.key
  <2>1. chain.coin_store[p.key] = None /\ s[2] \in Coins
    BY <1>1, <1>5, ExecutableIs, KeysAt
  <2>2. chain.limiter[s[2]] = None
    BY <1>5, <2>1 DEF Stored
  <2>3. config.coins[s[2]].limiter = None
    BY <1>5, <2>2 DEF AsConfigured
  <2>4. config.coins[s[2]].limiter \in Values["limiter"]
    BY <2>1 DEF Complete
  <2> QED
    BY <2>3, <2>4, AptosSettingsAssumption, KeysAt
<1>6. CASE Changed(p, s[1], s[2]) = chain[s[1]][s[2]]
  BY <1>3, <1>6
<1> QED
  BY <1>4, <1>5, <1>6 DEF Changed

LEMMA FineKept ==
  ASSUME Stored(chain), NEW config, Complete(config), NEW t, Setting(t),
         NEW p, p = Meant(config, t), Storable(p), Executable(p), NEW s, Setting(s),
         Fine(config, s, chain) \/ p = Meant(config, s)
  PROVE  Fine(config, s, Executed(p))
<1>1. s[1] \in DOMAIN Keys /\ s[2] \in Keys[s[1]]
  BY DEF Setting
<1>2. p.slot = t[1] /\ p.key = t[2] /\ p.value = Value(config, t[1], t[2])
  BY DEF Meant, Payload
<1>3. Executed(p)[s[1]][s[2]] = Changed(p, s[1], s[2])
  BY <1>1, ExecutedIs
<1>4. CASE AsConfigured(config, s[1], s[2], chain[s[1]][s[2]])
  BY <1>4, ConfiguredKept DEF Fine
<1>5. CASE p = Meant(config, s)
  <2>1. p.slot = s[1] /\ p.key = s[2] /\ p.value = Value(config, s[1], s[2])
    BY <1>5 DEF Meant, Payload
  <2>2. AsConfigured(config, s[1], s[2], Value(config, s[1], s[2]))
    BY <1>5, Meets
  <2>3. Changed(p, s[1], s[2]) = Value(config, s[1], s[2])
    BY <2>1 DEF Changed
  <2> QED
    BY <1>3, <2>2, <2>3 DEF Fine
<1>6. CASE /\ s[1] = "limiter" /\ chain.coin_store[s[2]] = None
           /\ config.coins[s[2]].limiter = DefaultLimiter
  <2>1. s[2] \in Coins /\ "coin_store" \in DOMAIN Keys /\ s[2] \in Keys["coin_store"]
    BY <1>1, <1>6, KeysAt
  <2>2. Executed(p).coin_store[s[2]] = Changed(p, "coin_store", s[2])
    BY <2>1, ExecutedIs
  <2>3. CASE p.slot = "coin_store" /\ p.key = s[2]
    <3>1. p.value = DefaultLimiter.cap
      BY <1>2, <1>6, <2>3 DEF Value
    <3>2. [DefaultLimiter EXCEPT !.cap = p.value] = DefaultLimiter
      BY <3>1, AptosSettingsAssumption, ValuesAt
    <3>3. Executed(p)[s[1]][s[2]] = config.coins[s[2]].limiter
      BY <1>3, <1>6, <2>3, <3>2 DEF Changed
    <3> QED
      BY <1>6, <3>3 DEF Fine, AsConfigured
  <2>4. CASE ~(p.slot = "coin_store" /\ p.key = s[2])
    <3>1. Executed(p).coin_store[s[2]] = None
      BY <1>6, <2>2, <2>4 DEF Changed
    <3> QED
      BY <1>6, <3>1 DEF Fine
  <2> QED
    BY <2>3, <2>4
<1> QED
  BY <1>4, <1>5, <1>6 DEF Fine

\* Registering a service is about nothing else.
LEMMA RegisterKeeps ==
  ASSUME Stored(chain), NEW service \in {"relayer", "executor"},
         register(registerPayload(service))
  PROVE  /\ Stored(Executed(registerPayload(service)))
         /\ \A config, s : Setting(s) /\ Fine(config, s, chain)
              => Fine(config, s, Executed(registerPayload(service)))
<1> DEFINE p == registerPayload(service)
<1>1. p.slot = "registered" /\ p.key = service /\ p.value = TRUE
  BY DEF registerPayload, Payload
<1>2. Storable(p) /\ Executable(p)
  <2>1. TRUE \in BOOLEAN
    OBVIOUS
  <2>2. /\ "registered" \in DOMAIN Keys /\ service \in Keys["registered"]
        /\ TRUE \in Values["registered"]
    BY <2>1, KeysAt, ValuesAt
  <2>4. Storable(p)
    BY <1>1, <2>2 DEF Storable
  <2>3. Executable(p)
    BY <1>1 DEF Executable
  <2> QED
    BY <2>3, <2>4
<1>3. Stored(Executed(p))
  BY <1>2, StoredAfter
<1> HIDE DEF p
<1>4. ASSUME NEW config, NEW s, Setting(s), Fine(config, s, chain)
      PROVE  Fine(config, s, Executed(p))
  <2>1. s[1] \in DOMAIN Keys /\ s[2] \in Keys[s[1]] /\ s[1] # p.slot
    BY <1>1, <1>4 DEF Setting
  <2>2. Executed(p)[s[1]][s[2]] = chain[s[1]][s[2]]
    <3>1. Executed(p)[s[1]][s[2]] = Changed(p, s[1], s[2])
      BY <1>2, <2>1, ExecutedIs
    <3> QED
      BY <1>1, <2>1, <3>1 DEF Changed
  <2>3. s[1] = "limiter" => Executed(p).coin_store[s[2]] = chain.coin_store[s[2]]
    <3> SUFFICES ASSUME s[1] = "limiter"
                 PROVE  Executed(p).coin_store[s[2]] = chain.coin_store[s[2]]
      OBVIOUS
    <3>1. "coin_store" \in DOMAIN Keys /\ s[2] \in Keys["coin_store"]
      BY <2>1, KeysAt
    <3>2. Executed(p)["coin_store"][s[2]] = Changed(p, "coin_store", s[2])
      BY <1>2, <3>1, ExecutedIs
    <3> QED
      BY <1>1, <3>2 DEF Changed
  <2> QED
    BY <1>4, <2>2, <2>3 DEF Fine
<1> QED
  BY <1>3, <1>4 DEF p

-----------------------------------------------------------------------------
\* A run of wireAll, step by step.

\* The configuration of a run.
ConfigOf(r) == Configs[r.config]

LEMMA ConfigIs ==
  ASSUME NEW c \in DOMAIN Configs
  PROVE  Complete(Configs[c])
BY WireAllAssumption

\* A run that gets on: settled next.
OnTheWay(r, settings) ==
  /\ r.config \in DOMAIN Configs /\ r \in Runs(r.config)
  /\ r.stage \in {"plan", "send"}
  /\ r.stage = "plan" => r.failed = {}
  /\ r.stage = "send" => r.reads = <<>>
  /\ r.quiet /\ r.failed = {} => \A d \in AllReads : Handled(r, d, settings)

LEMMA NothingLeft ==
  ASSUME NEW r, NEW d, NEW settings, Handled(r, d, settings), r.reads = <<>>,
         \A a \in Accounts : r.txns[a] = <<>>
  PROVE  Fine(ConfigOf(r), About(d), settings)
<1>1. \A x : x \notin Range(<<>>)
  BY DEF Range
<1> QED
  BY <1>1 DEF Handled, ConfigOf

LEMMA SettledIs ==
  ASSUME NEW settings, NEW r, OnTheWay(r, settings)
  PROVE  RunOK(Settled(r), settings) /\ Settled(r).config = r.config
<1>1. /\ r.config \in DOMAIN Configs /\ r \in Runs(r.config)
      /\ r.stage \in {"plan", "send"}
      /\ r.stage = "plan" => r.failed = {}
      /\ r.stage = "send" => r.reads = <<>>
      /\ r.quiet /\ r.failed = {} => \A d \in AllReads : Handled(r, d, settings)
  BY DEF OnTheWay
<1>2. CASE r.reads # <<>>
  <2>1. Settled(r) = r /\ r.stage = "plan"
    BY <1>1, <1>2 DEF Settled
  <2> QED
    BY <1>1, <1>2, <2>1 DEF RunOK, Shape, Pursued
<1>3. CASE r.reads = <<>> /\ r.stage = "plan"
  <2> DEFINE st == IF r.txns = NoTxns THEN "wired" ELSE "prompt"
             q == [r EXCEPT !.stage = st]
  <2>1. Settled(r) = q
    BY <1>3 DEF Settled
  <2>2. /\ q.stage = st /\ q.config = r.config /\ q.reads = r.reads /\ q.txns = r.txns
        /\ q.failed = r.failed /\ q.quiet = r.quiet /\ q \in Runs(r.config)
    BY <1>1 DEF Runs, Stages
  <2>3. r.txns = NoTxns => \A a \in Accounts : r.txns[a] = <<>>
    BY DEF NoTxns
  <2> HIDE DEF q
  <2>4. \A d \in AllReads : Handled(r, d, settings) => Handled(q, d, settings)
    BY <2>2 DEF Handled
  <2>5. st = "wired" /\ q.quiet => \A d \in AllReads : Fine(Configs[q.config], About(d), settings)
    BY <1>1, <1>3, <2>2, <2>3, NothingLeft DEF ConfigOf
  <2>6. Pursued(q, settings)
    BY <1>1, <2>2, <2>4, <2>5 DEF Pursued
  <2>7. Shape(q)
    BY <1>1, <1>3, <2>2 DEF Shape
  <2> QED
    BY <1>1, <2>1, <2>2, <2>6, <2>7 DEF RunOK
<1>4. CASE /\ r.reads = <<>> /\ r.stage = "send"
           /\ \A a \in Accounts : a \in r.failed \/ r.txns[a] = <<>>
  <2> DEFINE st == IF r.failed = {} THEN "wired" ELSE "failed"
             q == [r EXCEPT !.stage = st, !.txns = NoTxns]
  <2>1. Settled(r) = q
    BY <1>4 DEF Settled
  <2>2. NoTxns \in [Accounts -> Seq(Planned(Configs[r.config]))]
    BY DEF NoTxns
  <2>3. /\ q.stage = st /\ q.config = r.config /\ q.reads = r.reads
        /\ q.failed = r.failed /\ q.quiet = r.quiet /\ q \in Runs(r.config)
    BY <1>1, <2>2 DEF Runs, Stages
  <2> HIDE DEF q
  <2>4. st = "wired" /\ q.quiet => \A d \in AllReads : Fine(Configs[q.config], About(d), settings)
    BY <1>1, <1>4, <2>3, NothingLeft DEF ConfigOf
  <2>5. Pursued(q, settings)
    BY <2>3, <2>4 DEF Pursued, Planning
  <2>6. Shape(q)
    BY <1>4, <2>3 DEF Shape
  <2> QED
    BY <1>1, <2>1, <2>3, <2>5, <2>6 DEF RunOK
<1>5. CASE /\ r.reads = <<>> /\ r.stage = "send"
           /\ ~\A a \in Accounts : a \in r.failed \/ r.txns[a] = <<>>
  <2>1. Settled(r) = r
    BY <1>5 DEF Settled
  <2> QED
    BY <1>1, <1>5, <2>1 DEF RunOK, Shape, Pursued
<1> QED
  BY <1>1, <1>2, <1>3, <1>4, <1>5

\* What is planned is meant for some setting.
LEMMA PlannedIs ==
  ASSUME Stored(chain), NEW config, Complete(config), NEW p \in Planned(config)
  PROVE  Storable(p) /\ \E t : Setting(t) /\ p = Meant(config, t)
<1>1. PICK d \in AllReads : p = Meant(config, About(d)) /\ Storable(p)
  BY DEF Planned
<1>2. Setting(About(d))
  BY PlanIs
<1> QED
  BY <1>1, <1>2

\* Another change of the settings than one's own.
LEMMA RunKept ==
  ASSUME Stored(chain), NEW r, RunOK(r, chain), NEW after, NEW b \in BOOLEAN,
         b => r.quiet,
         b => \A s : Setting(s) /\ Fine(ConfigOf(r), s, chain) => Fine(ConfigOf(r), s, after)
  PROVE  RunOK([r EXCEPT !.quiet = b], after)
<1> DEFINE q == [r EXCEPT !.quiet = b]
<1>1. r.config \in DOMAIN Configs /\ r \in Runs(r.config) /\ Shape(r) /\ Pursued(r, chain)
  BY DEF RunOK
<1>2. /\ q.stage = r.stage /\ q.config = r.config /\ q.reads = r.reads /\ q.txns = r.txns
      /\ q.failed = r.failed /\ q.quiet = b /\ q \in Runs(r.config)
  BY <1>1 DEF Runs
<1> HIDE DEF q
<1>3. Complete(ConfigOf(r))
  BY <1>1, ConfigIs DEF ConfigOf
<1>4. \A d \in AllReads : Setting(About(d))
  BY <1>3, PlanIs
<1>5. ASSUME b, NEW d \in AllReads, Fine(ConfigOf(r), About(d), chain)
      PROVE  Fine(ConfigOf(r), About(d), after)
  BY <1>4, <1>5
<1>6. ASSUME b, NEW d \in AllReads, Handled(r, d, chain)
      PROVE  Handled(q, d, after)
  BY <1>2, <1>5, <1>6 DEF Handled, ConfigOf
<1>7. Pursued(q, after)
  BY <1>1, <1>2, <1>5, <1>6 DEF Pursued, ConfigOf
<1> QED
  BY <1>1, <1>2, <1>7 DEF RunOK, Shape, q

\* A step of one run that leaves the settings alone.
LEMMA OneRun ==
  ASSUME WireAllInv, NEW o \in Operators, NEW q, RunOK(q, chain),
         run' = [run EXCEPT ![o] = q], chain' = chain
  PROVE  WireAllInv'
<1>1. DOMAIN run = Operators /\ \A x \in Operators : RunOK(run[x], chain)
  BY DEF WireAllInv
<1>2. DOMAIN run' = Operators
  BY <1>1
<1>3. \A x \in Operators : run'[x] = IF x = o THEN q ELSE run[x]
  BY <1>1
<1>4. \A x \in Operators : RunOK(run'[x], chain)
  BY <1>1, <1>3
<1>5. Stored(chain')
  BY DEF WireAllInv
<1>6. \A x \in Operators : RunOK(run'[x], chain')
  BY <1>4
<1> QED
  BY <1>2, <1>5, <1>6 DEF WireAllInv

\* A transaction of one run: the others that are of its configuration go on.
LEMMA OneWrites ==
  ASSUME WireAllInv, NEW o \in Operators, NEW q, NEW after, Stored(after),
         RunOK(q, after), q.config = run[o].config,
         \A s : Setting(s) /\ Fine(ConfigOf(q), s, chain) => Fine(ConfigOf(q), s, after),
         run' = Written(o, q), chain' = after
  PROVE  WireAllInv'
<1>1. Stored(chain) /\ DOMAIN run = Operators /\ \A x \in Operators : RunOK(run[x], chain)
  BY DEF WireAllInv
<1>2. DOMAIN run' = Operators
  BY DEF Written
<1>3. ASSUME NEW x \in Operators PROVE RunOK(run'[x], after)
  <2>1. CASE x = o
    BY <2>1 DEF Written
  <2>2. CASE x # o
    <3> DEFINE r == run[x]
               b == r.quiet /\ r.config = q.config
    <3>1. RunOK(r, chain)
      BY <1>1
    <3>2. run'[x] = [r EXCEPT !.quiet = b]
      BY <2>2 DEF Written
    <3>3. b \in BOOLEAN /\ (b => r.quiet)
      OBVIOUS
    <3>4. b => ConfigOf(r) = ConfigOf(q)
      BY DEF ConfigOf
    <3> HIDE DEF r, b
    <3>5. RunOK([r EXCEPT !.quiet = b], after)
      BY <1>1, <3>1, <3>3, <3>4, RunKept
    <3> QED
      BY <3>2, <3>5
  <2> QED
    BY <2>1, <2>2
<1>4. Stored(chain') /\ \A x \in Operators : RunOK(run'[x], chain')
  BY <1>3
<1> QED
  BY <1>2, <1>4 DEF WireAllInv

LEMMA InitWireAllInv ==
  ASSUME WireAllInit
  PROVE  WireAllInv
<1>1. Stored(chain)
  BY WireAllAssumption DEF WireAllInit
<1>2. PICK c \in [Operators -> DOMAIN Configs] :
        run = [o \in Operators |->
                 [stage |-> "idle", config |-> c[o], reads |-> <<>>,
                  txns |-> NoTxns, failed |-> {}, quiet |-> FALSE]]
  BY DEF WireAllInit
<1>3. ASSUME NEW o \in Operators PROVE RunOK(run[o], chain)
  <2> DEFINE r == run[o]
  <2>1. r = [stage |-> "idle", config |-> c[o], reads |-> <<>>,
             txns |-> NoTxns, failed |-> {}, quiet |-> FALSE] /\ c[o] \in DOMAIN Configs
    BY <1>2
  <2> HIDE DEF r
  <2>2. NoTxns \in [Accounts -> Seq(Planned(Configs[r.config]))] /\ <<>> \in Seq(AllReads)
    BY DEF NoTxns
  <2>3. r \in Runs(r.config)
    BY <2>1, <2>2 DEF Runs, Stages
  <2>4. Shape(r) /\ Pursued(r, chain)
    BY <2>1 DEF Shape, Pursued
  <2> QED
    BY <2>1, <2>3, <2>4 DEF RunOK, r
<1> QED
  BY <1>1, <1>2, <1>3 DEF WireAllInv

LEMMA StartKeeps ==
  ASSUME WireAllInv, NEW o \in Operators, Start(o)
  PROVE  WireAllInv'
<1> DEFINE c == run[o].config
           q == Begun(c)
<1>1. c \in DOMAIN Configs
  BY DEF WireAllInv, RunOK
<1>2. Reads(Configs[c]) \in Seq(AllReads) /\ Range(Reads(Configs[c])) = AllReads
  BY <1>1, ConfigIs, ReadsAre
<1>3. /\ q.stage = "plan" /\ q.config = c /\ q.reads = Reads(Configs[c])
      /\ q.txns = NoTxns /\ q.failed = {} /\ q.quiet = TRUE
  BY DEF Begun
<1>4. run' = [run EXCEPT ![o] = q] /\ chain' = chain
  BY DEF Start
<1>5. q \in Runs(q.config)
  <2>1. NoTxns \in [Accounts -> Seq(Planned(Configs[c]))]
    BY DEF NoTxns
  <2> QED
    BY <1>2, <2>1 DEF Begun, Runs, Stages
<1> HIDE DEF q, c
<1>6. q.reads # <<>>
  <2>1. Read("oracle", "setThresholdForOracle", Single) \in AllReads
    BY AllReadsAre
  <2>2. \A x : x \notin Range(<<>>)
    BY DEF Range
  <2> QED
    BY <1>2, <1>3, <2>1, <2>2
<1>7. \A d \in AllReads : Handled(q, d, chain)
  BY <1>2, <1>3 DEF Handled
<1>8. RunOK(q, chain)
  BY <1>1, <1>3, <1>5, <1>6, <1>7 DEF RunOK, Shape, Pursued
<1> QED
  BY <1>4, <1>8, OneRun

LEMMA ProceedKeeps ==
  ASSUME WireAllInv, NEW o \in Operators, Proceed(o)
  PROVE  WireAllInv'
<1> DEFINE r == run[o]
           q == [r EXCEPT !.stage = "send"]
<1>1. /\ r.config \in DOMAIN Configs /\ r \in Runs(r.config) /\ Shape(r)
      /\ Pursued(r, chain) /\ r.stage = "prompt"
  BY DEF WireAllInv, RunOK, Proceed
<1>2. run' = [run EXCEPT ![o] = q] /\ chain' = chain
  BY DEF Proceed
<1>3. /\ q.stage = "send" /\ q.config = r.config /\ q.reads = r.reads /\ q.txns = r.txns
      /\ q.failed = r.failed /\ q.quiet = r.quiet /\ q \in Runs(r.config)
  BY <1>1 DEF Runs, Stages
<1> HIDE DEF q, r
<1>4. \A d \in AllReads : Handled(r, d, chain) => Handled(q, d, chain)
  BY <1>3 DEF Handled
<1>5. Shape(q) /\ Pursued(q, chain)
  BY <1>1, <1>3, <1>4 DEF Shape, Pursued, Planning
<1>6. RunOK(q, chain)
  BY <1>1, <1>3, <1>5 DEF RunOK
<1> QED
  BY <1>2, <1>6, OneRun

\* A run that ends without a report.
LEMMA StopKeeps ==
  ASSUME WireAllInv, NEW o \in Operators, Abort(o) \/ Crash(o)
  PROVE  WireAllInv'
<1> DEFINE r == run[o]
           q == [r EXCEPT !.stage = "idle", !.reads = <<>>, !.txns = NoTxns]
<1>1. /\ r.config \in DOMAIN Configs /\ r \in Runs(r.config) /\ Shape(r)
  BY DEF WireAllInv, RunOK
<1>2. NoTxns \in [Accounts -> Seq(Planned(Configs[r.config]))] /\ <<>> \in Seq(AllReads)
  BY DEF NoTxns
<1>3. q.stage = "idle" /\ q.config = r.config /\ q.reads = <<>> /\ q \in Runs(r.config)
  BY <1>1, <1>2 DEF Runs, Stages
<1>4. Abort(o) => r.reads = <<>>
  BY <1>1 DEF Abort, Shape
<1>5. Abort(o) => [r EXCEPT !.stage = "idle", !.txns = NoTxns] = q
  BY <1>1, <1>4 DEF Runs
<1>6. run' = [run EXCEPT ![o] = q] /\ chain' = chain
  BY <1>5 DEF Abort, Crash
<1> HIDE DEF q, r
<1>7. Shape(q) /\ Pursued(q, chain)
  BY <1>3 DEF Shape, Pursued, Planning
<1>8. RunOK(q, chain)
  BY <1>1, <1>3, <1>7 DEF RunOK
<1> QED
  BY <1>6, <1>8, OneRun

\* A plan that goes on with what the setting at its head calls for, or without it.
LEMMA PlanKeeps ==
  ASSUME WireAllInv, NEW o \in Operators, NEW new, Plan(o, new), chain' = chain,
         new \in Seq(Planned(ConfigOf(run[o]))),
         \/ Fine(ConfigOf(run[o]), About(Head(run[o].reads)), chain)
         \/ Meant(ConfigOf(run[o]), About(Head(run[o].reads))) \in Range(new)
  PROVE  WireAllInv'
<1> DEFINE r == run[o]
           d0 == Head(r.reads)
           a0 == d0.account
           q == [r EXCEPT !.reads = Tail(@), !.txns[a0] = @ \o new]
<1>1. /\ r.config \in DOMAIN Configs /\ r \in Runs(r.config) /\ Shape(r)
      /\ Pursued(r, chain) /\ Stored(chain) /\ r.stage = "plan"
  BY DEF WireAllInv, RunOK, Plan
<1>2. run' = [run EXCEPT ![o] = Settled(q)] /\ chain' = chain
  BY DEF Plan
<1>3. Complete(ConfigOf(r))
  BY <1>1, ConfigIs DEF ConfigOf
<1>4. r.reads \in Seq(AllReads) /\ r.reads # <<>> /\ r.failed = {}
      /\ r.txns \in [Accounts -> Seq(Planned(ConfigOf(r)))]
  BY <1>1 DEF Runs, Shape, ConfigOf
<1>5. /\ Tail(r.reads) \in Seq(AllReads) /\ d0 \in AllReads
      /\ \A x \in Range(r.reads) : x = d0 \/ x \in Range(Tail(r.reads))
  BY <1>4, RangeOfTail
<1>6. /\ a0 \in Accounts /\ new \in Seq(Planned(ConfigOf(r)))
      /\ \/ Fine(ConfigOf(r), About(d0), chain)
         \/ Meant(ConfigOf(r), About(d0)) \in Range(new)
  BY <1>1, <1>3, <1>5, PlanIs
<1> HIDE DEF a0, d0
<1>7. /\ r.txns[a0] \o new \in Seq(Planned(ConfigOf(r)))
      /\ Range(r.txns[a0] \o new) = Range(r.txns[a0]) \union Range(new)
  <2> DEFINE s == r.txns[a0]
  <2>1. s \in Seq(Planned(ConfigOf(r)))
    BY <1>4, <1>6
  <2> HIDE DEF s
  <2>2. s \o new \in Seq(Planned(ConfigOf(r))) /\ Range(s \o new) = Range(s) \union Range(new)
    BY <1>6, <2>1, RangeOfTwo
  <2> QED
    BY <2>2 DEF s
<1>8. q.txns = [r.txns EXCEPT ![a0] = r.txns[a0] \o new]
      /\ q.reads = Tail(r.reads) /\ q.stage = "plan" /\ q.config = r.config
      /\ q.failed = {} /\ q.quiet = r.quiet
  BY <1>1, <1>4 DEF Runs
<1>9. [r.txns EXCEPT ![a0] = r.txns[a0] \o new] \in [Accounts -> Seq(Planned(ConfigOf(r)))]
  BY <1>4, <1>6, <1>7
<1>10. q \in Runs(r.config)
  BY <1>1, <1>4, <1>5, <1>9 DEF Runs, ConfigOf
<1>11. \A a \in Accounts : Range(r.txns[a]) \subseteq Range(q.txns[a])
  BY <1>4, <1>6, <1>7, <1>8
<1>12. Range(new) \subseteq Range(q.txns[a0])
  BY <1>4, <1>6, <1>7, <1>8
<1> HIDE DEF q, r
<1>13. ASSUME NEW d \in AllReads, Handled(r, d, chain) PROVE Handled(q, d, chain)
  <2>1. ConfigOf(q) = ConfigOf(r)
    BY <1>8 DEF ConfigOf
  <2>2. CASE d = d0
    BY <1>6, <1>12, <2>1, <2>2 DEF Handled, ConfigOf
  <2>3. CASE d # d0
    BY <1>5, <1>8, <1>11, <1>13, <2>1, <2>3 DEF Handled, ConfigOf
  <2> QED
    BY <2>2, <2>3
<1>14. r.quiet => \A d \in AllReads : Handled(r, d, chain)
  BY <1>1, <1>4 DEF Pursued, Planning
<1>15. OnTheWay(q, chain)
  BY <1>1, <1>8, <1>10, <1>13, <1>14 DEF OnTheWay
<1>16. RunOK(Settled(q), chain)
  BY <1>15, SettledIs
<1> QED
  BY <1>2, <1>16, OneRun

\* The read at the head of a plan.
LEMMA HeadIs ==
  ASSUME WireAllInv, NEW o \in Operators, run[o].stage = "plan"
  PROVE  /\ Stored(chain) /\ Complete(ConfigOf(run[o]))
         /\ Head(run[o].reads) \in AllReads
<1>1. /\ run[o].config \in DOMAIN Configs /\ run[o] \in Runs(run[o].config)
      /\ Shape(run[o]) /\ Stored(chain)
  BY DEF WireAllInv, RunOK
<1>2. run[o].reads \in Seq(AllReads) /\ run[o].reads # <<>>
  BY <1>1 DEF Runs, Shape
<1> QED
  BY <1>1, <1>2, ConfigIs, RangeOfTail DEF ConfigOf

\* A setting that is read, and one that is not and planned for nevertheless.
LEMMA ReadNextKeeps ==
  ASSUME WireAllInv, NEW o \in Operators, ReadNext(o) \/ AdapterParamsUnread(o)
  PROVE  WireAllInv'
<1> DEFINE d == Head(run[o].reads)
           config == ConfigOf(run[o])
<1>1. run[o].stage = "plan" /\ chain' = chain
  BY DEF ReadNext, AdapterParamsUnread, Plan
<1>2. Stored(chain) /\ Complete(config) /\ d \in AllReads
  BY <1>1, HeadIs
<1>3. CASE ReadNext(o)
  <2>1. Plan(o, Diff(d, config))
    BY <1>3 DEF ReadNext, ConfigOf
  <2>2. /\ Diff(d, config) \in Seq(Planned(config))
        /\ Fine(config, About(d), chain) \/ Meant(config, About(d)) \in Range(Diff(d, config))
    BY <1>2, PlanIs
  <2> QED
    BY <1>1, <2>1, <2>2, PlanKeeps
<1>4. CASE AdapterParamsUnread(o)
  <2> DEFINE diff == AdapterParamsDiff(config, d.key, 0)
  <2>1. Plan(o, diff) /\ d.diff = "setDefaultAdapterParams"
    BY <1>4 DEF AdapterParamsUnread, ConfigOf
  <2>2. diff \in Seq(Planned(config)) /\ Meant(config, About(d)) \in Range(diff)
    BY <1>2, <2>1, UnreadIs
  <2> HIDE DEF diff
  <2> QED
    BY <1>1, <2>1, <2>2, PlanKeeps
<1> QED
  BY <1>3, <1>4

\* An account whose transactions end with an error.
LEMMA FailedIs ==
  ASSUME NEW settings, NEW r, NEW before, RunOK(r, before), r.stage = "send",
         NEW a \in Accounts
  PROVE  RunOK(Failed(r, a), settings) /\ Failed(r, a).config = r.config
<1> DEFINE q == [r EXCEPT !.failed = @ \union {a}]
<1>1. r.config \in DOMAIN Configs /\ r \in Runs(r.config) /\ r.reads = <<>>
  BY DEF RunOK, Shape
<1>2. /\ q.stage = "send" /\ q.config = r.config /\ q.reads = <<>> /\ q.failed # {}
      /\ q \in Runs(r.config)
  BY <1>1 DEF Runs
<1>3. Failed(r, a) = Settled(q)
  BY DEF Failed
<1> HIDE DEF q
<1>4. OnTheWay(q, settings)
  BY <1>1, <1>2 DEF OnTheWay
<1> QED
  BY <1>2, <1>3, <1>4, SettledIs

\* The next transaction of an account, whoever is told of it.
LEMMA NextIs ==
  ASSUME WireAllInv, NEW o \in Operators, NEW a \in Accounts,
         run[o].stage = "send", run[o].txns[a] # <<>>,
         NEW p, p = Head(run[o].txns[a])
  PROVE  /\ Complete(ConfigOf(run[o])) /\ Stored(chain) /\ Storable(p)
         /\ \E t : Setting(t) /\ p = Meant(ConfigOf(run[o]), t)
<1> DEFINE r == run[o]
<1>1. r.config \in DOMAIN Configs /\ r \in Runs(r.config) /\ Stored(chain)
  BY DEF WireAllInv, RunOK
<1>2. Complete(ConfigOf(r))
  BY <1>1, ConfigIs DEF ConfigOf
<1>3. r.txns[a] \in Seq(Planned(ConfigOf(r)))
  BY <1>1 DEF Runs, ConfigOf
<1>4. p \in Planned(ConfigOf(r))
  BY <1>3, RangeOfTail
<1> QED
  BY <1>1, <1>2, <1>4, PlannedIs

LEMMA NextKeeps ==
  ASSUME WireAllInv, NEW o \in Operators, NEW a \in Accounts,
         run[o].stage = "send", run[o].txns[a] # <<>>,
         NEW p, p = Head(run[o].txns[a]), Executable(p)
  PROVE  /\ Stored(Executed(p))
         /\ \A s : Setting(s) /\ (Fine(ConfigOf(run[o]), s, chain)
                                    \/ p = Meant(ConfigOf(run[o]), s))
              => Fine(ConfigOf(run[o]), s, Executed(p))
<1> DEFINE c == ConfigOf(run[o])
<1>1. Complete(c) /\ Stored(chain) /\ Storable(p) /\ \E t : Setting(t) /\ p = Meant(c, t)
  BY NextIs
<1> HIDE DEF c
<1>2. PICK t : Setting(t) /\ p = Meant(c, t)
  BY <1>1
<1>3. Stored(Executed(p))
  BY <1>1, StoredAfter
<1>4. ASSUME NEW s, Setting(s), Fine(c, s, chain) \/ p = Meant(c, s)
      PROVE  Fine(c, s, Executed(p))
  BY <1>1, <1>2, <1>4, FineKept
<1> QED
  BY <1>3, <1>4 DEF c

LEMMA SentIs ==
  ASSUME WireAllInv, NEW o \in Operators, NEW a \in Accounts,
         run[o].stage = "send", run[o].txns[a] # <<>>,
         NEW p, p = Head(run[o].txns[a]), Executable(p)
  PROVE  LET q == Settled([run[o] EXCEPT !.txns[a] = Tail(@)])
         IN  RunOK(q, Executed(p)) /\ q.config = run[o].config
<1> DEFINE r == run[o]
           q == [r EXCEPT !.txns[a] = Tail(@)]
           after == Executed(p)
<1>1. /\ r.config \in DOMAIN Configs /\ r \in Runs(r.config) /\ Shape(r)
      /\ Pursued(r, chain) /\ Stored(chain) /\ r.stage = "send"
  BY DEF WireAllInv, RunOK
<1>2. /\ r.reads = <<>> /\ r.txns \in [Accounts -> Seq(Planned(ConfigOf(r)))]
      /\ r.txns[a] # <<>>
  BY <1>1 DEF Runs, Shape, ConfigOf
<1>3. /\ Tail(r.txns[a]) \in Seq(Planned(ConfigOf(r)))
      /\ \A x \in Range(r.txns[a]) : x = p \/ x \in Range(Tail(r.txns[a]))
  <2> DEFINE s == r.txns[a]
  <2>1. s \in Seq(Planned(ConfigOf(r))) /\ s # <<>> /\ p = Head(s)
    BY <1>2
  <2> HIDE DEF s
  <2>2. Tail(s) \in Seq(Planned(ConfigOf(r))) /\ \A x \in Range(s) : x = p \/ x \in Range(Tail(s))
    BY <2>1, RangeOfTail
  <2> QED
    BY <2>2 DEF s
<1>4. /\ q.txns = [r.txns EXCEPT ![a] = Tail(r.txns[a])]
      /\ q.reads = <<>> /\ q.stage = "send" /\ q.config = r.config
      /\ q.failed = r.failed /\ q.quiet = r.quiet
  BY <1>1, <1>2 DEF Runs
<1>5. [r.txns EXCEPT ![a] = Tail(r.txns[a])] \in [Accounts -> Seq(Planned(ConfigOf(r)))]
  BY <1>2, <1>3
<1>6. q \in Runs(r.config)
  BY <1>1, <1>2, <1>5 DEF Runs, ConfigOf
<1>7. \A b \in Accounts : \A x \in Range(r.txns[b]) : x = p \/ x \in Range(q.txns[b])
  BY <1>2, <1>3, <1>4
<1>8. \A s : Setting(s) /\ (Fine(ConfigOf(r), s, chain) \/ p = Meant(ConfigOf(r), s))
           => Fine(ConfigOf(r), s, after)
  BY NextKeeps
<1>9. \A d \in AllReads : Setting(About(d))
  <2>1. Complete(ConfigOf(r))
    BY <1>1, ConfigIs DEF ConfigOf
  <2> QED
    BY <1>1, <2>1, PlanIs
<1> HIDE DEF q, r, after
<1>10. ASSUME NEW d \in AllReads, Handled(r, d, chain) PROVE Handled(q, d, after)
  <2>1. ConfigOf(q) = ConfigOf(r)
    BY <1>4 DEF ConfigOf
  <2>2. CASE Fine(ConfigOf(r), About(d), chain)
    BY <1>8, <1>9, <2>1, <2>2 DEF Handled, ConfigOf
  <2>3. CASE d \in Range(r.reads)
    BY <1>2, <1>4, <2>3 DEF Handled
  <2>4. CASE \E b \in Accounts : Meant(ConfigOf(r), About(d)) \in Range(r.txns[b])
    <3>1. \/ p = Meant(ConfigOf(r), About(d))
          \/ \E b \in Accounts : Meant(ConfigOf(r), About(d)) \in Range(q.txns[b])
      BY <1>7, <2>4
    <3> QED
      BY <1>8, <1>9, <2>1, <3>1 DEF Handled, ConfigOf
  <2> QED
    BY <1>10, <2>2, <2>3, <2>4 DEF Handled, ConfigOf
<1>11. r.quiet /\ r.failed = {} => \A d \in AllReads : Handled(r, d, chain)
  BY <1>1 DEF Pursued, Planning
<1>12. OnTheWay(q, after)
  BY <1>1, <1>4, <1>6, <1>10, <1>11 DEF OnTheWay
<1>13. RunOK(Settled(q), after) /\ Settled(q).config = q.config
  BY <1>12, SettledIs
<1> QED
  BY <1>4, <1>13 DEF q, r, after

LEMMA SendKeeps ==
  ASSUME WireAllInv, NEW o \in Operators, NEW a \in Accounts, Send(o, a)
  PROVE  WireAllInv'
<1> DEFINE r == run[o]
           p == Head(r.txns[a])
           q == Settled([r EXCEPT !.txns[a] = Tail(@)])
           f == Failed(r, a)
           after == Executed(p)
<1>1. r.stage = "send" /\ r.txns[a] # <<>> /\ RunOK(r, chain)
  BY DEF Send, WireAllInv
<1>2. CASE Executable(p)
  <2>1. chain' = after /\ run' = Written(o, q)
    BY <1>2 DEF Send
  <2>2. RunOK(q, after) /\ q.config = r.config
    BY <1>1, <1>2, SentIs
  <2>3. /\ Stored(after)
        /\ \A s : Setting(s) /\ Fine(ConfigOf(r), s, chain) => Fine(ConfigOf(r), s, after)
    BY <1>1, <1>2, NextKeeps
  <2> HIDE DEF q, after
  <2>4. ConfigOf(q) = ConfigOf(r)
    BY <2>2 DEF ConfigOf
  <2>5. \A s : Setting(s) /\ Fine(ConfigOf(q), s, chain) => Fine(ConfigOf(q), s, after)
    BY <2>3, <2>4
  <2> QED
    BY <2>1, <2>2, <2>3, <2>5, OneWrites
<1>3. CASE ~Executable(p)
  <2>1. chain' = chain /\ run' = [run EXCEPT ![o] = f]
    BY <1>3 DEF Send
  <2>2. RunOK(f, chain)
    BY <1>1, FailedIs
  <2> HIDE DEF f
  <2> QED
    BY <2>1, <2>2, OneRun
<1> QED
  BY <1>2, <1>3

LEMMA LoseKeeps ==
  ASSUME WireAllInv, NEW o \in Operators, NEW a \in Accounts, Lose(o, a)
  PROVE  WireAllInv'
<1> DEFINE r == run[o]
           p == Head(r.txns[a])
           f == Failed(r, a)
           after == Executed(p)
<1>1. r.stage = "send" /\ r.txns[a] # <<>> /\ RunOK(r, chain)
  BY DEF Lose, WireAllInv
<1>2. RunOK(f, chain) /\ RunOK(f, after) /\ f.config = r.config
  BY <1>1, FailedIs
<1>3. CASE Executable(p) /\ chain' = after /\ run' = Written(o, f)
  <2>1. /\ Stored(after)
        /\ \A s : Setting(s) /\ Fine(ConfigOf(r), s, chain) => Fine(ConfigOf(r), s, after)
    BY <1>1, <1>3, NextKeeps
  <2> HIDE DEF f, after
  <2>2. ConfigOf(f) = ConfigOf(r)
    BY <1>2 DEF ConfigOf
  <2>3. \A s : Setting(s) /\ Fine(ConfigOf(f), s, chain) => Fine(ConfigOf(f), s, after)
    BY <2>1, <2>2
  <2> QED
    BY <1>2, <1>3, <2>1, <2>3, OneWrites
<1>4. CASE run' = [run EXCEPT ![o] = f] /\ chain' = chain
  <2> HIDE DEF f
  <2> QED
    BY <1>2, <1>4, OneRun
<1> QED
  BY <1>3, <1>4 DEF Lose

LEMMA RegisterWireAll ==
  ASSUME WireAllInv, NEW service \in {"relayer", "executor"}, Register(service)
  PROVE  WireAllInv'
<1> DEFINE after == Executed(registerPayload(service))
<1>1. chain' = after /\ run' = run /\ register(registerPayload(service))
  BY DEF Register
<1>2. Stored(chain) /\ DOMAIN run = Operators /\ \A x \in Operators : RunOK(run[x], chain)
  BY DEF WireAllInv
<1>3. Stored(after) /\ \A config, s : Setting(s) /\ Fine(config, s, chain) => Fine(config, s, after)
  BY <1>1, <1>2, RegisterKeeps
<1> HIDE DEF after
<1>4. ASSUME NEW x \in Operators PROVE RunOK(run[x], after)
  <2> DEFINE r == run[x]
             b == r.quiet
  <2>1. RunOK(r, chain)
    BY <1>2
  <2>2. b \in BOOLEAN /\ [r EXCEPT !.quiet = b] = r
    BY <2>1 DEF RunOK, Runs
  <2>3. (b => r.quiet) /\ (b => \A s : Setting(s) /\ Fine(ConfigOf(r), s, chain)
                                         => Fine(ConfigOf(r), s, after))
    BY <1>3
  <2> HIDE DEF r, b
  <2>4. RunOK([r EXCEPT !.quiet = b], after)
    BY <1>2, <2>1, <2>2, <2>3, RunKept
  <2> QED
    BY <2>2, <2>4 DEF r
<1>5. Stored(chain') /\ DOMAIN run' = Operators /\ \A x \in Operators : RunOK(run'[x], chain')
  BY <1>1, <1>2, <1>3, <1>4
<1> QED
  BY <1>5 DEF WireAllInv

LEMMA DriftKeeps ==
  ASSUME WireAllInv, NEW i \in DOMAIN Drifts, Drift(Drifts[i])
  PROVE  WireAllInv'
<1> DEFINE p == Drifts[i]
           after == Executed(p)
<1>1. /\ chain' = after /\ Executable(p)
      /\ run' = [o \in Operators |-> [run[o] EXCEPT !.quiet = FALSE]]
  BY DEF Drift
<1>2. Stored(chain) /\ DOMAIN run = Operators /\ \A x \in Operators : RunOK(run[x], chain)
  BY DEF WireAllInv
<1>3. Stored(after)
  BY <1>1, <1>2, StoredAfter, WireAllAssumption
<1> HIDE DEF p, after
<1>4. ASSUME NEW x \in Operators PROVE RunOK(run'[x], after)
  <2> DEFINE r == run[x]
             b == FALSE
  <2>1. RunOK(r, chain) /\ run'[x] = [r EXCEPT !.quiet = b]
    BY <1>1, <1>2
  <2>2. b \in BOOLEAN /\ ~b
    OBVIOUS
  <2> HIDE DEF r, b
  <2>3. RunOK([r EXCEPT !.quiet = b], after)
    BY <1>2, <2>1, <2>2, RunKept
  <2> QED
    BY <2>1, <2>3
<1>5. Stored(chain') /\ DOMAIN run' = Operators /\ \A x \in Operators : RunOK(run'[x], chain')
  BY <1>1, <1>3, <1>4
<1> QED
  BY <1>5 DEF WireAllInv

LEMMA NextWireAllInv ==
  ASSUME WireAllInv, [WireAllNext]_wireAllVars
  PROVE  WireAllInv'
<1>1. ASSUME NEW o \in Operators, Start(o)
      PROVE  WireAllInv'
  BY <1>1, StartKeeps
<1>2. ASSUME NEW o \in Operators, ReadNext(o) \/ AdapterParamsUnread(o)
      PROVE  WireAllInv'
  BY <1>2, ReadNextKeeps
<1>3. ASSUME NEW o \in Operators, Proceed(o)
      PROVE  WireAllInv'
  BY <1>3, ProceedKeeps
<1>4. ASSUME NEW o \in Operators, Abort(o) \/ Crash(o)
      PROVE  WireAllInv'
  BY <1>4, StopKeeps
<1>5. ASSUME NEW o \in Operators, NEW a \in Accounts, Send(o, a)
      PROVE  WireAllInv'
  BY <1>5, SendKeeps
<1>6. ASSUME NEW o \in Operators, NEW a \in Accounts, Lose(o, a)
      PROVE  WireAllInv'
  BY <1>6, LoseKeeps
<1>7. ASSUME NEW service \in {"relayer", "executor"}, Register(service)
      PROVE  WireAllInv'
  BY <1>7, RegisterWireAll
<1>8. ASSUME NEW i \in DOMAIN Drifts, Drift(Drifts[i])
      PROVE  WireAllInv'
  BY <1>8, DriftKeeps
<1>9. CASE UNCHANGED wireAllVars
  BY <1>9 DEF wireAllVars, WireAllInv, RunOK, Shape, Pursued, Handled, Fine
<1> QED
  BY <1>1, <1>2, <1>3, <1>4, <1>5, <1>6, <1>7, <1>8, <1>9 DEF WireAllNext

\* Every setting of the configuration is read, by the account that may change it.
LEMMA KeysAreRead ==
  ASSUME NEW a \in Accounts, NEW s \in KeysOf(a)
  PROVE  Setting(s) /\ \E d \in AllReads : About(d) = s
<1> DEFINE slot == s[1]
           key == s[2]
<1>1. /\ slot \in DOMAIN Keys /\ key \in Keys[slot] /\ s = <<slot, key>>
      /\ slot # "registered"
  BY DEF KeysOf, Accounts, Keys
<1>2. Setting(s)
  BY <1>1 DEF Setting
<1> HIDE DEF slot, key
<1>3. ASSUME slot \in {"chain_address_size", "default_config", "send_version",
                       "receive_version", "default_executor", "adapter_params",
                       "executor_fee", "remote_bridge", "min_dst_gas"}
      PROVE  \E d \in AllReads : About(d) = <<slot, key>>
  <2>1. key \in Remotes
    BY <1>1, <1>3, KeysAt
  <2>2. RemoteReads(key) \subseteq AllReads
    BY <2>1, AllReadsAre
  <2>3. /\ Read("layerzero", "setChainAddressSize", key) \in RemoteReads(key)
        /\ Read("layerzero", "setDefaultAppConfig", key) \in RemoteReads(key)
        /\ Read("layerzero", "setDefaultSendMsgLib", key) \in RemoteReads(key)
        /\ Read("layerzero", "setDefaultReceiveMsgLib", key) \in RemoteReads(key)
        /\ Read("layerzero", "setDefaultExecutor", key) \in RemoteReads(key)
        /\ Read("layerzero", "setDefaultAdapterParams", key) \in RemoteReads(key)
        /\ Read("executor", "setFeeForExecutor", key) \in RemoteReads(key)
        /\ Read("bridge", "setRemoteBridge", key) \in RemoteReads(key)
        /\ Read("bridge", "setMinDstGas", key) \in RemoteReads(key)
    BY RemoteReadsAre
  <2>4. /\ About(Read("layerzero", "setChainAddressSize", key)) = <<"chain_address_size", key>>
        /\ About(Read("layerzero", "setDefaultAppConfig", key)) = <<"default_config", key>>
        /\ About(Read("layerzero", "setDefaultSendMsgLib", key)) = <<"send_version", key>>
        /\ About(Read("layerzero", "setDefaultReceiveMsgLib", key)) = <<"receive_version", key>>
        /\ About(Read("layerzero", "setDefaultExecutor", key)) = <<"default_executor", key>>
        /\ About(Read("layerzero", "setDefaultAdapterParams", key)) = <<"adapter_params", key>>
        /\ About(Read("executor", "setFeeForExecutor", key)) = <<"executor_fee", key>>
        /\ About(Read("bridge", "setRemoteBridge", key)) = <<"remote_bridge", key>>
        /\ About(Read("bridge", "setMinDstGas", key)) = <<"min_dst_gas", key>>
    BY DEF About, Read
  <2> QED
    BY <1>3, <2>2, <2>3, <2>4
<1>4. ASSUME slot = "signer_fee"
      PROVE  \E d \in AllReads : About(d) = <<slot, key>>
  <2>1. key[1] \in {"relayer", "oracle"} /\ key[2] \in Remotes /\ key = <<key[1], key[2]>>
    BY <1>1, <1>4, KeysAt DEF Signers
  <2>2. RemoteReads(key[2]) \subseteq AllReads
    BY <2>1, AllReadsAre
  <2>3. /\ Read("relayer", "setFeeForRelayer", key[2]) \in AllReads
        /\ Read("oracle", "setFeeForOracle", key[2]) \in AllReads
    BY <2>2, RemoteReadsAre
  <2>4. /\ About(Read("relayer", "setFeeForRelayer", key[2])) =
             <<"signer_fee", <<"relayer", key[2]>>>>
        /\ About(Read("oracle", "setFeeForOracle", key[2])) =
             <<"signer_fee", <<"oracle", key[2]>>>>
    BY DEF About, Read
  <2> QED
    BY <1>4, <2>1, <2>3, <2>4
<1>5. ASSUME slot = "validators"
      PROVE  \E d \in AllReads : About(d) = <<slot, key>>
  <2>1. key \in Validators
    BY <1>1, <1>5, KeysAt
  <2>2. About(Read("oracle", "setValidatorsForOracle", key)) = <<"validators", key>>
    BY DEF About, Read
  <2> QED
    BY <1>5, <2>1, <2>2, AllReadsAre
<1>6. ASSUME slot \in {"threshold", "custom_adapter_params"}
      PROVE  \E d \in AllReads : About(d) = <<slot, key>>
  <2>1. key = Single
    BY <1>1, <1>6, KeysAt
  <2>2. /\ About(Read("oracle", "setThresholdForOracle", Single)) = <<"threshold", Single>>
        /\ About(Read("bridge", "enableCustomAdapterParams", Single)) =
             <<"custom_adapter_params", Single>>
    BY DEF About, Read
  <2> QED
    BY <1>6, <2>1, <2>2, AllReadsAre
<1>7. ASSUME slot \in {"coin_store", "limiter"}
      PROVE  \E d \in AllReads : About(d) = <<slot, key>>
  <2>1. key \in Coins
    BY <1>1, <1>7, KeysAt
  <2>2. /\ About(Read("bridge", "registerCoin", key)) = <<"coin_store", key>>
        /\ About(Read("bridge", "setLimiter", key)) = <<"limiter", key>>
    BY DEF About, Read
  <2> QED
    BY <1>7, <2>1, <2>2, AllReadsAre
<1>8. ASSUME slot = "remote_coin"
      PROVE  \E d \in AllReads : About(d) = <<slot, key>>
  <2>1. key \in Coins \X Remotes
    BY <1>1, <1>8, KeysAt
  <2>2. About(Read("bridge", "setRemoteCoin", key)) = <<"remote_coin", key>>
    BY DEF About, Read
  <2> QED
    BY <1>8, <2>1, <2>2, AllReadsAre
<1> QED
  BY <1>1, <1>2, <1>3, <1>4, <1>5, <1>6, <1>7, <1>8 DEF Keys

\* Fine is as configured, once its coin is.
LEMMA WiredIf ==
  ASSUME NEW config, Complete(config), Stored(chain),
         \A d \in AllReads : Fine(config, About(d), chain), NEW a \in Accounts
  PROVE  WiredFor(a, config)
<1>1. ASSUME NEW s \in KeysOf(a)
      PROVE  AsConfigured(config, s[1], s[2], chain[s[1]][s[2]])
  <2>1. Setting(s) /\ Fine(config, s, chain)
    BY KeysAreRead
  <2>2. CASE s[1] = "limiter"
    <3>1. s[2] \in Coins
      BY <2>1, <2>2, KeysAt DEF Setting
    <3> DEFINE d == Read("bridge", "registerCoin", s[2])
    <3>2. d \in AllReads /\ About(d) = <<"coin_store", s[2]>>
      BY <3>1, AllReadsAre DEF About, Read
    <3> HIDE DEF d
    <3>3. Fine(config, <<"coin_store", s[2]>>, chain)
      BY <3>2
    <3>4. chain.coin_store[s[2]] # None
      BY <3>3 DEF Fine, AsConfigured
    <3> QED
      BY <2>1, <2>2, <3>4 DEF Fine
  <2>3. CASE s[1] # "limiter"
    BY <2>1, <2>3 DEF Fine
  <2> QED
    BY <2>2, <2>3
<1> QED
  BY <1>1 DEF WiredFor, Met

LEMMA WireAllInvSuccess ==
  ASSUME WireAllInv
  PROVE  SuccessIsWired
<1> SUFFICES ASSUME NEW o \in Operators, run[o].stage = "wired", run[o].quiet,
                    NEW a \in Accounts
             PROVE  WiredFor(a, Configs[run[o].config])
  BY DEF SuccessIsWired
<1> DEFINE config == Configs[run[o].config]
<1>1. Stored(chain) /\ RunOK(run[o], chain)
  BY DEF WireAllInv
<1>2. Complete(config) /\ \A d \in AllReads : Fine(config, About(d), chain)
  BY <1>1, ConfigIs DEF RunOK, Pursued
<1> HIDE DEF config
<1>3. WiredFor(a, config)
  BY <1>1, <1>2, WiredIf
<1> QED
  BY <1>3 DEF config

\* A setting is as the configuration of the operator says.
Seen(o, s) == AsConfigured(ConfigOf(run[o]), s[1], s[2], chain[s[1]][s[2]])

\* A transaction of one run and the configuration of another.
LEMMA WriteUndoesNothing ==
  ASSUME WireAllInv, NEW x \in Operators, NEW a \in Accounts,
         run[x].stage = "send", run[x].txns[a] # <<>>,
         NEW p, p = Head(run[x].txns[a]), Executable(p), chain' = Executed(p),
         NEW q, q.config = run[x].config, run' = Written(x, q),
         NEW o \in Operators, run'[o].quiet, NEW s, Setting(s), Seen(o, s)
  PROVE  AsConfigured(ConfigOf(run[o]), s[1], s[2], chain'[s[1]][s[2]])
<1>1. run[o].config = run[x].config
  <2>1. CASE o = x
    BY <2>1
  <2>2. CASE o # x
    <3>1. run'[o] = [run[o] EXCEPT !.quiet = @ /\ run[o].config = q.config]
      BY <2>2 DEF Written
    <3>2. run[o] \in Runs(run[o].config)
      BY DEF WireAllInv, RunOK
    <3>3. run'[o].quiet = (run[o].quiet /\ run[o].config = q.config)
      BY <3>1, <3>2 DEF Runs
    <3> QED
      BY <3>3
  <2> QED
    BY <2>1, <2>2
<1> DEFINE c == ConfigOf(run[x])
<1>2. c = ConfigOf(run[o])
  BY <1>1 DEF ConfigOf
<1>3. Complete(c) /\ Stored(chain) /\ Storable(p) /\ \E t : Setting(t) /\ p = Meant(c, t)
  BY NextIs
<1> HIDE DEF c
<1>4. PICK t : Setting(t) /\ p = Meant(c, t)
  BY <1>3
<1>5. AsConfigured(c, s[1], s[2], chain[s[1]][s[2]])
  BY <1>2 DEF Seen
<1>6. AsConfigured(c, s[1], s[2], Executed(p)[s[1]][s[2]])
  BY <1>3, <1>4, <1>5, ConfiguredKept
<1> QED
  BY <1>2, <1>6

LEMMA StepUndoesNothing ==
  ASSUME WireAllInv, [WireAllNext]_wireAllVars, NEW o \in Operators,
         run'[o].quiet, NEW s, Setting(s), Seen(o, s)
  PROVE  AsConfigured(ConfigOf(run[o]), s[1], s[2], chain'[s[1]][s[2]])
<1>1. CASE chain' = chain
  BY <1>1 DEF Seen
<1>2. ASSUME NEW x \in Operators, NEW a \in Accounts, Send(x, a), chain' # chain
      PROVE  AsConfigured(ConfigOf(run[o]), s[1], s[2], chain'[s[1]][s[2]])
  <2> DEFINE p == Head(run[x].txns[a])
             q == Settled([run[x] EXCEPT !.txns[a] = Tail(@)])
  <2>1. /\ run[x].stage = "send" /\ run[x].txns[a] # <<>> /\ Executable(p)
        /\ chain' = Executed(p) /\ run' = Written(x, q)
    BY <1>2 DEF Send
  <2>2. q.config = run[x].config
    BY <2>1, SentIs
  <2> HIDE DEF q
  <2> QED
    BY <2>1, <2>2, WriteUndoesNothing
<1>3. ASSUME NEW x \in Operators, NEW a \in Accounts, Lose(x, a), chain' # chain
      PROVE  AsConfigured(ConfigOf(run[o]), s[1], s[2], chain'[s[1]][s[2]])
  <2> DEFINE p == Head(run[x].txns[a])
             q == Failed(run[x], a)
  <2>1. /\ run[x].stage = "send" /\ run[x].txns[a] # <<>> /\ Executable(p)
        /\ chain' = Executed(p) /\ run' = Written(x, q)
    BY <1>3 DEF Lose
  <2>2. q.config = run[x].config
    BY <2>1, FailedIs DEF WireAllInv
  <2> HIDE DEF q
  <2> QED
    BY <2>1, <2>2, WriteUndoesNothing
<1>4. ASSUME NEW service \in {"relayer", "executor"}, Register(service)
      PROVE  AsConfigured(ConfigOf(run[o]), s[1], s[2], chain'[s[1]][s[2]])
  <2>1. /\ chain' = Executed(registerPayload(service)) /\ Stored(chain)
    BY <1>4 DEF Register, WireAllInv
  <2> DEFINE p == registerPayload(service)
  <2>2. p.slot = "registered" /\ Storable(p)
    <3>1. p.slot = "registered" /\ p.key = service /\ p.value = TRUE
      BY DEF registerPayload, Payload
    <3>2. /\ "registered" \in DOMAIN Keys /\ service \in Keys["registered"]
          /\ Values["registered"] = BOOLEAN
      BY KeysAt, ValuesAt
    <3> QED
      BY <3>1, <3>2 DEF Storable
  <2> HIDE DEF p
  <2>3. s[1] \in DOMAIN Keys /\ s[2] \in Keys[s[1]] /\ s[1] # p.slot
    BY <2>2 DEF Setting
  <2>4. Executed(p)[s[1]][s[2]] = Changed(p, s[1], s[2])
    BY <2>1, <2>2, <2>3, ExecutedIs
  <2>5. Changed(p, s[1], s[2]) = chain[s[1]][s[2]]
    BY <2>2, <2>3 DEF Changed
  <2> QED
    BY <2>1, <2>4, <2>5 DEF Seen, p
<1>5. ASSUME NEW i \in DOMAIN Drifts, Drift(Drifts[i])
      PROVE  FALSE
  <2>1. run'[o] = [run[o] EXCEPT !.quiet = FALSE]
    BY <1>5 DEF Drift
  <2>2. run[o] \in Runs(run[o].config)
    BY DEF WireAllInv, RunOK
  <2> QED
    BY <2>1, <2>2 DEF Runs
<1>6. CASE chain' # chain
  BY <1>2, <1>3, <1>4, <1>5, <1>6
     DEF WireAllNext, wireAllVars, Start, ReadNext, AdapterParamsUnread, Proceed,
     Abort, Crash
<1> QED
  BY <1>1, <1>6

-----------------------------------------------------------------------------
\* The theorems about wireAll.

\* WireAllInv holds in every reachable state: a run that was left alone has
\* read, planned or sent whatever is not as configured.
THEOREM WireAllInvariance == WireAllSpec => []WireAllInv
<1>1. WireAllInit => WireAllInv
  BY InitWireAllInv
<1>2. WireAllInv /\ [WireAllNext]_wireAllVars => WireAllInv'
  BY NextWireAllInv
<1> QED
  BY <1>1, <1>2, PTL DEF WireAllSpec

\* A run that ends with "Wired all accounts successfully", or with nothing to
\* change, leaves every setting as configured, if nobody with another intention
\* changed one since it began: for all configurations, operators, chains,
\* losses and crashes.
THEOREM SuccessIsWiredHolds == WireAllSpec => []SuccessIsWired
<1>1. WireAllInv => SuccessIsWired
  BY WireAllInvSuccess
<1> QED
  BY <1>1, WireAllInvariance, PTL

\* No transaction of a stale plan undoes a setting that is as configured, while
\* all that run wireAll agree on the configuration.
THEOREM NothingUndoneHolds == WireAllSpec => NothingUndone
<1> DEFINE Kept == \A o \in Operators :
             run[o].quiet /\ run'[o].quiet /\ run'[o].config = run[o].config =>
               \A a \in Accounts : \A setting \in KeysOf(a) :
                 Met(Configs[run[o].config], setting[1], setting[2]) =>
                   Met(Configs[run[o].config], setting[1], setting[2])'
<1>1. WireAllInv /\ [WireAllNext]_wireAllVars => Kept
  <2> SUFFICES ASSUME WireAllInv, [WireAllNext]_wireAllVars, NEW o \in Operators,
                      run'[o].quiet, run'[o].config = run[o].config,
                      NEW a \in Accounts, NEW s \in KeysOf(a),
                      Met(Configs[run[o].config], s[1], s[2])
               PROVE  Met(Configs[run[o].config], s[1], s[2])'
    OBVIOUS
  <2>1. Setting(s) /\ Seen(o, s)
    BY KeysAreRead DEF Met, Seen, ConfigOf
  <2>2. AsConfigured(ConfigOf(run[o]), s[1], s[2], chain'[s[1]][s[2]])
    BY <2>1, StepUndoesNothing
  <2> QED
    BY <2>2 DEF Met, ConfigOf
<1>2. WireAllInv /\ [WireAllNext]_wireAllVars => [Kept]_wireAllVars
  BY <1>1
<1> QED
  BY <1>2, WireAllInvariance, PTL DEF WireAllSpec, NothingUndone
=============================================================================
