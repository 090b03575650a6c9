------------------------------ MODULE Induction ------------------------------
(***************************************************************************)
(* Induction and recursion for the other proof modules, and what they need *)
(* to know of SumFunction, the sum of a function's values, and of powers   *)
(* of two.                                                                 *)
(*                                                                         *)
(* Induction is over a set of good sets, or a set of good numbers, instead *)
(* of a predicate: a set without a least bad element has none.  A fold is  *)
(* a recursive function that takes out elements in the order CHOOSE gives; *)
(* that it exists, and that the order does not matter, is proved here.     *)
(***************************************************************************)
EXTENDS Sequences, Functions, FiniteSetTheorems, TLAPS

\* The element a fold takes out first.
Pick(S) == CHOOSE x \in S : TRUE

\* The recursive function inside SumFunctionOnSet(f, S).
Adds(f, S, g) ==
  g = [s \in SUBSET S |->
         IF s = {} THEN 0 ELSE f[Pick(s)] + g[s \ {Pick(s)}]]

-----------------------------------------------------------------------------
\* Induction over the subsets of a finite set, and the fold's equation.

\* A finite set is good if each of its subsets is good whenever the smaller
\* ones are.
LEMMA SetInduction ==
  ASSUME NEW S, IsFiniteSet(S), NEW Good,
         \A s \in SUBSET S : (\A t \in SUBSET s : t # s => t \in Good) => s \in Good
  PROVE  S \in Good
<1> DEFINE Bad == (SUBSET S) \ Good
<1> SUFFICES ASSUME Bad # {} PROVE FALSE
  OBVIOUS
<1>1. Bad \subseteq FiniteSubsetsOf(S)
  BY FS_FiniteSubsetsOfFinite
<1> HIDE DEF Bad
<1>2. PICK s \in Bad : \A t \in Bad : ~ (<<t, s>> \in StrictSubsetOrdering(S))
  BY <1>1, FS_StrictSubsetOrderingWellFounded, WFMin
<1>3. \A t \in SUBSET s : t # s => t \in Good
  BY <1>2 DEF StrictSubsetOrdering, Bad
<1> QED
  BY <1>2, <1>3 DEF Bad

LEMMA PickIn ==
  ASSUME NEW S, S # {} PROVE Pick(S) \in S
BY DEF Pick

\* SumFunctionOnSet without its operator arguments.
LEMMA SumDef ==
  ASSUME NEW f, NEW S
  PROVE  SumFunctionOnSet(f, S) = (CHOOSE g : Adds(f, S, g))[S]
BY DEF SumFunctionOnSet, FoldFunctionOnSet, MapThenFoldSet, Adds, Pick

LEMMA AddsApply ==
  ASSUME NEW f, NEW S, NEW g, Adds(f, S, g), NEW s \in SUBSET S
  PROVE  g[s] = IF s = {} THEN 0 ELSE f[Pick(s)] + g[s \ {Pick(s)}]
BY DEF Adds

\* Two such functions agree where both are defined.
LEMMA AddsUnique ==
  ASSUME NEW f, NEW A, NEW B, NEW g, NEW h, Adds(f, A, g), Adds(f, B, h),
         NEW S, IsFiniteSet(S), S \subseteq A, S \subseteq B
  PROVE  g[S] = h[S]
<1> DEFINE Good == {s \in SUBSET S : g[s] = h[s]}
<1>1. ASSUME NEW s \in SUBSET S, \A t \in SUBSET s : t # s => t \in Good
      PROVE  s \in Good
  <2>1. /\ g[s] = IF s = {} THEN 0 ELSE f[Pick(s)] + g[s \ {Pick(s)}]
        /\ h[s] = IF s = {} THEN 0 ELSE f[Pick(s)] + h[s \ {Pick(s)}]
    BY AddsApply
  <2>2. s # {} => g[s \ {Pick(s)}] = h[s \ {Pick(s)}]
    BY <1>1, PickIn
  <2> QED
    BY <2>1, <2>2
<1>2. S \in Good
  <2> HIDE DEF Good
  <2> QED
    BY <1>1, SetInduction
<1> QED
  BY <1>2

\* There is one for every finite set.
LEMMA AddsExists ==
  ASSUME NEW f, NEW S, IsFiniteSet(S)
  PROVE  \E g : Adds(f, S, g)
<1> DEFINE Good == {T \in SUBSET S : \E g : Adds(f, T, g)}
           G(T) == CHOOSE g : Adds(f, T, g)
<1>1. ASSUME NEW T \in SUBSET S, \A t \in SUBSET T : t # T => t \in Good
      PROVE  T \in Good
  <2> DEFINE h == [s \in SUBSET T |->
                     IF s = {} THEN 0
                     ELSE f[Pick(s)] + G(s \ {Pick(s)})[s \ {Pick(s)}]]
  <2>1. ASSUME NEW U \in SUBSET T, U # T
        PROVE  Adds(f, U, G(U)) /\ IsFiniteSet(U)
    <3>1. U \in Good
      BY <1>1, <2>1
    <3>2. IsFiniteSet(U)
      BY FS_Subset
    <3> QED
      BY <3>1, <3>2
  <2> HIDE DEF G
  <2>2. ASSUME NEW s \in SUBSET T, s # {}
        PROVE  h[s \ {Pick(s)}] = G(s \ {Pick(s)})[s \ {Pick(s)}]
    <3> DEFINE u == s \ {Pick(s)}
               v == u \ {Pick(u)}
    <3>1. u \subseteq T /\ u # T /\ v \subseteq T /\ (u # {} => v # T)
      BY <2>2, PickIn
    <3>2. h[u] = IF u = {} THEN 0 ELSE f[Pick(u)] + G(v)[v]
      BY <3>1
    <3>3. G(u)[u] = IF u = {} THEN 0 ELSE f[Pick(u)] + G(u)[v]
      <4>1. Adds(f, u, G(u)) /\ u \in SUBSET u
        BY <2>1, <3>1
      <4> HIDE DEF u
      <4> QED
        BY <4>1, AddsApply
    <3>4. u # {} => G(u)[v] = G(v)[v]
      BY <2>1, <3>1, AddsUnique
    <3> QED
      BY <3>2, <3>3, <3>4
  <2>3. Adds(f, T, h)
    BY <2>2 DEF Adds
  <2> HIDE DEF h
  <2> QED
    BY <2>3
<1>2. S \in Good
  <2> HIDE DEF Good
  <2> QED
    BY <1>1, SetInduction
<1> QED
  BY <1>2

LEMMA SumEquation ==
  ASSUME NEW f, NEW S, IsFiniteSet(S)
  PROVE  SumFunctionOnSet(f, S) =
           IF S = {} THEN 0
           ELSE f[Pick(S)] + SumFunctionOnSet(f, S \ {Pick(S)})
<1> DEFINE g == CHOOSE g : Adds(f, S, g)
           T == S \ {Pick(S)}
           h == CHOOSE h : Adds(f, T, h)
<1>1. Adds(f, S, g)
  BY AddsExists
<1>2. IsFiniteSet(T)
  BY FS_Subset
<1>3. Adds(f, T, h)
  BY <1>2, AddsExists
<1>4. SumFunctionOnSet(f, S) = g[S] /\ SumFunctionOnSet(f, T) = h[T]
  BY SumDef
<1> HIDE DEF g, h
<1>5. g[S] = IF S = {} THEN 0 ELSE f[Pick(S)] + g[T]
  BY <1>1, AddsApply
<1>6. g[T] = h[T]
  BY <1>1, <1>2, <1>3, AddsUnique
<1> QED
  BY <1>4, <1>5, <1>6

-----------------------------------------------------------------------------
\* Natural numbers.

\* Induction, over a set of numbers instead of a predicate.
LEMMA NatSetInduction ==
  ASSUME NEW Good, 0 \in Good, \A n \in Nat : n \in Good => n + 1 \in Good
  PROVE  Nat \subseteq Good
<1>1. SUFFICES ASSUME NEW k \in Nat PROVE k \in Good
  OBVIOUS
<1> DEFINE Initial(n) == 1 .. n
           Prefixes == {s \in SUBSET Initial(k) :
                          \A n \in 0 .. k : s = Initial(n) => n \in Good}
<1>2. ASSUME NEW s \in SUBSET Initial(k),
             \A t \in SUBSET s : t # s => t \in Prefixes
      PROVE  s \in Prefixes
  <2>1. ASSUME NEW n \in 0 .. k, s = Initial(n) PROVE n \in Good
    <3>1. CASE n = 0
      BY <3>1
    <3>2. CASE n # 0
      <4>1. n - 1 \in 0 .. k /\ n - 1 \in Nat /\ (n - 1) + 1 = n
        BY <3>2
      <4>2. Initial(n - 1) \in SUBSET s /\ n \in s /\ n \notin Initial(n - 1)
        BY <2>1, <3>2
      <4>3. Initial(n - 1) \in Prefixes
        BY <1>2, <4>2
      <4>4. n - 1 \in Good
        BY <4>1, <4>3
      <4> QED
        BY <4>1, <4>4
    <3> QED
      BY <3>1, <3>2
  <2> QED
    BY <2>1
<1>3. Initial(k) \in Prefixes
  <2>1. IsFiniteSet(Initial(k))
    BY FS_Interval
  <2> HIDE DEF Prefixes, Initial
  <2> QED
    BY <1>2, <2>1, SetInduction
<1> QED
  BY <1>3

\* A sequence of values, each determined by the one before it.
Iterates(base, step, n, f) ==
  f[0] = base /\ \A i \in 0 .. n - 1 : f[i + 1] = step[f[i]]

\* It exists up to every number.
LEMMA IteratesExist ==
  ASSUME NEW T, NEW base \in T, NEW step \in [T -> T], NEW n \in Nat
  PROVE  \E f \in [0 .. n -> T] : Iterates(base, step, n, f)
<1> DEFINE Good == {k \in Nat : \E f \in [0 .. k -> T] : Iterates(base, step, k, f)}
<1>1. 0 \in Good
  <2>1. [i \in 0 .. 0 |-> base] \in [0 .. 0 -> T]
    OBVIOUS
  <2>2. Iterates(base, step, 0, [i \in 0 .. 0 |-> base])
    BY DEF Iterates
  <2> QED
    BY <2>1, <2>2
<1>2. ASSUME NEW k \in Nat, k \in Good PROVE k + 1 \in Good
  <2>1. PICK f \in [0 .. k -> T] : Iterates(base, step, k, f)
    BY <1>2
  <2> DEFINE g == [i \in 0 .. k + 1 |-> IF i = k + 1 THEN step[f[k]] ELSE f[i]]
  <2>2. g \in [0 .. k + 1 -> T]
    OBVIOUS
  <2>3. Iterates(base, step, k + 1, g)
    BY <2>1 DEF Iterates
  <2> HIDE DEF g
  <2> QED
    BY <2>2, <2>3
<1>3. Nat \subseteq Good
  <2> HIDE DEF Good
  <2> QED
    BY <1>1, <1>2, NatSetInduction
<1> QED
  BY <1>3

\* Two of them agree as far as both go.
LEMMA IteratesUnique ==
  ASSUME NEW base, NEW step, NEW m \in Nat, NEW n \in Nat, NEW f, NEW g,
         Iterates(base, step, m, f), Iterates(base, step, n, g),
         NEW i \in Nat, i <= m, i <= n
  PROVE  f[i] = g[i]
<1> DEFINE Good == {k \in Nat : k <= m /\ k <= n => f[k] = g[k]}
<1>1. 0 \in Good
  BY DEF Iterates
<1>2. ASSUME NEW k \in Nat, k \in Good PROVE k + 1 \in Good
  BY <1>2 DEF Iterates
<1>3. Nat \subseteq Good
  <2> HIDE DEF Good
  <2> QED
    BY <1>1, <1>2, NatSetInduction
<1> QED
  BY <1>3

\* Recursion: it exists for all numbers at once.
LEMMA NatRecursion ==
  ASSUME NEW T, NEW base \in T, NEW step \in [T -> T]
  PROVE  \E f \in [Nat -> T] : /\ f[0] = base
                               /\ \A n \in Nat : f[n + 1] = step[f[n]]
<1> DEFINE upTo(n) == CHOOSE f \in [0 .. n -> T] : Iterates(base, step, n, f)
           f == [n \in Nat |-> upTo(n)[n]]
<1>1. ASSUME NEW n \in Nat
      PROVE  upTo(n) \in [0 .. n -> T] /\ Iterates(base, step, n, upTo(n))
  BY IteratesExist
<1> HIDE DEF upTo
<1>2. f \in [Nat -> T]
  BY <1>1
<1>3. f[0] = base
  BY <1>1 DEF Iterates
<1>4. ASSUME NEW n \in Nat PROVE f[n + 1] = step[f[n]]
  <2>1. upTo(n + 1)[n + 1] = step[upTo(n + 1)[n]]
    BY <1>1 DEF Iterates
  <2>2. upTo(n + 1)[n] = upTo(n)[n]
    BY <1>1, IteratesUnique
  <2> QED
    BY <2>1, <2>2
<1> HIDE DEF f
<1> QED
  BY <1>2, <1>3, <1>4

-----------------------------------------------------------------------------
\* Sums of integers.

LEMMA SumEmpty ==
  ASSUME NEW f PROVE SumFunctionOnSet(f, {}) = 0
BY SumEquation, FS_EmptySet

\* A sum is in a set of integers that has 0, the values, and is closed under
\* adding a value.
LEMMA SumType ==
  ASSUME NEW f, NEW S, IsFiniteSet(S), NEW T \in SUBSET Int, 0 \in T,
         \A x \in S : \A n \in T : f[x] + n \in T
  PROVE  SumFunctionOnSet(f, S) \in T
<1> DEFINE Good == {s \in SUBSET S : SumFunctionOnSet(f, s) \in T}
<1>1. ASSUME NEW s \in SUBSET S, \A t \in SUBSET s : t # s => t \in Good
      PROVE  s \in Good
  <2>1. IsFiniteSet(s)
    BY FS_Subset
  <2>2. s # {} => /\ Pick(s) \in s
                  /\ SumFunctionOnSet(f, s \ {Pick(s)}) \in T
    BY <1>1, PickIn
  <2> QED
    BY <2>1, <2>2, SumEquation
<1>2. S \in Good
  <2> HIDE DEF Good
  <2> QED
    BY <1>1, SetInduction
<1> QED
  BY <1>2

LEMMA SumInt ==
  ASSUME NEW f, NEW S, IsFiniteSet(S), \A x \in S : f[x] \in Int
  PROVE  SumFunctionOnSet(f, S) \in Int
<1>1. \A x \in S : \A n \in Int : f[x] + n \in Int
  OBVIOUS
<1> QED
  BY <1>1, SumType

LEMMA SumNat ==
  ASSUME NEW f, NEW S, IsFiniteSet(S), \A x \in S : f[x] \in Nat
  PROVE  SumFunctionOnSet(f, S) \in Nat
<1>1. /\ Nat \in SUBSET Int /\ 0 \in Nat
      /\ \A x \in S : \A n \in Nat : f[x] + n \in Nat
  OBVIOUS
<1> QED
  BY <1>1, SumType

LEMMA SumZero ==
  ASSUME NEW f, NEW S, IsFiniteSet(S), \A x \in S : f[x] = 0
  PROVE  SumFunctionOnSet(f, S) = 0
<1>1. \A x \in S : \A n \in {0} : f[x] + n \in {0}
  OBVIOUS
<1>2. SumFunctionOnSet(f, S) \in {0}
  <2> DEFINE T == {0}
  <2>1. T \in SUBSET Int /\ 0 \in T /\ \A x \in S : \A n \in T : f[x] + n \in T
    BY <1>1
  <2> HIDE DEF T
  <2>2. SumFunctionOnSet(f, S) \in T
    BY <2>1, SumType
  <2> QED
    BY <2>2 DEF T
<1> QED
  BY <1>2

\* A sum depends on the values that are summed only.
LEMMA SumAgree ==
  ASSUME NEW f, NEW g, NEW S, IsFiniteSet(S), \A x \in S : f[x] = g[x]
  PROVE  SumFunctionOnSet(f, S) = SumFunctionOnSet(g, S)
<1> DEFINE Good == {s \in SUBSET S :
                      SumFunctionOnSet(f, s) = SumFunctionOnSet(g, s)}
<1>1. ASSUME NEW s \in SUBSET S, \A t \in SUBSET s : t # s => t \in Good
      PROVE  s \in Good
  <2>1. IsFiniteSet(s)
    BY FS_Subset
  <2>2. s # {} =>
          /\ Pick(s) \in s
          /\ SumFunctionOnSet(f, s \ {Pick(s)}) = SumFunctionOnSet(g, s \ {Pick(s)})
    BY <1>1, PickIn
  <2> QED
    BY <2>1, <2>2, SumEquation
<1>2. S \in Good
  <2> HIDE DEF Good
  <2> QED
    BY <1>1, SetInduction
<1> QED
  BY <1>2

\* Any element may be taken out first.
LEMMA SumRemove ==
  ASSUME NEW f, NEW S, IsFiniteSet(S), \A x \in S : f[x] \in Int, NEW x \in S
  PROVE  SumFunctionOnSet(f, S) = f[x] + SumFunctionOnSet(f, S \ {x})
<1> DEFINE Splits(s, y) ==
             SumFunctionOnSet(f, s) = f[y] + SumFunctionOnSet(f, s \ {y})
           Good == {s \in SUBSET S : \A y \in s : Splits(s, y)}
<1>1. ASSUME NEW s \in SUBSET S, \A t \in SUBSET s : t # s => t \in Good
      PROVE  s \in Good
  <2>1. ASSUME NEW y \in s PROVE Splits(s, y)
    <3> DEFINE p == Pick(s)
               rest == (s \ {y}) \ {p}
    <3>1. IsFiniteSet(s) /\ IsFiniteSet(rest)
      BY FS_Subset
    <3>2. p \in s /\ Splits(s, p)
      BY <3>1, PickIn, SumEquation
    <3> HIDE DEF p
    <3>3. CASE y = p
      BY <3>2, <3>3
    <3>4. CASE y # p
      <4>1. Splits(s \ {p}, y) /\ Splits(s \ {y}, p)
        BY <1>1, <3>2, <3>4
      <4>2. (s \ {p}) \ {y} = rest
        OBVIOUS
      <4>3. SumFunctionOnSet(f, rest) \in Int
        BY <3>1, SumInt
      <4>4. /\ SumFunctionOnSet(f, s) = f[p] + (f[y] + SumFunctionOnSet(f, rest))
            /\ SumFunctionOnSet(f, s \ {y}) = f[p] + SumFunctionOnSet(f, rest)
        BY <3>2, <4>1, <4>2
      <4>5. f[y] \in Int /\ f[p] \in Int
        BY <3>2
      <4> HIDE DEF rest
      <4> QED
        BY <4>3, <4>4, <4>5
    <3> QED
      BY <3>3, <3>4
  <2> QED
    BY <2>1
<1>2. S \in Good
  <2> HIDE DEF Good
  <2> QED
    BY <1>1, SetInduction
<1> QED
  BY <1>2

\* What a sum becomes when one value changes.
LEMMA SumChange ==
  ASSUME NEW f, NEW g, NEW S, IsFiniteSet(S), NEW x \in S,
         \A y \in S : f[y] \in Int /\ g[y] \in Int,
         \A y \in S \ {x} : f[y] = g[y]
  PROVE  SumFunctionOnSet(g, S) = SumFunctionOnSet(f, S) - f[x] + g[x]
<1>1. IsFiniteSet(S \ {x})
  BY FS_Subset
<1>2. SumFunctionOnSet(f, S \ {x}) = SumFunctionOnSet(g, S \ {x})
  BY <1>1, SumAgree
<1>3. SumFunctionOnSet(f, S \ {x}) \in Int
  BY <1>1, SumInt
<1>4. /\ SumFunctionOnSet(f, S) = f[x] + SumFunctionOnSet(f, S \ {x})
      /\ SumFunctionOnSet(g, S) = g[x] + SumFunctionOnSet(g, S \ {x})
  BY SumRemove
<1> QED
  BY <1>2, <1>3, <1>4

\* A sum does not depend on how its terms are indexed.
LEMMA SumReindex ==
  ASSUME NEW f, NEW g, NEW S, NEW T, IsFiniteSet(S), NEW b,
         \A x \in S : b[x] \in T /\ f[x] = g[b[x]] /\ f[x] \in Int,
         \A x, y \in S : b[x] = b[y] => x = y,
         \A t \in T : \E x \in S : b[x] = t
  PROVE  SumFunctionOnSet(f, S) = SumFunctionOnSet(g, T)
<1> DEFINE Image(s) == {b[x] : x \in s}
           Moves(s) == /\ IsFiniteSet(Image(s))
                       /\ SumFunctionOnSet(f, s) = SumFunctionOnSet(g, Image(s))
           Good == {s \in SUBSET S : Moves(s)}
<1>1. Moves({})
  <2>1. Image({}) = {}
    OBVIOUS
  <2> QED
    BY <2>1, SumEmpty, FS_EmptySet
<1>2. ASSUME NEW s \in SUBSET S, NEW x \in s, Moves(s \ {x}) PROVE Moves(s)
  <2> DEFINE r == s \ {x}
             image == Image(r)
             y == b[x]
  <2>1. IsFiniteSet(s)
    BY FS_Subset
  <2>2. Image(s) = image \cup {y} /\ image = Image(s) \ {y}
    OBVIOUS
  <2>3. \A z \in s : f[z] \in Int
    OBVIOUS
  <2>4. \A t \in Image(s) : g[t] \in Int
    OBVIOUS
  <2>5. y \in Image(s) /\ f[x] = g[y]
    OBVIOUS
  <2>6. /\ IsFiniteSet(image)
        /\ SumFunctionOnSet(f, r) = SumFunctionOnSet(g, image)
    BY <1>2
  <2> HIDE DEF Image, image, y
  <2>7. IsFiniteSet(Image(s))
    BY <2>2, <2>6, FS_AddElement
  <2>8. SumFunctionOnSet(f, s) = f[x] + SumFunctionOnSet(f, r)
    BY <2>1, <2>3, SumRemove
  <2>9. SumFunctionOnSet(g, Image(s)) = g[y] + SumFunctionOnSet(g, Image(s) \ {y})
    BY <2>4, <2>5, <2>7, SumRemove
  <2> QED
    BY <2>2, <2>5, <2>6, <2>7, <2>8, <2>9
<1>3. Image(S) = T
  OBVIOUS
<1> HIDE DEF Moves
<1>4. ASSUME NEW s \in SUBSET S, \A t \in SUBSET s : t # s => t \in Good
      PROVE  s \in Good
  <2>1. CASE s = {}
    BY <1>1, <2>1
  <2>2. CASE s # {}
    <3>1. PICK x : x \in s
      BY <2>2
    <3>2. Moves(s \ {x})
      BY <1>4, <3>1
    <3> QED
      BY <1>2, <3>1, <3>2
  <2> QED
    BY <2>1, <2>2
<1>5. S \in Good
  <2> HIDE DEF Good
  <2> QED
    BY <1>4, SetInduction
<1> QED
  BY <1>3, <1>5 DEF Moves

\* The same for all values of a function at once.
LEMMA SumUpdate ==
  ASSUME NEW S, IsFiniteSet(S), NEW f \in [S -> Int], NEW g \in [S -> Int],
         NEW x \in S, \A y \in S : y # x => g[y] = f[y]
  PROVE  SumFunction(g) = SumFunction(f) - f[x] + g[x]
<1>1. /\ DOMAIN g = S /\ DOMAIN f = S
      /\ \A y \in S : f[y] \in Int /\ g[y] \in Int
      /\ \A y \in S \ {x} : f[y] = g[y]
  OBVIOUS
<1> QED
  BY <1>1, SumChange DEF SumFunction

-----------------------------------------------------------------------------
\* Powers of two, as a recursive function.

LEMMA PowersOfTwo ==
  ASSUME NEW p, p = CHOOSE g : g = [n \in Nat |-> IF n = 0 THEN 1 ELSE 2 * g[n - 1]]
  PROVE  /\ p \in [Nat -> Nat \ {0}]
         /\ p[0] = 1
         /\ \A n \in Nat : p[n + 1] = 2 * p[n]
<1> DEFINE Equation(g) == g = [n \in Nat |-> IF n = 0 THEN 1 ELSE 2 * g[n - 1]]
           T == Nat \ {0}
           step == [v \in T |-> 2 * v]
           one == 1
<1>1. \E g : Equation(g)
  <2>1. one \in T /\ step \in [T -> T]
    OBVIOUS
  <2>2. \A v \in T : step[v] = 2 * v
    OBVIOUS
  <2> HIDE DEF T, step, one
  <2>3. PICK g \in [Nat -> T] : g[0] = one /\ \A n \in Nat : g[n + 1] = step[g[n]]
    BY <2>1, NatRecursion
  <2>4. ASSUME NEW n \in Nat, n # 0 PROVE g[n] = 2 * g[n - 1]
    <3>1. n - 1 \in Nat /\ (n - 1) + 1 = n
      BY <2>4
    <3> QED
      BY <2>2, <2>3, <3>1
  <2>5. Equation(g)
    BY <2>3, <2>4 DEF one
  <2> QED
    BY <2>5
<1>2. Equation(p)
  BY <1>1
<1>3. p[0] = 1 /\ \A n \in Nat : p[n + 1] = 2 * p[n]
  <2>1. \A n \in Nat : p[n] = IF n = 0 THEN 1 ELSE 2 * p[n - 1]
    BY <1>2
  <2>2. ASSUME NEW n \in Nat PROVE p[n + 1] = 2 * p[n]
    <3>1. n + 1 \in Nat /\ n + 1 # 0 /\ (n + 1) - 1 = n
      OBVIOUS
    <3> QED
      BY <2>1, <3>1
  <2> QED
    BY <2>1, <2>2
<1> DEFINE Good == {n \in Nat : p[n] \in T}
<1>4. 0 \in Good /\ \A n \in Nat : n \in Good => n + 1 \in Good
  BY <1>3
<1>5. Nat \subseteq Good
  <2> HIDE DEF Good
  <2> QED
    BY <1>4, NatSetInduction
<1>6. p \in [Nat -> T]
  BY <1>2, <1>5
<1> QED
  BY <1>3, <1>6

\* The sum over two sets that have nothing in common.
LEMMA SumUnion ==
  ASSUME NEW f, NEW S, NEW T, IsFiniteSet(S), IsFiniteSet(T), S \intersect T = {},
         \A x \in S \union T : f[x] \in Int
  PROVE  SumFunctionOnSet(f, S \union T) = SumFunctionOnSet(f, S) + SumFunctionOnSet(f, T)
<1> DEFINE Good == {t \in SUBSET T :
                      SumFunctionOnSet(f, S \union t)
                      = SumFunctionOnSet(f, S) + SumFunctionOnSet(f, t)}
<1>1. ASSUME NEW t \in SUBSET T, \A u \in SUBSET t : u # t => u \in Good
      PROVE  t \in Good
  <2>1. SumFunctionOnSet(f, S) \in Int
    BY SumInt
  <2>2. CASE t = {}
    <3>1. S \union t = S
      BY <2>2
    <3>2. SumFunctionOnSet(f, S \union t) = SumFunctionOnSet(f, S)
      BY <3>1, Zenon
    <3>3. SumFunctionOnSet(f, t) = 0
      BY <2>2, SumEmpty
    <3> QED
      BY <2>1, <3>2, <3>3
  <2>3. CASE t # {}
    <3>1. PICK x \in t : TRUE
      BY <2>3
    <3> DEFINE rest == t \ {x}
               all == S \union t
    <3>2. all \ {x} = S \union rest /\ x \in all /\ rest \in SUBSET t /\ rest # t
      BY <3>1
    <3>3. IsFiniteSet(t) /\ IsFiniteSet(rest) /\ IsFiniteSet(all)
      BY FS_Subset, FS_Union
    <3>4. SumFunctionOnSet(f, S \union rest)
          = SumFunctionOnSet(f, S) + SumFunctionOnSet(f, rest)
      BY <1>1, <3>2
    <3>5. \A y \in all : f[y] \in Int
      OBVIOUS
    <3> HIDE DEF all
    <3>6. SumFunctionOnSet(f, all) = f[x] + SumFunctionOnSet(f, S \union rest)
      <4>1. SumFunctionOnSet(f, all) = f[x] + SumFunctionOnSet(f, all \ {x})
        BY <3>2, <3>3, <3>5, SumRemove
      <4> QED
        BY <3>2, <4>1
    <3>7. SumFunctionOnSet(f, t) = f[x] + SumFunctionOnSet(f, rest)
      BY <3>1, <3>3, SumRemove
    <3>8. SumFunctionOnSet(f, rest) \in Int /\ f[x] \in Int
      BY <3>1, <3>3, SumInt
    <3>9. SumFunctionOnSet(f, all) = SumFunctionOnSet(f, S) + SumFunctionOnSet(f, t)
      BY <2>1, <3>4, <3>6, <3>7, <3>8
    <3> QED
      BY <3>9 DEF all
  <2> QED
    BY <2>2, <2>3
<1>2. T \in Good
  <2> HIDE DEF Good
  <2> QED
    BY <1>1, SetInduction
<1> QED
  BY <1>2

\* More terms, none of them negative, make no smaller sum.
LEMMA SumMonotone ==
  ASSUME NEW f, NEW S, NEW T, IsFiniteSet(T), S \subseteq T, \A x \in T : f[x] \in Nat
  PROVE  SumFunctionOnSet(f, S) <= SumFunctionOnSet(f, T)
<1> DEFINE rest == T \ S
<1>1. /\ IsFiniteSet(S) /\ IsFiniteSet(rest)
      /\ S \intersect rest = {} /\ S \union rest = T
  BY FS_Subset
<1>2. /\ \A x \in S : f[x] \in Nat
      /\ \A x \in rest : f[x] \in Nat
      /\ \A x \in S \union rest : f[x] \in Int
  BY <1>1
<1> HIDE DEF rest
<1>3. SumFunctionOnSet(f, S \union rest)
      = SumFunctionOnSet(f, S) + SumFunctionOnSet(f, rest)
  BY <1>1, <1>2, SumUnion
<1>4. SumFunctionOnSet(f, S) \in Nat /\ SumFunctionOnSet(f, rest) \in Nat
  BY <1>1, <1>2, SumNat
<1>5. SumFunctionOnSet(f, T) = SumFunctionOnSet(f, S) + SumFunctionOnSet(f, rest)
  BY <1>1, <1>3, Zenon
<1> QED
  BY <1>4, <1>5
-----------------------------------------------------------------------------
\* Lists and their elements.

LEMMA RangeIn ==
  ASSUME NEW S, NEW s \in Seq(S)
  PROVE  /\ Range(s) \subseteq S
         /\ \A x : x \in Range(s) <=> \E i \in 1 .. Len(s) : s[i] = x
BY DEF Range

LEMMA RangeOfTwo ==
  ASSUME NEW S, NEW s \in Seq(S), NEW t \in Seq(S)
  PROVE  /\ s \o t \in Seq(S)
         /\ Range(s \o t) = Range(s) \union Range(t)
         /\ Len(s \o t) = Len(s) + Len(t)
         /\ \A i \in 1 .. Len(s) : (s \o t)[i] = s[i]
         /\ \A i \in 1 .. Len(t) : (s \o t)[Len(s) + i] = t[i]
<1> DEFINE u == s \o t
<1>1. /\ u \in Seq(S) /\ Len(u) = Len(s) + Len(t)
      /\ \A i \in 1 .. Len(s) : u[i] = s[i]
      /\ \A i \in 1 .. Len(t) : u[Len(s) + i] = t[i]
      /\ \A i \in 1 .. Len(u) : u[i] = IF i <= Len(s) THEN s[i] ELSE t[i - Len(s)]
  OBVIOUS
<1>2. Len(s) \in Nat /\ Len(t) \in Nat
      /\ DOMAIN s = 1 .. Len(s) /\ DOMAIN t = 1 .. Len(t) /\ DOMAIN u = 1 .. Len(u)
  BY <1>1
<1> HIDE DEF u
<1>3. ASSUME NEW x \in Range(u) PROVE x \in Range(s) \union Range(t)
  <2>1. PICK i \in 1 .. Len(u) : x = u[i]
    BY <1>2 DEF Range
  <2>2. i \in 1 .. Len(s) \/ i - Len(s) \in 1 .. Len(t)
    BY <1>1, <1>2
  <2>3. i \in 1 .. Len(s) => x = s[i]
    BY <1>1, <2>1
  <2>4. i - Len(s) \in 1 .. Len(t) => x = t[i - Len(s)]
    BY <1>1, <1>2, <2>1
  <2> QED
    BY <1>2, <2>2, <2>3, <2>4 DEF Range
<1>4. ASSUME NEW x \in Range(s) PROVE x \in Range(u)
  <2>1. PICK i \in 1 .. Len(s) : x = s[i]
    BY <1>2 DEF Range
  <2>2. i \in 1 .. Len(u)
    BY <1>1, <1>2
  <2> QED
    BY <1>1, <1>2, <2>1, <2>2 DEF Range
<1>5. ASSUME NEW x \in Range(t) PROVE x \in Range(u)
  <2>1. PICK i \in 1 .. Len(t) : x = t[i]
    BY <1>2 DEF Range
  <2>2. Len(s) + i \in 1 .. Len(u)
    BY <1>1, <1>2
  <2> QED
    BY <1>1, <1>2, <2>1, <2>2 DEF Range
<1>6. Range(u) = Range(s) \union Range(t)
  BY <1>3, <1>4, <1>5
<1> QED
  BY <1>1, <1>6 DEF u

LEMMA RangeOfOne ==
  ASSUME NEW S, NEW x \in S
  PROVE  <<x>> \in Seq(S) /\ Range(<<x>>) = {x} /\ <<>> \in Seq(S) /\ Range(<<>>) = {}
<1>1. <<x>> \in Seq(S) /\ DOMAIN <<x>> = {1} /\ <<x>>[1] = x
  OBVIOUS
<1>2. <<>> \in Seq(S) /\ DOMAIN <<>> = {}
  OBVIOUS
<1>3. Range(<<x>>) = {x}
  <2> DEFINE s == <<x>>
  <2>1. DOMAIN s = {1} /\ s[1] = x
    BY <1>1
  <2> HIDE DEF s
  <2>2. Range(s) = {x}
    BY <2>1 DEF Range
  <2> QED
    BY <2>2 DEF s
<1>4. Range(<<>>) = {}
  BY <1>2 DEF Range
<1> QED
  BY <1>1, <1>2, <1>3, <1>4

LEMMA RangeOfTail ==
  ASSUME NEW S, NEW s \in Seq(S), s # <<>>
  PROVE  /\ Tail(s) \in Seq(S) /\ Len(Tail(s)) = Len(s) - 1 /\ Len(s) \in Nat /\ Len(s) # 0
         /\ Head(s) = s[1] /\ Head(s) \in S
         /\ \A i \in 1 .. Len(s) - 1 : Tail(s)[i] = s[i + 1]
         /\ \A x \in Range(s) : x = Head(s) \/ x \in Range(Tail(s))
<1> DEFINE t == Tail(s)
<1>1. /\ t \in Seq(S) /\ Len(t) = Len(s) - 1 /\ Len(s) \in Nat /\ Len(s) # 0
      /\ Head(s) = s[1] /\ Head(s) \in S
      /\ \A i \in 1 .. Len(s) - 1 : t[i] = s[i + 1]
  OBVIOUS
<1> HIDE DEF t
<1>2. ASSUME NEW x \in Range(s), x # Head(s) PROVE x \in Range(t)
  <2>1. PICK i \in 1 .. Len(s) : s[i] = x
    BY RangeIn
  <2>2. i - 1 \in 1 .. Len(t) /\ t[i - 1] = x
    BY <1>1, <1>2, <2>1
  <2> QED
    BY <1>1, <2>2, RangeIn
<1> QED
  BY <1>1, <1>2 DEF t

\* Lists one after the other: the recursive function that puts them together.
PutTogether(g, seq, lists) ==
  g = [i \in 0 .. Len(seq) |-> IF i = 0 THEN <<>> ELSE g[i - 1] \o lists[seq[i]]]

\* There is a list of elements of T for each element of seq.
AreLists(seq, lists, S, T) == seq \in Seq(S) /\ \A x \in S : lists[x] \in Seq(T)

LEMMA PutTogetherExists ==
  ASSUME NEW S, NEW T, NEW seq, NEW lists, AreLists(seq, lists, S, T)
  PROVE  \E g : PutTogether(g, seq, lists)
<1> DEFINE L == Len(seq)
           P == Nat \X Seq(T)
           step == [p \in P |-> <<p[1] + 1,
                                  IF p[1] + 1 \in 1 .. L
                                    THEN p[2] \o lists[seq[p[1] + 1]] ELSE p[2]>>]
           first == <<0, <<>>>>
<1>1. L \in Nat /\ \A i \in 1 .. L : seq[i] \in S /\ lists[seq[i]] \in Seq(T)
  <2>1. L \in Nat /\ \A i \in 1 .. L : seq[i] \in S
    BY DEF AreLists
  <2> QED
    BY <2>1 DEF AreLists
<1>2. first \in P /\ step \in [P -> P]
  <2>1. <<>> \in Seq(T) /\ 0 \in Nat
    OBVIOUS
  <2>2. first \in P
    BY <2>1
  <2>3. ASSUME NEW p \in P PROVE step[p] \in P
    <3>1. p[1] \in Nat /\ p[2] \in Seq(T) /\ p[1] + 1 \in Nat
      OBVIOUS
    <3>2. p[1] + 1 \in 1 .. L => p[2] \o lists[seq[p[1] + 1]] \in Seq(T)
      BY <1>1, <3>1
    <3> QED
      BY <3>1, <3>2
  <2> QED
    BY <2>2, <2>3
<1>3. /\ first[1] = 0 /\ first[2] = <<>>
      /\ \A p \in P : /\ step[p][1] = p[1] + 1
                      /\ p[1] + 1 \in 1 .. L =>
                           step[p][2] = p[2] \o lists[seq[p[1] + 1]]
  OBVIOUS
<1> HIDE DEF step, first, P
<1>4. PICK h \in [Nat -> P] : h[0] = first /\ \A k \in Nat : h[k + 1] = step[h[k]]
  <2>0. first \in P /\ step \in [P -> P]
    BY <1>2
  <2> HIDE DEF L
  <2>1. \E h \in [Nat -> P] : h[0] = first /\ \A k \in Nat : h[k + 1] = step[h[k]]
    BY <2>0, NatRecursion, SMTT(30)
  <2> QED
    BY <2>1
<1> DEFINE N == {k \in Nat : h[k][1] = k}
           f == [i \in 0 .. L |-> h[i][2]]
<1>5. Nat \subseteq N
  <2>1. 0 \in N
    BY <1>3, <1>4
  <2>2. ASSUME NEW k \in Nat, k \in N PROVE k + 1 \in N
    <3>1. k + 1 \in Nat /\ h[k] \in P /\ h[k][1] = k
      BY <1>4, <2>2
    <3> QED
      BY <1>3, <1>4, <3>1
  <2> HIDE DEF N
  <2> QED
    BY <2>1, <2>2, NatSetInduction
<1>6. PutTogether(f, seq, lists)
  <2>1. f[0] = <<>>
    BY <1>1, <1>3, <1>4
  <2>2. ASSUME NEW i \in 0 .. L, i # 0 PROVE f[i] = f[i - 1] \o lists[seq[i]]
    <3>1. i - 1 \in Nat /\ (i - 1) + 1 = i /\ i \in 1 .. L /\ i - 1 \in 0 .. L
      BY <1>1, <2>2
    <3>2. h[i - 1][1] = i - 1 /\ h[i - 1] \in P /\ h[i] = step[h[i - 1]]
      BY <1>4, <1>5, <3>1
    <3>3. h[i][2] = h[i - 1][2] \o lists[seq[i]]
      BY <1>3, <3>1, <3>2
    <3> QED
      BY <3>1, <3>3
  <2> QED
    BY <2>1, <2>2 DEF PutTogether
<1> QED
  BY <1>6

LEMMA PutTogetherRange ==
  ASSUME NEW S, NEW T, NEW seq, NEW lists, AreLists(seq, lists, S, T),
         NEW over, PutTogether(over, seq, lists)
  PROVE  /\ over[Len(seq)] \in Seq(T)
         /\ \A x : x \in Range(over[Len(seq)])
                    <=> \E y \in Range(seq) : x \in Range(lists[y])
<1> DEFINE L == Len(seq)
<1>1. L \in Nat /\ \A i \in 1 .. L : seq[i] \in S /\ lists[seq[i]] \in Seq(T)
  <2>1. L \in Nat /\ \A i \in 1 .. L : seq[i] \in S
    BY DEF AreLists
  <2> QED
    BY <2>1 DEF AreLists
<1>2. over[0] = <<>> /\ \A i \in 1 .. L : over[i] = over[i - 1] \o lists[seq[i]]
  <2>1. 0 \in 0 .. L /\ \A i \in 1 .. L : i \in 0 .. L /\ i # 0
    BY <1>1
  <2> QED
    BY <2>1 DEF PutTogether
<1> DEFINE In(x, k) == \E i \in 1 .. k : x \in Range(lists[seq[i]])
           Good == {k \in Nat : k <= L =>
                      /\ over[k] \in Seq(T)
                      /\ \A x : x \in Range(over[k]) <=> In(x, k)}
<1>8. Nat \subseteq Good
  <2>1. 0 \in Good
    <3>1. over[0] = <<>>
      BY <1>2
    <3>2. <<>> \in Seq(T) /\ DOMAIN <<>> = {}
      OBVIOUS
    <3>3. \A x : x \notin Range(over[0])
      BY <3>1, <3>2 DEF Range
    <3>4. \A x : ~In(x, 0)
      OBVIOUS
    <3>5. over[0] \in Seq(T) /\ 0 \in Nat
      BY <3>1, <3>2
    <3> HIDE DEF In
    <3> QED
      BY <3>3, <3>4, <3>5
  <2>2. ASSUME NEW k \in Nat, k \in Good PROVE k + 1 \in Good
    <3>1. SUFFICES ASSUME k + 1 <= L
                   PROVE  /\ over[k + 1] \in Seq(T)
                          /\ \A x : x \in Range(over[k + 1]) <=> In(x, k + 1)
      OBVIOUS
    <3>2. /\ k + 1 \in 1 .. L /\ k + 1 \in 0 .. L /\ k + 1 # 0
          /\ (k + 1) - 1 = k /\ k <= L
      BY <1>1, <3>1
    <3>3. over[k + 1] = over[k] \o lists[seq[k + 1]]
      BY <1>2, <3>2
    <3>4. over[k] \in Seq(T) /\ \A x : x \in Range(over[k]) <=> In(x, k)
      BY <2>2, <3>2
    <3>5. lists[seq[k + 1]] \in Seq(T)
      BY <1>1, <3>2
    <3>6. /\ over[k] \o lists[seq[k + 1]] \in Seq(T)
          /\ Range(over[k] \o lists[seq[k + 1]])
               = Range(over[k]) \union Range(lists[seq[k + 1]])
      <4> DEFINE s == over[k]
                 u == lists[seq[k + 1]]
      <4>1. s \in Seq(T) /\ u \in Seq(T)
        BY <3>4, <3>5
      <4> HIDE DEF s, u
      <4>2. s \o u \in Seq(T) /\ Range(s \o u) = Range(s) \union Range(u)
        BY <4>1, RangeOfTwo
      <4> QED
        BY <4>2 DEF s, u
    <3>7. \A i : i \in 1 .. k + 1 <=> i \in 1 .. k \/ i = k + 1
      BY <2>2
    <3>8. \A x : In(x, k + 1) <=> In(x, k) \/ x \in Range(lists[seq[k + 1]])
      BY <3>7, Zenon
    <3> HIDE DEF In
    <3>9. \A x : x \in Range(over[k + 1])
                   <=> x \in Range(over[k]) \/ x \in Range(lists[seq[k + 1]])
      BY <3>3, <3>6
    <3> QED
      BY <3>3, <3>4, <3>6, <3>8, <3>9
  <2> HIDE DEF Good
  <2> QED
    BY <2>1, <2>2, NatSetInduction
<1>9. /\ over[L] \in Seq(T)
      /\ \A x : x \in Range(over[L]) <=> In(x, L)
  <2>1. L \in Good
    BY <1>1, <1>8
  <2> HIDE DEF L
  <2> QED
    BY <1>1, <2>1
<1>10. \A x : In(x, L) <=> \E y \in Range(seq) : x \in Range(lists[y])
  <2>1. \A y : y \in Range(seq) <=> \E i \in 1 .. L : seq[i] = y
    BY RangeIn DEF AreLists
  <2> QED
    BY <2>1, Zenon
<1> QED
  BY <1>9, <1>10

LEMMA RangeOfAll ==
  ASSUME NEW S, NEW T, NEW seq, NEW lists, AreLists(seq, lists, S, T)
  PROVE  LET over == CHOOSE g : PutTogether(g, seq, lists)
         IN  /\ over[Len(seq)] \in Seq(T)
             /\ \A x : x \in Range(over[Len(seq)])
                        <=> \E y \in Range(seq) : x \in Range(lists[y])
<1> DEFINE over == CHOOSE g : PutTogether(g, seq, lists)
<1>1. PutTogether(over, seq, lists)
  BY PutTogetherExists
<1> HIDE DEF over
<1>2. /\ over[Len(seq)] \in Seq(T)
      /\ \A x : x \in Range(over[Len(seq)])
                 <=> \E y \in Range(seq) : x \in Range(lists[y])
  BY <1>1, PutTogetherRange, Zenon
<1> QED
  BY <1>2 DEF over
===============================================================================
