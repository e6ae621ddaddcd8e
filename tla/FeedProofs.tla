----------------------------- MODULE FeedProofs ------------------------------
(***************************************************************************)
(* Theorems about the complete feed, for any keys, paths, payloads, limits,*)
(* readers, widths and heights of nodes, and any length of the chain: what *)
(* the skip pointers, the catalog and the index compute, that every step   *)
(* keeps the inductive invariant that relates them to the log, and what    *)
(* follows from it.                                                        *)
(*                                                                         *)
(* Every recursion of the model goes from i - 1 to i, so an instance of    *)
(* module Steps, whose constants are its base and its step, proves that it *)
(* is well defined.                                                        *)
(***************************************************************************)
EXTENDS FeedInv, TLAPS, FiniteSetTheorems

(***************************************************************************)
(* The skip pointers: powers of two and lowest bits.                       *)
(***************************************************************************)

\* The recursions of the skip pointers, one by one.
Zero(p) == 0
One(p)  == 1
LowBitStep(p, n, v) == IF n % 2 = 1 THEN 1 ELSE 2 * v
DigitStep(p, n, v)  == IF n < 2 THEN 0 ELSE 1 + v
DoubleStep(p, n, v) == 2 * v

LowBits == INSTANCE Steps WITH Base <- Zero, Step <- LowBitStep
Digits  == INSTANCE Steps WITH Base <- Zero, Step <- DigitStep
Powers  == INSTANCE Steps WITH Base <- One, Step <- DoubleStep

Half   == [n \in Nat |-> n \div 2]
Before == [n \in Nat |-> IF n = 0 THEN 0 ELSE n - 1]

Pow2[n \in Nat] == IF n = 0 THEN 1 ELSE 2 * Pow2[n - 1]

LEMMA HalfOf ==
  /\ \A n \in Nat : n \div 2 \in Nat /\ n % 2 \in 0..1 /\ n = 2 * (n \div 2) + (n % 2)
  /\ \A n \in Nat \ {0} : n \div 2 < n
  /\ \A n \in Nat : (2 * n) \div 2 = n /\ ((2 * n) % 2) = 0 /\ (2 * n + 1) % 2 = 1
OBVIOUS

\* The lowest bit, by its recursion.
LEMMA SkipDistanceOf ==
  \A g \in Nat : SkipDistance[g] = IF g = 0 THEN 0 ELSE IF g % 2 = 1 THEN 1 ELSE 2 * SkipDistance[g \div 2]
<1> DEFINE G(f) == [g \in Nat |-> IF g = 0 THEN 0 ELSE IF g % 2 = 1 THEN 1 ELSE 2 * f[g \div 2]]
<1>1. \E f : f = G(f)
  <2>1. LowBits!Backwards(Half) BY HalfOf DEF LowBits!Backwards, Half
  <2>2. PICK f : LowBits!Unending(f, 0, Half) BY <2>1, LowBits!Endless
  <2>3. f = G(f) BY <2>2 DEF LowBits!Unending, Zero, LowBitStep, Half
  <2> QED BY <2>3
<1>2. SkipDistance = CHOOSE f : f = G(f) BY DEF SkipDistance
<1>3. SkipDistance = G(SkipDistance) BY <1>1, <1>2
<1> QED BY <1>3

LEMMA Log2Of ==
  \A n \in Nat : Log2[n] = IF n < 2 THEN 0 ELSE 1 + Log2[n \div 2]
<1> DEFINE G(f) == [n \in Nat |-> IF n < 2 THEN 0 ELSE 1 + f[n \div 2]]
<1>1. \E f : f = G(f)
  <2>1. Digits!Backwards(Half) BY HalfOf DEF Digits!Backwards, Half
  <2>2. PICK f : Digits!Unending(f, 0, Half) BY <2>1, Digits!Endless
  <2>3. f = G(f) BY <2>2 DEF Digits!Unending, Zero, DigitStep, Half
  <2> QED BY <2>3
<1>2. Log2 = CHOOSE f : f = G(f) BY DEF Log2
<1>3. Log2 = G(Log2) BY <1>1, <1>2
<1> QED BY <1>3

LEMMA Pow2Of ==
  Pow2[0] = 1 /\ \A n \in Nat : Pow2[n + 1] = 2 * Pow2[n]
<1> DEFINE G(f) == [n \in Nat |-> IF n = 0 THEN 1 ELSE 2 * f[n - 1]]
<1>1. \E f : f = G(f)
  <2>1. Powers!Backwards(Before) BY DEF Powers!Backwards, Before
  <2>2. PICK f : Powers!Unending(f, 0, Before) BY <2>1, Powers!Endless
  <2>3. f = G(f) BY <2>2 DEF Powers!Unending, One, DoubleStep, Before
  <2> QED BY <2>3
<1>2. Pow2 = CHOOSE f : f = G(f) BY DEF Pow2
<1>3. Pow2 = G(Pow2) BY <1>1, <1>2
<1>4. ASSUME NEW n \in Nat PROVE Pow2[n + 1] = 2 * Pow2[n]
  <2>1. n + 1 \in Nat /\ n + 1 # 0 /\ (n + 1) - 1 = n OBVIOUS
  <2> QED BY <1>3, <2>1
<1> QED BY <1>3, <1>4

LEMMA Pow2Positive == \A n \in Nat : Pow2[n] \in Nat \ {0}
<1> TAKE n \in Nat
<1> DEFINE T == {k \in 0..n : Pow2[k] \in Nat \ {0}}
<1>1. 0 \in T BY Pow2Of
<1>2. \A k \in 0..(n - 1) : k \in T => k + 1 \in T
  <2> SUFFICES ASSUME NEW k \in 0..(n - 1), k \in T PROVE k + 1 \in T OBVIOUS
  <2>1. Pow2[k + 1] = 2 * Pow2[k] BY Pow2Of
  <2> QED BY <2>1
<1> HIDE DEF T
<1>3. 0..n \subseteq T BY <1>1, <1>2, LowBits!UpTo
<1> QED BY <1>3 DEF T

\* A skip pointer leads to an earlier generation, or to none.
LEMMA SkipDistanceBounds == \A g \in Nat \ {0} : SkipDistance[g] \in 1..g
<1> TAKE n \in Nat \ {0}
<1> DEFINE T == {k \in 0..n : \A i \in 1..k : SkipDistance[i] \in 1..i}
<1>1. 0 \in T OBVIOUS
<1>2. \A k \in 0..(n - 1) : k \in T => k + 1 \in T
  <2> SUFFICES ASSUME NEW k \in 0..(n - 1), k \in T PROVE k + 1 \in T OBVIOUS
  <2>1. PICK g : g = k + 1 OBVIOUS
  <2>2. g \in Nat \ {0} BY <2>1
  <2>3. SkipDistance[g] = IF g % 2 = 1 THEN 1 ELSE 2 * SkipDistance[g \div 2]
    BY <2>2, SkipDistanceOf
  <2>4. SkipDistance[g] \in 1..g
    <3>1. CASE g % 2 = 1 BY <2>2, <2>3, <3>1
    <3>2. CASE g % 2 # 1
      <4>1. PICK h : h = g \div 2 OBVIOUS
      <4>2. g = 2 * h /\ h \in 1..k BY <2>1, <2>2, <3>2, <4>1
      <4>3. SkipDistance[h] \in 1..h BY <4>2
      <4> QED BY <2>3, <3>2, <4>1, <4>2, <4>3
    <3> QED BY <3>1, <3>2
  <2> QED BY <2>1, <2>4
<1> HIDE DEF T
<1>3. 0..n \subseteq T BY <1>1, <1>2, LowBits!UpTo
<1>4. n \in T BY <1>3
<1> QED BY <1>4 DEF T

\* The lowest bit of an odd multiple of a power of two is that power.
LEMMA OddMultiple ==
  \A k \in Nat, a \in Nat : SkipDistance[(2 * a + 1) * Pow2[k]] = Pow2[k]
<1> TAKE n \in Nat, a \in Nat
<1> DEFINE odd(k) == (2 * a + 1) * Pow2[k]
           T == {k \in 0..n : SkipDistance[odd(k)] = Pow2[k]}
<1>1. 0 \in T
  <2>1. odd(0) = 2 * a + 1 BY Pow2Of
  <2>2. SkipDistance[2 * a + 1] = 1
    <3>1. 2 * a + 1 \in Nat /\ 2 * a + 1 # 0 /\ (2 * a + 1) % 2 = 1 OBVIOUS
    <3> QED BY <3>1, SkipDistanceOf
  <2> QED BY <2>1, <2>2, Pow2Of
<1>2. \A k \in 0..(n - 1) : k \in T => k + 1 \in T
  <2> SUFFICES ASSUME NEW k \in 0..(n - 1), k \in T PROVE k + 1 \in T OBVIOUS
  <2>1. PICK x : x = odd(k) OBVIOUS
  <2>2. Pow2[k] \in Nat \ {0} /\ Pow2[k + 1] = 2 * Pow2[k] BY Pow2Of, Pow2Positive
  <2>3. x \in Nat \ {0}
    <3>1. PICK u : u = 2 * a + 1 OBVIOUS
    <3>2. PICK v : v = Pow2[k] OBVIOUS
    <3>3. u \in Nat \ {0} /\ v \in Nat \ {0} /\ x = u * v BY <2>1, <2>2, <3>1, <3>2
    <3>4. \A i, j \in Nat \ {0} : i * j \in Nat \ {0} OBVIOUS
    <3> QED BY <3>3, <3>4
  <2>4. odd(k + 1) = 2 * x BY <2>1, <2>2
  <2>5. SkipDistance[2 * x] = 2 * SkipDistance[x]
    <3>1. 2 * x \in Nat /\ 2 * x # 0 /\ (2 * x) % 2 # 1 /\ (2 * x) \div 2 = x BY <2>3
    <3> QED BY <3>1, SkipDistanceOf
  <2>6. SkipDistance[x] = Pow2[k] BY <2>1
  <2>7. k + 1 \in 0..n OBVIOUS
  <2> QED BY <2>2, <2>4, <2>5, <2>6, <2>7
<1> HIDE DEF T
<1>3. 0..n \subseteq T BY <1>1, <1>2, LowBits!UpTo
<1>4. n \in T BY <1>3
<1> QED BY <1>4 DEF T

\* A generation has as many digits as its power of two needs.
LEMMA Log2Range ==
  \A n \in Nat : Log2[n] \in Nat /\ n < Pow2[Log2[n] + 1]
<1> TAKE n \in Nat
<1> DEFINE P(i) == Log2[i] \in Nat /\ i < Pow2[Log2[i] + 1]
           T == {k \in 0..n : \A i \in 0..k : P(i)}
<1>0. Pow2[0 + 1] = 2 BY Pow2Of
<1>1. 0 \in T
  <2>1. Log2[0] = 0 BY Log2Of
  <2> QED BY <1>0, <2>1
<1>2. \A k \in 0..(n - 1) : k \in T => k + 1 \in T
  <2> SUFFICES ASSUME NEW k \in 0..(n - 1), k \in T PROVE k + 1 \in T OBVIOUS
  <2>1. PICK g : g = k + 1 OBVIOUS
  <2>2. g \in Nat BY <2>1
  <2>3. P(g)
    <3>1. CASE g < 2
      <4>1. Log2[g] = 0 BY <2>2, <3>1, Log2Of
      <4> QED BY <1>0, <3>1, <4>1
    <3>2. CASE g >= 2
      <4>1. PICK h : h = g \div 2 OBVIOUS
      <4>2. h \in 0..k /\ g < 2 * (h + 1) /\ h \in Nat BY <2>1, <2>2, <3>2, <4>1
      <4>3. Log2[g] = 1 + Log2[h] BY <2>2, <3>2, <4>1, Log2Of
      <4>4. P(h) BY <4>2
      <4>5. PICK l : l = Log2[h] OBVIOUS
      <4>6. l \in Nat /\ h < Pow2[l + 1] /\ Log2[g] = l + 1 BY <4>3, <4>4, <4>5
      <4>7. PICK m : m = l + 1 OBVIOUS
      <4>8. m \in Nat /\ Pow2[m + 1] = 2 * Pow2[m] /\ Pow2[m] \in Nat
        BY <4>6, <4>7, Pow2Of, Pow2Positive
      <4>9. h + 1 <= Pow2[m] BY <4>2, <4>6, <4>7, <4>8
      <4>10. g < Pow2[m + 1] BY <2>2, <4>2, <4>8, <4>9
      <4> QED BY <4>6, <4>7, <4>8, <4>10
    <3> QED BY <2>2, <3>1, <3>2
  <2>4. \A i \in 0..(k + 1) : i \in 0..k \/ i = g BY <2>1
  <2> HIDE DEF P
  <2> QED BY <2>3, <2>4
<1> HIDE DEF T
<1>3. 0..n \subseteq T BY <1>1, <1>2, LowBits!UpTo
<1>4. n \in T BY <1>3
<1> QED BY <1>4 DEF T

\* The number of digits grows with the number.
LEMMA Log2Grows ==
  \A m, n \in Nat : m <= n => Log2[m] <= Log2[n]
<1> TAKE top, n \in Nat
<1> DEFINE P(i) == \A j \in 0..i : Log2[j] <= Log2[i]
           T == {k \in 0..n : \A i \in 0..k : P(i)}
<1>0. Log2[0] = 0 /\ Log2[1] = 0 BY Log2Of
<1>1. 0 \in T
  <2>1. \A i \in 0..0 : i = 0 OBVIOUS
  <2> QED BY <1>0, <2>1
<1>2. \A k \in 0..(n - 1) : k \in T => k + 1 \in T
  <2> SUFFICES ASSUME NEW k \in 0..(n - 1), k \in T PROVE k + 1 \in T OBVIOUS
  <2>1. PICK g : g = k + 1 OBVIOUS
  <2>2. g \in Nat BY <2>1
  <2>3. P(g)
    <3> SUFFICES ASSUME NEW j \in 0..g PROVE Log2[j] <= Log2[g] OBVIOUS
    <3>0. j \in Nat BY <2>2
    <3>1. CASE j < 2
      <4>1. Log2[j] = 0 BY <3>0, <3>1, Log2Of
      <4>2. Log2[g] \in Nat BY <2>2, Log2Range
      <4> QED BY <4>1, <4>2
    <3>2. CASE j >= 2
      <4>1. PICK a : a = j \div 2 OBVIOUS
      <4>2. PICK b : b = g \div 2 OBVIOUS
      <4>3. b \in 0..k /\ a \in 0..b BY <2>1, <2>2, <3>0, <3>2, <4>1, <4>2
      <4>4. Log2[j] = 1 + Log2[a] BY <3>0, <3>2, <4>1, Log2Of
      <4>5. g >= 2 BY <2>2, <3>0, <3>2
      <4>6. Log2[g] = 1 + Log2[b] BY <2>2, <4>5, <4>2, Log2Of
      <4>7. Log2[a] <= Log2[b] BY <4>3
      <4>8. Log2[a] \in Nat /\ Log2[b] \in Nat BY <4>3, Log2Range
      <4> QED BY <4>4, <4>6, <4>7, <4>8
    <3> QED BY <3>0, <3>1, <3>2
  <2>4. \A i \in 0..(k + 1) : i \in 0..k \/ i = g BY <2>1
  <2> HIDE DEF P
  <2> QED BY <2>3, <2>4
<1> HIDE DEF T
<1>3. 0..n \subseteq T BY <1>1, <1>2, LowBits!UpTo
<1>4. n \in T BY <1>3
<1>5. P(n) BY <1>4 DEF T
<1> QED BY <1>5

LEMMA HopBoundOf ==
  /\ HopBound(0) = 0
  /\ \A k \in Nat : HopBound(k) \in Nat /\ HopBound(k + 1) = HopBound(k) + k + 1
<1>1. HopBound(0) = 0 BY DEF HopBound
<1>2. ASSUME NEW k \in Nat PROVE HopBound(k) \in Nat /\ HopBound(k + 1) = HopBound(k) + k + 1
  <2>1. PICK x : x = k * (k + 1) OBVIOUS
  <2>2. x \in Nat
    <3>1. \A i, j \in Nat : i * j \in Nat OBVIOUS
    <3> QED BY <2>1, <3>1
  <2>3. (k + 1) * ((k + 1) + 1) = x + 2 * (k + 1) BY <2>1
  <2>4. (x + 2 * (k + 1)) \div 2 = x \div 2 + (k + 1) BY <2>2
  <2> QED BY <2>1, <2>2, <2>3, <2>4 DEF HopBound
<1> QED BY <1>1, <1>2

LEMMA HopBoundGrows ==
  \A m, n \in Nat : m <= n => HopBound(m) <= HopBound(n)
<1> TAKE m, n \in Nat
<1> HAVE m <= n
<1> DEFINE T == {k \in 0..(n - m) : HopBound(m) <= HopBound(m + k)}
<1>1. 0 \in T BY HopBoundOf
<1>2. \A k \in 0..((n - m) - 1) : k \in T => k + 1 \in T
  <2> SUFFICES ASSUME NEW k \in 0..((n - m) - 1), k \in T PROVE k + 1 \in T OBVIOUS
  <2>1. PICK j : j = m + k OBVIOUS
  <2>2. j \in Nat /\ m + (k + 1) = j + 1 /\ k + 1 \in 0..(n - m) BY <2>1
  <2>3. HopBound(j + 1) = HopBound(j) + j + 1 /\ HopBound(j) \in Nat /\ HopBound(m) \in Nat
    BY <2>2, HopBoundOf
  <2> QED BY <2>1, <2>2, <2>3
<1> HIDE DEF T
<1>3. n - m \in Nat OBVIOUS
<1>4. 0..(n - m) \subseteq T BY <1>1, <1>2, <1>3, LowBits!UpTo
<1>5. n - m \in T /\ m + (n - m) = n BY <1>3, <1>4
<1> QED BY <1>5 DEF T

(***************************************************************************)
(* Walks down a chain whose commits name their parents and skip targets.   *)
(***************************************************************************)
Linked(commits, n) ==
  \A g \in 1..n : /\ commits[g].generation = g /\ commits[g].parent = g - 1
                  /\ commits[g].skip = SkipTarget(g)

At(g, n) == [digest |-> g, hops |-> n]

SeekWalk(w, commits, start, target) ==
  w[0] = At(start, 0) /\ \A n \in 1..MaxHops : w[n] = Nearer(commits, target, w[n - 1], n)

\* A hop goes to the skip target, or to the parent if that would overshoot.
LEMMA LinkedHop ==
  ASSUME NEW N \in Nat, NEW commits, Linked(commits, N), NEW g \in 1..N, NEW target \in 1..g
  PROVE  Hop(commits, g, target) = IF SkipTarget(g) >= target THEN SkipTarget(g) ELSE g - 1
<1>1. SkipTarget(g) \in 0..(g - 1) BY SkipDistanceBounds DEF SkipTarget
<1>2. commits[g].skip = SkipTarget(g) /\ commits[g].parent = g - 1 BY DEF Linked
<1>3. (g - 1) + 1 = g /\ ~(g < target) OBVIOUS
<1> QED BY <1>1, <1>2, <1>3 DEF Hop, NoCommit

\* One round of the search makes one hop, and counts it.
LEMMA OneHop ==
  ASSUME NEW N \in Nat, NEW commits, Linked(commits, N), NEW start, MaxHops \in Nat,
         NEW g \in 1..N, NEW target \in 1..(g - 1), NEW w, SeekWalk(w, commits, start, target),
         NEW n \in Nat, n + 1 <= MaxHops, w[n] = At(g, n)
  PROVE  w[n + 1] = At(IF SkipTarget(g) >= target THEN SkipTarget(g) ELSE g - 1, n + 1)
<1>1. n + 1 \in 1..MaxHops /\ (n + 1) - 1 = n /\ target \in 1..g /\ g # target /\ g # 0 OBVIOUS
<1>2. w[n + 1] = Nearer(commits, target, At(g, n), n + 1) BY <1>1 DEF SeekWalk
<1>3. Nearer(commits, target, At(g, n), n + 1) = At(Hop(commits, g, target), n + 1)
  BY <1>1 DEF Nearer, At, NoCommit
<1>4. Hop(commits, g, target) = IF SkipTarget(g) >= target THEN SkipTarget(g) ELSE g - 1
  BY <1>1, LinkedHop
<1> QED BY <1>2, <1>3, <1>4

Climbs(w, N, target, k) ==
  \A a \in Nat, g \in 1..N, n \in Nat :
    /\ target <= a * Pow2[k] /\ a * Pow2[k] <= g /\ g < a * Pow2[k] + Pow2[k]
    /\ n + k <= MaxHops /\ w[n] = At(g, n)
    => \E m \in 0..k : w[n + m] = At(a * Pow2[k], n + m)

\* From within a block of 2^k generations that starts at a multiple of 2^k, its
\* start is reached over skip pointers alone, in at most k hops.
LEMMA ClimbDown ==
  ASSUME NEW N \in Nat, NEW commits, Linked(commits, N), NEW start, MaxHops \in Nat,
         NEW target \in Nat \ {0}, NEW w, SeekWalk(w, commits, start, target), NEW digits \in Nat
  PROVE  \A k \in 0..digits : Climbs(w, N, target, k)
<1> DEFINE P(k) == Climbs(w, N, target, k)
           T == {k \in 0..digits : P(k)}
<1>1. P(0)
  <2> SUFFICES ASSUME NEW a \in Nat, NEW g \in 1..N, NEW n \in Nat,
                      a * Pow2[0] <= g, g < a * Pow2[0] + Pow2[0], w[n] = At(g, n)
               PROVE  \E m \in 0..0 : w[n + m] = At(a * Pow2[0], n + m)
    BY DEF Climbs
  <2>1. a * Pow2[0] = a /\ g = a /\ n + 0 = n BY Pow2Of
  <2> QED BY <2>1
<1>2. ASSUME NEW k \in 0..(digits - 1), P(k) PROVE P(k + 1)
  <2> SUFFICES ASSUME NEW a \in Nat, NEW g \in 1..N, NEW n \in Nat,
                      target <= a * Pow2[k + 1], a * Pow2[k + 1] <= g,
                      g < a * Pow2[k + 1] + Pow2[k + 1],
                      n + (k + 1) <= MaxHops, w[n] = At(g, n)
               PROVE  \E m \in 0..(k + 1) : w[n + m] = At(a * Pow2[k + 1], n + m)
    BY DEF Climbs
  <2>1. PICK p : p = Pow2[k] OBVIOUS
  <2>2. p \in Nat \ {0} /\ Pow2[k + 1] = 2 * p BY <2>1, Pow2Of, Pow2Positive
  <2>3. PICK base : base = a * Pow2[k + 1] OBVIOUS
  <2>4. base \in Nat /\ base = (2 * a) * p /\ base + p = (2 * a + 1) * p
    <3>1. base = (2 * a) * p /\ base + p = (2 * a + 1) * p BY <2>2, <2>3
    <3>2. \A i, j \in Nat : i * j \in Nat OBVIOUS
    <3>3. 2 * a \in Nat OBVIOUS
    <3> QED BY <2>2, <3>1, <3>2, <3>3
  <2>5. target <= base /\ base <= g /\ g < base + 2 * p BY <2>2, <2>3
  <2>6. CASE g < base + p
    <3>0. PICK b : b = 2 * a OBVIOUS
    <3>1. b \in Nat /\ n + k <= MaxHops /\ base = b * Pow2[k] BY <2>1, <2>2, <2>4, <3>0
    <3>2. \E m \in 0..k : w[n + m] = At(base, n + m)
      <4>1. base <= g /\ g < base + Pow2[k] BY <2>1, <2>5, <2>6
      <4> QED BY <1>2, <2>5, <3>1, <4>1 DEF Climbs
    <3>3. 0..k \subseteq 0..(k + 1) OBVIOUS
    <3> QED BY <2>3, <3>2, <3>3
  <2>7. CASE g >= base + p
    <3>1. PICK b : b = 2 * a + 1 OBVIOUS
    <3>2. PICK mid : mid = base + p OBVIOUS
    <3>3. b \in Nat /\ mid = b * Pow2[k] /\ mid \in Nat BY <2>1, <2>2, <2>4, <3>1, <3>2
    <3>4. target <= mid /\ mid <= g /\ g < mid + Pow2[k] /\ n + k <= MaxHops
      BY <2>1, <2>2, <2>4, <2>5, <2>7, <3>2
    <3>5. PICK m \in 0..k : w[n + m] = At(mid, n + m)
      <4>1. \E m \in 0..k : w[n + m] = At(b * Pow2[k], n + m) BY <1>2, <3>3, <3>4 DEF Climbs
      <4> QED BY <3>3, <4>1
    <3>6. PICK i : i = n + m OBVIOUS
    <3>7. i \in Nat /\ i + 1 <= MaxHops /\ i + 1 = n + (m + 1) /\ m + 1 \in 0..(k + 1) BY <3>6
    <3>8. mid \in 1..N /\ target \in 1..(mid - 1) BY <2>2, <2>4, <2>5, <3>2, <3>4
    <3>9. SkipTarget(mid) = base
      <4>1. SkipDistance[mid] = p BY <2>1, <3>1, <3>3, OddMultiple
      <4> QED BY <2>2, <2>4, <3>2, <4>1 DEF SkipTarget
    <3>10. w[i] = At(mid, i) BY <3>5, <3>6
    <3>11. w[i + 1] = At(base, i + 1)
      <4>1. w[i + 1] = At(IF SkipTarget(mid) >= target THEN SkipTarget(mid) ELSE mid - 1, i + 1)
        BY SMTT(30), <3>7, <3>8, <3>10, OneHop
      <4>2. base >= target BY <2>4, <2>5
      <4> QED BY <3>9, <4>1, <4>2
    <3> QED BY <2>3, <3>7, <3>11
  <2> QED BY <2>2, <2>4, <2>6, <2>7
<1>3. 0 \in T BY <1>1
<1>4. \A k \in 0..(digits - 1) : k \in T => k + 1 \in T
  <2> SUFFICES ASSUME NEW k \in 0..(digits - 1), k \in T PROVE k + 1 \in T OBVIOUS
  <2>1. P(k) OBVIOUS
  <2>2. P(k + 1) BY <1>2, <2>1
  <2> HIDE DEF P
  <2>3. k + 1 \in 0..digits OBVIOUS
  <2> QED BY <2>2, <2>3
<1>5. T = {k \in 0..digits : P(k)} OBVIOUS
<1> HIDE DEF P, T
<1>6. 0..digits \subseteq T BY <1>3, <1>4, LowBits!UpTo
<1>7. \A k \in 0..digits : P(k) BY <1>5, <1>6
<1> QED BY <1>7 DEF P

SeeksDown(w, N, target, k) ==
  \A a \in Nat, g \in 1..N, n \in Nat :
    /\ a * Pow2[k] <= target /\ target <= g /\ g < a * Pow2[k] + Pow2[k]
    /\ n + HopBound(k) <= MaxHops /\ w[n] = At(g, n)
    => \E m \in 0..HopBound(k) : w[n + m] = At(target, n + m)

\* Within such a block, any earlier generation is reached: down to the start of
\* the upper half, across, and on in the lower half.
LEMMA SeekDown ==
  ASSUME NEW N \in Nat, NEW commits, Linked(commits, N), NEW start, MaxHops \in Nat,
         NEW target \in Nat \ {0}, NEW w, SeekWalk(w, commits, start, target), NEW digits \in Nat
  PROVE  \A k \in 0..digits : SeeksDown(w, N, target, k)
<1> DEFINE P(k) == SeeksDown(w, N, target, k)
           T == {k \in 0..digits : P(k)}
<1>1. P(0)
  <2> SUFFICES ASSUME NEW a \in Nat, NEW g \in 1..N, NEW n \in Nat,
                      a * Pow2[0] <= target, target <= g, g < a * Pow2[0] + Pow2[0],
                      w[n] = At(g, n)
               PROVE  \E m \in 0..HopBound(0) : w[n + m] = At(target, n + m)
    BY DEF SeeksDown
  <2>1. g = target /\ n + 0 = n BY Pow2Of
  <2>2. 0 \in 0..HopBound(0) BY HopBoundOf
  <2> QED BY <2>1, <2>2
<1>2. ASSUME NEW k \in 0..(digits - 1), P(k) PROVE P(k + 1)
  <2> SUFFICES ASSUME NEW a \in Nat, NEW g \in 1..N, NEW n \in Nat,
                      a * Pow2[k + 1] <= target, target <= g,
                      g < a * Pow2[k + 1] + Pow2[k + 1],
                      n + HopBound(k + 1) <= MaxHops, w[n] = At(g, n)
               PROVE  \E m \in 0..HopBound(k + 1) : w[n + m] = At(target, n + m)
    BY DEF SeeksDown
  <2>1. PICK p : p = Pow2[k] OBVIOUS
  <2>2. p \in Nat \ {0} /\ Pow2[k + 1] = 2 * p BY <2>1, Pow2Of, Pow2Positive
  <2>3. PICK base : base = a * Pow2[k + 1] OBVIOUS
  <2>4. base \in Nat /\ base = (2 * a) * p /\ base + p = (2 * a + 1) * p
    <3>1. base = (2 * a) * p /\ base + p = (2 * a + 1) * p BY <2>2, <2>3
    <3>2. \A i, j \in Nat : i * j \in Nat OBVIOUS
    <3>3. 2 * a \in Nat OBVIOUS
    <3> QED BY <2>2, <3>1, <3>2, <3>3
  <2>5. base <= target /\ target <= g /\ g < base + 2 * p BY <2>2, <2>3
  <2>6. PICK h : h = HopBound(k) OBVIOUS
  <2>7. h \in Nat /\ HopBound(k + 1) = h + k + 1 BY <2>6, HopBoundOf
  <2>8. n + h <= MaxHops /\ 0..h \subseteq 0..HopBound(k + 1) BY <2>7
  <2>9. CASE g < base + p
    <3>1. 2 * a \in Nat OBVIOUS
    <3>2. \E m \in 0..h : w[n + m] = At(target, n + m)
      BY <1>2, <2>1, <2>4, <2>5, <2>6, <2>8, <2>9, <3>1 DEF SeeksDown
    <3> QED BY <2>8, <3>2
  <2>10. CASE target >= base + p
    <3>1. PICK b : b = 2 * a + 1 OBVIOUS
    <3>2. b \in Nat /\ base + p = b * Pow2[k] BY <2>1, <2>4, <3>1
    <3>3. b * Pow2[k] <= target /\ g < b * Pow2[k] + Pow2[k]
      BY <2>1, <2>2, <2>4, <2>5, <2>10, <3>2
    <3>4. \E m \in 0..h : w[n + m] = At(target, n + m)
      BY <1>2, <2>5, <2>6, <2>8, <3>2, <3>3 DEF SeeksDown
    <3> QED BY <2>8, <3>4
  <2>11. CASE target < base + p /\ g >= base + p
    <3>1. PICK b : b = 2 * a + 1 OBVIOUS
    <3>2. PICK mid : mid = base + p OBVIOUS
    <3>3. b \in Nat /\ mid = b * Pow2[k] /\ mid \in Nat BY <2>1, <2>2, <2>4, <3>1, <3>2
    <3>4. target <= mid /\ mid <= g /\ g < mid + Pow2[k] /\ n + k <= MaxHops
      BY <2>1, <2>2, <2>4, <2>5, <2>7, <2>11, <3>2
    <3>5. PICK m \in 0..k : w[n + m] = At(mid, n + m)
      <4>1. k \in 0..digits OBVIOUS
      <4>2. Climbs(w, N, target, k) BY <4>1, ClimbDown
      <4>3. target <= b * Pow2[k] /\ b * Pow2[k] <= g /\ g < b * Pow2[k] + Pow2[k]
        BY <3>3, <3>4
      <4>4. \E m \in 0..k : w[n + m] = At(b * Pow2[k], n + m)
        BY <3>3, <3>4, <4>2, <4>3 DEF Climbs
      <4> QED BY <3>3, <4>4
    <3>6. PICK i : i = n + m OBVIOUS
    <3>7. i \in Nat /\ i + 1 <= MaxHops /\ i + 1 = n + (m + 1) /\ m + 1 \in 0..(k + 1)
      BY <2>7, <3>6
    <3>8. mid \in 1..N /\ target \in 1..(mid - 1) BY <2>2, <2>4, <2>5, <2>11, <3>2, <3>4
    <3>9. SkipTarget(mid) = base
      <4>1. SkipDistance[mid] = p BY <2>1, <3>1, <3>3, OddMultiple
      <4> QED BY <2>2, <2>4, <3>2, <4>1 DEF SkipTarget
    <3>10. w[i] = At(mid, i) BY <3>5, <3>6
    <3>11. w[i + 1] = At(IF base >= target THEN base ELSE mid - 1, i + 1)
      <4>1. w[i + 1] = At(IF SkipTarget(mid) >= target THEN SkipTarget(mid) ELSE mid - 1, i + 1)
        BY SMTT(30), <3>7, <3>8, <3>10, OneHop
      <4> QED BY <3>9, <4>1
    <3>12. CASE base >= target
      <4>1. base = target BY <2>4, <2>5, <3>12
      <4>2. m + 1 \in 0..HopBound(k + 1) BY <2>7
      <4> QED BY <3>7, <3>11, <3>12, <4>1, <4>2
    <3>13. CASE base < target
      <4>1. PICK j : j = mid - 1 OBVIOUS
      <4>2. j \in 1..N /\ target <= j /\ j < base + p BY <2>4, <3>2, <3>8, <4>1
      <4>3. w[i + 1] = At(j, i + 1) BY <2>4, <3>11, <3>13, <4>1
      <4>4. PICK i1 : i1 = i + 1 OBVIOUS
      <4>5. i1 \in Nat /\ i1 + h <= MaxHops /\ i1 = n + (m + 1) BY <2>7, <3>7, <4>4
      <4>6. 2 * a \in Nat OBVIOUS
      <4>7. PICK l \in 0..h : w[i1 + l] = At(target, i1 + l)
        BY <1>2, <2>1, <2>4, <2>5, <2>6, <4>2, <4>3, <4>4, <4>5, <4>6 DEF SeeksDown
      <4>8. PICK q : q = (m + 1) + l OBVIOUS
      <4>9. q \in 0..HopBound(k + 1) /\ n + q = i1 + l BY <2>7, <4>5, <4>8
      <4> QED BY <4>7, <4>9
    <3> QED BY <2>4, <3>12, <3>13
  <2> QED BY <2>2, <2>4, <2>9, <2>10, <2>11
<1>3. 0 \in T BY <1>1
<1>4. \A k \in 0..(digits - 1) : k \in T => k + 1 \in T
  <2> SUFFICES ASSUME NEW k \in 0..(digits - 1), k \in T PROVE k + 1 \in T OBVIOUS
  <2>1. P(k) OBVIOUS
  <2>2. P(k + 1) BY <1>2, <2>1
  <2> HIDE DEF P
  <2>3. k + 1 \in 0..digits OBVIOUS
  <2> QED BY <2>2, <2>3
<1>5. T = {k \in 0..digits : P(k)} OBVIOUS
<1> HIDE DEF P, T
<1>6. 0..digits \subseteq T BY <1>3, <1>4, LowBits!UpTo
<1>7. \A k \in 0..digits : P(k) BY <1>5, <1>6
<1> QED BY <1>7 DEF P
SeekBase(p)       == At(p[3], 0)
SeekStep(p, n, v) == Nearer(p[1], p[2], v, n)
Hopping == INSTANCE Steps WITH Base <- SeekBase, Step <- SeekStep

\* The walk of Seek is well defined, and is a SeekWalk.
LEMMA SeekWalks ==
  ASSUME NEW commits, NEW start, NEW target, MaxHops \in Nat
  PROVE  \E w : /\ SeekWalk(w, commits, start, target)
                /\ Seek(commits, start, target) = {found \in {w[MaxHops]} : found.digest = target}
<1> DEFINE G(f) == [n \in 0..MaxHops |-> IF n = 0 THEN [digest |-> start, hops |-> 0]
                                         ELSE Nearer(commits, target, f[n - 1], n)]
           w == CHOOSE f : f = G(f)
<1>1. \E f : f = G(f)
  <2>1. PICK p : p = <<commits, target, start>> OBVIOUS
  <2>2. p[1] = commits /\ p[2] = target /\ p[3] = start BY <2>1
  <2>3. PICK f : Hopping!Solves(f, p, MaxHops) BY Hopping!Defined
  <2>4. f = G(f) BY <2>2, <2>3 DEF Hopping!Solves, SeekBase, SeekStep, At
  <2> QED BY <2>4
<1>2. w = G(w) BY <1>1
<1>3. Seek(commits, start, target) = {found \in {w[MaxHops]} : found.digest = target} BY DEF Seek
<1>4. SeekWalk(w, commits, start, target)
  <2> HIDE DEF w
  <2>1. w[0] = At(start, 0) BY <1>2 DEF At
  <2>2. ASSUME NEW n \in 1..MaxHops PROVE w[n] = Nearer(commits, target, w[n - 1], n)
    <3>1. n \in 0..MaxHops /\ n # 0 OBVIOUS
    <3> QED BY <1>2, <3>1
  <2> QED BY <2>1, <2>2 DEF SeekWalk
<1> HIDE DEF w
<1> QED BY <1>3, <1>4

\* The walk stays where it has ended.
LEMMA Arrived ==
  ASSUME NEW commits, NEW start, NEW target, NEW w, SeekWalk(w, commits, start, target),
         MaxHops \in Nat, NEW n \in 0..MaxHops, w[n] = At(target, n)
  PROVE  w[MaxHops] = At(target, n)
<1> DEFINE T == {k \in 0..(MaxHops - n) : w[n + k] = At(target, n)}
<1>1. 0 \in T OBVIOUS
<1>2. \A k \in 0..((MaxHops - n) - 1) : k \in T => k + 1 \in T
  <2> SUFFICES ASSUME NEW k \in 0..((MaxHops - n) - 1), k \in T PROVE k + 1 \in T OBVIOUS
  <2>1. PICK i : i = n + (k + 1) OBVIOUS
  <2>2. i \in 1..MaxHops /\ i - 1 = n + k /\ k + 1 \in 0..(MaxHops - n) BY <2>1
  <2>3. w[i] = Nearer(commits, target, At(target, n), i) BY <2>2 DEF SeekWalk
  <2>4. w[i] = At(target, n) BY <2>3 DEF Nearer, At
  <2> QED BY <2>1, <2>2, <2>4
<1> HIDE DEF T
<1>3. MaxHops - n \in Nat OBVIOUS
<1>4. 0..(MaxHops - n) \subseteq T BY <1>1, <1>2, <1>3, LowBits!UpTo
<1>5. MaxHops - n \in T /\ n + (MaxHops - n) = MaxHops BY <1>3, <1>4
<1> QED BY <1>5 DEF T

\* Every earlier generation is found, within the bound.
LEMMA SeekFinds ==
  ASSUME NEW N \in Nat, NEW commits, Linked(commits, N), MaxHops \in Nat,
         NEW start \in 1..N, NEW target \in 1..start, HopBound(Log2[start] + 1) <= MaxHops
  PROVE  \E m \in 0..HopBound(Log2[start] + 1) : Seek(commits, start, target) = {At(target, m)}
<1>1. PICK w : /\ SeekWalk(w, commits, start, target)
               /\ Seek(commits, start, target) = {found \in {w[MaxHops]} : found.digest = target}
  BY SeekWalks
<1>2. PICK k : k = Log2[start] + 1 OBVIOUS
<1>3. k \in Nat /\ start < Pow2[k] BY <1>2, Log2Range
<1>4. PICK h : h = HopBound(k) OBVIOUS
<1>5. h \in Nat /\ h <= MaxHops BY <1>2, <1>3, <1>4, HopBoundOf
<1>6. PICK m \in 0..h : w[0 + m] = At(target, 0 + m)
  <2>1. k \in 0..k /\ target \in Nat \ {0} BY <1>3
  <2>2. SeeksDown(w, N, target, k) BY <1>1, <1>3, <2>1, SeekDown
  <2>3. Pow2[k] \in Nat BY <1>3, Pow2Positive
  <2>4. 0 * Pow2[k] = 0 /\ 0 * Pow2[k] + Pow2[k] = Pow2[k] BY <2>3
  <2>5. w[0] = At(start, 0) BY <1>1 DEF SeekWalk
  <2>6. 0 * Pow2[k] <= target /\ target <= start /\ start < 0 * Pow2[k] + Pow2[k]
    BY <1>3, <2>3, <2>4
  <2>7. 0 + HopBound(k) <= MaxHops /\ 0 \in Nat BY <1>4, <1>5
  <2> QED BY <1>4, <2>2, <2>5, <2>6, <2>7 DEF SeeksDown
<1>7. m \in 0..MaxHops /\ 0 + m = m BY <1>5
<1>8. w[MaxHops] = At(target, m) BY <1>1, <1>6, <1>7, Arrived
<1>9. At(target, m).digest = target BY DEF At
<1>10. Seek(commits, start, target) = {At(target, m)} BY <1>1, <1>8, <1>9
<1> QED BY <1>2, <1>4, <1>10

(***************************************************************************)
(* The list of the most recent generations.                                *)
(***************************************************************************)
HistoryBase(p)       == [next |-> p[2], seen |-> <<>>]
HistoryStep(p, n, v) == Older(p[1], v)
Histories == INSTANCE Steps WITH Base <- HistoryBase, Step <- HistoryStep

\* What appending one number to a list of numbers makes.
LEMMA AppendParts ==
  ASSUME NEW s \in Seq(Int), NEW n \in Nat, Len(s) = n, NEW g \in Int
  PROVE  Append(s, g) \in Seq(Int) /\ Len(Append(s, g)) = n + 1
         /\ \A i \in 1..(n + 1) : Append(s, g)[i] = IF i = n + 1 THEN g ELSE s[i]
<1>1. Append(s, g) \in Seq(Int) OBVIOUS
<1>2. Len(Append(s, g)) = n + 1 OBVIOUS
<1>3. \A i \in 1..(n + 1) : Append(s, g)[i] = IF i = n + 1 THEN g ELSE s[i]
  <2> TAKE i \in 1..(n + 1)
  <2>1. CASE i = n + 1 BY <2>1
  <2>2. CASE i # n + 1
    <3>1. i \in 1..Len(s) BY <2>2
    <3>2. Append(s, g)[i] = s[i] BY <3>1
    <3> QED BY <2>2, <3>2
  <2> QED BY <2>1, <2>2
<1> QED BY <1>1, <1>2, <1>3

\* The list of parents counts down from the head, one by one.
LEMMA HistoryLists ==
  ASSUME NEW N \in Nat, NEW commits, Linked(commits, N), NEW head \in 1..N, NEW max \in 1..head
  PROVE  History(commits, head, max) = [i \in 1..max |-> head + 1 - i]
<1> DEFINE G(f) == [n \in 0..max |-> IF n = 0 THEN [next |-> head, seen |-> <<>>]
                                     ELSE Older(commits, f[n - 1])]
           w == CHOOSE f : f = G(f)
           list(n) == [i \in 1..n |-> head + 1 - i]
           T == {n \in 0..max : w[n] = [next |-> head - n, seen |-> list(n)]}
<1>1. \E f : f = G(f)
  <2>1. PICK p : p = <<commits, head>> OBVIOUS
  <2>2. p[1] = commits /\ p[2] = head BY <2>1
  <2>3. PICK f : Histories!Solves(f, p, max) BY Histories!Defined
  <2>4. f = G(f) BY <2>2, <2>3 DEF Histories!Solves, HistoryBase, HistoryStep
  <2> QED BY <2>4
<1>2. w = G(w) BY <1>1
<1>3. History(commits, head, max) = w[max].seen BY DEF History
<1> HIDE DEF w
<1>4. 0 \in T
  <2>1. list(0) = <<>> OBVIOUS
  <2>2. w[0] = [next |-> head, seen |-> <<>>] BY <1>2
  <2>3. head - 0 = head OBVIOUS
  <2> QED BY <2>1, <2>2, <2>3
<1>5. \A n \in 0..(max - 1) : n \in T => n + 1 \in T
  <2> SUFFICES ASSUME NEW n \in 0..(max - 1), n \in T PROVE n + 1 \in T OBVIOUS
  <2>1. w[n + 1] = Older(commits, w[n])
    <3>1. n + 1 \in 0..max /\ n + 1 # 0 /\ (n + 1) - 1 = n OBVIOUS
    <3> QED BY <1>2, <3>1
  <2>2. PICK g : g = head - n OBVIOUS
  <2>3. g \in 1..N /\ g # 0 /\ g - 1 = head - (n + 1) /\ g = head + 1 - (n + 1) BY <2>2
  <2>4. w[n] = [next |-> g, seen |-> list(n)] BY <2>2
  <2>5. CommitView(commits, g).parent = g - 1 /\ CommitView(commits, g).generation = g
    BY <2>3 DEF CommitView, Linked
  <2>6. w[n + 1] = [next |-> g - 1, seen |-> Append(list(n), g)]
    <3>1. PICK s : s = list(n) OBVIOUS
    <3>2. PICK v : v = [next |-> g, seen |-> s] OBVIOUS
    <3>3. w[n] = v /\ v.next = g /\ v.seen = s BY <2>4, <3>1, <3>2
    <3>4. Older(commits, v) = [next |-> g - 1, seen |-> Append(s, g)]
      BY <2>3, <2>5, <3>3 DEF Older, NoCommit
    <3> QED BY <2>1, <3>1, <3>3, <3>4
  <2>7. Append(list(n), g) = list(n + 1)
    <3>1. PICK s : s = list(n) OBVIOUS
    <3>2. s \in Seq(Int) /\ Len(s) = n /\ \A i \in 1..n : s[i] = head + 1 - i BY <3>1
    <3>3. PICK t : t = list(n + 1) OBVIOUS
    <3>4. t \in Seq(Int) /\ Len(t) = n + 1 /\ \A i \in 1..(n + 1) : t[i] = head + 1 - i BY <3>3
    <3>5. g \in Int BY <2>3
    <3>6. Append(s, g) \in Seq(Int) /\ Len(Append(s, g)) = n + 1
          /\ \A i \in 1..(n + 1) : Append(s, g)[i] = IF i = n + 1 THEN g ELSE s[i]
      <4>1. n \in Nat OBVIOUS
      <4> QED BY <3>2, <3>5, <4>1, AppendParts
    <3>7. \A i \in 1..(n + 1) : Append(s, g)[i] = t[i] BY <2>3, <3>2, <3>4, <3>6
    <3>8. t = [i \in 1..(n + 1) |-> t[i]] BY <3>3
    <3>9. PICK r : r = Append(s, g) OBVIOUS
    <3>10. r \in Seq(Int) /\ Len(r) = n + 1 /\ \A i \in 1..(n + 1) : r[i] = t[i]
      BY <3>6, <3>7, <3>9
    <3>11. r = [i \in 1..(n + 1) |-> r[i]] BY <3>10
    <3>12. r = t BY <3>8, <3>10, <3>11
    <3> QED BY <3>1, <3>3, <3>9, <3>12
  <2>8. n + 1 \in 0..max OBVIOUS
  <2> QED BY <2>3, <2>6, <2>7, <2>8
<1>6. max \in T
  <2>1. max \in Nat OBVIOUS
  <2> HIDE DEF T
  <2>2. 0..max \subseteq T BY <1>4, <1>5, <2>1, LowBits!UpTo
  <2> QED BY <2>1, <2>2
<1>7. w[max].seen = list(max) BY <1>6
<1> QED BY <1>3, <1>7

\* The pointer of the next commit is found.
LEMMA ComputesSkip ==
  ASSUME NEW commits, Len(commits) \in Nat, Linked(commits, Len(commits)), MaxHops \in Nat,
         HopBound(Log2[Len(commits)] + 1) <= MaxHops
  PROVE  ComputeSkip(commits) = {SkipTarget(Len(commits) + 1)}
<1>1. PICK n : n = Len(commits) OBVIOUS
<1>2. PICK target : target = SkipTarget(n + 1) OBVIOUS
<1>3. n \in Nat /\ target \in 0..n BY <1>1, <1>2, SkipDistanceBounds DEF SkipTarget
<1>4. ComputeSkip(commits) = CASE target = 0 -> {0}
                             [] target = (n + 1) - 1 -> {(n + 1) - 1}
                             [] OTHER -> {found.digest : found \in Seek(commits, (n + 1) - 1, target)}
  BY <1>1, <1>2 DEF ComputeSkip, NoCommit
<1>5. (n + 1) - 1 = n BY <1>3
<1>6. CASE target = 0
  <2>1. n + 1 # 1 => target # (n + 1) - 1 BY <1>3, <1>6
  <2>2. n = 0 => {(n + 1) - 1} = {0} BY <1>5
  <2>3. ComputeSkip(commits) = {0} BY <1>3, <1>4, <1>5, <1>6, <2>1, <2>2
  <2> QED BY <1>1, <1>2, <1>6, <2>3
<1>7. CASE target # 0 /\ target = n BY <1>1, <1>2, <1>4, <1>5, <1>7
<1>8. CASE target # 0 /\ target # n
  <2>1. n \in 1..n /\ target \in 1..n BY <1>3, <1>8
  <2>2. PICK m \in 0..HopBound(Log2[n] + 1) : Seek(commits, n, target) = {At(target, m)}
    BY <1>1, <1>3, <2>1, SeekFinds
  <2>3. ComputeSkip(commits) = {found.digest : found \in {At(target, m)}}
    BY <1>4, <1>5, <1>8, <2>2
  <2>4. ComputeSkip(commits) = {target} BY <2>3 DEF At
  <2> QED BY <1>1, <1>2, <2>4
<1> QED BY <1>6, <1>7, <1>8

(***************************************************************************)
(* The catalog: recursions, one by one.                                    *)
(***************************************************************************)
NoChunks(p)        == 0
MoreChunks(p, i, v) == v + p[i].chunks
Sums == INSTANCE Steps WITH Base <- NoChunks, Step <- MoreChunks

\* The sum of the counts, by its recursion.
LEMMA SumOf ==
  ASSUME NEW s, Len(s) \in Nat
  PROVE  \E u : /\ u[0] = 0 /\ \A i \in 1..Len(s) : u[i] = u[i - 1] + s[i].chunks
                /\ ChunkSum(s) = u[Len(s)]
<1> DEFINE G(f) == [i \in 0..Len(s) |-> IF i = 0 THEN 0 ELSE f[i - 1] + s[i].chunks]
           u == CHOOSE f : f = G(f)
<1>1. \E f : f = G(f)
  <2>1. PICK f : Sums!Solves(f, s, Len(s)) BY Sums!Defined
  <2>2. f = G(f) BY <2>1 DEF Sums!Solves, NoChunks, MoreChunks
  <2> QED BY <2>2
<1>2. u = G(u) BY <1>1
<1>3. ChunkSum(s) = u[Len(s)] BY DEF ChunkSum
<1> HIDE DEF u
<1>4. ASSUME NEW i \in 1..Len(s) PROVE u[i] = u[i - 1] + s[i].chunks
  <2>1. i \in 0..Len(s) /\ i # 0 OBVIOUS
  <2> QED BY <1>2, <2>1
<1>5. u[0] = 0 BY <1>2
<1> QED BY <1>3, <1>4, <1>5

ItemsBase(p)       == Items
ItemsStep(p, i, v) == Items * v
Capacities == INSTANCE Steps WITH Base <- ItemsBase, Step <- ItemsStep

\* The capacity of a full tree, by its recursion.
LEMMA CapacityOf ==
  Capacity[0] = Items /\ \A h \in 1..MaxHeight : Capacity[h] = Items * Capacity[h - 1]
<1> DEFINE G(f) == [h \in 0..MaxHeight |-> IF h = 0 THEN Items ELSE Items * f[h - 1]]
<1>1. \E f : f = G(f)
  <2>1. PICK f : Capacities!Solves(f, 0, MaxHeight) BY WidthAssumption, Capacities!Defined
  <2>2. f = G(f) BY <2>1 DEF Capacities!Solves, ItemsBase, ItemsStep
  <2> QED BY <2>2
<1>2. Capacity = CHOOSE f : f = G(f) BY DEF Capacity
<1>3. Capacity = G(Capacity) BY <1>1, <1>2
<1>4. 0 \in 0..MaxHeight /\ \A h \in 1..MaxHeight : h \in 0..MaxHeight /\ h # 0
  BY WidthAssumption
<1> QED BY <1>3, <1>4

LEMMA CapacityType == \A h \in 0..MaxHeight : Capacity[h] \in Nat
<1> DEFINE T == {h \in 0..MaxHeight : Capacity[h] \in Nat}
<1>1. 0 \in T BY CapacityOf, WidthAssumption
<1>2. \A h \in 0..(MaxHeight - 1) : h \in T => h + 1 \in T
  <2> SUFFICES ASSUME NEW h \in 0..(MaxHeight - 1), h \in T PROVE h + 1 \in T OBVIOUS
  <2>1. h + 1 \in 1..MaxHeight /\ (h + 1) - 1 = h BY WidthAssumption
  <2>2. Capacity[h + 1] = Items * Capacity[h] BY <2>1, CapacityOf
  <2>3. \A i, j \in Nat : i * j \in Nat OBVIOUS
  <2> QED BY <2>1, <2>2, <2>3, WidthAssumption
<1> HIDE DEF T
<1>3. 0..MaxHeight \subseteq T BY <1>1, <1>2, LowBits!UpTo, WidthAssumption
<1> QED BY <1>3 DEF T

Packs(h, trees) ==
  {Branch(h, s) : s \in {s \in Runs({ChildOf(n) : n \in trees}) : Packed(s, Capacity[h - 1])}}

LeavesOver(refs)       == {Leaf(s) : s \in Runs(refs)}
BranchesOver(p, h, v)  == Packs(h, v)
Grown == INSTANCE Steps WITH Base <- LeavesOver, Step <- BranchesOver

\* The trees over some references, by the recursion over their height.
LEMMA TreesOf ==
  ASSUME NEW R
  PROVE  /\ Trees(R)[0] = {Leaf(s) : s \in Runs(R)}
         /\ \A h \in 1..MaxHeight : Trees(R)[h] = Packs(h, Trees(R)[h - 1])
<1> DEFINE G(f) == [h \in 0..MaxHeight |->
                      IF h = 0 THEN {Leaf(s) : s \in Runs(R)}
                      ELSE {Branch(h, s) : s \in {s \in Runs({ChildOf(n) : n \in f[h - 1]}) :
                                                    Packed(s, Capacity[h - 1])}}]
           u == CHOOSE f : f = G(f)
<1>1. \E f : f = G(f)
  <2>1. PICK f : Grown!Solves(f, R, MaxHeight) BY Grown!Defined, WidthAssumption
  <2>2. f = G(f) BY <2>1 DEF Grown!Solves, LeavesOver, BranchesOver, Packs
  <2> QED BY <2>2
<1>2. u = G(u) BY <1>1
<1>3. Trees(R) = u BY DEF Trees
<1> HIDE DEF u
<1>4. 0 \in 0..MaxHeight /\ \A h \in 1..MaxHeight : h \in 0..MaxHeight /\ h # 0
  BY WidthAssumption
<1>5. ASSUME NEW h \in 1..MaxHeight PROVE u[h] = Packs(h, u[h - 1])
  BY <1>2, <1>4 DEF Packs
<1>6. u[0] = {Leaf(s) : s \in Runs(R)} BY <1>2, <1>4
<1> QED BY <1>3, <1>5, <1>6

LEMMA RunsOf ==
  ASSUME NEW S PROVE Runs(S) = {s \in Seq(S) : Contiguous(s)}
<1>1. ASSUME NEW s \in Runs(S) PROVE s \in Seq(S) /\ Contiguous(s)
  <2>1. PICK n \in 1..Items : s \in [1..n -> S] BY DEF Runs
  <2>2. n \in Nat BY WidthAssumption
  <2> QED BY <2>1, <2>2 DEF Runs
<1>2. ASSUME NEW s \in Seq(S), Contiguous(s) PROVE s \in Runs(S)
  <2>1. Len(s) \in 1..Items BY <1>2, WidthAssumption DEF Contiguous
  <2>2. s \in [1..Len(s) -> S] OBVIOUS
  <2> QED BY <1>2, <2>1, <2>2 DEF Runs
<1> QED BY <1>1, <1>2

(***************************************************************************)
(* Runs of spans.                                                          *)
(***************************************************************************)
Spans(s) == \A i \in 1..Len(s) : s[i].first \in Nat /\ s[i].last \in Nat

\* In a run the spans are in order and do not overlap.
LEMMA RunOrder ==
  ASSUME NEW S, NEW s \in Seq(S), Contiguous(s), Spans(s)
  PROVE  \A i, j \in 1..Len(s) : i < j => s[i].last < s[j].first
<1> TAKE i, j \in 1..Len(s)
<1> HAVE i < j
<1> DEFINE T == {k \in 0..(j - (i + 1)) : s[i].last < s[(i + 1) + k].first}
<1>0. \A k \in 2..Len(s) : s[k].first = s[k - 1].last + 1 BY DEF Contiguous
<1>00. \A k \in 1..Len(s) : s[k].first \in Nat /\ s[k].last \in Nat /\ s[k].first <= s[k].last
  BY DEF Contiguous, Spans
<1>1. 0 \in T
  <2>1. i + 1 \in 2..Len(s) /\ (i + 1) - 1 = i /\ (i + 1) + 0 = i + 1 OBVIOUS
  <2> QED BY <1>0, <1>00, <2>1
<1>2. \A k \in 0..((j - (i + 1)) - 1) : k \in T => k + 1 \in T
  <2> SUFFICES ASSUME NEW k \in 0..((j - (i + 1)) - 1), k \in T PROVE k + 1 \in T OBVIOUS
  <2>1. PICK m : m = (i + 1) + k OBVIOUS
  <2>2. m \in 1..Len(s) /\ m + 1 \in 2..Len(s) /\ (m + 1) - 1 = m /\ (i + 1) + (k + 1) = m + 1
        /\ k + 1 \in 0..(j - (i + 1))
    BY <2>1
  <2>3. s[i].last < s[m].first BY <2>1
  <2>4. s[m + 1].first = s[m].last + 1 BY <1>0, <2>2
  <2>5. s[i].last < s[m + 1].first BY <1>00, <2>2, <2>3, <2>4
  <2> QED BY <2>2, <2>5
<1> HIDE DEF T
<1>3. j - (i + 1) \in Nat OBVIOUS
<1>4. 0..(j - (i + 1)) \subseteq T BY <1>1, <1>2, <1>3, LowBits!UpTo
<1>5. j - (i + 1) \in T /\ (i + 1) + (j - (i + 1)) = j BY <1>3, <1>4
<1> QED BY <1>5 DEF T

\* A run covers all that lies between its ends, and each number once.
LEMMA RunFinds ==
  ASSUME NEW S, NEW s \in Seq(S), Contiguous(s), Spans(s),
         NEW n \in Nat, s[1].first <= n, n <= s[Len(s)].last
  PROVE  \E i \in 1..Len(s) : /\ Covers(s[i], n)
                              /\ \A j \in 1..Len(s) : Covers(s[j], n) => j = i
<1> DEFINE T == {k \in 0..(Len(s) - 1) : n <= s[1 + k].last => \E i \in 1..(1 + k) : Covers(s[i], n)}
<1>0. \A k \in 2..Len(s) : s[k].first = s[k - 1].last + 1 BY DEF Contiguous
<1>00. \A k \in 1..Len(s) : s[k].first \in Nat /\ s[k].last \in Nat /\ s[k].first <= s[k].last
  BY DEF Contiguous, Spans
<1>000. 1 <= Len(s) BY DEF Contiguous
<1>1. 0 \in T BY <1>000 DEF Covers
<1>2. \A k \in 0..((Len(s) - 1) - 1) : k \in T => k + 1 \in T
  <2> SUFFICES ASSUME NEW k \in 0..((Len(s) - 1) - 1), k \in T, n <= s[1 + (k + 1)].last
               PROVE  \E i \in 1..(1 + (k + 1)) : Covers(s[i], n)
    OBVIOUS
  <2>1. PICK m : m = 1 + k OBVIOUS
  <2>2. m \in 1..Len(s) /\ m + 1 \in 2..Len(s) /\ (m + 1) - 1 = m /\ 1 + (k + 1) = m + 1
    BY <2>1
  <2>3. CASE n <= s[m].last
    <3>1. \E i \in 1..m : Covers(s[i], n) BY <2>1, <2>3
    <3>2. 1..m \subseteq 1..(m + 1) BY <2>2
    <3> QED BY <2>2, <3>1, <3>2
  <2>4. CASE ~(n <= s[m].last)
    <3>1. s[m + 1].first <= n BY <1>0, <1>00, <2>2, <2>4
    <3>2. Covers(s[m + 1], n) BY <2>2, <3>1 DEF Covers
    <3>3. m + 1 \in 1..(m + 1) BY <2>2
    <3> QED BY <2>2, <3>2, <3>3
  <2> QED BY <2>3, <2>4
<1>3. \E i \in 1..Len(s) : Covers(s[i], n)
  <2>1. Len(s) - 1 \in Nat /\ 1 + (Len(s) - 1) = Len(s) BY <1>000
  <2> HIDE DEF T
  <2>2. 0..(Len(s) - 1) \subseteq T BY <1>1, <1>2, <2>1, LowBits!UpTo
  <2>3. Len(s) - 1 \in T BY <2>1, <2>2
  <2> QED BY <2>1, <2>3 DEF T
<1>4. PICK i \in 1..Len(s) : Covers(s[i], n) BY <1>3
<1>5. ASSUME NEW j \in 1..Len(s), Covers(s[j], n) PROVE j = i
  <2>1. i < j => s[i].last < s[j].first BY RunOrder
  <2>2. j < i => s[j].last < s[i].first BY RunOrder
  <2> QED BY <1>00, <1>4, <1>5, <2>1, <2>2 DEF Covers
<1> QED BY <1>4, <1>5

\* The counts of spans without gaps add up.
LEMMA RunSums ==
  ASSUME NEW S, NEW s \in Seq(S), Contiguous(s), Spans(s),
         \A i \in 1..Len(s) : s[i].chunks = s[i].last - s[i].first + 1
  PROVE  ChunkSum(s) = s[Len(s)].last - s[1].first + 1
<1>1. PICK u : /\ u[0] = 0 /\ \A i \in 1..Len(s) : u[i] = u[i - 1] + s[i].chunks
               /\ ChunkSum(s) = u[Len(s)]
  BY SumOf
<1>2. \A k \in 2..Len(s) : s[k].first = s[k - 1].last + 1 BY DEF Contiguous
<1>3. \A k \in 1..Len(s) : s[k].first \in Nat /\ s[k].last \in Nat BY DEF Spans
<1>4. 1 <= Len(s) BY DEF Contiguous
<1> DEFINE T == {k \in 0..(Len(s) - 1) : u[1 + k] = s[1 + k].last - s[1].first + 1}
<1>5. 0 \in T
  <2>1. 1 \in 1..Len(s) /\ 1 - 1 = 0 /\ 1 + 0 = 1 BY <1>4
  <2>2. u[1] = 0 + s[1].chunks BY <1>1, <2>1
  <2>3. s[1].chunks = s[1].last - s[1].first + 1 BY <2>1
  <2> QED BY <1>3, <1>4, <2>1, <2>2, <2>3
<1>6. \A k \in 0..((Len(s) - 1) - 1) : k \in T => k + 1 \in T
  <2> SUFFICES ASSUME NEW k \in 0..((Len(s) - 1) - 1), k \in T PROVE k + 1 \in T OBVIOUS
  <2>1. PICK m : m = 1 + k OBVIOUS
  <2>2. m \in 1..Len(s) /\ m + 1 \in 2..Len(s) /\ m + 1 \in 1..Len(s) /\ (m + 1) - 1 = m
        /\ 1 + (k + 1) = m + 1 /\ k + 1 \in 0..(Len(s) - 1)
    BY <2>1
  <2>3. u[m] = s[m].last - s[1].first + 1 BY <2>1
  <2>4. u[m + 1] = u[m] + s[m + 1].chunks BY <1>1, <2>2
  <2>5. s[m + 1].chunks = s[m + 1].last - s[m + 1].first + 1 BY <2>2
  <2>6. s[m + 1].first = s[m].last + 1 BY <1>2, <2>2
  <2>7. u[m + 1] = s[m + 1].last - s[1].first + 1
    <3>1. s[m].last \in Nat /\ s[1].first \in Nat /\ s[m + 1].last \in Nat BY <1>3, <1>4, <2>2
    <3>2. PICK a : a = s[m].last OBVIOUS
    <3>3. PICK b : b = s[1].first OBVIOUS
    <3>4. PICK c : c = s[m + 1].last OBVIOUS
    <3>5. a \in Nat /\ b \in Nat /\ c \in Nat BY <3>1, <3>2, <3>3, <3>4
    <3>6. u[m] = a - b + 1 /\ s[m + 1].chunks = c - (a + 1) + 1
      BY <2>3, <2>5, <2>6, <3>2, <3>3, <3>4
    <3>7. (a - b + 1) + (c - (a + 1) + 1) = c - b + 1 BY <3>5
    <3> HIDE DEF T
    <3>8. u[m + 1] = c - b + 1 BY <2>4, <3>6, <3>7
    <3> QED BY <3>3, <3>4, <3>8
  <2> QED BY <2>2, <2>7
<1> HIDE DEF T
<1>7. Len(s) - 1 \in Nat /\ 1 + (Len(s) - 1) = Len(s) BY <1>4
<1>8. 0..(Len(s) - 1) \subseteq T BY <1>5, <1>6, <1>7, LowBits!UpTo
<1>9. Len(s) - 1 \in T BY <1>7, <1>8
<1> QED BY <1>1, <1>7, <1>9 DEF T

(***************************************************************************)
(* Every tree has the span of its leaves, and validates.                   *)
(***************************************************************************)
Units(R) == \A r \in R : r.first \in Nat \ {0} /\ r.last = r.first /\ r.count = 1

SpanOk(span) ==
  /\ span.first \in Nat \ {0} /\ span.last \in Nat /\ span.first <= span.last
  /\ span.chunks = span.last - span.first + 1

TreeOk(n, h) ==
  /\ n.height = h /\ n.kind = (IF h = 0 THEN "leaf" ELSE "branch")
  /\ SpanOk(Span(n)) /\ ValidNode(n)

\* A run of chunks of one event has as many chunks as sequence numbers.
LEMMA UnitRun ==
  ASSUME NEW R, Units(R), NEW s \in Seq(R), Contiguous(s)
  PROVE  Spans(s) /\ s[Len(s)].last = s[1].first + (Len(s) - 1)
<1>1. \A k \in 1..Len(s) : s[k].first \in Nat \ {0} /\ s[k].last = s[k].first BY DEF Units
<1>2. \A k \in 2..Len(s) : s[k].first = s[k - 1].last + 1 BY DEF Contiguous
<1>3. 1 <= Len(s) /\ Len(s) \in Nat BY DEF Contiguous
<1> DEFINE T == {k \in 0..(Len(s) - 1) : s[1 + k].first = s[1].first + k}
<1>4. 0 \in T
  <2>1. s[1].first \in Nat /\ 1 + 0 = 1 /\ 0 \in 0..(Len(s) - 1) BY <1>1, <1>3
  <2> QED BY <2>1
<1>5. \A k \in 0..((Len(s) - 1) - 1) : k \in T => k + 1 \in T
  <2> SUFFICES ASSUME NEW k \in 0..((Len(s) - 1) - 1), k \in T PROVE k + 1 \in T OBVIOUS
  <2>1. PICK m : m = 1 + k OBVIOUS
  <2>2. m \in 1..Len(s) /\ m + 1 \in 2..Len(s) /\ (m + 1) - 1 = m
        /\ 1 + (k + 1) = m + 1 /\ k + 1 \in 0..(Len(s) - 1)
    BY <1>3, <2>1
  <2>3. s[m].first = s[1].first + k BY <2>1
  <2>4. s[m + 1].first = s[m].last + 1 BY <1>2, <2>2
  <2>5. s[1].first \in Nat /\ s[m].last = s[m].first BY <1>1, <1>3, <2>2
  <2>6. s[m + 1].first = s[1].first + (k + 1) BY <2>3, <2>4, <2>5
  <2> QED BY <2>2, <2>6
<1> HIDE DEF T
<1>6. Len(s) - 1 \in Nat /\ 1 + (Len(s) - 1) = Len(s) BY <1>3
<1>7. 0..(Len(s) - 1) \subseteq T BY <1>4, <1>5, <1>6, LowBits!UpTo
<1>8. Len(s) - 1 \in T BY <1>6, <1>7
<1>9. s[Len(s)].first = s[1].first + (Len(s) - 1) BY <1>6, <1>8 DEF T
<1>10. Len(s) \in 1..Len(s) BY <1>3
<1> QED BY <1>1, <1>9, <1>10 DEF Spans

LEMMA LeafFields ==
  ASSUME NEW s
  PROVE  /\ Leaf(s).kind = "leaf" /\ Leaf(s).height = 0 /\ Leaf(s).refs = s
         /\ Span(Leaf(s)) = [first |-> s[1].first, last |-> s[Len(s)].last, chunks |-> Len(s)]
         /\ ValidNode(Leaf(s)) = ValidLeaf(s)
BY DEF Leaf, Span, LeafSpan, ValidNode, Last

LEMMA BranchFields ==
  ASSUME NEW s, NEW h
  PROVE  /\ Branch(h, s).kind = "branch" /\ Branch(h, s).height = h /\ Branch(h, s).children = s
         /\ Span(Branch(h, s)) =
              [first |-> s[1].first, last |-> s[Len(s)].last, chunks |-> ChunkSum(s)]
         /\ ValidNode(Branch(h, s)) = ValidBranch(h, s)
BY DEF Branch, Span, ChildSpan, ValidNode, Last

LEMMA ChildFields ==
  ASSUME NEW n
  PROVE  /\ ChildOf(n).first = Span(n).first /\ ChildOf(n).last = Span(n).last
         /\ ChildOf(n).chunks = Span(n).chunks /\ ChildOf(n).node = n
         /\ RootOf(n).first = Span(n).first /\ RootOf(n).last = Span(n).last
         /\ RootOf(n).chunks = Span(n).chunks /\ RootOf(n).node = n
         /\ RootOf(n).height = n.height
BY DEF ChildOf, RootOf

\* A leaf over a run spans the run.
LEMMA LeafOk ==
  ASSUME NEW R, Units(R), NEW s \in Runs(R)
  PROVE  TreeOk(Leaf(s), 0)
<1>1. s \in Seq(R) /\ Contiguous(s) BY RunsOf
<1>2. Spans(s) /\ s[Len(s)].last = s[1].first + (Len(s) - 1) BY <1>1, UnitRun
<1>3. \A k \in 1..Len(s) : s[k].first \in Nat \ {0} /\ s[k].last = s[k].first /\ s[k].count = 1
  BY <1>1 DEF Units
<1>4. 1 <= Len(s) /\ Len(s) \in Nat BY <1>1 DEF Contiguous
<1>5. PICK a : a = s[1].first OBVIOUS
<1>6. PICK n : n = Len(s) OBVIOUS
<1>7. a \in Nat \ {0} /\ n \in Nat /\ 1 <= n /\ s[n].last = a + (n - 1)
  BY <1>2, <1>3, <1>4, <1>5, <1>6
<1>8. SpanOk(Span(Leaf(s)))
  <2>1. Span(Leaf(s)) = [first |-> a, last |-> a + (n - 1), chunks |-> n]
    BY <1>5, <1>6, <1>7, LeafFields
  <2> QED BY <1>7, <2>1 DEF SpanOk
<1>9. ValidLeaf(s)
  <2>1. \A k \in 1..Len(s) : s[k].count = s[k].last - s[k].first + 1 BY <1>3
  <2>2. DOMAIN s = 1..Len(s) BY <1>1
  <2> QED BY <1>1, <2>1, <2>2 DEF ValidLeaf
<1> QED BY <1>8, <1>9, LeafFields DEF TreeOk

\* A branch over a run of trees spans all of them.
LEMMA BranchOk ==
  ASSUME NEW h \in 1..MaxHeight, NEW trees, \A n \in trees : TreeOk(n, h - 1),
         NEW s \in Runs({ChildOf(n) : n \in trees})
  PROVE  /\ s \in Seq({ChildOf(n) : n \in trees}) /\ Contiguous(s) /\ Spans(s)
         /\ \A i \in 1..Len(s) : s[i].node \in trees /\ s[i] = ChildOf(s[i].node) /\ SpanOk(s[i])
         /\ TreeOk(Branch(h, s), h)
<1> DEFINE S == {ChildOf(n) : n \in trees}
<1>1. s \in Seq(S) /\ Contiguous(s) BY RunsOf
<1>2. ASSUME NEW c \in S PROVE c.node \in trees /\ c = ChildOf(c.node) /\ SpanOk(c)
  <2>1. PICK n \in trees : c = ChildOf(n) OBVIOUS
  <2>2. SpanOk(Span(n)) BY DEF TreeOk
  <2>3. SpanOk(c) BY <2>1, <2>2, ChildFields DEF SpanOk
  <2> QED BY <2>1, <2>3, ChildFields
<1>3. \A i \in 1..Len(s) : s[i] \in S BY <1>1
<1> HIDE DEF S
<1>4. \A i \in 1..Len(s) : s[i].node \in trees /\ s[i] = ChildOf(s[i].node) /\ SpanOk(s[i])
  BY <1>2, <1>3
<1>5. Spans(s) BY <1>4 DEF Spans, SpanOk
<1>6. ChunkSum(s) = s[Len(s)].last - s[1].first + 1
  <2>1. \A i \in 1..Len(s) : s[i].chunks = s[i].last - s[i].first + 1 BY <1>4 DEF SpanOk
  <2> QED BY <1>1, <1>5, <2>1, RunSums
<1>7. 1 \in 1..Len(s) /\ Len(s) \in 1..Len(s) /\ Len(s) \in Nat
  BY <1>1 DEF Contiguous
<1>8. s[1].first <= s[Len(s)].last
  <2>1. 1 < Len(s) => s[1].last < s[Len(s)].first BY <1>1, <1>5, <1>7, RunOrder
  <2>2. SpanOk(s[1]) /\ SpanOk(s[Len(s)]) BY <1>4, <1>7
  <2>3. CASE Len(s) = 1 BY <2>2, <2>3 DEF SpanOk
  <2>4. CASE Len(s) # 1
    <3>1. s[1].last < s[Len(s)].first BY <1>7, <2>1, <2>4
    <3> QED BY <2>2, <3>1 DEF SpanOk
  <2> QED BY <2>3, <2>4
<1>9. SpanOk(Span(Branch(h, s)))
  <2>1. s[1].first \in Nat \ {0} /\ s[Len(s)].last \in Nat BY <1>4, <1>7 DEF SpanOk
  <2>2. Span(Branch(h, s)) =
          [first |-> s[1].first, last |-> s[Len(s)].last, chunks |-> s[Len(s)].last - s[1].first + 1]
    BY <1>6, BranchFields
  <2> QED BY <1>8, <2>1, <2>2 DEF SpanOk
<1>10. ValidBranch(h, s)
  <2>1. \A c \in ToSet(s) : 1 <= c.chunks /\ c.chunks <= c.last - c.first + 1
    <3>1. \A c \in ToSet(s) : SpanOk(c) BY <1>1, <1>4 DEF ToSet
    <3> QED BY <3>1 DEF SpanOk
  <2> QED BY <1>1, <2>1 DEF ValidBranch
<1>11. TreeOk(Branch(h, s), h) BY <1>9, <1>10, BranchFields DEF TreeOk
<1> QED BY <1>1, <1>4, <1>5, <1>11 DEF S

\* Every tree spans as many numbers as it has chunks, and at most its capacity.
LEMMA TreesOk ==
  ASSUME NEW R, Units(R)
  PROVE  \A h \in 0..MaxHeight : \A n \in Trees(R)[h] : TreeOk(n, h)
<1> DEFINE T == {h \in 0..MaxHeight : \A n \in Trees(R)[h] : TreeOk(n, h)}
<1>1. 0 \in T BY TreesOf, LeafOk, WidthAssumption
<1>2. \A h \in 0..(MaxHeight - 1) : h \in T => h + 1 \in T
  <2> SUFFICES ASSUME NEW h \in 0..(MaxHeight - 1), h \in T PROVE h + 1 \in T OBVIOUS
  <2>1. PICK j : j = h + 1 OBVIOUS
  <2>2. j \in 1..MaxHeight /\ j - 1 = h /\ j \in 0..MaxHeight BY <2>1, WidthAssumption
  <2>3. \A n \in Trees(R)[h] : TreeOk(n, h) OBVIOUS
  <2>4. ASSUME NEW n \in Trees(R)[j] PROVE TreeOk(n, j)
    <3>1. n \in Packs(j, Trees(R)[h]) BY <2>2, TreesOf
    <3>2. PICK s \in Runs({ChildOf(m) : m \in Trees(R)[h]}) : n = Branch(j, s)
      BY <3>1 DEF Packs
    <3> QED BY <2>2, <2>3, <3>2, BranchOk
  <2> QED BY <2>1, <2>2, <2>4
<1> HIDE DEF T
<1>3. 0..MaxHeight \subseteq T BY <1>1, <1>2, LowBits!UpTo, WidthAssumption
<1> QED BY <1>3 DEF T

\* More references make more trees.
LEMMA TreesGrow ==
  ASSUME NEW Q, NEW R, Q \subseteq R
  PROVE  \A h \in 0..MaxHeight : Trees(Q)[h] \subseteq Trees(R)[h]
<1>1. ASSUME NEW A, NEW B, A \subseteq B PROVE Runs(A) \subseteq Runs(B)
  <2>1. Seq(A) \subseteq Seq(B) BY <1>1
  <2> QED BY <2>1, RunsOf
<1> DEFINE T == {h \in 0..MaxHeight : Trees(Q)[h] \subseteq Trees(R)[h]}
<1>2. 0 \in T BY <1>1, TreesOf, WidthAssumption
<1>3. \A h \in 0..(MaxHeight - 1) : h \in T => h + 1 \in T
  <2> SUFFICES ASSUME NEW h \in 0..(MaxHeight - 1), h \in T PROVE h + 1 \in T OBVIOUS
  <2>1. PICK j : j = h + 1 OBVIOUS
  <2>2. j \in 1..MaxHeight /\ j - 1 = h /\ j \in 0..MaxHeight BY <2>1, WidthAssumption
  <2>3. PICK A : A = {ChildOf(n) : n \in Trees(Q)[h]} OBVIOUS
  <2>4. PICK B : B = {ChildOf(n) : n \in Trees(R)[h]} OBVIOUS
  <2>5. A \subseteq B BY <2>3, <2>4
  <2>6. Trees(Q)[j] = {Branch(j, s) : s \in {s \in Runs(A) : Packed(s, Capacity[h])}}
    <3>1. Trees(Q)[j] = Packs(j, Trees(Q)[h]) BY <2>2, TreesOf
    <3> QED BY <2>2, <2>3, <3>1 DEF Packs
  <2>7. Trees(R)[j] = {Branch(j, s) : s \in {s \in Runs(B) : Packed(s, Capacity[h])}}
    <3>1. Trees(R)[j] = Packs(j, Trees(R)[h]) BY <2>2, TreesOf
    <3> QED BY <2>2, <2>4, <3>1 DEF Packs
  <2>8. Runs(A) \subseteq Runs(B) BY <1>1, <2>5
  <2>9. Trees(Q)[j] \subseteq Trees(R)[j] BY <2>6, <2>7, <2>8
  <2> QED BY <2>1, <2>2, <2>9
<1> HIDE DEF T
<1>4. 0..MaxHeight \subseteq T BY <1>2, <1>3, LowBits!UpTo, WidthAssumption
<1> QED BY <1>4 DEF T

\* What a tree of height 0 is made of.
LEMMA LeafParts ==
  ASSUME NEW R, Units(R), NEW n \in Trees(R)[0]
  PROVE  /\ n = Leaf(n.refs) /\ n.kind = "leaf" /\ n.height = 0
         /\ n.refs \in Seq(R) /\ Contiguous(n.refs) /\ Spans(n.refs) /\ n.refs \in Runs(R)
<1>1. PICK s \in Runs(R) : n = Leaf(s) BY TreesOf
<1>2. s \in Seq(R) /\ Contiguous(s) BY RunsOf
<1>3. Spans(s) BY <1>2, UnitRun
<1>4. n.refs = s /\ n.kind = "leaf" /\ n.height = 0 BY <1>1, LeafFields
<1> QED BY <1>1, <1>2, <1>3, <1>4

ChildrenIn(trees) == {ChildOf(m) : m \in trees}

BranchOver(n, h, s, trees) ==
  /\ n = Branch(h, s) /\ n.kind = "branch" /\ n.height = h /\ n.children = s
  /\ s \in Seq(ChildrenIn(trees))
  /\ Contiguous(s) /\ Spans(s) /\ Packed(s, Capacity[h - 1])
  /\ \A i \in 1..Len(s) : s[i].node \in trees /\ s[i] = ChildOf(s[i].node) /\ SpanOk(s[i])

\* What a higher tree is made of.
LEMMA BranchParts ==
  ASSUME NEW R, Units(R), NEW h \in 1..MaxHeight, NEW n \in Trees(R)[h]
  PROVE  BranchOver(n, h, n.children, Trees(R)[h - 1])
<1>1. Trees(R)[h] = Packs(h, Trees(R)[h - 1]) BY TreesOf
<1>2. PICK s \in Runs({ChildOf(m) : m \in Trees(R)[h - 1]}) :
        n = Branch(h, s) /\ Packed(s, Capacity[h - 1])
  BY <1>1 DEF Packs
<1>3. h - 1 \in 0..MaxHeight BY WidthAssumption
<1>4. \A m \in Trees(R)[h - 1] : TreeOk(m, h - 1) BY <1>3, TreesOk
<1>5. n.children = s /\ n.kind = "branch" /\ n.height = h BY <1>2, BranchFields
<1>6. /\ s \in Seq({ChildOf(m) : m \in Trees(R)[h - 1]}) /\ Contiguous(s) /\ Spans(s)
      /\ \A i \in 1..Len(s) : /\ s[i].node \in Trees(R)[h - 1] /\ s[i] = ChildOf(s[i].node)
                              /\ SpanOk(s[i])
  BY <1>4, BranchOk
<1> QED BY <1>2, <1>5, <1>6 DEF BranchOver, ChildrenIn

\* A packed run of trees makes a tree one higher.
LEMMA BranchMade ==
  ASSUME NEW R, NEW h \in 1..MaxHeight, NEW s \in Seq(ChildrenIn(Trees(R)[h - 1])),
         Contiguous(s), Packed(s, Capacity[h - 1])
  PROVE  Branch(h, s) \in Trees(R)[h]
<1>1. s \in Runs(ChildrenIn(Trees(R)[h - 1])) BY RunsOf
<1>2. Trees(R)[h] = Packs(h, Trees(R)[h - 1]) BY TreesOf
<1> QED BY <1>1, <1>2 DEF Packs, ChildrenIn

(***************************************************************************)
(* Every tree is accepted as a whole.                                      *)
(***************************************************************************)
Below(nodes) == UNION {{c.node : c \in ToSet(n.children)} : n \in nodes}
TopNode(p)          == {p}
NextLevel(p, d, v)  == Below(v)
Levels == INSTANCE Steps WITH Base <- TopNode, Step <- NextLevel

\* Every node of a tree is accepted, and agrees with what its parent says of it.
LEMMA TreesValidate ==
  ASSUME NEW R, Units(R), NEW h \in 0..MaxHeight, NEW node \in Trees(R)[h]
  PROVE  ValidTree(node)
<1> DEFINE G(f) == [d \in 0..node.height |->
                      IF d = 0 THEN {node}
                      ELSE UNION {{c.node : c \in ToSet(n.children)} : n \in f[d - 1]}]
           u == CHOOSE f : f = G(f)
<1>1. node.height = h /\ h \in Nat BY TreesOk, WidthAssumption DEF TreeOk
<1>2. \E f : f = G(f)
  <2>1. PICK f : Levels!Solves(f, node, h) BY <1>1, Levels!Defined
  <2>2. f = G(f) BY <1>1, <2>1 DEF Levels!Solves, TopNode, NextLevel, Below
  <2> QED BY <2>2
<1>3. u = G(u) BY <1>2
<1>4. ValidTree(node) <=>
        \A d \in 0..node.height : \A n \in u[d] :
          /\ ValidNode(n) /\ n.height = node.height - d
          /\ n.kind = (IF d = node.height THEN "leaf" ELSE "branch")
          /\ n.kind = "branch" => \A c \in ToSet(n.children) : c = ChildOf(c.node)
  BY DEF ValidTree
<1> HIDE DEF u
<1>5. u[0] = {node} BY <1>1, <1>3
<1>6. ASSUME NEW d \in 1..h PROVE u[d] = Below(u[d - 1])
  <2>1. d \in 0..node.height /\ d # 0 BY <1>1
  <2>2. u[d] = G(u)[d] BY <1>3
  <2>3. G(u)[d] = UNION {{c.node : c \in ToSet(n.children)} : n \in u[d - 1]} BY <2>1
  <2> HIDE DEF G
  <2> QED BY <2>2, <2>3 DEF Below
<1> DEFINE T == {d \in 0..h : u[d] \subseteq Trees(R)[h - d]}
<1>7. 0 \in T BY <1>1, <1>5
<1>8. \A d \in 0..(h - 1) : d \in T => d + 1 \in T
  <2> SUFFICES ASSUME NEW d \in 0..(h - 1), d \in T PROVE d + 1 \in T OBVIOUS
  <2>1. PICK k : k = h - d OBVIOUS
  <2>2. k \in 1..MaxHeight /\ h - (d + 1) = k - 1 /\ d + 1 \in 1..h /\ (d + 1) - 1 = d
        /\ d + 1 \in 0..h
    BY <1>1, <2>1, WidthAssumption
  <2>3. u[d] \subseteq Trees(R)[k] BY <2>1
  <2>4. u[d + 1] = Below(u[d]) BY <1>6, <2>2
  <2>5. ASSUME NEW n \in u[d], NEW c \in ToSet(n.children) PROVE c.node \in Trees(R)[k - 1]
    <3>1. n \in Trees(R)[k] BY <2>3
    <3>2. BranchOver(n, k, n.children, Trees(R)[k - 1]) BY <2>2, <3>1, BranchParts
    <3>3. PICK i \in 1..Len(n.children) : c = n.children[i] BY <3>2 DEF ToSet, BranchOver
    <3> QED BY <3>2, <3>3 DEF BranchOver
  <2>6. Below(u[d]) \subseteq Trees(R)[k - 1] BY <2>5 DEF Below
  <2> QED BY <2>2, <2>4, <2>6
<1> HIDE DEF T
<1>9. 0..h \subseteq T BY <1>1, <1>7, <1>8, LowBits!UpTo
<1>10. ASSUME NEW d \in 0..h, NEW n \in u[d]
       PROVE  /\ ValidNode(n) /\ n.height = h - d
              /\ n.kind = (IF d = h THEN "leaf" ELSE "branch")
              /\ n.kind = "branch" => \A c \in ToSet(n.children) : c = ChildOf(c.node)
  <2>1. PICK k : k = h - d OBVIOUS
  <2>2. k \in 0..MaxHeight /\ (k = 0 <=> d = h) BY <1>1, <2>1, WidthAssumption
  <2>3. n \in Trees(R)[k] BY <1>9, <2>1 DEF T
  <2>4. TreeOk(n, k) BY <2>2, <2>3, TreesOk
  <2>5. ASSUME n.kind = "branch", NEW c \in ToSet(n.children) PROVE c = ChildOf(c.node)
    <3>1. k \in 1..MaxHeight BY <2>2, <2>4, <2>5 DEF TreeOk
    <3>2. BranchOver(n, k, n.children, Trees(R)[k - 1]) BY <2>3, <3>1, BranchParts
    <3>3. PICK i \in 1..Len(n.children) : c = n.children[i] BY <3>2 DEF ToSet, BranchOver
    <3> QED BY <3>2, <3>3 DEF BranchOver
  <2> QED BY <2>1, <2>2, <2>4, <2>5 DEF TreeOk
<1> QED BY <1>1, <1>4, <1>10

(***************************************************************************)
(* The search ends at the one leaf that covers a number.                   *)
(***************************************************************************)
SeekRoots(p)         == {r.node : r \in {r \in p[1] : Covers(r, p[2])}}
SeekDeeper(p, d, v)  == Deeper(v, p[2])
Seeks == INSTANCE Steps WITH Base <- SeekRoots, Step <- SeekDeeper

SeekBy(u, root, seq) ==
  /\ u[0] = {r.node : r \in {r \in root : Covers(r, seq)}}
  /\ \A d \in 1..MaxHeight : u[d] = Deeper(u[d - 1], seq)
  /\ SeekLeaf(root, seq) =
       {n.refs : n \in {n \in UNION {u[d] : d \in 0..MaxHeight} :
                          n.kind = "leaf" /\ Covers(LeafSpan(n.refs), seq)}}

LEMMA SeekLeafOf == \A root, seq : \E u : SeekBy(u, root, seq)
<1> TAKE root, seq
<1> DEFINE B == {r.node : r \in {r \in root : Covers(r, seq)}}
           G(f) == [d \in 0..MaxHeight |-> IF d = 0 THEN B ELSE Deeper(f[d - 1], seq)]
           u == CHOOSE f : f = G(f)
<1>0. MaxHeight \in Nat BY WidthAssumption
<1>1. \E f : f = G(f)
  <2>1. PICK p : p = <<root, seq>> OBVIOUS
  <2>2. p[1] = root /\ p[2] = seq BY <2>1
  <2>3. PICK f : Seeks!Solves(f, p, MaxHeight) BY <1>0, Seeks!Defined
  <2>4. f = G(f) BY <2>2, <2>3 DEF Seeks!Solves, SeekRoots, SeekDeeper
  <2> QED BY <2>4
<1>2. u = G(u) BY <1>1
<1>3. SeekLeaf(root, seq) =
        {n.refs : n \in {n \in {n \in UNION {u[d] : d \in 0..MaxHeight} : n.kind = "leaf"} :
                           Covers(LeafSpan(n.refs), seq)}}
  BY DEF SeekLeaf
<1> HIDE DEF u
<1>4. SeekLeaf(root, seq) =
        {n.refs : n \in {n \in UNION {u[d] : d \in 0..MaxHeight} :
                           n.kind = "leaf" /\ Covers(LeafSpan(n.refs), seq)}}
  BY <1>3
<1>5. u[0] = B BY <1>0, <1>2
<1>6. ASSUME NEW d \in 1..MaxHeight PROVE u[d] = Deeper(u[d - 1], seq)
  <2>1. d \in 0..MaxHeight /\ d # 0 BY <1>0
  <2>2. u[d] = G(u)[d] BY <1>2
  <2>3. G(u)[d] = Deeper(u[d - 1], seq) BY <2>1
  <2> HIDE DEF G
  <2> QED BY <2>2, <2>3
<1> QED BY <1>4, <1>5, <1>6 DEF SeekBy

\* A number that the root does not cover leads nowhere.
LEMMA SeekMisses ==
  ASSUME NEW root, NEW seq, \A r \in root : ~Covers(r, seq)
  PROVE  SeekLeaf(root, seq) = {}
<1>0. PICK u : SeekBy(u, root, seq) BY SeekLeafOf
<1>1. /\ u[0] = {r.node : r \in {r \in root : Covers(r, seq)}}
      /\ \A d \in 1..MaxHeight : u[d] = Deeper(u[d - 1], seq)
      /\ SeekLeaf(root, seq) =
           {n.refs : n \in {n \in UNION {u[d] : d \in 0..MaxHeight} :
                              n.kind = "leaf" /\ Covers(LeafSpan(n.refs), seq)}}
  BY <1>0 DEF SeekBy
<1> DEFINE T == {d \in 0..MaxHeight : u[d] = {}}
<1>2. 0 \in T BY <1>1, WidthAssumption
<1>3. \A d \in 0..(MaxHeight - 1) : d \in T => d + 1 \in T
  <2> SUFFICES ASSUME NEW d \in 0..(MaxHeight - 1), d \in T PROVE d + 1 \in T OBVIOUS
  <2>1. d + 1 \in 1..MaxHeight /\ (d + 1) - 1 = d /\ d + 1 \in 0..MaxHeight BY WidthAssumption
  <2>2. u[d + 1] = Deeper(u[d], seq) BY <1>1, <2>1
  <2>3. u[d] = {} OBVIOUS
  <2> HIDE DEF T
  <2>4. u[d + 1] = {} BY <2>2, <2>3 DEF Deeper
  <2> QED BY <2>1, <2>4 DEF T
<1> HIDE DEF T
<1>4. 0..MaxHeight \subseteq T BY <1>2, <1>3, LowBits!UpTo, WidthAssumption
<1>5. \A d \in 0..MaxHeight : u[d] = {} BY <1>4 DEF T
<1>6. UNION {u[d] : d \in 0..MaxHeight} = {} BY <1>5
<1> QED BY <1>1, <1>6

\* The search for seq below a node ends in the one leaf that covers it.
Arrives(R, node, seq) ==
  \E leaf \in Trees(R)[0] : /\ Covers(LeafSpan(leaf.refs), seq)
                             /\ SeekLeaf({RootOf(node)}, seq) = {leaf.refs}

LEMMA SeekArrives ==
  ASSUME NEW R, Units(R), NEW h \in 0..MaxHeight, NEW node \in Trees(R)[h],
         NEW seq \in Nat, Covers(RootOf(node), seq)
  PROVE  Arrives(R, node, seq)
<1>0. PICK u : SeekBy(u, {RootOf(node)}, seq) BY SeekLeafOf
<1>1. /\ u[0] = {r.node : r \in {r \in {RootOf(node)} : Covers(r, seq)}}
      /\ \A d \in 1..MaxHeight : u[d] = Deeper(u[d - 1], seq)
      /\ SeekLeaf({RootOf(node)}, seq) =
           {n.refs : n \in {n \in UNION {u[d] : d \in 0..MaxHeight} :
                              n.kind = "leaf" /\ Covers(LeafSpan(n.refs), seq)}}
  BY <1>0 DEF SeekBy
<1>2. h \in Nat /\ MaxHeight \in Nat /\ h <= MaxHeight BY WidthAssumption
<1> DEFINE T == {d \in 0..h : \E m \in Trees(R)[h - d] : u[d] = {m} /\ Covers(Span(m), seq)}
<1>3. 0 \in T
  <2>1. RootOf(node).node = node BY ChildFields
  <2>2. u[0] = {node} BY <1>1, <2>1
  <2>3. Covers(Span(node), seq) BY ChildFields DEF Covers
  <2>4. h - 0 = h BY <1>2
  <2> QED BY <1>2, <2>2, <2>3, <2>4
<1>4. \A d \in 0..(h - 1) : d \in T => d + 1 \in T
  <2> SUFFICES ASSUME NEW d \in 0..(h - 1), d \in T PROVE d + 1 \in T OBVIOUS
  <2>1. PICK k : k = h - d OBVIOUS
  <2>2. k \in 1..MaxHeight /\ h - (d + 1) = k - 1 /\ d + 1 \in 1..MaxHeight /\ (d + 1) - 1 = d
        /\ d + 1 \in 0..h
    BY <1>2, <2>1
  <2>3. PICK m \in Trees(R)[k] : u[d] = {m} /\ Covers(Span(m), seq) BY <2>1
  <2>4. PICK s : s = m.children OBVIOUS
  <2>05. BranchOver(m, k, s, Trees(R)[k - 1]) BY <2>2, <2>4, BranchParts
  <2>5. /\ m = Branch(k, s) /\ m.kind = "branch"
        /\ s \in Seq(ChildrenIn(Trees(R)[k - 1])) /\ Contiguous(s) /\ Spans(s)
        /\ \A i \in 1..Len(s) : s[i].node \in Trees(R)[k - 1] /\ s[i] = ChildOf(s[i].node)
    BY <2>05 DEF BranchOver
  <2>6. s[1].first <= seq /\ seq <= s[Len(s)].last BY <2>3, <2>5, BranchFields DEF Covers
  <2>7. PICK i \in 1..Len(s) : Covers(s[i], seq) /\ \A j \in 1..Len(s) : Covers(s[j], seq) => j = i
    BY <2>5, <2>6, RunFinds
  <2>8. {c \in ToSet(s) : Covers(c, seq)} = {s[i]} BY <2>5, <2>7 DEF ToSet
  <2>9. u[d + 1] = Deeper({m}, seq) BY <1>1, <2>2, <2>3
  <2>10. Deeper({m}, seq) = {s[i].node}
    <3>1. {n \in {m} : n.kind = "branch"} = {m} BY <2>5
    <3>2. Deeper({m}, seq) = {c.node : c \in {c \in ToSet(s) : Covers(c, seq)}}
      BY <2>4, <3>1 DEF Deeper
    <3> QED BY <2>8, <3>2
  <2>11. Covers(Span(s[i].node), seq)
    <3>1. s[i] = ChildOf(s[i].node) BY <2>5
    <3>2. s[i].first = Span(s[i].node).first /\ s[i].last = Span(s[i].node).last
      BY <3>1, ChildFields
    <3> QED BY <2>7, <3>2 DEF Covers
  <2>12. s[i].node \in Trees(R)[h - (d + 1)] BY <2>2, <2>5
  <2> QED BY <2>2, <2>9, <2>10, <2>11, <2>12
<1> HIDE DEF T
<1>5. 0..h \subseteq T BY <1>2, <1>3, <1>4, LowBits!UpTo
<1>6. PICK leaf \in Trees(R)[0] : u[h] = {leaf} /\ Covers(Span(leaf), seq)
  <2>1. h \in T /\ h - h = 0 BY <1>2, <1>5
  <2> QED BY <2>1 DEF T
<1>7. ASSUME NEW d \in 0..(h - 1), NEW n \in u[d] PROVE n.kind # "leaf"
  <2>1. d \in T BY <1>2, <1>5
  <2>2. PICK k : k = h - d OBVIOUS
  <2>3. PICK m \in Trees(R)[k] : u[d] = {m} BY <2>1, <2>2 DEF T
  <2>4. k \in 1..MaxHeight BY <1>2, <2>2
  <2>5. BranchOver(m, k, m.children, Trees(R)[k - 1]) BY <2>4, BranchParts
  <2> QED BY <2>3, <2>5 DEF BranchOver
<1>8. \A d \in (h + 1)..MaxHeight : u[d] = {}
  <2> DEFINE E == {k \in 0..(MaxHeight - (h + 1)) : u[(h + 1) + k] = {}}
  <2>1. ASSUME h < MaxHeight PROVE 0 \in E
    <3>1. h + 1 \in 1..MaxHeight /\ (h + 1) - 1 = h /\ (h + 1) + 0 = h + 1 BY <1>2, <2>1
    <3>2. u[h + 1] = Deeper({leaf}, seq) BY <1>1, <1>6, <3>1
    <3>3. leaf.kind = "leaf" BY LeafParts
    <3>4. Deeper({leaf}, seq) = {} BY <3>3 DEF Deeper
    <3> QED BY <1>2, <3>1, <3>2, <3>4
  <2>2. \A k \in 0..((MaxHeight - (h + 1)) - 1) : k \in E => k + 1 \in E
    <3> SUFFICES ASSUME NEW k \in 0..((MaxHeight - (h + 1)) - 1), k \in E PROVE k + 1 \in E
      OBVIOUS
    <3>1. PICK d : d = (h + 1) + k OBVIOUS
    <3>2. d + 1 \in 1..MaxHeight /\ (d + 1) - 1 = d /\ (h + 1) + (k + 1) = d + 1
          /\ k + 1 \in 0..(MaxHeight - (h + 1))
      BY <1>2, <3>1
    <3>3. u[d + 1] = Deeper({}, seq) BY <1>1, <3>1, <3>2
    <3>4. Deeper({}, seq) = {} BY DEF Deeper
    <3> QED BY <3>2, <3>3, <3>4
  <2>3. CASE h < MaxHeight
    <3>1. MaxHeight - (h + 1) \in Nat BY <1>2, <2>3
    <3> HIDE DEF E
    <3>2. 0..(MaxHeight - (h + 1)) \subseteq E BY <2>1, <2>2, <2>3, <3>1, LowBits!UpTo
    <3>3. ASSUME NEW d \in (h + 1)..MaxHeight PROVE u[d] = {}
      <4>1. d - (h + 1) \in 0..(MaxHeight - (h + 1)) /\ (h + 1) + (d - (h + 1)) = d BY <1>2
      <4>2. d - (h + 1) \in E BY <3>2, <4>1
      <4> QED BY <4>1, <4>2 DEF E
    <3> QED BY <3>3
  <2> QED BY <1>2, <2>3
<1>9. Covers(LeafSpan(leaf.refs), seq) /\ leaf.kind = "leaf" BY <1>6, LeafParts DEF Span
<1>10. ASSUME NEW n \in UNION {u[d] : d \in 0..MaxHeight}, n.kind = "leaf" PROVE n = leaf
  <2>1. PICK d \in 0..MaxHeight : n \in u[d] OBVIOUS
  <2>2. ~(d \in 0..(h - 1)) BY <1>7, <1>10, <2>1
  <2>3. ~(d \in (h + 1)..MaxHeight) BY <1>8, <2>1
  <2>4. d = h BY <1>2, <2>2, <2>3
  <2> QED BY <1>6, <2>1, <2>4
<1>11. leaf \in UNION {u[d] : d \in 0..MaxHeight} BY <1>6, <1>2
<1>12. {n \in UNION {u[d] : d \in 0..MaxHeight} :
          n.kind = "leaf" /\ Covers(LeafSpan(n.refs), seq)} = {leaf}
  BY <1>9, <1>10, <1>11
<1>13. SeekLeaf({RootOf(node)}, seq) = {leaf.refs} BY <1>1, <1>12
<1> QED BY <1>9, <1>13 DEF Arrives

(***************************************************************************)
(* Growth: a node grows into one node, or into a full one and its sibling. *)
(***************************************************************************)
Chained(s) ==
  /\ \A i \in 1..Len(s) : s[i].first \in Nat \ {0} /\ s[i].last \in Nat /\ s[i].first <= s[i].last
  /\ \A i \in 2..Len(s) : s[i].first = s[i - 1].last + 1

LEMMA ChainedRun ==
  ASSUME NEW S, NEW s \in Seq(S), Chained(s), 1 <= Len(s), Len(s) <= Items
  PROVE  Contiguous(s) /\ Spans(s)
BY DEF Chained, Contiguous, Spans

LEMMA RunChained ==
  ASSUME NEW S, NEW s \in Seq(S), Contiguous(s), Spans(s)
  PROVE  Chained(s) /\ 1 <= Len(s) /\ Len(s) <= Items
<1>1. DOMAIN s = 1..Len(s) OBVIOUS
<1> QED BY <1>1 DEF Chained, Contiguous, Spans

GrewTo(trees, span, full, last, g) ==
  \/ \E m \in trees : g = <<m>> /\ Span(m).first = span.first /\ Span(m).last = last
  \/ \E a, b \in trees : /\ g = <<a, b>>
                         /\ Span(a).first = span.first /\ Span(a).chunks = full
                         /\ Span(b).first = Span(a).last + 1 /\ Span(b).last = last

\* A leaf takes the next reference, or gets a sibling that has it.
LEMMA GrowsLeaf ==
  ASSUME NEW Q, Units(Q), NEW more \in Q, NEW n \in Trees(Q)[0], more.first = Span(n).last + 1
  PROVE  GrewTo(Trees(Q)[0], Span(n), Capacity[0], more.last, GrowLeaf(n, more))
<1>1. PICK s : s = n.refs OBVIOUS
<1>2. n = Leaf(s) /\ s \in Seq(Q) /\ Contiguous(s) /\ Spans(s) BY <1>1, LeafParts
<1>3. Chained(s) /\ 1 <= Len(s) /\ Len(s) <= Items BY <1>2, RunChained
<1>4. Span(n).first = s[1].first /\ Span(n).last = s[Len(s)].last /\ Span(n).chunks = Len(s)
  <2>1. Span(Leaf(s)) = [first |-> s[1].first, last |-> s[Len(s)].last, chunks |-> Len(s)]
    BY LeafFields
  <2> QED BY <1>2, <2>1
<1>5. more.first \in Nat \ {0} /\ more.last = more.first BY DEF Units
<1>6. CASE Len(s) < Items
  <2>1. PICK c : c = Append(s, more) OBVIOUS
  <2>2. c \in Seq(Q) /\ Len(c) = Len(s) + 1 /\ c[Len(c)] = more /\ \A i \in 1..Len(s) : c[i] = s[i]
    BY <1>2, <2>1
  <2>3. Chained(c)
    <3>1. ASSUME NEW i \in 1..Len(c)
          PROVE  c[i].first \in Nat \ {0} /\ c[i].last \in Nat /\ c[i].first <= c[i].last
      BY <1>3, <1>5, <2>2 DEF Chained
    <3>2. ASSUME NEW i \in 2..Len(c) PROVE c[i].first = c[i - 1].last + 1
      <4>1. CASE i = Len(c)
        <5>1. c[i] = more /\ i - 1 = Len(s) /\ c[Len(s)] = s[Len(s)] BY <1>3, <2>2, <4>1
        <5> QED BY <1>4, <5>1
      <4>2. CASE i # Len(c)
        <5>1. i \in 2..Len(s) /\ i \in 1..Len(s) /\ i - 1 \in 1..Len(s) BY <2>2, <4>2
        <5>2. c[i] = s[i] /\ c[i - 1] = s[i - 1] BY <2>2, <5>1
        <5> QED BY <1>3, <5>1, <5>2 DEF Chained
      <4> QED BY <4>1, <4>2
    <3> QED BY <3>1, <3>2 DEF Chained
  <2>4. Contiguous(c) 
    <3>1. 1 <= Len(c) /\ Len(c) <= Items BY <1>2, <1>3, <1>6, <2>2, WidthAssumption
    <3> QED BY <2>2, <2>3, <3>1, ChainedRun
  <2>5. c \in Runs(Q) BY <2>2, <2>4, RunsOf
  <2>6. Leaf(c) \in Trees(Q)[0] BY <2>5, TreesOf
  <2>7. GrowLeaf(n, more) = <<Leaf(c)>> BY <1>1, <1>6, <2>1 DEF GrowLeaf
  <2>8. c[1] = s[1] BY <1>3, <2>2
  <2>9. Span(Leaf(c)).first = Span(n).first /\ Span(Leaf(c)).last = more.last
    <3>1. Span(Leaf(c)) = [first |-> c[1].first, last |-> c[Len(c)].last, chunks |-> Len(c)]
      BY LeafFields
    <3> QED BY <1>4, <2>2, <2>8, <3>1
  <2> QED BY <2>6, <2>7, <2>9 DEF GrewTo
<1>7. CASE ~(Len(s) < Items)
  <2>1. PICK c : c = <<more>> OBVIOUS
  <2>2. c \in Seq(Q) /\ Len(c) = 1 /\ c[1] = more BY <2>1
  <2>3. Chained(c) BY <1>5, <2>2 DEF Chained
  <2>4. Contiguous(c) 
    <3>1. 1 <= Len(c) /\ Len(c) <= Items BY <2>2, WidthAssumption
    <3> QED BY <2>2, <2>3, <3>1, ChainedRun
  <2>5. Leaf(c) \in Trees(Q)[0] BY <2>2, <2>4, RunsOf, TreesOf
  <2>6. GrowLeaf(n, more) = <<n, Leaf(c)>> BY <1>1, <1>7, <2>1 DEF GrowLeaf
  <2>7. Span(Leaf(c)).first = more.first /\ Span(Leaf(c)).last = more.last
    <3>1. Span(Leaf(c)) = [first |-> c[1].first, last |-> c[Len(c)].last, chunks |-> Len(c)]
      BY LeafFields
    <3> QED BY <2>2, <3>1
  <2>8. Len(s) \in Nat BY <1>2
  <2>9. Span(n).chunks = Capacity[0] BY <1>3, <1>4, <1>7, <2>8, CapacityOf, WidthAssumption
  <2> QED BY <2>5, <2>6, <2>7, <2>9 DEF GrewTo
<1> QED BY <1>6, <1>7

\* As many chunks as there are children, times the chunks of each.
LEMMA PackedSum ==
  ASSUME NEW S, NEW s \in Seq(S), NEW c \in Nat, \A i \in 1..Len(s) : s[i].chunks = c
  PROVE  ChunkSum(s) = Len(s) * c
<1>1. PICK u : /\ u[0] = 0 /\ \A i \in 1..Len(s) : u[i] = u[i - 1] + s[i].chunks
               /\ ChunkSum(s) = u[Len(s)]
  BY SumOf
<1>2. Len(s) \in Nat OBVIOUS
<1> DEFINE T == {k \in 0..Len(s) : u[k] = k * c}
<1>3. 0 \in T BY <1>1, <1>2
<1> HIDE DEF T
<1>4. \A k \in 0..(Len(s) - 1) : k \in T => k + 1 \in T
  <2> SUFFICES ASSUME NEW k \in 0..(Len(s) - 1), k \in T PROVE k + 1 \in T OBVIOUS
  <2>1. k + 1 \in 1..Len(s) /\ (k + 1) - 1 = k /\ k + 1 \in 0..Len(s) /\ k \in Nat BY <1>2
  <2>2. u[k + 1] = u[k] + c BY <1>1, <2>1
  <2>3. u[k] = k * c BY DEF T
  <2>4. k * c + c = (k + 1) * c BY <2>1
  <2>5. u[k + 1] = (k + 1) * c BY <2>2, <2>3, <2>4
  <2> QED BY <2>1, <2>5 DEF T
<1>5. 0..Len(s) \subseteq T BY <1>2, <1>3, <1>4, LowBits!UpTo
<1>6. Len(s) \in T BY <1>2, <1>5
<1> QED BY <1>1, <1>6 DEF T

FrontThen(c, s, t, S) ==
  /\ c \in Seq(S) /\ Len(c) = Len(s) - 1 + Len(t)
  /\ \A i \in 1..(Len(s) - 1) : c[i] = s[i]
  /\ \A i \in 1..Len(t) : c[Len(s) - 1 + i] = t[i]

\* What becomes of a run whose last element gives way to one or two others.
LEMMA FrontWith ==
  ASSUME NEW S, NEW s \in Seq(S), 1 <= Len(s), NEW t \in Seq(S)
  PROVE  FrontThen(Front(s) \o t, s, t, S)
<1>1. PICK f : f = Front(s) OBVIOUS
<1>2. f \in Seq(S) /\ Len(f) = Len(s) - 1 /\ \A i \in 1..(Len(s) - 1) : f[i] = s[i]
  <2>1. PICK k : k = Len(s) - 1 OBVIOUS
  <2>2. k \in Nat /\ k <= Len(s) BY <2>1
  <2>3. f = SubSeq(s, 1, k) BY <1>1, <2>1 DEF Front
  <2>4. Len(f) = k BY <2>2, <2>3
  <2>5. \A i \in 1..k : f[i] = s[i] BY <2>2, <2>3
  <2>6. f \in Seq(S) BY <2>2, <2>3
  <2> QED BY <2>1, <2>4, <2>5, <2>6
<1>3. f \o t \in Seq(S) /\ Len(f \o t) = Len(f) + Len(t)
  <2>1. f \in Seq(S) BY <1>2
  <2> QED BY <2>1
<1>4. \A i \in 1..Len(f) : (f \o t)[i] = f[i] BY <1>2
<1>5. ASSUME NEW i \in 1..Len(t) PROVE (f \o t)[Len(s) - 1 + i] = t[i]
  <2>1. PICK k : k = Len(s) - 1 + i OBVIOUS
  <2>2. k \in 1..(Len(f) + Len(t)) /\ k > Len(f) /\ k - Len(f) = i BY <1>2, <2>1
  <2>3. (f \o t)[k] = t[k - Len(f)] BY <1>2, <2>2
  <2> QED BY <2>1, <2>2, <2>3
<1> QED BY <1>1, <1>2, <1>3, <1>4, <1>5 DEF FrontThen

\* A packed run, in one piece, is one tree.
LEMMA Bundles ==
  ASSUME NEW Q, NEW h \in 1..MaxHeight, NEW c \in Seq(ChildrenIn(Trees(Q)[h - 1])),
         Chained(c), 1 <= Len(c), Len(c) <= Items,
         \A i \in 1..(Len(c) - 1) : c[i].chunks = Capacity[h - 1]
  PROVE  /\ Branch(h, c) \in Trees(Q)[h]
         /\ Span(Branch(h, c)).first = c[1].first /\ Span(Branch(h, c)).last = c[Len(c)].last
         /\ Len(c) = Items /\ c[Len(c)].chunks = Capacity[h - 1]
              => Span(Branch(h, c)).chunks = Capacity[h]
<1>1. Contiguous(c) BY ChainedRun
<1>2. Packed(c, Capacity[h - 1]) BY DEF Packed
<1>3. Branch(h, c) \in Trees(Q)[h] BY <1>1, <1>2, BranchMade
<1>4. Span(Branch(h, c)) = [first |-> c[1].first, last |-> c[Len(c)].last, chunks |-> ChunkSum(c)]
  BY BranchFields
<1>5. ASSUME Len(c) = Items, c[Len(c)].chunks = Capacity[h - 1]
      PROVE  ChunkSum(c) = Capacity[h]
  <2>1. h - 1 \in 0..MaxHeight BY WidthAssumption
  <2>2. PICK k : k = Capacity[h - 1] OBVIOUS
  <2>3. k \in Nat BY <2>1, <2>2, CapacityType
  <2>4. \A i \in 1..Len(c) : c[i].chunks = k
    <3>1. \A i \in 1..Len(c) : i \in 1..(Len(c) - 1) \/ i = Len(c) OBVIOUS
    <3> QED BY <1>5, <2>2, <3>1
  <2>5. ChunkSum(c) = Len(c) * k BY <2>3, <2>4, PackedSum
  <2>6. Capacity[h] = Items * k BY <2>2, CapacityOf
  <2> QED BY <1>5, <2>5, <2>6
<1> QED BY <1>3, <1>4, <1>5

Divided(h, c) ==
  IF Len(c) <= Items THEN <<Branch(h, c)>>
  ELSE <<Branch(h, SubSeq(c, 1, Items)), Branch(h, SubSeq(c, Items + 1, Len(c)))>>

\* A packed run that is one too long makes a full tree and a sibling.
LEMMA Divides ==
  ASSUME NEW Q, NEW h \in 1..MaxHeight, NEW c \in Seq(ChildrenIn(Trees(Q)[h - 1])),
         Chained(c), 1 <= Len(c), Len(c) <= Items + 1,
         \A i \in 1..(Len(c) - 1) : c[i].chunks = Capacity[h - 1],
         NEW span, span.first = c[1].first, NEW last, last = c[Len(c)].last
  PROVE  GrewTo(Trees(Q)[h], span, Capacity[h], last, Divided(h, c))
<1>0. Items \in Nat /\ Items >= 2 BY WidthAssumption
<1>1. CASE Len(c) <= Items
  <2>1. Branch(h, c) \in Trees(Q)[h] BY <1>1, Bundles
  <2>2. Span(Branch(h, c)).first = c[1].first /\ Span(Branch(h, c)).last = c[Len(c)].last
    BY <1>1, Bundles
  <2>3. Divided(h, c) = <<Branch(h, c)>> BY <1>1 DEF Divided
  <2> QED BY <2>1, <2>2, <2>3 DEF GrewTo
<1>2. CASE ~(Len(c) <= Items)
  <2>1. PICK S : S = ChildrenIn(Trees(Q)[h - 1]) OBVIOUS
  <2>2. c \in Seq(S) /\ Len(c) = Items + 1 BY <1>0, <1>2, <2>1
  <2>3. PICK a : a = SubSeq(c, 1, Items) OBVIOUS
  <2>4. PICK b : b = SubSeq(c, Items + 1, Items + 1) OBVIOUS
  <2>5. a \in Seq(S) /\ Len(a) = Items /\ \A i \in 1..Items : a[i] = c[i]
    BY <1>0, <2>2, <2>3
  <2>6. b \in Seq(S) /\ Len(b) = 1 /\ b[1] = c[Items + 1]
    <3>1. b \in Seq(S) BY <1>0, <2>2, <2>4
    <3>2. Len(b) = 1 BY <1>0, <2>2, <2>4
    <3>3. b[1] = c[Items + 1] BY <1>0, <2>2, <2>4
    <3> QED BY <3>1, <3>2, <3>3
  <2>7. Chained(a) BY <1>0, <2>2, <2>5 DEF Chained
  <2>8. Chained(b) BY <1>0, <2>2, <2>6 DEF Chained
  <2>9. \A i \in 1..Items : a[i].chunks = Capacity[h - 1] BY <1>0, <2>2, <2>5
  <2>10. /\ Branch(h, a) \in Trees(Q)[h] /\ Span(Branch(h, a)).first = c[1].first
         /\ Span(Branch(h, a)).last = c[Items].last /\ Span(Branch(h, a)).chunks = Capacity[h]
    <3>1. a \in Seq(ChildrenIn(Trees(Q)[h - 1])) BY <2>1, <2>5
    <3>2. 1 <= Len(a) /\ Len(a) <= Items BY <1>0, <2>5
    <3>3. \A i \in 1..(Len(a) - 1) : a[i].chunks = Capacity[h - 1] BY <1>0, <2>5, <2>9
    <3>4. /\ Branch(h, a) \in Trees(Q)[h]
          /\ Span(Branch(h, a)).first = a[1].first /\ Span(Branch(h, a)).last = a[Len(a)].last
          /\ Len(a) = Items /\ a[Len(a)].chunks = Capacity[h - 1]
               => Span(Branch(h, a)).chunks = Capacity[h]
      BY <2>7, <3>1, <3>2, <3>3, Bundles
    <3>5. a[1] = c[1] /\ a[Len(a)] = c[Items] /\ a[Len(a)].chunks = Capacity[h - 1]
      BY <1>0, <2>5, <2>9
    <3> QED BY <2>5, <3>4, <3>5
  <2>11. /\ Branch(h, b) \in Trees(Q)[h] /\ Span(Branch(h, b)).first = c[Items + 1].first
         /\ Span(Branch(h, b)).last = c[Items + 1].last
    <3>1. b \in Seq(ChildrenIn(Trees(Q)[h - 1])) BY <2>1, <2>6
    <3>2. 1 <= Len(b) /\ Len(b) <= Items BY <1>0, <2>6
    <3>3. \A i \in 1..(Len(b) - 1) : b[i].chunks = Capacity[h - 1] BY <2>6
    <3>4. /\ Branch(h, b) \in Trees(Q)[h]
          /\ Span(Branch(h, b)).first = b[1].first /\ Span(Branch(h, b)).last = b[Len(b)].last
      BY <2>8, <3>1, <3>2, <3>3, Bundles
    <3> QED BY <2>6, <3>4
  <2>12. c[Items + 1].first = c[Items].last + 1
    <3>1. Items + 1 \in 2..Len(c) /\ (Items + 1) - 1 = Items BY <1>0, <2>2
    <3> QED BY <3>1 DEF Chained
  <2>13. Divided(h, c) = <<Branch(h, a), Branch(h, b)>> BY <1>2, <2>2, <2>3, <2>4 DEF Divided
  <2>14. last = c[Items + 1].last BY <2>2
  <2> QED BY <2>10, <2>11, <2>12, <2>13, <2>14 DEF GrewTo
<1> QED BY <1>1, <1>2

LEMMA ChildIs ==
  ASSUME NEW Q, Units(Q), NEW h \in 0..MaxHeight, NEW m \in Trees(Q)[h]
  PROVE  /\ ChildOf(m) \in ChildrenIn(Trees(Q)[h]) /\ SpanOk(ChildOf(m)) /\ SpanOk(Span(m))
         /\ ChildOf(m).first = Span(m).first /\ ChildOf(m).last = Span(m).last
         /\ ChildOf(m).chunks = Span(m).chunks
<1>1. SpanOk(Span(m)) BY TreesOk DEF TreeOk
<1>2. SpanOk(ChildOf(m)) BY <1>1, ChildFields DEF SpanOk
<1> QED BY <1>1, <1>2, ChildFields DEF ChildrenIn

\* A branch takes what its last child has grown into, or splits.
LEMMA GrowsBranch ==
  ASSUME NEW Q, Units(Q), NEW h \in 1..MaxHeight, NEW n \in Trees(Q)[h], NEW g, NEW last,
         GrewTo(Trees(Q)[h - 1], Span(Last(n.children).node), Capacity[h - 1], last, g)
  PROVE  GrewTo(Trees(Q)[h], Span(n), Capacity[h], last, GrowBranch(n, g))
<1>1. PICK s : s = n.children OBVIOUS
<1>2. PICK j : j = h - 1 OBVIOUS
<1>3. j \in 0..MaxHeight BY <1>2, WidthAssumption
<1>4. PICK S : S = ChildrenIn(Trees(Q)[j]) OBVIOUS
<1>5. BranchOver(n, h, s, Trees(Q)[j]) BY <1>1, <1>2, BranchParts
<1>6. /\ s \in Seq(S) /\ Contiguous(s) /\ Spans(s)
      /\ \A i \in 1..Len(s) : s[i].node \in Trees(Q)[j] /\ s[i] = ChildOf(s[i].node) /\ SpanOk(s[i])
      /\ \A i \in 1..(Len(s) - 1) : s[i].chunks = Capacity[j]
      /\ n = Branch(h, s) /\ n.height = h
  BY <1>2, <1>4, <1>5 DEF BranchOver, Packed
<1>7. Chained(s) /\ 1 <= Len(s) /\ Len(s) <= Items BY <1>6, RunChained
<1>8. PICK k : k = Len(s) OBVIOUS
<1>9. k \in Nat /\ 1 <= k /\ k <= Items /\ k \in 1..Len(s) BY <1>6, <1>7, <1>8
<1>10. Span(n).first = s[1].first
  <2>1. Span(Branch(h, s)) = [first |-> s[1].first, last |-> s[Len(s)].last, chunks |-> ChunkSum(s)]
    BY BranchFields
  <2> QED BY <1>6, <2>1
<1>11. Last(n.children).node = s[k].node BY <1>1, <1>8 DEF Last
<1>12. Span(s[k].node).first = s[k].first
  <2>1. s[k] = ChildOf(s[k].node) BY <1>6, <1>9
  <2> QED BY <2>1, ChildFields
<1>13. PICK t : t = [i \in DOMAIN g |-> ChildOf(g[i])] OBVIOUS
<1>14. PICK c : c = Front(s) \o t OBVIOUS
<1>15. GrowBranch(n, g) = Divided(h, c) BY <1>1, <1>6, <1>13, <1>14 DEF GrowBranch, Divided
<1>16. \A i \in 2..k : s[i].first = s[i - 1].last + 1 BY <1>7, <1>8 DEF Chained
<1>17. ASSUME NEW m \in Trees(Q)[j], g = <<m>>, Span(m).first = s[k].first, Span(m).last = last
       PROVE  GrewTo(Trees(Q)[h], Span(n), Capacity[h], last, Divided(h, c))
  <2>1. ChildOf(m) \in S /\ SpanOk(ChildOf(m)) /\ ChildOf(m).first = s[k].first
        /\ ChildOf(m).last = last
    BY <1>3, <1>4, <1>17, ChildIs
  <2>2. t = <<ChildOf(m)>> BY <1>13, <1>17
  <2>3. t \in Seq(S) /\ Len(t) = 1 /\ t[1] = ChildOf(m) BY <2>1, <2>2
  <2>4. c \in Seq(S) /\ Len(c) = k /\ c[k] = ChildOf(m) /\ \A i \in 1..(k - 1) : c[i] = s[i]
    <3>1. /\ c \in Seq(S) /\ Len(c) = Len(s) - 1 + Len(t)
          /\ \A i \in 1..(Len(s) - 1) : c[i] = s[i]
          /\ \A i \in 1..Len(t) : c[Len(s) - 1 + i] = t[i]
      <4>1. FrontThen(Front(s) \o t, s, t, S) BY <1>6, <1>7, <2>3, FrontWith
      <4> QED BY <1>14, <4>1 DEF FrontThen
    <3>2. Len(s) - 1 + 1 = k /\ 1 \in 1..Len(t) BY <1>8, <1>9, <2>3
    <3> QED BY <1>8, <2>3, <3>1, <3>2
  <2>5. Chained(c)
    <3>1. ASSUME NEW i \in 1..Len(c) PROVE SpanOk(c[i])
      <4>1. CASE i = k BY <2>1, <2>4, <4>1
      <4>2. CASE i # k
        <5>1. i \in 1..(k - 1) /\ i \in 1..Len(s) BY <1>8, <1>9, <2>4, <4>2
        <5> QED BY <1>6, <2>4, <5>1
      <4> QED BY <4>1, <4>2
    <3>2. ASSUME NEW i \in 2..Len(c) PROVE c[i].first = c[i - 1].last + 1
      <4>1. i \in 2..k /\ i - 1 \in 1..(k - 1) BY <1>9, <2>4
      <4>2. c[i - 1] = s[i - 1] BY <2>4, <4>1
      <4>3. c[i].first = s[i].first
        <5>1. i = k \/ i \in 1..(k - 1) BY <1>9, <4>1
        <5> QED BY <2>1, <2>4, <5>1
      <4> QED BY <1>16, <4>1, <4>2, <4>3
    <3> QED BY <3>1, <3>2 DEF Chained, SpanOk
  <2>6. c[1].first = s[1].first
    <3>1. k = 1 \/ 1 \in 1..(k - 1) BY <1>9
    <3> QED BY <2>1, <2>4, <3>1
  <2>7. \A i \in 1..(Len(c) - 1) : c[i].chunks = Capacity[h - 1] BY <1>2, <1>6, <1>8, <2>4
  <2>8. c \in Seq(ChildrenIn(Trees(Q)[h - 1])) BY <1>2, <1>4, <2>4
  <2>9. 1 <= Len(c) /\ Len(c) <= Items + 1 BY <1>9, <2>4, WidthAssumption
  <2>10. last = c[Len(c)].last BY <2>1, <2>4
  <2>11. PICK span : span = Span(n) OBVIOUS
  <2>12. span.first = c[1].first BY <1>10, <2>6, <2>11
  <2>13. GrewTo(Trees(Q)[h], span, Capacity[h], last, Divided(h, c))
    BY <2>5, <2>7, <2>8, <2>9, <2>10, <2>12, Divides
  <2> QED BY <2>11, <2>13
<1>18. ASSUME NEW a \in Trees(Q)[j], NEW b \in Trees(Q)[j], g = <<a, b>>,
              Span(a).first = s[k].first, Span(a).chunks = Capacity[j],
              Span(b).first = Span(a).last + 1, Span(b).last = last
       PROVE  GrewTo(Trees(Q)[h], Span(n), Capacity[h], last, Divided(h, c))
  <2>1. ChildOf(a) \in S /\ SpanOk(ChildOf(a)) /\ ChildOf(a).first = s[k].first
        /\ ChildOf(a).chunks = Capacity[j] /\ ChildOf(a).last = Span(a).last
    BY <1>3, <1>4, <1>18, ChildIs
  <2>01. ChildOf(b) \in S /\ SpanOk(ChildOf(b)) /\ ChildOf(b).first = Span(a).last + 1
         /\ ChildOf(b).last = last
    BY <1>3, <1>4, <1>18, ChildIs
  <2>2. t = <<ChildOf(a), ChildOf(b)>> BY <1>13, <1>18
  <2>3. t \in Seq(S) /\ Len(t) = 2 /\ t[1] = ChildOf(a) /\ t[2] = ChildOf(b) BY <2>1, <2>01, <2>2
  <2>4. c \in Seq(S) /\ Len(c) = k + 1 /\ c[k] = ChildOf(a) /\ c[k + 1] = ChildOf(b)
        /\ \A i \in 1..(k - 1) : c[i] = s[i]
    <3>1. /\ c \in Seq(S) /\ Len(c) = Len(s) - 1 + Len(t)
          /\ \A i \in 1..(Len(s) - 1) : c[i] = s[i]
          /\ \A i \in 1..Len(t) : c[Len(s) - 1 + i] = t[i]
      <4>1. FrontThen(Front(s) \o t, s, t, S) BY <1>6, <1>7, <2>3, FrontWith
      <4> QED BY <1>14, <4>1 DEF FrontThen
    <3>2. Len(s) - 1 + 1 = k /\ Len(s) - 1 + 2 = k + 1 /\ 1 \in 1..Len(t) /\ 2 \in 1..Len(t)
      BY <1>8, <1>9, <2>3
    <3> QED BY <1>8, <2>3, <3>1, <3>2
  <2>5. Chained(c)
    <3>1. ASSUME NEW i \in 1..Len(c) PROVE SpanOk(c[i])
      <4>1. CASE i = k BY <2>1, <2>4, <4>1
      <4>2. CASE i = k + 1 BY <2>01, <2>4, <4>2
      <4>3. CASE i # k /\ i # k + 1
        <5>1. i \in 1..(k - 1) /\ i \in 1..Len(s) BY <1>8, <1>9, <2>4, <4>3
        <5> QED BY <1>6, <2>4, <5>1
      <4> QED BY <4>1, <4>2, <4>3
    <3>2. ASSUME NEW i \in 2..Len(c) PROVE c[i].first = c[i - 1].last + 1
      <4>1. CASE i = k + 1
        <5>1. i - 1 = k BY <1>9, <4>1
        <5> QED BY <2>1, <2>01, <2>4, <4>1, <5>1
      <4>2. CASE i # k + 1
        <5>1. i \in 2..k /\ i - 1 \in 1..(k - 1) BY <1>9, <2>4, <4>2
        <5>2. c[i - 1] = s[i - 1] BY <2>4, <5>1
        <5>3. c[i].first = s[i].first
          <6>1. i = k \/ i \in 1..(k - 1) BY <1>9, <5>1
          <6> QED BY <2>1, <2>4, <6>1
        <5> QED BY <1>16, <5>1, <5>2, <5>3
      <4> QED BY <4>1, <4>2
    <3> QED BY <3>1, <3>2 DEF Chained, SpanOk
  <2>6. c[1].first = s[1].first
    <3>1. k = 1 \/ 1 \in 1..(k - 1) BY <1>9
    <3> QED BY <2>1, <2>4, <3>1
  <2>7. ASSUME NEW i \in 1..(Len(c) - 1) PROVE c[i].chunks = Capacity[h - 1]
    <3>1. i = k \/ i \in 1..(k - 1) BY <1>9, <2>4
    <3> QED BY <1>2, <1>6, <1>8, <2>1, <2>4, <3>1
  <2>8. c \in Seq(ChildrenIn(Trees(Q)[h - 1])) BY <1>2, <1>4, <2>4
  <2>9. 1 <= Len(c) /\ Len(c) <= Items + 1 BY <1>9, <2>4, WidthAssumption
  <2>10. last = c[Len(c)].last BY <2>01, <2>4
  <2>11. PICK span : span = Span(n) OBVIOUS
  <2>12. span.first = c[1].first BY <1>10, <2>6, <2>11
  <2>13. GrewTo(Trees(Q)[h], span, Capacity[h], last, Divided(h, c))
    BY <2>5, <2>7, <2>8, <2>9, <2>10, <2>12, Divides
  <2> QED BY <2>11, <2>13
<1>19. GrewTo(Trees(Q)[j], Span(s[k].node), Capacity[j], last, g) BY <1>2, <1>11
<1> QED BY <1>12, <1>15, <1>17, <1>18, <1>19 DEF GrewTo

(***************************************************************************)
(* The spine, from the root to the last leaf and back.                     *)
(***************************************************************************)
SpineTop(p)            == p
SpineDown(p, d, v)     == Last(v.children).node
Rights == INSTANCE Steps WITH Base <- SpineTop, Step <- SpineDown

SpineLeaf(p)           == GrowLeaf(p[1][p[2]], p[3])
SpineUp(p, i, v)       == GrowBranch(p[1][p[2] - i], v)
Growths == INSTANCE Steps WITH Base <- SpineLeaf, Step <- SpineUp

SpineBy(right, grown, n, more) ==
  /\ right[0] = n /\ \A d \in 1..n.height : right[d] = Last(right[d - 1].children).node
  /\ grown[0] = GrowLeaf(right[n.height], more)
  /\ \A i \in 1..n.height : grown[i] = GrowBranch(right[n.height - i], grown[i - 1])
  /\ Spine(n, more) = grown[n.height]

LEMMA SpineOf ==
  ASSUME NEW n, n.height \in Nat, NEW more
  PROVE  \E right, grown : SpineBy(right, grown, n, more)
<1> DEFINE h == n.height
           G(f) == [d \in 0..h |-> IF d = 0 THEN n ELSE Last(f[d - 1].children).node]
           u == CHOOSE f : f = G(f)
           H(f) == [i \in 0..h |-> IF i = 0 THEN GrowLeaf(u[h], more)
                                   ELSE GrowBranch(u[h - i], f[i - 1])]
           w == CHOOSE f : f = H(f)
<1>1. \E f : f = G(f)
  <2>1. PICK f : Rights!Solves(f, n, n.height) BY Rights!Defined
  <2>2. f = G(f) BY <2>1 DEF Rights!Solves, SpineTop, SpineDown
  <2> QED BY <2>2
<1>2. u = G(u) BY <1>1
<1>3. Spine(n, more) = w[h] BY DEF Spine
<1>4. u[0] = n /\ \A d \in 1..h : u[d] = Last(u[d - 1].children).node
  <2>1. \A d \in 0..h : u[d] = G(u)[d] BY <1>2
  <2>2. \A d \in 0..h : G(u)[d] = IF d = 0 THEN n ELSE Last(u[d - 1].children).node OBVIOUS
  <2>3. 0 \in 0..h /\ \A d \in 1..h : d \in 0..h /\ d # 0 OBVIOUS
  <2> HIDE DEF u, G, h
  <2> QED BY <2>1, <2>2, <2>3
<1> HIDE DEF u
<1>5. \E f : f = H(f)
  <2>1. PICK p : p = <<u, h, more>> OBVIOUS
  <2>2. p[1] = u /\ p[2] = h /\ p[3] = more BY <2>1
  <2>3. PICK f : Growths!Solves(f, p, n.height) BY Growths!Defined
  <2>4. f = H(f) BY <2>2, <2>3 DEF Growths!Solves, SpineLeaf, SpineUp
  <2> QED BY <2>4
<1>6. w = H(w) BY <1>5
<1>7. w[0] = GrowLeaf(u[h], more) /\ \A i \in 1..h : w[i] = GrowBranch(u[h - i], w[i - 1])
  <2>1. \A i \in 0..h : w[i] = H(w)[i] BY <1>6
  <2>2. \A i \in 0..h : H(w)[i] = IF i = 0 THEN GrowLeaf(u[h], more)
                                  ELSE GrowBranch(u[h - i], w[i - 1])
    OBVIOUS
  <2>3. 0 \in 0..h /\ \A i \in 1..h : i \in 0..h /\ i # 0 OBVIOUS
  <2> HIDE DEF w, H, h
  <2> QED BY <2>1, <2>2, <2>3
<1> HIDE DEF w, H
<1> QED BY <1>3, <1>4, <1>7 DEF SpineBy

\* From the last leaf upwards, every level of the spine grows.
LEMMA SpineGrows ==
  ASSUME NEW Q, Units(Q), NEW more \in Q, NEW h \in 0..MaxHeight, NEW n \in Trees(Q)[h],
         more.first = Span(n).last + 1
  PROVE  GrewTo(Trees(Q)[h], Span(n), Capacity[h], more.last, Spine(n, more))
<1>1. n.height = h /\ h \in Nat /\ h <= MaxHeight BY TreesOk, WidthAssumption DEF TreeOk
<1>2. PICK u, w : SpineBy(u, w, n, more) BY <1>1, SpineOf
<1>3. /\ u[0] = n /\ \A d \in 1..h : u[d] = Last(u[d - 1].children).node
      /\ w[0] = GrowLeaf(u[h], more) /\ \A i \in 1..h : w[i] = GrowBranch(u[h - i], w[i - 1])
      /\ Spine(n, more) = w[h]
  BY <1>1, <1>2 DEF SpineBy
<1> DEFINE T == {d \in 0..h : u[d] \in Trees(Q)[h - d] /\ Span(u[d]).last = Span(n).last}
<1>4. 0 \in T BY <1>1, <1>3
<1>5. \A d \in 0..(h - 1) : d \in T => d + 1 \in T
  <2> SUFFICES ASSUME NEW d \in 0..(h - 1), d \in T PROVE d + 1 \in T OBVIOUS
  <2>1. PICK k : k = h - d OBVIOUS
  <2>2. k \in 1..MaxHeight /\ h - (d + 1) = k - 1 /\ d + 1 \in 1..h /\ (d + 1) - 1 = d
        /\ d + 1 \in 0..h
    BY <1>1, <2>1, WidthAssumption
  <2>3. u[d] \in Trees(Q)[k] /\ Span(u[d]).last = Span(n).last BY <2>1
  <2>4. PICK m : m = u[d] OBVIOUS
  <2>5. PICK s : s = m.children OBVIOUS
  <2>6. BranchOver(m, k, s, Trees(Q)[k - 1]) BY <2>2, <2>3, <2>4, <2>5, BranchParts
  <2>7. Len(s) \in 1..Len(s) BY <2>6 DEF BranchOver, Contiguous
  <2>8. s[Len(s)].node \in Trees(Q)[k - 1] /\ s[Len(s)] = ChildOf(s[Len(s)].node) /\ m = Branch(k, s)
    BY <2>6, <2>7 DEF BranchOver
  <2>9. u[d + 1] = s[Len(s)].node
    <3>1. u[d + 1] = Last(s).node BY <1>3, <2>2, <2>4, <2>5
    <3> QED BY <3>1 DEF Last
  <2>10. Span(u[d + 1]).last = Span(n).last
    <3>1. Span(Branch(k, s)) = [first |-> s[1].first, last |-> s[Len(s)].last, chunks |-> ChunkSum(s)]
      BY BranchFields
    <3>2. Span(m).last = s[Len(s)].last BY <2>8, <3>1
    <3>3. s[Len(s)].last = Span(s[Len(s)].node).last BY <2>8, ChildFields
    <3> QED BY <2>3, <2>4, <2>9, <3>2, <3>3
  <2> QED BY <2>2, <2>8, <2>9, <2>10
<1> HIDE DEF T
<1>6. 0..h \subseteq T BY <1>1, <1>4, <1>5, LowBits!UpTo
<1>7. ASSUME NEW d \in 0..h PROVE u[d] \in Trees(Q)[h - d] /\ Span(u[d]).last = Span(n).last
  BY <1>6 DEF T
<1> DEFINE E == {i \in 0..h : GrewTo(Trees(Q)[i], Span(u[h - i]), Capacity[i], more.last, w[i])}
<1>8. 0 \in E
  <2>1. h \in 0..h /\ h - h = 0 /\ h - 0 = h /\ 0 \in 0..h BY <1>1
  <2>2. PICK m : m = u[h] OBVIOUS
  <2>3. m \in Trees(Q)[0] /\ more.first = Span(m).last + 1 BY <1>7, <2>1, <2>2
  <2>4. GrewTo(Trees(Q)[0], Span(m), Capacity[0], more.last, GrowLeaf(m, more)) BY <2>3, GrowsLeaf
  <2>5. GrewTo(Trees(Q)[0], Span(u[h - 0]), Capacity[0], more.last, w[0])
    BY <1>3, <2>1, <2>2, <2>4
  <2> QED BY <2>1, <2>5
<1>9. \A i \in 0..(h - 1) : i \in E => i + 1 \in E
  <2> SUFFICES ASSUME NEW i \in 0..(h - 1), i \in E PROVE i + 1 \in E OBVIOUS
  <2>1. PICK j : j = i + 1 OBVIOUS
  <2>2. PICK d : d = h - j OBVIOUS
  <2>3. j \in 1..MaxHeight /\ j \in 1..h /\ j - 1 = i /\ h - i = d + 1 /\ d \in 0..h /\ d + 1 \in 1..h
        /\ (d + 1) - 1 = d /\ h - d = j /\ j \in 0..h
    BY <1>1, <2>1, <2>2, WidthAssumption
  <2>4. PICK m : m = u[d] OBVIOUS
  <2>5. m \in Trees(Q)[j] BY <1>7, <2>3, <2>4
  <2>6. u[d + 1] = Last(m.children).node BY <1>3, <2>3, <2>4
  <2>7. GrewTo(Trees(Q)[i], Span(u[h - i]), Capacity[i], more.last, w[i]) OBVIOUS
  <2> HIDE DEF E
  <2>8. PICK g : g = w[i] OBVIOUS
  <2>9. PICK last : last = more.last OBVIOUS
  <2>10. GrewTo(Trees(Q)[j - 1], Span(Last(m.children).node), Capacity[j - 1], last, g)
    BY <2>3, <2>6, <2>7, <2>8, <2>9
  <2>11. GrewTo(Trees(Q)[j], Span(m), Capacity[j], last, GrowBranch(m, g))
    BY <2>3, <2>5, <2>10, GrowsBranch
  <2>12. w[j] = GrowBranch(m, g) BY <1>3, <2>2, <2>3, <2>4, <2>8
  <2>13. GrewTo(Trees(Q)[j], Span(u[h - j]), Capacity[j], more.last, w[j])
    BY <2>2, <2>4, <2>9, <2>11, <2>12
  <2> QED BY <2>1, <2>3, <2>13 DEF E
<1> HIDE DEF E
<1>10. 0..h \subseteq E BY <1>1, <1>8, <1>9, LowBits!UpTo
<1>11. h \in E /\ h - h = 0 BY <1>1, <1>10
<1>12. GrewTo(Trees(Q)[h], Span(u[0]), Capacity[h], more.last, w[h]) BY <1>11 DEF E
<1> QED BY <1>3, <1>12

\* Appending keeps the tree a tree, or finds it full.
LEMMA CatalogGrows ==
  ASSUME NEW Q, Units(Q), NEW more \in Q, NEW h \in 0..MaxHeight, NEW n \in Trees(Q)[h],
         more.first = RootOf(n).last + 1
  PROVE  \/ \E k \in 0..MaxHeight : \E m \in Trees(Q)[k] :
              /\ CatalogAppend({RootOf(n)}, more) = {RootOf(m)}
              /\ RootOf(m).first = RootOf(n).first /\ RootOf(m).last = more.last
         \/ /\ CatalogAppend({RootOf(n)}, more) = {}
            /\ RootOf(n).first + Capacity[MaxHeight] <= more.last
<1>1. n.height = h /\ h \in Nat /\ h <= MaxHeight BY TreesOk, WidthAssumption DEF TreeOk
<1>2. /\ RootOf(n).last = Span(n).last /\ RootOf(n).first = Span(n).first
      /\ RootOf(n).node = n /\ RootOf(n).height = h
  BY <1>1, ChildFields
<1>3. PICK g : g = Spine(n, more) OBVIOUS
<1>4. PICK A : A = CatalogAppend({RootOf(n)}, more) OBVIOUS
<1>5. A = Raised(g, h)
  <2>1. PICK r : r = RootOf(n) OBVIOUS
  <2>2. A = UNION {IF more.first = x.last + 1 THEN Raised(Spine(x.node, more), x.height) ELSE {} :
                     x \in {r}}
    BY <1>4, <2>1 DEF CatalogAppend
  <2>3. A = IF more.first = r.last + 1 THEN Raised(Spine(r.node, more), r.height) ELSE {}
    BY <2>2
  <2> QED BY <1>2, <1>3, <2>1, <2>3
<1>6. GrewTo(Trees(Q)[h], Span(n), Capacity[h], more.last, g) BY <1>2, <1>3, SpineGrows
<1>7. ASSUME NEW m \in Trees(Q)[h], g = <<m>>, Span(m).first = Span(n).first, Span(m).last = more.last
      PROVE  \E k \in 0..MaxHeight : \E x \in Trees(Q)[k] :
               A = {RootOf(x)} /\ RootOf(x).first = RootOf(n).first /\ RootOf(x).last = more.last
  <2>1. Len(g) = 1 /\ g[1] = m BY <1>7
  <2>2. A = {RootOf(m)} BY <1>5, <2>1 DEF Raised
  <2>3. RootOf(m).first = RootOf(n).first /\ RootOf(m).last = more.last
    BY <1>2, <1>7, ChildFields
  <2> QED BY <2>2, <2>3
<1>8. ASSUME NEW a \in Trees(Q)[h], NEW b \in Trees(Q)[h], g = <<a, b>>,
             Span(a).first = Span(n).first, Span(a).chunks = Capacity[h],
             Span(b).first = Span(a).last + 1, Span(b).last = more.last
      PROVE  \/ \E k \in 0..MaxHeight : \E x \in Trees(Q)[k] :
                  A = {RootOf(x)} /\ RootOf(x).first = RootOf(n).first /\ RootOf(x).last = more.last
             \/ A = {} /\ RootOf(n).first + Capacity[MaxHeight] <= more.last
  <2>1. Len(g) = 2 /\ g[1] = a /\ g[2] = b BY <1>8
  <2>2. /\ ChildOf(a) \in ChildrenIn(Trees(Q)[h]) /\ SpanOk(ChildOf(a)) /\ SpanOk(Span(a))
        /\ ChildOf(a).first = Span(a).first /\ ChildOf(a).last = Span(a).last
        /\ ChildOf(a).chunks = Span(a).chunks
    BY ChildIs
  <2>3. /\ ChildOf(b) \in ChildrenIn(Trees(Q)[h]) /\ SpanOk(ChildOf(b)) /\ SpanOk(Span(b))
        /\ ChildOf(b).first = Span(b).first /\ ChildOf(b).last = Span(b).last
    BY ChildIs
  <2>4. CASE h < MaxHeight
    <3>1. PICK j : j = h + 1 OBVIOUS
    <3>2. j \in 1..MaxHeight /\ j - 1 = h /\ j \in 0..MaxHeight BY <1>1, <2>4, <3>1, WidthAssumption
    <3>3. PICK c : c = [i \in 1..2 |-> ChildOf(g[i])] OBVIOUS
    <3>4. c = <<ChildOf(a), ChildOf(b)>> BY <2>1, <3>3
    <3>5. c \in Seq(ChildrenIn(Trees(Q)[h])) /\ Len(c) = 2 /\ c[1] = ChildOf(a) /\ c[2] = ChildOf(b)
      BY <2>2, <2>3, <3>4
    <3>6. Chained(c)
      <4>1. \A i \in 1..Len(c) : SpanOk(c[i]) BY <2>2, <2>3, <3>5
      <4>2. \A i \in 2..Len(c) : c[i].first = c[i - 1].last + 1 BY <1>8, <2>2, <2>3, <3>5
      <4> QED BY <4>1, <4>2 DEF Chained, SpanOk
    <3>7. \A i \in 1..(Len(c) - 1) : c[i].chunks = Capacity[j - 1] BY <1>8, <2>2, <3>2, <3>5
    <3>8. 1 <= Len(c) /\ Len(c) <= Items BY <3>5, WidthAssumption
    <3>9. c \in Seq(ChildrenIn(Trees(Q)[j - 1])) BY <3>2, <3>5
    <3>10. /\ Branch(j, c) \in Trees(Q)[j]
           /\ Span(Branch(j, c)).first = c[1].first /\ Span(Branch(j, c)).last = c[Len(c)].last
      BY <3>2, <3>6, <3>7, <3>8, <3>9, Bundles
    <3>11. A = {RootOf(Branch(j, c))}
      <4>1. Len(g) # 1 /\ Len(g) = 2 /\ ~(h >= MaxHeight) BY <1>1, <2>1, <2>4, WidthAssumption
      <4>2. Raised(g, h) = {RootOf(Branch(h + 1, [i \in 1..2 |-> ChildOf(g[i])]))}
        BY <2>4, <4>1 DEF Raised
      <4> QED BY <1>5, <3>1, <3>3, <4>2
    <3>12. /\ RootOf(Branch(j, c)).first = RootOf(n).first
           /\ RootOf(Branch(j, c)).last = more.last
      BY <1>2, <1>8, <2>2, <2>3, <3>5, <3>10, ChildFields
    <3> QED BY <3>2, <3>10, <3>11, <3>12
  <2>5. CASE ~(h < MaxHeight)
    <3>1. h = MaxHeight BY <1>1, <2>5, WidthAssumption
    <3>2. A = {} BY <1>1, <1>5, <2>1, <3>1 DEF Raised
    <3>3. PICK x : x = Span(a).first OBVIOUS
    <3>4. PICK y : y = Span(a).last OBVIOUS
    <3>5. PICK z : z = Span(b).last OBVIOUS
    <3>6. x \in Nat /\ y \in Nat /\ Span(a).chunks = y - x + 1 BY <2>2, <3>3, <3>4 DEF SpanOk
    <3>7. z \in Nat /\ y + 1 <= z BY <1>8, <2>3, <3>4, <3>5 DEF SpanOk
    <3>8. Capacity[MaxHeight] = y - x + 1 BY <1>8, <3>1, <3>6
    <3>9. x + (y - x + 1) <= z BY <3>6, <3>7
    <3> QED BY <1>2, <1>8, <3>2, <3>3, <3>5, <3>8, <3>9
  <2> QED BY <2>4, <2>5
<1> QED BY <1>4, <1>6, <1>7, <1>8 DEF GrewTo

(***************************************************************************)
(* The index: walks down a path.                                           *)
(***************************************************************************)
LEMMA Onward ==
  ASSUME NEW x \in Nat, NEW n \in Nat, x <= n, NEW T, x \in T,
         \A k \in x..(n - 1) : k \in T => k + 1 \in T
  PROVE  x..n \subseteq T
<1> DEFINE R == {k \in 0..(n - x) : x + k \in T}
<1>1. 0 \in R OBVIOUS
<1>2. \A k \in 0..((n - x) - 1) : k \in R => k + 1 \in R
  <2> SUFFICES ASSUME NEW k \in 0..((n - x) - 1), k \in R PROVE k + 1 \in R OBVIOUS
  <2>1. PICK j : j = x + k OBVIOUS
  <2>2. j \in x..(n - 1) /\ j \in T /\ x + (k + 1) = j + 1 /\ k + 1 \in 0..(n - x) BY <2>1
  <2> QED BY <2>2
<1>3. n - x \in Nat OBVIOUS
<1> HIDE DEF R
<1>4. 0..(n - x) \subseteq R BY <1>1, <1>2, <1>3, LowBits!UpTo
<1>5. ASSUME NEW j \in x..n PROVE j \in T
  <2>1. j - x \in 0..(n - x) /\ x + (j - x) = j OBVIOUS
  <2>2. j - x \in R BY <1>4, <2>1
  <2> QED BY <2>1, <2>2 DEF R
<1> QED BY <1>5

WalkTop(p)         == p[1]
WalkDown(p, d, v)  == Child(v, Nibble(p[2], d - 1))
Walking == INSTANCE Steps WITH Base <- WalkTop, Step <- WalkDown

Down(at, root, w) == at[0] = root /\ \A d \in 1..(MaxDepth + 1) : at[d] = Child(at[d - 1], w[d])

\* A walk down a path goes from child to child.
LEMMA AlongDown == \A root, w : Down(Along(root, w), root, w)
<1> TAKE root, w
<1> DEFINE G(f) == [d \in 0..(MaxDepth + 1) |->
                      IF d = 0 THEN root ELSE Child(f[d - 1], Nibble(w, d - 1))]
           u == CHOOSE f : f = G(f)
<1>0. MaxDepth + 1 \in Nat BY PathAssumption
<1>1. \E f : f = G(f)
  <2>1. PICK p : p = <<root, w>> OBVIOUS
  <2>2. p[1] = root /\ p[2] = w BY <2>1
  <2>3. PICK f : Walking!Solves(f, p, MaxDepth + 1) BY <1>0, Walking!Defined
  <2>4. f = G(f) BY <2>2, <2>3 DEF Walking!Solves, WalkTop, WalkDown
  <2> QED BY <2>4
<1>2. u = G(u) BY <1>1
<1>3. Along(root, w) = u BY DEF Along
<1> HIDE DEF u
<1>4. u[0] = root BY <1>0, <1>2
<1>5. ASSUME NEW d \in 1..(MaxDepth + 1) PROVE u[d] = Child(u[d - 1], w[d])
  <2>1. d \in 0..(MaxDepth + 1) /\ d # 0 /\ (d - 1) + 1 = d BY <1>0
  <2>2. u[d] = G(u)[d] BY <1>2
  <2>3. G(u)[d] = Child(u[d - 1], Nibble(w, d - 1)) BY <2>1
  <2>4. Nibble(w, d - 1) = w[d] BY <2>1 DEF Nibble
  <2> HIDE DEF G
  <2> QED BY <2>2, <2>3, <2>4
<1> QED BY <1>3, <1>4, <1>5 DEF Down

\* Nothing lies below a node that is not a branch.
LEMMA EndsThere ==
  ASSUME NEW at, NEW root, NEW w, Down(at, root, w), NEW x \in Depths, at[x].kind # "branch"
  PROVE  \A j \in (x + 1)..(MaxDepth + 1) : at[j] = Missing
<1>0. MaxDepth \in Nat /\ x \in Nat BY PathAssumption DEF Depths
<1> DEFINE T == {j \in x..(MaxDepth + 1) : j = x \/ at[j] = Missing}
<1>1. x \in T BY <1>0 DEF Depths
<1>2. \A k \in x..((MaxDepth + 1) - 1) : k \in T => k + 1 \in T
  <2> SUFFICES ASSUME NEW k \in x..((MaxDepth + 1) - 1), k \in T PROVE k + 1 \in T OBVIOUS
  <2>1. k + 1 \in 1..(MaxDepth + 1) /\ (k + 1) - 1 = k /\ k + 1 \in x..(MaxDepth + 1) BY <1>0
  <2>2. at[k + 1] = Child(at[k], w[k + 1]) BY <2>1 DEF Down
  <2>3. Missing.kind = "missing" BY DEF Missing
  <2>4. at[k].kind # "branch" BY <2>3
  <2>5. at[k + 1] = Missing BY <2>2, <2>4 DEF Child
  <2> QED BY <2>1, <2>5
<1> HIDE DEF T
<1>3. x <= MaxDepth + 1 /\ MaxDepth + 1 \in Nat BY <1>0 DEF Depths
<1>4. x..(MaxDepth + 1) \subseteq T BY <1>0, <1>1, <1>2, <1>3, Onward
<1>5. \A j \in (x + 1)..(MaxDepth + 1) : j \in x..(MaxDepth + 1) /\ j # x BY <1>0
<1> QED BY <1>4, <1>5 DEF T

\* From the same node on, the same slots lead to the same nodes.
LEMMA SameBelow ==
  ASSUME NEW at, NEW root, NEW w, Down(at, root, w), NEW bt, NEW other, NEW v, Down(bt, other, v),
         NEW x \in Depths, at[x] = bt[x], \A i \in (x + 1)..(MaxDepth + 1) : w[i] = v[i]
  PROVE  \A j \in x..(MaxDepth + 1) : at[j] = bt[j]
<1>0. MaxDepth \in Nat /\ x \in Nat BY PathAssumption DEF Depths
<1> DEFINE T == {j \in x..(MaxDepth + 1) : at[j] = bt[j]}
<1>1. x \in T BY <1>0 DEF Depths
<1>2. \A k \in x..((MaxDepth + 1) - 1) : k \in T => k + 1 \in T
  <2> SUFFICES ASSUME NEW k \in x..((MaxDepth + 1) - 1), k \in T PROVE k + 1 \in T OBVIOUS
  <2>1. k + 1 \in 1..(MaxDepth + 1) /\ (k + 1) - 1 = k /\ k + 1 \in x..(MaxDepth + 1)
        /\ k + 1 \in (x + 1)..(MaxDepth + 1)
    BY <1>0
  <2>2. at[k + 1] = Child(at[k], w[k + 1]) /\ bt[k + 1] = Child(bt[k], v[k + 1]) BY <2>1 DEF Down
  <2>3. at[k] = bt[k] /\ w[k + 1] = v[k + 1] BY <2>1
  <2> QED BY <2>1, <2>2, <2>3
<1> HIDE DEF T
<1>3. x <= MaxDepth + 1 /\ MaxDepth + 1 \in Nat BY <1>0 DEF Depths
<1>4. x..(MaxDepth + 1) \subseteq T BY <1>0, <1>1, <1>2, <1>3, Onward
<1> QED BY <1>4 DEF T

\* Paths with the same first slots have the same first nodes.
LEMMA SameAbove ==
  ASSUME NEW at, NEW root, NEW w, Down(at, root, w), NEW bt, NEW v, Down(bt, root, v),
         NEW x \in Depths, \A i \in 1..x : w[i] = v[i]
  PROVE  \A j \in 0..x : at[j] = bt[j]
<1>0. MaxDepth \in Nat /\ x \in Nat BY PathAssumption DEF Depths
<1> DEFINE T == {j \in 0..x : at[j] = bt[j]}
<1>1. 0 \in T BY <1>0 DEF Down
<1>2. \A k \in 0..(x - 1) : k \in T => k + 1 \in T
  <2> SUFFICES ASSUME NEW k \in 0..(x - 1), k \in T PROVE k + 1 \in T OBVIOUS
  <2>1. k + 1 \in 1..(MaxDepth + 1) /\ (k + 1) - 1 = k /\ k + 1 \in 0..x /\ k + 1 \in 1..x
    BY <1>0 DEF Depths
  <2>2. at[k + 1] = Child(at[k], w[k + 1]) /\ bt[k + 1] = Child(bt[k], v[k + 1]) BY <2>1 DEF Down
  <2>3. at[k] = bt[k] /\ w[k + 1] = v[k + 1] BY <2>1
  <2> QED BY <2>1, <2>2, <2>3
<1> HIDE DEF T
<1>3. 0..x \subseteq T BY <1>0, <1>1, <1>2, LowBits!UpTo
<1> QED BY <1>3 DEF T

\* Two paths have the same first slots, or part at some depth.
Together(w, v, x) == \A i \in 1..x : w[i] = v[i]

\* Two paths that differ part at a first depth.
LEMMA Parting ==
  ASSUME NEW w, NEW v, NEW n \in Nat
  PROVE  \/ Together(w, v, n)
         \/ \E x \in 0..(n - 1) : Together(w, v, x) /\ w[x + 1] # v[x + 1]
<1> DEFINE Same(k) == \A i \in 1..k : w[i] = v[i]
           Part(k) == \E x \in 0..(k - 1) : Same(x) /\ w[x + 1] # v[x + 1]
           T == {k \in 0..n : Same(k) \/ Part(k)}
<1>1. 0 \in T OBVIOUS
<1>2. ASSUME NEW k \in 0..(n - 1), k \in T PROVE k + 1 \in T
  <2>1. k \in Nat /\ k + 1 \in 0..n OBVIOUS
  <2>2. CASE Part(k)
    <3>1. 0..(k - 1) \subseteq 0..((k + 1) - 1) BY <2>1
    <3> HIDE DEF Same
    <3> QED BY <2>1, <2>2, <3>1
  <2>3. CASE Same(k) /\ w[k + 1] = v[k + 1]
    <3>1. \A i \in 1..(k + 1) : i \in 1..k \/ i = k + 1 BY <2>1
    <3>2. Same(k + 1) BY <2>3, <3>1
    <3> HIDE DEF Same, Part
    <3> QED BY <2>1, <3>2
  <2>4. CASE Same(k) /\ w[k + 1] # v[k + 1]
    <3>1. k \in 0..((k + 1) - 1) BY <2>1
    <3> HIDE DEF Same
    <3>2. Part(k + 1) BY <2>4, <3>1
    <3> HIDE DEF Part
    <3> QED BY <2>1, <3>2
  <2> HIDE DEF Same, Part
  <2> QED BY <1>2, <2>2, <2>3, <2>4
<1> HIDE DEF T
<1>3. 0..n \subseteq T BY <1>1, <1>2, LowBits!UpTo
<1>4. n \in T BY <1>3
<1> QED BY <1>4 DEF T, Together

LEMMA PrefixIs ==
  ASSUME NEW w \in Paths, NEW d \in Depths
  PROVE  /\ Prefix(w, d) \in Seq(Slot) /\ Len(Prefix(w, d)) = d
         /\ \A i \in 1..d : Prefix(w, d)[i] = w[i]
<1>1. MaxDepth + 1 \in Nat /\ d \in Nat /\ d <= MaxDepth + 1 BY PathAssumption DEF Depths
<1>2. w \in Seq(Slot) /\ Len(w) = MaxDepth + 1
  <2>1. PICK n \in Nat : n = MaxDepth + 1 BY <1>1
  <2>2. w \in [1..n -> Slot] BY <2>1 DEF Paths
  <2> QED BY <2>1, <2>2
<1>3. Prefix(w, d) = SubSeq(w, 1, d) BY DEF Prefix
<1>4. Len(SubSeq(w, 1, d)) = d BY <1>1, <1>2
<1>5. \A i \in 1..d : SubSeq(w, 1, d)[i] = w[i] BY <1>1, <1>2
<1>6. SubSeq(w, 1, d) \in Seq(Slot) BY <1>1, <1>2
<1> QED BY <1>3, <1>4, <1>5, <1>6

LEMMA PrefixSame ==
  ASSUME NEW w \in Paths, NEW v \in Paths, NEW d \in Depths
  PROVE  Prefix(w, d) = Prefix(v, d) <=> \A i \in 1..d : w[i] = v[i]
<1>1. /\ Prefix(w, d) \in Seq(Slot) /\ Len(Prefix(w, d)) = d
      /\ \A i \in 1..d : Prefix(w, d)[i] = w[i]
  BY PrefixIs
<1>2. /\ Prefix(v, d) \in Seq(Slot) /\ Len(Prefix(v, d)) = d
      /\ \A i \in 1..d : Prefix(v, d)[i] = v[i]
  BY PrefixIs
<1>3. ASSUME \A i \in 1..d : w[i] = v[i] PROVE Prefix(w, d) = Prefix(v, d)
  <2>1. PICK a : a = Prefix(w, d) OBVIOUS
  <2>2. PICK b : b = Prefix(v, d) OBVIOUS
  <2>3. a \in Seq(Slot) /\ b \in Seq(Slot) /\ Len(a) = Len(b) /\ \A i \in 1..Len(a) : a[i] = b[i]
    BY <1>1, <1>2, <1>3, <2>1, <2>2
  <2>4. a = b BY <2>3
  <2> QED BY <2>1, <2>2, <2>4
<1> QED BY <1>1, <1>2, <1>3

(***************************************************************************)
(* What an insertion builds: a thread of copies down the path of the new   *)
(* entry, which ends in its leaf; K[x] is what the copy at depth x holds    *)
(* besides.                                                                *)
(***************************************************************************)
CopyNode(p)       == p[5]
CopyUp(p, i, v)   == BranchAt(p[4] - i, p[1], Upsert(p[2][p[4] - i], Nibble(p[1], p[4] - i), v))
Copied == INSTANCE Steps WITH Base <- CopyNode, Step <- CopyUp

Copies(C, path, K, top, bottom, node) ==
  /\ C[bottom] = node
  /\ \A x \in top..(bottom - 1) : C[x] = BranchAt(x, path, Upsert(K[x], path[x + 1], C[x + 1]))
  /\ Rebuilt(path, K, top, bottom, node) = C[top]

\* Rebuilt copies the branches of a path from the bottom up.
LEMMA RebuiltCopies ==
  ASSUME NEW path, NEW K, NEW top \in Nat, NEW bottom \in Nat, top <= bottom, NEW node
  PROVE  \E C : Copies(C, path, K, top, bottom, node)
<1> DEFINE G(f) == [i \in 0..(bottom - top) |->
                      IF i = 0 THEN node
                      ELSE LET d == bottom - i
                           IN  BranchAt(d, path, Upsert(K[d], Nibble(path, d), f[i - 1]))]
           u == CHOOSE f : f = G(f)
           C == [x \in top..bottom |-> u[bottom - x]]
<1>0. bottom - top \in Nat OBVIOUS
<1>1. \E f : f = G(f)
  <2>1. PICK p : p = <<path, K, top, bottom, node>> OBVIOUS
  <2>2. p[1] = path /\ p[2] = K /\ p[4] = bottom /\ p[5] = node BY <2>1
  <2>3. PICK f : Copied!Solves(f, p, bottom - top) BY <1>0, Copied!Defined
  <2>4. f = G(f) BY <2>2, <2>3 DEF Copied!Solves, CopyNode, CopyUp
  <2> QED BY <2>4
<1>2. u = G(u) BY <1>1
<1>3. Rebuilt(path, K, top, bottom, node) = u[bottom - top] BY DEF Rebuilt
<1> HIDE DEF u
<1>4. u[0] = node BY <1>0, <1>2
<1>5. ASSUME NEW i \in 1..(bottom - top)
      PROVE  u[i] = BranchAt(bottom - i, path, Upsert(K[bottom - i], path[(bottom - i) + 1], u[i - 1]))
  <2>1. i \in 0..(bottom - top) /\ i # 0 OBVIOUS
  <2>2. u[i] = G(u)[i] BY <1>2
  <2>3. G(u)[i] = BranchAt(bottom - i, path, Upsert(K[bottom - i], Nibble(path, bottom - i), u[i - 1]))
    BY <2>1
  <2> HIDE DEF G
  <2> QED BY <2>2, <2>3 DEF Nibble
<1> HIDE DEF G
<1>6. C[bottom] = node /\ C[top] = u[bottom - top]
  <2>1. bottom \in top..bottom /\ top \in top..bottom /\ bottom - bottom = 0 OBVIOUS
  <2> QED BY <1>4, <2>1
<1>7. ASSUME NEW x \in top..(bottom - 1)
      PROVE  C[x] = BranchAt(x, path, Upsert(K[x], path[x + 1], C[x + 1]))
  <2>1. PICK i : i = bottom - x OBVIOUS
  <2>2. i \in 1..(bottom - top) /\ bottom - i = x /\ bottom - (x + 1) = i - 1
        /\ x \in top..bottom /\ x + 1 \in top..bottom
    BY <2>1
  <2>3. C[x] = u[i] /\ C[x + 1] = u[i - 1] BY <2>1, <2>2
  <2> HIDE DEF C
  <2> QED BY <1>5, <2>2, <2>3
<1> HIDE DEF C
<1> QED BY <1>3, <1>6, <1>7 DEF Copies

Thread(C, K, P, m, leaf) ==
  /\ C[m + 1] = leaf
  /\ \A x \in 0..m : C[x] = BranchAt(x, P, Upsert(K[x], P[x + 1], C[x + 1]))

ChildIn(children, slot) == IF slot \in DOMAIN children THEN children[slot] ELSE Missing

\* A copy has the copy below it in the slot of the path, and else the old children.
LEMMA CopyChild ==
  ASSUME NEW x, NEW P, NEW children, NEW slot, NEW n, NEW s
  PROVE  Child(BranchAt(x, P, Upsert(children, slot, n)), s) =
           IF s = slot THEN n ELSE ChildIn(children, s)
<1>1. PICK u : u = Upsert(children, slot, n) OBVIOUS
<1>2. DOMAIN u = DOMAIN children \cup {slot} BY <1>1 DEF Upsert
<1>3. u[slot] = n BY <1>1 DEF Upsert
<1>4. \A t \in DOMAIN children : t # slot => u[t] = children[t] BY <1>1 DEF Upsert
<1>5. Child(BranchAt(x, P, u), s) = ChildIn(u, s) BY DEF Child, BranchAt, ChildIn
<1>6. ChildIn(u, s) = IF s = slot THEN n ELSE ChildIn(children, s)
  BY <1>2, <1>3, <1>4 DEF ChildIn
<1> QED BY <1>1, <1>5, <1>6

Follows(bt, C, x) == \A j \in 0..x : bt[j] = C[j]

\* A walk down the copied path meets the copies.
LEMMA ThreadWalk ==
  ASSUME NEW C, NEW K, NEW P, NEW m \in 0..MaxDepth, NEW leaf, Thread(C, K, P, m, leaf),
         NEW w, NEW bt, Down(bt, C[0], w), NEW x \in 0..(m + 1), Together(w, P, x)
  PROVE  /\ Follows(bt, C, x)
         /\ x <= m /\ w[x + 1] # P[x + 1] => bt[x + 1] = ChildIn(K[x], w[x + 1])
<1>0. MaxDepth \in Nat /\ x \in Nat /\ m \in Nat /\ m <= MaxDepth BY PathAssumption
<1> DEFINE T == {j \in 0..x : bt[j] = C[j]}
<1>1. 0 \in T BY <1>0 DEF Down
<1>2. \A k \in 0..(x - 1) : k \in T => k + 1 \in T
  <2> SUFFICES ASSUME NEW k \in 0..(x - 1), k \in T PROVE k + 1 \in T OBVIOUS
  <2>1. k + 1 \in 1..(MaxDepth + 1) /\ (k + 1) - 1 = k /\ k + 1 \in 0..x /\ k + 1 \in 1..x
        /\ k \in 0..m
    BY <1>0
  <2>2. bt[k + 1] = Child(C[k], P[k + 1]) BY <2>1 DEF Down, Together
  <2>3. C[k] = BranchAt(k, P, Upsert(K[k], P[k + 1], C[k + 1])) BY <2>1 DEF Thread
  <2>4. bt[k + 1] = C[k + 1] BY <2>2, <2>3, CopyChild
  <2> QED BY <2>1, <2>4
<1> HIDE DEF T
<1>3. 0..x \subseteq T BY <1>0, <1>1, <1>2, LowBits!UpTo
<1>4. \A j \in 0..x : bt[j] = C[j] BY <1>3 DEF T
<1>5. ASSUME x <= m, w[x + 1] # P[x + 1] PROVE bt[x + 1] = ChildIn(K[x], w[x + 1])
  <2>1. x + 1 \in 1..(MaxDepth + 1) /\ (x + 1) - 1 = x /\ x \in 0..m /\ x \in 0..x BY <1>0, <1>5
  <2>2. bt[x + 1] = Child(C[x], w[x + 1]) BY <1>4, <2>1 DEF Down
  <2>3. C[x] = BranchAt(x, P, Upsert(K[x], P[x + 1], C[x + 1])) BY <2>1 DEF Thread
  <2> QED BY <1>5, <2>2, <2>3, CopyChild
<1> QED BY <1>4, <1>5 DEF Follows

(***************************************************************************)
(* Shape and contents of an index.                                         *)
(***************************************************************************)
Entries(E) == \A e \in E : e.key \in Key

\* A branch, a leaf and the missing node are three different things.
LEMMA Kinds ==
  /\ Missing.kind = "missing"
  /\ \A e : LeafOf(e).kind = "leaf" /\ LeafOf(e).entry = e /\ LeafOf(e) # Missing
  /\ \A d, path, children :
       /\ BranchAt(d, path, children).kind = "branch" /\ BranchAt(d, path, children) # Missing
       /\ BranchAt(d, path, children).children = children
       /\ BranchAt(d, path, children).depth = d
       /\ BranchAt(d, path, children).prefix = Prefix(path, d)
  /\ \A n, path, d : BranchThere(n, path, d) => n.kind = "branch"
BY DEF Missing, LeafOf, BranchAt, BranchThere

\* The nodes above another are branches.
LEMMA BranchesAbove ==
  ASSUME NEW root, NEW E, Shaped(root, E), NEW path \in Paths, NEW d \in Depths,
         NEW at, at = Along(root, path), at[d] # Missing
  PROVE  \A j \in 0..(d - 1) : BranchThere(at[j], path, j)
<1>0. MaxDepth \in Nat /\ d \in Nat /\ d <= MaxDepth + 1 BY PathAssumption DEF Depths
<1> SUFFICES ASSUME NEW j \in 0..(d - 1) PROVE BranchThere(at[j], path, j) OBVIOUS
<1>1. j \in Depths /\ d \in (j + 1)..(MaxDepth + 1) BY <1>0 DEF Depths
<1>2. Down(at, root, path) BY AlongDown
<1>3. at[j].kind = "branch" BY <1>1, <1>2, EndsThere
<1>4. ShapedAt(at[j], path, j, E) BY <1>1 DEF Shaped
<1> QED BY <1>3, <1>4, Kinds DEF ShapedAt, Found

\* An entry is where its path leads to, and only there.
LEMMA FoundOnce ==
  ASSUME NEW root, NEW E, Shaped(root, E), NEW path \in Paths, NEW d \in Depths,
         NEW at, at = Along(root, path), at[d].kind = "leaf"
  PROVE  \A j \in Depths : at[j].kind = "leaf" => j = d
<1>0. MaxDepth \in Nat /\ d \in Nat /\ d <= MaxDepth + 1 BY PathAssumption DEF Depths
<1> SUFFICES ASSUME NEW j \in Depths, at[j].kind = "leaf" PROVE j = d OBVIOUS
<1>1. Down(at, root, path) BY AlongDown
<1>2. \A k \in (d + 1)..(MaxDepth + 1) : at[k] = Missing BY <1>1, EndsThere
<1>3. \A k \in (j + 1)..(MaxDepth + 1) : at[k] = Missing BY <1>1, EndsThere
<1>4. at[d] # Missing /\ at[j] # Missing BY Kinds
<1>5. j \in Nat /\ j <= MaxDepth + 1 BY <1>0 DEF Depths
<1>6. ~(j \in (d + 1)..(MaxDepth + 1)) /\ ~(d \in (j + 1)..(MaxDepth + 1)) BY <1>2, <1>3, <1>4
<1> QED BY <1>0, <1>5, <1>6

(***************************************************************************)
(* An insertion extends the index by its entry, or finds another entry on  *)
(* the very same path.                                                     *)
(***************************************************************************)
Kept(K, at, P, m, d, E) ==
  /\ d \in Depths /\ d <= m /\ at[d] # Missing
  /\ \A x \in 0..(d - 1) : K[x] = at[x].children
  /\ \/ m = d /\ at[d].kind = "branch" /\ K[d] = at[d].children /\ at[d + 1] = Missing
     \/ /\ d # 0
        /\ \E a \in E : /\ at[d] = LeafOf(a)
                        /\ \A i \in 1..m : Path[a.key][i] = P[i]
                        /\ Path[a.key][m + 1] # P[m + 1]
                        /\ \A x \in d..(m - 1) : K[x] = <<>>
                        /\ K[m] = Upsert(<<>>, Path[a.key][m + 1], LeafOf(a))

\* Reach finds the one depth at which a walk ends.
LEMMA Reaches ==
  ASSUME NEW at, at[0] # Missing, NEW d, d = Reach(at)
  PROVE  d \in Depths /\ at[d] # Missing /\ (d <= MaxDepth => at[d + 1] = Missing)
<1>0. MaxDepth + 1 \in Nat /\ MaxDepth \in Nat BY PathAssumption
<1>1. \E k \in 0..(MaxDepth + 1) : at[k] # Missing /\ (k <= MaxDepth => at[k + 1] = Missing)
  <2> SUFFICES ASSUME \A k \in 0..(MaxDepth + 1) :
                        at[k] # Missing => k <= MaxDepth /\ at[k + 1] # Missing
               PROVE  FALSE
    OBVIOUS
  <2> DEFINE T == {k \in 0..(MaxDepth + 1) : at[k] # Missing}
  <2>1. 0 \in T BY <1>0
  <2>2. \A k \in 0..((MaxDepth + 1) - 1) : k \in T => k + 1 \in T BY <1>0
  <2> HIDE DEF T
  <2>3. 0..(MaxDepth + 1) \subseteq T BY <1>0, <2>1, <2>2, LowBits!UpTo
  <2>4. MaxDepth + 1 \in T BY <1>0, <2>3
  <2> QED BY <1>0, <2>4 DEF T
<1> QED BY <1>1 DEF Reach, Depths

LEMMA EntryPath ==
  ASSUME NEW E, Entries(E), NEW e \in E PROVE Path[e.key] \in Paths
BY PathAssumption DEF Entries, Paths

Threaded(N, P, at, e, E, m, d) ==
  \E C, K : Thread(C, K, P, m, LeafOf(e)) /\ Kept(K, at, P, m, d, E) /\ N = C[0]

\* Below the last branch of a path, the entry gets a leaf of its own.
LEMMA InsertsBelow ==
  ASSUME NEW P, NEW at, NEW e, NEW E, NEW d \in 0..MaxDepth,
         at[d] # Missing, at[d].kind = "branch", at[d + 1] = Missing,
         NEW kids, kids = [i \in 0..(d - 1) |-> at[i].children],
         NEW B, B = BranchAt(d, P, Upsert(at[d].children, P[d + 1], LeafOf(e)))
  PROVE  Threaded(Rebuilt(P, kids, 0, d, B), P, at, e, E, d, d)
<1>0. MaxDepth \in Nat /\ d \in Nat BY PathAssumption
<1>2. PICK D : Copies(D, P, kids, 0, d, B)
  <2>1. 0 \in Nat /\ 0 <= d BY <1>0
  <2> QED BY <1>0, <2>1, RebuiltCopies
<1>3. PICK leaf : leaf = LeafOf(e) OBVIOUS
<1> DEFINE C == [x \in 0..(d + 1) |-> IF x = d + 1 THEN leaf ELSE D[x]]
           K == [x \in 0..d |-> at[x].children]
<1>4. C[d + 1] = leaf /\ \A x \in 0..d : C[x] = D[x] BY <1>0
<1>5. \A x \in 0..d : K[x] = at[x].children OBVIOUS
<1> HIDE DEF C, K
<1>6. D[d] = B /\ \A x \in 0..(d - 1) : D[x] = BranchAt(x, P, Upsert(kids[x], P[x + 1], D[x + 1]))
  BY <1>2 DEF Copies
<1>7. ASSUME NEW x \in 0..d PROVE C[x] = BranchAt(x, P, Upsert(K[x], P[x + 1], C[x + 1]))
  <2>1. CASE x = d BY <1>0, <1>3, <1>4, <1>5, <1>6, <2>1
  <2>2. CASE x # d
    <3>1. x \in 0..(d - 1) /\ x + 1 \in 0..d BY <1>0, <2>2
    <3>2. kids[x] = K[x] BY <1>5, <3>1
    <3> QED BY <1>4, <1>6, <3>1, <3>2
  <2> QED BY <2>1, <2>2
<1>8. Thread(C, K, P, d, LeafOf(e)) BY <1>3, <1>4, <1>7 DEF Thread
<1>9. Kept(K, at, P, d, d, E)
  <2>1. d \in Depths /\ d <= d /\ d \in 0..d /\ \A x \in 0..(d - 1) : x \in 0..d
    BY <1>0 DEF Depths
  <2> QED BY <1>5, <2>1 DEF Kept
<1>10. Rebuilt(P, kids, 0, d, B) = C[0]
  <2>1. 0 \in 0..d BY <1>0
  <2> QED BY <1>2, <1>4, <2>1 DEF Copies
<1> QED BY <1>8, <1>9, <1>10 DEF Threaded

\* Beside another leaf, both move down to where their paths part.
LEMMA InsertsBeside ==
  ASSUME NEW P \in Paths, NEW at, NEW e, P = Path[e.key], NEW E, NEW a \in E, NEW A \in Paths,
         A = Path[a.key], NEW d \in 1..MaxDepth, at[d] = LeafOf(a),
         NEW m \in d..MaxDepth, \A i \in 1..m : A[i] = P[i], A[m + 1] # P[m + 1],
         NEW kids, kids = [i \in 0..(d - 1) |-> at[i].children],
         NEW none, none = [x \in d..MaxDepth |-> <<>>]
  PROVE  Threaded(Rebuilt(P, kids, 0, d, Rebuilt(A, none, d, m, Fork(a, e, m))), P, at, e, E, m, d)
<1>0. MaxDepth \in Nat /\ d \in Nat /\ m \in Nat /\ d <= m /\ m <= MaxDepth BY PathAssumption
<1>1. PICK F : F = Fork(a, e, m) OBVIOUS
<1>2. PICK D1 : Copies(D1, A, none, d, m, F) BY <1>0, RebuiltCopies
<1>3. PICK D0 : Copies(D0, P, kids, 0, d, D1[d])
  <2>1. 0 \in Nat /\ 0 <= d BY <1>0
  <2>2. PICK n : n = D1[d] OBVIOUS
  <2>3. \E D0 : Copies(D0, P, kids, 0, d, n) BY <1>0, <2>1, RebuiltCopies
  <2> QED BY <2>2, <2>3
<1>4. PICK leaf : leaf = LeafOf(e) OBVIOUS
<1>5. PICK fork : fork = Upsert(<<>>, A[m + 1], LeafOf(a)) OBVIOUS
<1> DEFINE C == [x \in 0..(m + 1) |-> IF x = m + 1 THEN leaf ELSE IF x < d THEN D0[x] ELSE D1[x]]
           K == [x \in 0..m |-> IF x < d THEN at[x].children ELSE IF x < m THEN <<>> ELSE fork]
<1>6. /\ C[m + 1] = leaf /\ \A x \in 0..(d - 1) : C[x] = D0[x]
      /\ \A x \in d..m : C[x] = D1[x]
  BY <1>0
<1>7. /\ \A x \in 0..(d - 1) : K[x] = at[x].children
      /\ \A x \in d..(m - 1) : K[x] = <<>>
      /\ K[m] = fork
  BY <1>0
<1> HIDE DEF C, K
<1>8. /\ D0[d] = D1[d]
      /\ \A x \in 0..(d - 1) : D0[x] = BranchAt(x, P, Upsert(kids[x], P[x + 1], D0[x + 1]))
  BY <1>3 DEF Copies
<1>9. /\ D1[m] = F
      /\ \A x \in d..(m - 1) : D1[x] = BranchAt(x, A, Upsert(none[x], A[x + 1], D1[x + 1]))
  BY <1>2 DEF Copies
<1>10. ASSUME NEW x \in d..m, NEW children PROVE BranchAt(x, A, children) = BranchAt(x, P, children)
  <2>1. x \in Depths /\ \A i \in 1..x : A[i] = P[i] BY <1>0 DEF Depths
  <2>2. Prefix(A, x) = Prefix(P, x) BY <2>1, PrefixSame
  <2> QED BY <2>2 DEF BranchAt
<1>11. ASSUME NEW x \in 0..m PROVE C[x] = BranchAt(x, P, Upsert(K[x], P[x + 1], C[x + 1]))
  <2>1. CASE x < d
    <3>1. x \in 0..(d - 1) /\ (x + 1 \in 0..(d - 1) \/ x + 1 = d) /\ d \in d..m BY <1>0, <2>1
    <3>2. kids[x] = K[x] BY <1>7, <3>1
    <3>3. C[x + 1] = D0[x + 1] BY <1>6, <1>8, <3>1
    <3> QED BY <1>6, <1>8, <3>1, <3>2, <3>3
  <2>2. CASE d <= x /\ x < m
    <3>1. x \in d..(m - 1) /\ x \in d..m /\ x + 1 \in d..m /\ x \in d..MaxDepth /\ x + 1 \in 1..m
      BY <1>0, <2>2
    <3>2. none[x] = K[x] BY <1>7, <3>1
    <3>3. C[x] = BranchAt(x, A, Upsert(K[x], P[x + 1], C[x + 1])) BY <1>6, <1>9, <3>1, <3>2
    <3> QED BY <1>10, <3>1, <3>3
  <2>3. CASE x = m
    <3>1. F = BranchAt(m, A, Upsert(fork, P[m + 1], leaf))
      BY <1>1, <1>4, <1>5 DEF Fork, Nibble
    <3>2. m \in d..m BY <1>0
    <3>3. F = BranchAt(m, P, Upsert(fork, P[m + 1], leaf)) BY <1>10, <3>1, <3>2
    <3> QED BY <1>6, <1>7, <1>9, <2>3, <3>2, <3>3
  <2> QED BY <1>0, <2>1, <2>2, <2>3
<1>12. Thread(C, K, P, m, LeafOf(e)) BY <1>4, <1>6, <1>11 DEF Thread
<1>13. Kept(K, at, P, m, d, E)
  <2>1. d \in Depths /\ d <= m /\ d # 0 BY <1>0 DEF Depths
  <2>2. at[d] # Missing BY Kinds
  <2> QED BY <1>5, <1>7, <2>1, <2>2 DEF Kept
<1>14. Rebuilt(P, kids, 0, d, Rebuilt(A, none, d, m, F)) = C[0]
  <2>1. Rebuilt(A, none, d, m, F) = D1[d] BY <1>2 DEF Copies
  <2>2. Rebuilt(P, kids, 0, d, D1[d]) = D0[0] BY <1>3 DEF Copies
  <2>3. 0 \in 0..(d - 1) BY <1>0
  <2> QED BY <1>6, <2>1, <2>2, <2>3
<1> QED BY <1>1, <1>12, <1>13, <1>14 DEF Threaded

\* The first depth at which two paths differ, if they do.
SplitsAt(a, e, A, P, d, none, m) ==
  /\ \A i \in 1..m : A[i] = P[i]
  /\ A[m + 1] # P[m + 1]
  /\ Split(a, e, d) = {Rebuilt(A, none, d, m, Fork(a, e, m))}

\* Two leaves part at a first depth, unless their paths are the same.
LEMMA SplitAt ==
  ASSUME NEW a, NEW e, NEW A \in Paths, A = Path[a.key], NEW P \in Paths, P = Path[e.key],
         NEW d \in 0..MaxDepth, \A i \in 1..d : A[i] = P[i],
         NEW none, none = [x \in d..MaxDepth |-> <<>>]
  PROVE  \/ A = P /\ Split(a, e, d) = {}
         \/ \E m \in d..MaxDepth : SplitsAt(a, e, A, P, d, none, m)
<1>0. MaxDepth \in Nat /\ d \in Nat /\ d <= MaxDepth /\ MaxDepth + 1 \in Nat BY PathAssumption
<1>1. PICK S : S = {m \in Differ(A, P, d) : \A k \in Differ(A, P, d) : m <= k} OBVIOUS
<1>2. Split(a, e, d) = {Rebuilt(A, none, d, m, Fork(a, e, m)) : m \in S} BY <1>1 DEF Split
<1>3. Differ(A, P, d) = {x \in d..MaxDepth : A[x + 1] # P[x + 1]} BY DEF Differ, Nibble
<1>4. CASE \A i \in 1..(MaxDepth + 1) : A[i] = P[i]
  <2>1. A = P
    <3>1. PICK n : n = MaxDepth + 1 OBVIOUS
    <3>2. A \in [1..n -> Slot] /\ P \in [1..n -> Slot] BY <3>1 DEF Paths
    <3>3. \A i \in 1..n : A[i] = P[i] BY <1>4, <3>1
    <3>4. A = [i \in 1..n |-> A[i]] /\ P = [i \in 1..n |-> P[i]] BY <3>2
    <3> QED BY <3>3, <3>4
  <2>2. S = {} BY <1>0, <1>1, <1>3, <1>4
  <2>3. Split(a, e, d) = {} BY <1>2, <2>2
  <2> QED BY <2>1, <2>3
<1>5. ASSUME NEW m \in 0..((MaxDepth + 1) - 1), \A i \in 1..m : A[i] = P[i], A[m + 1] # P[m + 1]
      PROVE  /\ m \in d..MaxDepth
             /\ Split(a, e, d) = {Rebuilt(A, none, d, m, Fork(a, e, m))}
  <2>1. ~(m + 1 \in 1..d) BY <1>5
  <2>2. m \in d..MaxDepth BY <1>0, <2>1
  <2>3. m \in Differ(A, P, d) BY <1>3, <1>5, <2>2
  <2>4. \A k \in Differ(A, P, d) : m <= k
    <3> SUFFICES ASSUME NEW k \in d..MaxDepth, A[k + 1] # P[k + 1] PROVE m <= k BY <1>3
    <3>1. ~(k + 1 \in 1..m) BY <1>5
    <3> QED BY <1>0, <2>2, <3>1
  <2>5. \A k \in S : k = m
    <3> SUFFICES ASSUME NEW k \in S PROVE k = m OBVIOUS
    <3>1. k <= m /\ m <= k BY <1>1, <2>3, <2>4
    <3>2. k \in Nat BY <1>0, <1>1, <1>3
    <3> QED BY <1>0, <2>2, <3>1, <3>2
  <2>6. S = {m} BY <1>1, <2>3, <2>4, <2>5
  <2> QED BY <1>2, <2>2, <2>6
<1>6. \/ \A i \in 1..(MaxDepth + 1) : A[i] = P[i]
      \/ \E x \in 0..((MaxDepth + 1) - 1) : (\A i \in 1..x : A[i] = P[i]) /\ A[x + 1] # P[x + 1]
  <2>1. PICK n : n = MaxDepth + 1 OBVIOUS
  <2>2. n \in Nat BY <1>0, <2>1
  <2>3. Together(A, P, n) \/ \E x \in 0..(n - 1) : Together(A, P, x) /\ A[x + 1] # P[x + 1]
    BY <2>2, Parting
  <2> QED BY <2>1, <2>3 DEF Together
<1> QED BY <1>4, <1>5, <1>6 DEF SplitsAt
Extends(N, root, e, E) ==
  \E C, K : \E m \in 0..MaxDepth, d \in Depths :
    /\ Thread(C, K, Path[e.key], m, LeafOf(e))
    /\ Kept(K, Along(root, Path[e.key]), Path[e.key], m, d, E)
    /\ N = C[0]

\* An insertion extends the index, unless another entry has the same path.
LEMMA Inserts ==
  ASSUME NEW root, NEW E, Entries(E), Shaped(root, E), NEW e, e.key \in Key,
         \A f \in E : f.key # e.key, NEW index, index.node = root
  PROVE  \/ \E N : /\ Extends(N, root, e, E)
                   /\ Insert(index, e) = {[node |-> N, entries |-> index.entries + 1]}
         \/ Insert(index, e) = {} /\ \E f \in E : Path[f.key] = Path[e.key]
<1>0. MaxDepth \in Nat BY PathAssumption
<1>1. PICK P : P = Path[e.key] OBVIOUS
<1>2. P \in Paths BY <1>1, PathAssumption DEF Paths
<1>3. PICK at : at = Along(root, P) OBVIOUS
<1>4. \A j \in Depths : ShapedAt(at[j], P, j, E) BY <1>2, <1>3 DEF Shaped
<1>5. BranchThere(at[0], P, 0)
  <2>1. 0 \in Depths BY <1>0 DEF Depths
  <2> QED BY <1>4, <2>1 DEF ShapedAt
<1>6. PICK d : d = Reach(at) OBVIOUS
<1>7. d \in Depths /\ at[d] # Missing /\ (d <= MaxDepth => at[d + 1] = Missing)
  <2>1. at[0] # Missing
    <3>1. at[0].kind = "branch" BY <1>5, Kinds
    <3> QED BY <3>1, Kinds
  <2> QED BY <1>6, <2>1, Reaches
<1>8. d \in Nat /\ d <= MaxDepth + 1 BY <1>0, <1>7 DEF Depths
<1>9. PICK kids : kids = [i \in 0..(d - 1) |-> at[i].children] OBVIOUS
<1>10. PICK places : places = PlaceAt(at[d], e, d) OBVIOUS
<1>11. Insert(index, e) =
         {[node |-> Rebuilt(P, kids, 0, d, node), entries |-> index.entries + 1] : node \in places}
  BY <1>1, <1>3, <1>6, <1>9, <1>10 DEF Insert
<1>12. ASSUME NEW node, places = {node}, d <= MaxDepth,
              NEW m \in 0..MaxDepth,
              Threaded(Rebuilt(P, kids, 0, d, node), P, at, e, E, m, d)
       PROVE  \E N : /\ Extends(N, root, e, E)
                     /\ Insert(index, e) = {[node |-> N, entries |-> index.entries + 1]}
  <2>1. PICK N : N = Rebuilt(P, kids, 0, d, node) OBVIOUS
  <2>2. Insert(index, e) = {[node |-> N, entries |-> index.entries + 1]}
    BY <1>11, <1>12, <2>1
  <2>3. Extends(N, root, e, E) BY <1>1, <1>3, <1>7, <1>12, <2>1 DEF Extends, Threaded
  <2> QED BY <2>2, <2>3
<1>13. CASE at[d].kind = "branch"
  <2>1. BranchThere(at[d], P, d) BY <1>4, <1>7, <1>13, Kinds DEF ShapedAt, Found
  <2>2. d <= MaxDepth BY <2>1 DEF BranchThere
  <2>3. d \in 0..MaxDepth /\ ~(d > MaxDepth) BY <1>0, <1>8, <2>2
  <2>4. PICK node : node = BranchAt(d, P, Upsert(at[d].children, P[d + 1], LeafOf(e))) OBVIOUS
  <2>5. places = {node}
    BY <1>1, <1>10, <1>13, <2>3, <2>4 DEF PlaceAt, Nibble
  <2>6. Threaded(Rebuilt(P, kids, 0, d, node), P, at, e, E, d, d)
    BY <1>7, <1>9, <1>13, <2>2, <2>3, <2>4, InsertsBelow
  <2> QED BY <1>12, <2>2, <2>3, <2>5, <2>6
<1>14. CASE at[d].kind # "branch"
  <2>1. Found(at[d], P, d, E) /\ d # 0 BY <1>4, <1>7, <1>14, Kinds DEF ShapedAt
  <2>2. PICK a \in E : at[d] = LeafOf(a) /\ Prefix(Path[a.key], d) = Prefix(P, d)
    BY <2>1 DEF Found
  <2>3. PICK A : A = Path[a.key] OBVIOUS
  <2>4. A \in Paths BY <2>3, EntryPath
  <2>5. \A i \in 1..d : A[i] = P[i] BY <1>2, <1>7, <2>2, <2>3, <2>4, PrefixSame
  <2>6. at[d].kind = "leaf" /\ at[d].entry = a /\ a.key # e.key BY <2>2, Kinds
  <2>7. CASE d > MaxDepth
    <3>1. places = {} BY <1>10, <2>7 DEF PlaceAt
    <3>2. A = P
      <4>1. d = MaxDepth + 1 BY <1>0, <1>8, <2>7
      <4>2. A \in [1..d -> Slot] /\ P \in [1..d -> Slot] BY <1>2, <2>4, <4>1 DEF Paths
      <4>3. A = [i \in 1..d |-> A[i]] /\ P = [i \in 1..d |-> P[i]] BY <4>2
      <4> QED BY <2>5, <4>3
    <3>3. Insert(index, e) = {} BY <1>11, <3>1
    <3> QED BY <1>1, <2>3, <3>2, <3>3
  <2>8. CASE ~(d > MaxDepth)
    <3>1. d \in 0..MaxDepth /\ d \in 1..MaxDepth /\ d <= MaxDepth BY <1>0, <1>8, <2>1, <2>8
    <3>2. places = Split(a, e, d) BY <1>10, <2>6, <2>8 DEF PlaceAt
    <3>3. PICK none : none = [x \in d..MaxDepth |-> <<>>] OBVIOUS
    <3>4. \/ A = P /\ Split(a, e, d) = {}
          \/ \E m \in d..MaxDepth : SplitsAt(a, e, A, P, d, none, m)
      BY <1>1, <1>2, <2>3, <2>4, <2>5, <3>1, <3>3, SplitAt
    <3>5. CASE A = P /\ Split(a, e, d) = {}
      <4>1. Insert(index, e) = {} BY <1>11, <3>2, <3>5
      <4> QED BY <1>1, <2>3, <3>5, <4>1
    <3>6. ASSUME NEW m \in d..MaxDepth, \A i \in 1..m : A[i] = P[i], A[m + 1] # P[m + 1],
                 Split(a, e, d) = {Rebuilt(A, none, d, m, Fork(a, e, m))}
          PROVE  \E N : /\ Extends(N, root, e, E)
                        /\ Insert(index, e) = {[node |-> N, entries |-> index.entries + 1]}
      <4>1. PICK node : node = Rebuilt(A, none, d, m, Fork(a, e, m)) OBVIOUS
      <4>2. places = {node} BY <3>2, <3>6, <4>1
      <4>3. Threaded(Rebuilt(P, kids, 0, d, node), P, at, e, E, m, d)
        BY <1>1, <1>2, <1>9, <2>2, <2>3, <2>4, <3>1, <3>3, <3>6, <4>1, InsertsBeside
      <4>4. m \in 0..MaxDepth BY <1>0, <3>1
      <4> QED BY <1>12, <3>1, <4>2, <4>3, <4>4
    <3> QED BY <3>4, <3>5, <3>6 DEF SplitsAt
  <2> QED BY <2>7, <2>8
<1> QED BY <1>13, <1>14

(***************************************************************************)
(* The extended index has its shape and holds one entry more.              *)
(***************************************************************************)
LEMMA KeptKids ==
  ASSUME NEW root, NEW E, Shaped(root, E), Entries(E), NEW P \in Paths, NEW at, at = Along(root, P),
         NEW K, NEW m \in 0..MaxDepth, NEW d, Kept(K, at, P, m, d, E), NEW x \in 0..m
  PROVE  DOMAIN K[x] \subseteq Slot /\ \A s \in DOMAIN K[x] : K[x][s] # Missing
<1>0. MaxDepth \in Nat /\ m \in Nat /\ m <= MaxDepth /\ x \in Nat /\ x <= m BY PathAssumption
<1>1. d \in Depths /\ d <= m /\ at[d] # Missing /\ d \in Nat BY <1>0 DEF Kept, Depths
<1>2. ASSUME BranchThere(at[x], P, x), K[x] = at[x].children
      PROVE  DOMAIN K[x] \subseteq Slot /\ \A s \in DOMAIN K[x] : K[x][s] # Missing
  BY <1>2 DEF BranchThere
<1>3. CASE x < d
  <2>1. x \in 0..(d - 1) BY <1>0, <1>1, <1>3
  <2>2. BranchThere(at[x], P, x) BY <1>1, <2>1, BranchesAbove
  <2>3. K[x] = at[x].children BY <2>1 DEF Kept
  <2> QED BY <1>2, <2>2, <2>3
<1>4. CASE ~(x < d) /\ at[d].kind = "branch"
  <2>1. m = d /\ K[d] = at[d].children BY <1>4, Kinds DEF Kept
  <2>2. x = d BY <1>0, <1>1, <1>4, <2>1
  <2>3. ShapedAt(at[d], P, d, E) BY <1>1 DEF Shaped
  <2>4. BranchThere(at[d], P, d) BY <1>1, <1>4, <2>3, Kinds DEF ShapedAt, Found
  <2> QED BY <1>2, <2>1, <2>2, <2>4
<1>5. CASE ~(x < d) /\ at[d].kind # "branch"
  <2>1. PICK a \in E : /\ \A y \in d..(m - 1) : K[y] = <<>>
                       /\ K[m] = Upsert(<<>>, Path[a.key][m + 1], LeafOf(a))
    BY <1>5 DEF Kept
  <2>2. CASE x < m
    <3>1. x \in d..(m - 1) BY <1>0, <1>1, <1>5, <2>2
    <3>2. K[x] = <<>> BY <2>1, <3>1
    <3>3. DOMAIN K[x] = {} BY <3>2
    <3> QED BY <3>3
  <2>3. CASE x = m
    <3>1. PICK A : A = Path[a.key] OBVIOUS
    <3>2. m + 1 \in 1..(MaxDepth + 1) BY <1>0
    <3>3. A \in Paths BY <3>1, EntryPath
    <3>4. A[m + 1] \in Slot BY <3>2, <3>3 DEF Paths
    <3>5. DOMAIN K[x] = {A[m + 1]} /\ K[x][A[m + 1]] = LeafOf(a) BY <2>1, <2>3, <3>1 DEF Upsert
    <3> QED BY <3>4, <3>5, Kinds
  <2> QED BY <1>0, <2>2, <2>3
<1> QED BY <1>3, <1>4, <1>5

LEMMA CopyThere ==
  ASSUME NEW root, NEW E, Shaped(root, E), Entries(E), NEW P \in Paths, NEW at, at = Along(root, P),
         NEW C, NEW K, NEW e, NEW m \in 0..MaxDepth, NEW d, Kept(K, at, P, m, d, E),
         Thread(C, K, P, m, LeafOf(e)), NEW x \in 0..m, NEW w \in Paths, Together(w, P, x)
  PROVE  BranchThere(C[x], w, x)
<1>0. MaxDepth \in Nat /\ m \in Nat /\ m <= MaxDepth /\ x \in Nat /\ x <= m BY PathAssumption
<1>1. DOMAIN K[x] \subseteq Slot /\ \A s \in DOMAIN K[x] : K[x][s] # Missing BY KeptKids
<1>2. C[x + 1] # Missing
  <2>1. CASE x = m BY <2>1, Kinds DEF Thread
  <2>2. CASE x # m
    <3>1. x + 1 \in 0..m BY <1>0, <2>2
    <3>2. C[x + 1] = BranchAt(x + 1, P, Upsert(K[x + 1], P[(x + 1) + 1], C[(x + 1) + 1]))
      BY <3>1 DEF Thread
    <3> QED BY <3>2, Kinds
  <2> QED BY <2>1, <2>2
<1>3. PICK u : u = Upsert(K[x], P[x + 1], C[x + 1]) OBVIOUS
<1>4. C[x] = BranchAt(x, P, u) BY <1>3 DEF Thread
<1>5. P[x + 1] \in Slot
  <2>1. x + 1 \in 1..(MaxDepth + 1) BY <1>0
  <2> QED BY <2>1 DEF Paths
<1>6. /\ u = [s \in DOMAIN u |-> u[s]] /\ DOMAIN u \subseteq Slot
      /\ \A s \in DOMAIN u : u[s] # Missing
  <2>1. DOMAIN u = DOMAIN K[x] \cup {P[x + 1]} BY <1>3 DEF Upsert
  <2>2. \A s \in DOMAIN u : u[s] = IF s = P[x + 1] THEN C[x + 1] ELSE K[x][s]
    BY <1>3 DEF Upsert
  <2>3. u = [s \in DOMAIN u |-> u[s]] BY <1>3 DEF Upsert
  <2> QED BY <1>1, <1>2, <1>5, <2>1, <2>2, <2>3
<1>7. BranchAt(x, P, u) = BranchAt(x, w, u)
  <2>1. x \in Depths BY <1>0 DEF Depths
  <2>2. Prefix(w, x) = Prefix(P, x) BY <2>1, PrefixSame DEF Together
  <2> QED BY <2>2 DEF BranchAt
<1>8. C[x].children = u /\ C[x].kind = "branch" BY <1>4, Kinds
<1>9. x <= MaxDepth BY <1>0
<1> QED BY <1>4, <1>6, <1>7, <1>8, <1>9 DEF BranchThere

\* Off the thread, a walk finds what it found before, or one of two leaves that
\* moved down, or nothing.
LeafMoved(bt, w, x, E) ==
  \A j \in (x + 1)..(MaxDepth + 1) :
    \/ bt[j] = Missing
    \/ j = x + 1 /\ \E a \in E : bt[j] = LeafOf(a) /\ Together(w, Path[a.key], j)

\* Off the path of the new entry, a walk leaves the copies for the old nodes.
LEMMA PartsOff ==
  ASSUME NEW root, NEW E, Shaped(root, E), Entries(E), NEW P \in Paths, NEW at, at = Along(root, P),
         NEW C, NEW K, NEW e, NEW m \in 0..MaxDepth, NEW d, Kept(K, at, P, m, d, E),
         Thread(C, K, P, m, LeafOf(e)), NEW x \in 0..m, NEW w \in Paths, Together(w, P, x),
         w[x + 1] # P[x + 1], NEW bt, bt = Along(C[0], w), NEW ot, ot = Along(root, w)
  PROVE  \/ /\ x < d \/ at[d].kind = "branch"
            /\ \A j \in (x + 1)..(MaxDepth + 1) : bt[j] = ot[j]
         \/ d <= x /\ at[d].kind = "leaf" /\ LeafMoved(bt, w, x, E)
<1>0. MaxDepth \in Nat /\ m \in Nat /\ m <= MaxDepth /\ x \in Nat /\ x <= m BY PathAssumption
<1>1. d \in Depths /\ d <= m /\ at[d] # Missing /\ d \in Nat BY <1>0 DEF Kept, Depths
<1>2. Down(at, root, P) /\ Down(bt, C[0], w) /\ Down(ot, root, w) BY AlongDown
<1>3. bt[x + 1] = ChildIn(K[x], w[x + 1])
  <2>1. x \in 0..(m + 1) BY <1>0
  <2>2. x <= m BY <1>0
  <2> QED BY <1>2, <2>1, <2>2, ThreadWalk
<1>4. ASSUME K[x] = at[x].children, at[x].kind = "branch"
      PROVE  \A j \in (x + 1)..(MaxDepth + 1) : bt[j] = ot[j]
  <2>1. x \in Depths /\ x \in 0..x /\ x + 1 \in Depths /\ x + 1 \in 1..(MaxDepth + 1)
        /\ (x + 1) - 1 = x
    BY <1>0 DEF Depths
  <2>2. ot[x] = at[x]
    <3>1. \A j \in 0..x : ot[j] = at[j] BY <1>2, <2>1, SameAbove DEF Together
    <3> QED BY <2>1, <3>1
  <2>3. ot[x + 1] = Child(at[x], w[x + 1]) BY <1>2, <2>1, <2>2 DEF Down
  <2>4. ot[x + 1] = bt[x + 1] BY <1>3, <1>4, <2>3 DEF Child, ChildIn
  <2>5. \A i \in ((x + 1) + 1)..(MaxDepth + 1) : w[i] = w[i] OBVIOUS
  <2> QED BY <1>2, <2>1, <2>4, <2>5, SameBelow
<1>5. CASE x < d
  <2>1. x \in 0..(d - 1) BY <1>0, <1>1, <1>5
  <2>2. BranchThere(at[x], P, x) BY <1>1, <2>1, BranchesAbove
  <2>3. K[x] = at[x].children BY <2>1 DEF Kept
  <2>4. at[x].kind = "branch" BY <2>2, Kinds
  <2> QED BY <1>4, <1>5, <2>3, <2>4
<1>6. CASE ~(x < d) /\ at[d].kind = "branch"
  <2>1. m = d /\ K[d] = at[d].children BY <1>6, Kinds DEF Kept
  <2>2. x = d BY <1>0, <1>1, <1>6, <2>1
  <2> QED BY <1>4, <1>6, <2>1, <2>2
<1>7. CASE ~(x < d) /\ at[d].kind # "branch"
  <2>1. PICK a \in E : /\ at[d] = LeafOf(a)
                       /\ \A i \in 1..m : Path[a.key][i] = P[i]
                       /\ \A y \in d..(m - 1) : K[y] = <<>>
                       /\ K[m] = Upsert(<<>>, Path[a.key][m + 1], LeafOf(a))
    BY <1>7 DEF Kept
  <2>2. d <= x /\ at[d].kind = "leaf" BY <1>0, <1>1, <1>7, <2>1, Kinds
  <2>3. x + 1 \in Depths BY <1>0 DEF Depths
  <2>4. ASSUME bt[x + 1].kind # "branch"
        PROVE  \A j \in (x + 1)..(MaxDepth + 1) : j # x + 1 => bt[j] = Missing
    <3>1. \A j \in ((x + 1) + 1)..(MaxDepth + 1) : bt[j] = Missing BY <1>2, <2>3, <2>4, EndsThere
    <3>2. \A j \in (x + 1)..(MaxDepth + 1) : j # x + 1 => j \in ((x + 1) + 1)..(MaxDepth + 1)
      BY <1>0
    <3> QED BY <3>1, <3>2
  <2>5. CASE bt[x + 1] = Missing
    <3>1. \A j \in (x + 1)..(MaxDepth + 1) : bt[j] = Missing BY <2>4, <2>5, Kinds
    <3> QED BY <2>2, <3>1 DEF LeafMoved
  <2>6. CASE bt[x + 1] # Missing
    <3>1. x = m
      <4>1. SUFFICES ASSUME x < m PROVE FALSE BY <1>0
      <4>2. x \in d..(m - 1) BY <1>0, <1>1, <2>2, <4>1
      <4>3. K[x] = <<>> BY <2>1, <4>2
      <4>4. DOMAIN K[x] = {} BY <4>3
      <4> QED BY <1>3, <2>6, <4>4 DEF ChildIn
    <3>2. DOMAIN K[x] = {Path[a.key][m + 1]} /\ K[x][Path[a.key][m + 1]] = LeafOf(a)
      BY <2>1, <3>1 DEF Upsert
    <3>3. w[x + 1] = Path[a.key][m + 1] /\ bt[x + 1] = LeafOf(a) BY <1>3, <2>6, <3>2 DEF ChildIn
    <3>4. Together(w, Path[a.key], x + 1)
      <4>1. \A i \in 1..(x + 1) : i \in 1..m \/ i = m + 1 BY <1>0, <3>1
      <4>2. \A i \in 1..m : w[i] = Path[a.key][i] BY <2>1, <3>1 DEF Together
      <4> QED BY <3>1, <3>3, <4>1, <4>2 DEF Together
    <3>5. bt[x + 1].kind # "branch" BY <3>3, Kinds
    <3>6. \A j \in (x + 1)..(MaxDepth + 1) : j # x + 1 => bt[j] = Missing BY <2>4, <3>5
    <3>7. LeafMoved(bt, w, x, E) BY <3>3, <3>4, <3>6 DEF LeafMoved
    <3> QED BY <2>2, <3>7
  <2> QED BY <2>5, <2>6
<1> QED BY <1>5, <1>6, <1>7

\* The extended index has its shape, for the events and the new one.
LEMMA ExtendsShaped ==
  ASSUME NEW root, NEW E, Shaped(root, E), Entries(E), NEW e, e.key \in Key, NEW N,
         Extends(N, root, e, E)
  PROVE  Shaped(N, E \cup {e})
<1>0. MaxDepth \in Nat BY PathAssumption
<1>1. PICK P : P = Path[e.key] OBVIOUS
<1>2. P \in Paths BY <1>1, PathAssumption DEF Paths
<1>3. PICK at : at = Along(root, P) OBVIOUS
<1>4. PICK C, K : \E m \in 0..MaxDepth, d \in Depths :
                    Thread(C, K, P, m, LeafOf(e)) /\ Kept(K, at, P, m, d, E) /\ N = C[0]
  BY <1>1, <1>3 DEF Extends
<1>5. PICK m \in 0..MaxDepth, d \in Depths :
        Thread(C, K, P, m, LeafOf(e)) /\ Kept(K, at, P, m, d, E) /\ N = C[0]
  BY <1>4
<1>6. ASSUME NEW w \in Paths, NEW j \in Depths
      PROVE  ShapedAt(Along(N, w)[j], w, j, E \cup {e})
  <2>0. m \in Nat /\ m <= MaxDepth /\ j \in Nat /\ j <= MaxDepth + 1 BY <1>0 DEF Depths
  <2>1. PICK bt : bt = Along(C[0], w) OBVIOUS
  <2>2. Down(bt, C[0], w) BY <2>1, AlongDown
  <2>3. PICK ot : ot = Along(root, w) OBVIOUS
  <2>4. ASSUME NEW x \in 0..(m + 1), Together(w, P, x), j <= x, j <= m
        PROVE  ShapedAt(bt[j], w, j, E \cup {e})
    <3>2. Follows(bt, C, x) BY <1>5, <2>2, <2>4, ThreadWalk
    <3>3. bt[j] = C[j] /\ j \in 0..m BY <2>0, <2>4, <3>2 DEF Follows
    <3>4. Together(w, P, j) BY <2>0, <2>4 DEF Together
    <3>5. BranchThere(C[j], w, j) BY <1>2, <1>3, <1>5, <3>3, <3>4, CopyThere
    <3> QED BY <3>3, <3>5 DEF ShapedAt
  <2>5. ASSUME Together(w, P, m + 1) PROVE ShapedAt(bt[j], w, j, E \cup {e})
    <3>1. m + 1 \in 0..(m + 1) /\ m + 1 \in Nat BY <2>0
    <3>2. \A i \in 1..(m + 1) : w[i] = P[i] BY <2>5 DEF Together
    <3>3. \A y \in 0..(m + 1) : bt[y] = C[y]
      <4>1. PICK x : x = m + 1 OBVIOUS
      <4>2. x \in 0..(m + 1) /\ Together(w, P, x) BY <2>5, <3>1, <4>1
      <4>3. Follows(bt, C, x) BY <1>5, <2>2, <4>2, ThreadWalk
      <4> QED BY <4>1, <4>3 DEF Follows
    <3>4. bt[m + 1] = LeafOf(e) BY <1>5, <3>1, <3>3 DEF Thread
    <3>5. CASE j <= m
      <4>1. PICK x : x = m + 1 OBVIOUS
      <4>2. x \in 0..(m + 1) /\ Together(w, P, x) /\ j <= x BY <2>0, <2>5, <3>1, <3>5, <4>1
      <4> QED BY <2>4, <3>5, <4>2
    <3>6. CASE j = m + 1
      <4>1. Prefix(Path[e.key], j) = Prefix(w, j) BY <1>1, <1>2, <3>2, <3>6, PrefixSame
      <4>2. Found(bt[j], w, j, E \cup {e}) BY <3>4, <3>6, <4>1 DEF Found
      <4> QED BY <2>0, <3>6, <4>2 DEF ShapedAt
    <3>7. CASE j > m + 1
      <4>1. m + 1 \in Depths BY <2>0, <1>0 DEF Depths
      <4>2. bt[m + 1].kind # "branch" BY <3>4, Kinds
      <4>3. \A y \in ((m + 1) + 1)..(MaxDepth + 1) : bt[y] = Missing
        BY <2>2, <4>1, <4>2, EndsThere
      <4>4. bt[j] = Missing /\ j # 0 BY <2>0, <3>7, <4>3
      <4> QED BY <4>4 DEF ShapedAt
    <3> QED BY <2>0, <3>5, <3>6, <3>7
  <2>6. ASSUME NEW x \in 0..((m + 1) - 1), Together(w, P, x), w[x + 1] # P[x + 1]
        PROVE  ShapedAt(bt[j], w, j, E \cup {e})
    <3>1. x \in 0..m /\ x \in 0..(m + 1) /\ x \in Nat BY <2>0
    <3>2. CASE j <= x BY <2>0, <2>4, <2>6, <3>1, <3>2
    <3>3. CASE j > x
      <4>1. j \in (x + 1)..(MaxDepth + 1) /\ j # 0 BY <2>0, <3>1, <3>3
      <4>2. \/ /\ x < d \/ at[d].kind = "branch"
               /\ \A y \in (x + 1)..(MaxDepth + 1) : bt[y] = ot[y]
            \/ d <= x /\ at[d].kind = "leaf" /\ LeafMoved(bt, w, x, E)
        BY <1>2, <1>3, <1>5, <2>1, <2>3, <2>6, <3>1, PartsOff
      <4>3. CASE bt[j] = ot[j]
        <5>1. ShapedAt(ot[j], w, j, E) BY <2>3 DEF Shaped
        <5> QED BY <4>3, <5>1 DEF ShapedAt, Found
      <4>4. CASE bt[j] = Missing BY <4>1, <4>4 DEF ShapedAt
      <4>5. ASSUME NEW a \in E, bt[j] = LeafOf(a), Together(w, Path[a.key], j)
            PROVE  ShapedAt(bt[j], w, j, E \cup {e})
        <5>1. Path[a.key] \in Paths BY EntryPath
        <5>2. PICK A : A = Path[a.key] OBVIOUS
        <5>3. \A i \in 1..j : A[i] = w[i] BY <4>5, <5>2 DEF Together
        <5>4. Prefix(A, j) = Prefix(w, j) BY <5>1, <5>2, <5>3, PrefixSame
        <5> QED BY <4>1, <4>5, <5>2, <5>4 DEF ShapedAt, Found
      <4> QED BY <4>1, <4>2, <4>3, <4>4, <4>5 DEF LeafMoved
    <3> QED BY <2>0, <3>1, <3>2, <3>3
  <2>7. \/ Together(w, P, m + 1)
        \/ \E x \in 0..((m + 1) - 1) : Together(w, P, x) /\ w[x + 1] # P[x + 1]
    <3>1. m + 1 \in Nat BY <2>0
    <3> QED BY <3>1, Parting
  <2>8. ShapedAt(bt[j], w, j, E \cup {e}) BY <2>5, <2>6, <2>7
  <2> QED BY <1>5, <2>1, <2>8
<1> QED BY <1>6 DEF Shaped

\* The extended index holds the events and the new one.
LEMMA ExtendsHolds ==
  ASSUME NEW root, NEW E, Shaped(root, E), Holds(root, E), Entries(E), NEW e, e.key \in Key, NEW N,
         Extends(N, root, e, E)
  PROVE  Holds(N, E \cup {e})
<1>0. MaxDepth \in Nat BY PathAssumption
<1>1. PICK P : P = Path[e.key] OBVIOUS
<1>2. P \in Paths BY <1>1, PathAssumption DEF Paths
<1>3. PICK at : at = Along(root, P) OBVIOUS
<1>4. PICK C, K : \E m \in 0..MaxDepth, d \in Depths :
                    Thread(C, K, P, m, LeafOf(e)) /\ Kept(K, at, P, m, d, E) /\ N = C[0]
  BY <1>1, <1>3 DEF Extends
<1>5. PICK m \in 0..MaxDepth, d \in Depths :
        Thread(C, K, P, m, LeafOf(e)) /\ Kept(K, at, P, m, d, E) /\ N = C[0]
  BY <1>4
<1>6. m \in Nat /\ m <= MaxDepth /\ d \in Nat /\ d <= m /\ m + 1 \in Depths /\ d \in 0..m
      /\ m + 1 \in 0..(m + 1) /\ d \in 0..(m + 1)
  BY <1>0, <1>5 DEF Depths, Kept
<1>7. \E k \in Depths : Along(N, Path[e.key])[k] = LeafOf(e)
  <2>1. PICK bt : bt = Along(C[0], P) OBVIOUS
  <2>2. Down(bt, C[0], P) BY <2>1, AlongDown
  <2>4. \A y \in 0..(m + 1) : bt[y] = C[y]
    <3>1. PICK x : x = m + 1 OBVIOUS
    <3>2. x \in 0..(m + 1) /\ Together(P, P, x) BY <1>6, <3>1 DEF Together
    <3>3. Follows(bt, C, x) BY <1>5, <2>2, <3>2, ThreadWalk
    <3> QED BY <3>1, <3>3 DEF Follows
  <2>5. bt[m + 1] = LeafOf(e) BY <1>5, <1>6, <2>4 DEF Thread
  <2> QED BY <1>1, <1>5, <1>6, <2>1, <2>5
<1>8. ASSUME NEW f \in E PROVE \E k \in Depths : Along(N, Path[f.key])[k] = LeafOf(f)
  <2>1. PICK w : w = Path[f.key] OBVIOUS
  <2>2. w \in Paths BY <2>1, EntryPath
  <2>3. PICK bt : bt = Along(C[0], w) OBVIOUS
  <2>4. PICK ot : ot = Along(root, w) OBVIOUS
  <2>5. Down(bt, C[0], w) /\ Down(ot, root, w) /\ Down(at, root, P) BY <1>3, <2>3, <2>4, AlongDown
  <2>6. PICK k \in Depths : ot[k] = LeafOf(f) BY <2>1, <2>4 DEF Holds
  <2>7. k \in Nat /\ k <= MaxDepth + 1 /\ ot[k].kind = "leaf" /\ ot[k] # Missing
    BY <1>0, <2>6, Kinds DEF Depths
  <2>8. at[d] # Missing /\ \A j \in 0..(d - 1) : at[j].kind = "branch"
    <3>1. at[d] # Missing BY <1>5 DEF Kept
    <3>2. \A j \in 0..(d - 1) : BranchThere(at[j], P, j) BY <1>2, <1>3, <1>5, <3>1, BranchesAbove
    <3> QED BY <3>1, <3>2, Kinds
  <2>9. ASSUME NEW x \in Depths, Together(w, P, x) PROVE \A j \in 0..x : ot[j] = at[j]
    <3>1. \A i \in 1..x : w[i] = P[i] BY <2>9 DEF Together
    <3> QED BY <2>5, <3>1, SameAbove
  \* Where the walk parts from the thread below the leaf, the leaf is this entry.
  <2>10. ASSUME NEW a \in E, at[d] = LeafOf(a), ot[d] = at[d] PROVE f = a
    <3>1. ot[d].kind = "leaf" BY <2>10, Kinds
    <3>2. k = d BY <2>2, <2>4, <2>7, <3>1, FoundOnce
    <3> QED BY <2>6, <2>10, <3>2, Kinds
  <2>11. ASSUME Together(w, P, m + 1) PROVE FALSE
    <3>1. \A j \in 0..(m + 1) : ot[j] = at[j] BY <1>6, <2>9, <2>11
    <3>2. CASE at[d].kind = "branch"
      <4>1. m = d /\ at[d + 1] = Missing BY <1>5, <3>2, Kinds DEF Kept
      <4>2. ot[m + 1] = Missing BY <1>6, <3>1, <4>1
      <4>3. \A j \in ((m + 1) + 1)..(MaxDepth + 1) : ot[j] = Missing
        BY <1>6, <2>5, <4>2, EndsThere, Kinds
      <4>4. k <= m
        <5>1. k = m + 1 \/ k \in ((m + 1) + 1)..(MaxDepth + 1) \/ k <= m BY <1>6, <2>7
        <5> QED BY <2>7, <4>2, <4>3, <5>1
      <4>5. ot[k] = at[k] /\ (k = d \/ k \in 0..(d - 1)) BY <1>6, <2>7, <3>1, <4>1, <4>4
      <4> QED BY <2>7, <2>8, <3>2, <4>5
    <3>3. CASE at[d].kind # "branch"
      <4>1. PICK a \in E : at[d] = LeafOf(a) /\ Path[a.key][m + 1] # P[m + 1]
        BY <1>5, <3>3 DEF Kept
      <4>2. f = a BY <1>6, <2>10, <3>1, <4>1
      <4>3. w[m + 1] = P[m + 1] /\ m + 1 \in 1..(m + 1) BY <1>6, <2>11 DEF Together
      <4> QED BY <2>1, <4>1, <4>2, <4>3
    <3> QED BY <3>2, <3>3
  <2>12. ASSUME NEW x \in 0..((m + 1) - 1), Together(w, P, x), w[x + 1] # P[x + 1]
         PROVE  \E j \in Depths : bt[j] = LeafOf(f)
    <3>1. x \in 0..m /\ x \in Nat /\ x \in Depths BY <1>0, <1>6 DEF Depths
    <3>2. \A j \in 0..x : ot[j] = at[j] BY <2>9, <2>12, <3>1
    <3>3. \/ /\ x < d \/ at[d].kind = "branch"
             /\ \A y \in (x + 1)..(MaxDepth + 1) : bt[y] = ot[y]
          \/ d <= x /\ at[d].kind = "leaf" /\ LeafMoved(bt, w, x, E)
      BY <1>2, <1>3, <1>5, <2>2, <2>3, <2>4, <2>12, <3>1, PartsOff
    <3>4. CASE /\ x < d \/ at[d].kind = "branch"
               /\ \A y \in (x + 1)..(MaxDepth + 1) : bt[y] = ot[y]
      <4>1. x < d \/ x = d
        <5>1. CASE x < d BY <5>1
        <5>2. CASE at[d].kind = "branch"
          <6>1. m = d BY <1>5, <5>2, Kinds DEF Kept
          <6> QED BY <1>6, <3>1, <6>1
        <5> QED BY <3>4, <5>1, <5>2
      <4>2. ~(k <= x)
        <5>1. SUFFICES ASSUME k <= x PROVE FALSE OBVIOUS
        <5>2. ot[k] = at[k] BY <2>7, <3>1, <3>2, <5>1
        <5>3. CASE k < d
          <6>1. k \in 0..(d - 1) BY <1>6, <2>7, <5>3
          <6> QED BY <2>7, <2>8, <5>2, <6>1
        <5>4. CASE ~(k < d)
          <6>1. k = d /\ x = d BY <1>6, <2>7, <3>1, <4>1, <5>1, <5>4
          <6>2. at[d].kind = "branch" BY <1>6, <3>4, <6>1
          <6> QED BY <2>7, <5>2, <6>1, <6>2
        <5> QED BY <5>3, <5>4
      <4>3. k \in (x + 1)..(MaxDepth + 1) BY <2>7, <3>1, <4>2
      <4> QED BY <2>6, <3>4, <4>3
    <3>5. CASE d <= x /\ at[d].kind = "leaf"
      <4>1. PICK a \in E : /\ at[d] = LeafOf(a)
                           /\ \A i \in 1..m : Path[a.key][i] = P[i]
                           /\ K[m] = Upsert(<<>>, Path[a.key][m + 1], LeafOf(a))
        BY <1>5, <3>5 DEF Kept
      <4>2. ot[d] = at[d] BY <1>6, <3>1, <3>2, <3>5
      <4>3. f = a BY <2>10, <4>1, <4>2
      <4>4. \A i \in 1..m : w[i] = P[i] BY <2>1, <4>1, <4>3
      <4>5. x = m
        <5>1. ~(x + 1 \in 1..m) BY <2>12, <4>4
        <5> QED BY <1>6, <3>1, <5>1
      <4>6. bt[m + 1] = ChildIn(K[m], w[m + 1])
        <5>1. x <= m /\ x \in 0..(m + 1) BY <1>6, <4>5
        <5>2. bt[x + 1] = ChildIn(K[x], w[x + 1]) BY <1>5, <2>5, <2>12, <5>1, ThreadWalk
        <5> QED BY <4>5, <5>2
      <4>7. ChildIn(K[m], w[m + 1]) = LeafOf(f) BY <2>1, <4>1, <4>3 DEF ChildIn, Upsert
      <4> QED BY <1>6, <4>6, <4>7
    <3> QED BY <3>3, <3>4, <3>5
  <2>13. \/ Together(w, P, m + 1)
         \/ \E x \in 0..((m + 1) - 1) : Together(w, P, x) /\ w[x + 1] # P[x + 1]
    <3>1. m + 1 \in Nat BY <1>6
    <3> QED BY <3>1, Parting
  <2>14. \E j \in Depths : bt[j] = LeafOf(f) BY <2>11, <2>12, <2>13
  <2> QED BY <1>5, <2>1, <2>3, <2>14
<1> QED BY <1>7, <1>8 DEF Holds

(***************************************************************************)
(* An index that has its shape finds what it holds, and validates.         *)
(***************************************************************************)
LEMMA EmptyShaped ==
  Shaped(EmptyBranch, {}) /\ Holds(EmptyBranch, {}) /\ DOMAIN EmptyBranch.children = {}
<1>0. MaxDepth \in Nat BY PathAssumption
<1>1. PICK none : none = <<>> OBVIOUS
<1>2. DOMAIN none = {} /\ none = [s \in DOMAIN none |-> none[s]] BY <1>1
<1>3. ASSUME NEW w \in Paths, NEW d \in Depths PROVE ShapedAt(Along(EmptyBranch, w)[d], w, d, {})
  <2>1. PICK at : at = Along(EmptyBranch, w) OBVIOUS
  <2>2. Down(at, EmptyBranch, w) BY <2>1, AlongDown
  <2>3. 0 \in Depths /\ d \in Nat /\ d <= MaxDepth + 1 BY <1>0 DEF Depths
  <2>4. EmptyBranch = BranchAt(0, w, none)
    <3>1. Prefix(w, 0) \in Seq(Slot) /\ Len(Prefix(w, 0)) = 0 BY <2>3, PrefixIs
    <3>2. Prefix(w, 0) = <<>> BY <3>1
    <3> QED BY <1>1, <3>2 DEF EmptyBranch, BranchAt
  <2>5. CASE d = 0
    <3>1. BranchThere(EmptyBranch, w, 0) BY <1>0, <1>2, <2>4, Kinds DEF BranchThere
    <3>2. at[d] = EmptyBranch BY <2>2, <2>5 DEF Down
    <3> QED BY <2>1, <2>5, <3>1, <3>2 DEF ShapedAt
  <2>6. CASE d # 0
    <3>1. 1 \in 1..(MaxDepth + 1) /\ 1 - 1 = 0 /\ 1 \in Depths BY <1>0 DEF Depths
    <3>2. at[1] = Child(EmptyBranch, w[1]) BY <2>2, <3>1 DEF Down
    <3>3. EmptyBranch.children = none BY <2>4, Kinds
    <3>4. at[1] = Missing BY <1>2, <3>2, <3>3 DEF Child
    <3>5. \A j \in (1 + 1)..(MaxDepth + 1) : at[j] = Missing BY <2>2, <3>1, <3>4, EndsThere, Kinds
    <3>6. d = 1 \/ d \in (1 + 1)..(MaxDepth + 1) BY <2>3, <2>6
    <3>7. at[d] = Missing BY <3>4, <3>5, <3>6
    <3> QED BY <2>1, <2>6, <3>7 DEF ShapedAt
  <2> QED BY <2>5, <2>6
<1>4. EmptyBranch.children = none BY <1>1 DEF EmptyBranch
<1> QED BY <1>2, <1>3, <1>4 DEF Shaped, Holds

\* A lookup finds the event of its key, and nothing for any other key.
LEMMA LooksUp ==
  ASSUME NEW root, NEW E, Shaped(root, E), Holds(root, E), Entries(E), NEW index,
         index.node = root, index.entries = 0 => E = {}, NEW key \in Key
  PROVE  /\ \A e \in E : e.key = key => Lookup(index, key) = {e}
         /\ (\A e \in E : e.key # key) => Lookup(index, key) = {}
<1>0. MaxDepth \in Nat BY PathAssumption
<1>1. PICK w : w = Path[key] OBVIOUS
<1>2. w \in Paths BY <1>1, PathAssumption DEF Paths
<1>3. PICK at : at = Along(root, w) OBVIOUS
<1>4. PICK L : L = {n \in {at[d] : d \in Depths} : n.kind = "leaf" /\ n.entry.key = key} OBVIOUS
<1>5. index.entries # 0 => Lookup(index, key) = {n.entry : n \in L}
  BY <1>1, <1>3, <1>4 DEF Lookup, Walk, Depths
<1>6. ASSUME NEW e \in E, e.key = key PROVE Lookup(index, key) = {e}
  <2>1. index.entries # 0 BY <1>6
  <2>2. PICK d \in Depths : at[d] = LeafOf(e) BY <1>1, <1>3, <1>6 DEF Holds
  <2>3. at[d].kind = "leaf" /\ at[d].entry = e BY <2>2, Kinds
  <2>4. \A j \in Depths : at[j].kind = "leaf" => j = d BY <1>2, <1>3, <2>3, FoundOnce
  <2>5. L = {at[d]} BY <1>4, <1>6, <2>3, <2>4
  <2> QED BY <1>5, <2>1, <2>3, <2>5
<1>7. ASSUME \A e \in E : e.key # key PROVE Lookup(index, key) = {}
  <2>1. CASE index.entries = 0 BY <2>1 DEF Lookup
  <2>2. CASE index.entries # 0
    <3>1. ASSUME NEW d \in Depths, at[d].kind = "leaf" PROVE at[d].entry.key # key
      <4>1. ShapedAt(at[d], w, d, E) BY <1>2, <1>3 DEF Shaped
      <4>2. PICK e \in E : at[d] = LeafOf(e) BY <3>1, <4>1, Kinds DEF ShapedAt, Found
      <4> QED BY <1>7, <4>2, Kinds
    <3>2. L = {} BY <1>4, <3>1
    <3> QED BY <1>5, <2>2, <3>2
  <2> QED BY <2>1, <2>2
<1> QED BY <1>6, <1>7

LevelTop(p)         == {[walk |-> <<>>, node |-> p]}
LevelDown(p, d, v)  ==
  UNION {{[walk |-> Append(q.walk, slot), node |-> q.node.children[slot]] :
            slot \in DOMAIN q.node.children} : q \in {q \in v : q.node.kind = "branch"}}
Spreading == INSTANCE Steps WITH Base <- LevelTop, Step <- LevelDown

\* The nodes of an index, by the recursion over their depth.
LEMMA NodesAtOf ==
  ASSUME NEW root
  PROVE  /\ NodesAt(root)[0] = LevelTop(root)
         /\ \A d \in 1..(MaxDepth + 1) : NodesAt(root)[d] = LevelDown(root, d, NodesAt(root)[d - 1])
<1> DEFINE G(f) == [d \in 0..(MaxDepth + 1) |->
              IF d = 0 THEN {[walk |-> <<>>, node |-> root]}
              ELSE UNION {{[walk |-> Append(p.walk, slot), node |-> p.node.children[slot]] :
                             slot \in DOMAIN p.node.children} :
                            p \in {p \in f[d - 1] : p.node.kind = "branch"}}]
           u == CHOOSE f : f = G(f)
<1>0. MaxDepth + 1 \in Nat BY PathAssumption
<1>1. \E f : f = G(f)
  <2>1. PICK f : Spreading!Solves(f, root, MaxDepth + 1) BY <1>0, Spreading!Defined
  <2>2. f = G(f) BY <2>1 DEF Spreading!Solves, LevelTop, LevelDown
  <2> QED BY <2>2
<1>2. u = G(u) BY <1>1
<1>3. NodesAt(root) = u BY DEF NodesAt
<1> HIDE DEF u
<1>4. u[0] = LevelTop(root) BY <1>0, <1>2 DEF LevelTop
<1>5. ASSUME NEW d \in 1..(MaxDepth + 1) PROVE u[d] = LevelDown(root, d, u[d - 1])
  <2>1. d \in 0..(MaxDepth + 1) /\ d # 0 BY <1>0
  <2>2. u[d] = G(u)[d] BY <1>2
  <2>3. G(u)[d] = UNION {{[walk |-> Append(p.walk, slot), node |-> p.node.children[slot]] :
                            slot \in DOMAIN p.node.children} :
                           p \in {p \in u[d - 1] : p.node.kind = "branch"}}
    BY <2>1
  <2> HIDE DEF G
  <2> QED BY <2>2, <2>3 DEF LevelDown
<1> QED BY <1>3, <1>4, <1>5

LeadsTo(root, p, d) == \E w \in Paths : Prefix(w, d) = p.walk /\ Along(root, w)[d] = p.node

\* Every node of an index is met on some path.
LEMMA NodesWalked ==
  ASSUME NEW root, NEW E, Shaped(root, E)
  PROVE  \A d \in Depths : \A p \in NodesAt(root)[d] : LeadsTo(root, p, d)
<1>0. MaxDepth \in Nat /\ MaxDepth + 1 \in Nat BY PathAssumption
<1> DEFINE T == {d \in 0..(MaxDepth + 1) : \A p \in NodesAt(root)[d] : LeadsTo(root, p, d)}
<1>1. 0 \in T
  <2>1. PICK s \in Slot : TRUE BY PathAssumption
  <2>2. PICK w : w = [i \in 1..(MaxDepth + 1) |-> s] OBVIOUS
  <2>3. w \in Paths BY <2>2 DEF Paths
  <2>4. 0 \in Depths BY <1>0 DEF Depths
  <2>5. Prefix(w, 0) = <<>>
    <3>1. Prefix(w, 0) \in Seq(Slot) /\ Len(Prefix(w, 0)) = 0 BY <2>3, <2>4, PrefixIs
    <3> QED BY <3>1
  <2>6. Along(root, w)[0] = root BY AlongDown DEF Down
  <2>7. \A p \in NodesAt(root)[0] : p.walk = <<>> /\ p.node = root BY NodesAtOf DEF LevelTop
  <2>8. \A p \in NodesAt(root)[0] : LeadsTo(root, p, 0) BY <2>3, <2>5, <2>6, <2>7 DEF LeadsTo
  <2> QED BY <1>0, <2>8
<1>2. \A k \in 0..((MaxDepth + 1) - 1) : k \in T => k + 1 \in T
  <2> SUFFICES ASSUME NEW k \in 0..((MaxDepth + 1) - 1), k \in T PROVE k + 1 \in T OBVIOUS
  <2>1. k + 1 \in 1..(MaxDepth + 1) /\ (k + 1) - 1 = k /\ k + 1 \in 0..(MaxDepth + 1)
        /\ k \in Depths /\ k + 1 \in Depths /\ k \in Nat
    BY <1>0 DEF Depths
  <2>2. \A q \in NodesAt(root)[k] : LeadsTo(root, q, k) OBVIOUS
  <2> HIDE DEF T
  <2>3. ASSUME NEW p \in NodesAt(root)[k + 1] PROVE LeadsTo(root, p, k + 1)
    <3>1. p \in LevelDown(root, k + 1, NodesAt(root)[k]) BY <2>1, NodesAtOf
    <3>2. PICK q \in NodesAt(root)[k] : \E slot \in DOMAIN q.node.children :
            q.node.kind = "branch" /\ p = [walk |-> Append(q.walk, slot), node |-> q.node.children[slot]]
      BY <3>1 DEF LevelDown
    <3>3. PICK slot \in DOMAIN q.node.children :
            q.node.kind = "branch" /\ p.walk = Append(q.walk, slot) /\ p.node = q.node.children[slot]
      BY <3>2
    <3>4. PICK w \in Paths : Prefix(w, k) = q.walk /\ Along(root, w)[k] = q.node
      BY <2>2 DEF LeadsTo
    <3>5. BranchThere(q.node, w, k)
      <4>1. ShapedAt(Along(root, w)[k], w, k, E) BY <2>1 DEF Shaped
      <4> QED BY <3>3, <3>4, <4>1, Kinds DEF ShapedAt, Found
    <3>6. slot \in Slot BY <3>5 DEF BranchThere
    <3>7. PICK v : v = [w EXCEPT ![k + 1] = slot] OBVIOUS
    <3>8. v \in Paths BY <3>6, <3>7 DEF Paths
    <3>9. v[k + 1] = slot /\ \A i \in 1..k : v[i] = w[i]
      <4>1. PICK n : n = MaxDepth + 1 OBVIOUS
      <4>2. w \in [1..n -> Slot] BY <4>1 DEF Paths
      <4>3. DOMAIN w = 1..n BY <4>2
      <4>4. k + 1 \in DOMAIN w /\ \A i \in 1..k : i \in DOMAIN w /\ i # k + 1 BY <1>0, <2>1, <4>1, <4>3
      <4> QED BY <3>7, <4>4
    <3>10. PICK at : at = Along(root, w) OBVIOUS
    <3>11. PICK bt : bt = Along(root, v) OBVIOUS
    <3>12. Down(at, root, w) /\ Down(bt, root, v) BY <3>10, <3>11, AlongDown
    <3>13. bt[k] = q.node
      <4>1. \A j \in 0..k : bt[j] = at[j] BY <2>1, <3>9, <3>12, SameAbove
      <4> QED BY <2>1, <3>4, <3>10, <4>1
    <3>14. bt[k + 1] = p.node
      <4>1. bt[k + 1] = Child(bt[k], v[k + 1]) BY <2>1, <3>12 DEF Down
      <4> QED BY <3>3, <3>9, <3>13, <4>1 DEF Child
    <3>15. Prefix(v, k + 1) = p.walk
      <4>1. PICK a : a = Prefix(w, k) OBVIOUS
      <4>2. PICK b : b = Prefix(v, k + 1) OBVIOUS
      <4>3. a \in Seq(Slot) /\ Len(a) = k /\ \A i \in 1..k : a[i] = w[i]
        BY <2>1, <4>1, PrefixIs
      <4>4. b \in Seq(Slot) /\ Len(b) = k + 1 /\ \A i \in 1..(k + 1) : b[i] = v[i]
        BY <2>1, <3>8, <4>2, PrefixIs
      <4>5. PICK c : c = Append(a, slot) OBVIOUS
      <4>6. c \in Seq(Slot) /\ Len(c) = k + 1 /\ c[k + 1] = slot /\ \A i \in 1..k : c[i] = a[i]
        BY <3>6, <4>3, <4>5
      <4>7. \A i \in 1..(k + 1) : b[i] = c[i]
        <5>1. \A i \in 1..(k + 1) : i \in 1..k \/ i = k + 1 BY <2>1
        <5>2. k + 1 \in 1..(k + 1) BY <2>1
        <5>3. \A i \in 1..k : i \in 1..(k + 1) BY <2>1
        <5> QED BY <3>9, <4>3, <4>4, <4>6, <5>1, <5>2, <5>3
      <4>8. b = c BY <4>4, <4>6, <4>7
      <4> QED BY <3>3, <3>4, <4>1, <4>2, <4>5, <4>8
    <3> QED BY <3>8, <3>11, <3>14, <3>15 DEF LeadsTo
  <2> QED BY <2>1, <2>3 DEF T
<1> HIDE DEF T
<1>3. 0..(MaxDepth + 1) \subseteq T BY <1>0, <1>1, <1>2, LowBits!UpTo
<1> QED BY <1>3 DEF T, Depths

\* An index that has its shape validates.
LEMMA IndexValid ==
  ASSUME NEW root, NEW E, Shaped(root, E), Holds(root, E), Entries(E), NEW index,
         index.node = root, index.entries = 0 <=> E = {}, index.entries = 0 => root = EmptyBranch,
         NEW head, index.entries <= head.seq, \A e \in E : ValidEntry(e, head)
  PROVE  ValidIndex(index, head)
<1>0. MaxDepth \in Nat BY PathAssumption
<1>1. ASSUME NEW w \in Paths
      PROVE  BranchThere(root, w, 0)
  <2>1. 0 \in Depths BY <1>0 DEF Depths
  <2>2. Along(root, w)[0] = root BY AlongDown DEF Down
  <2> QED BY <2>1, <2>2 DEF Shaped, ShapedAt
<1>2. root.kind = "branch"
  <2>1. PICK s \in Slot : TRUE BY PathAssumption
  <2>2. PICK w : w = [i \in 1..(MaxDepth + 1) |-> s] OBVIOUS
  <2>3. w \in Paths BY <2>2 DEF Paths
  <2> QED BY <1>1, <2>3, Kinds
<1>3. (index.entries = 0) <=> (DOMAIN root.children = {})
  <2>1. CASE index.entries = 0 BY <2>1, EmptyShaped
  <2>2. CASE index.entries # 0
    <3>1. PICK e \in E : TRUE BY <2>2
    <3>2. PICK w : w = Path[e.key] OBVIOUS
    <3>3. PICK at : at = Along(root, w) OBVIOUS
    <3>4. PICK d \in Depths : at[d] = LeafOf(e) BY <3>2, <3>3 DEF Holds
    <3>5. Down(at, root, w) BY <3>3, AlongDown
    <3>6. ASSUME DOMAIN root.children = {} PROVE FALSE
      <4>1. 1 \in 1..(MaxDepth + 1) /\ 1 - 1 = 0 /\ 1 \in Depths BY <1>0 DEF Depths
      <4>2. at[1] = Missing BY <3>5, <3>6, <4>1 DEF Down, Child
      <4>3. \A j \in (1 + 1)..(MaxDepth + 1) : at[j] = Missing
        BY <3>5, <4>1, <4>2, EndsThere, Kinds
      <4>4. d = 0 \/ d = 1 \/ d \in (1 + 1)..(MaxDepth + 1) BY <1>0 DEF Depths
      <4>5. d = 0 BY <3>4, <4>2, <4>3, <4>4, Kinds
      <4> QED BY <1>2, <3>4, <3>5, <4>5, Kinds DEF Down
    <3> QED BY <2>2, <3>6
  <2> QED BY <2>1, <2>2
<1>4. ASSUME NEW d \in Depths, NEW p \in NodesAt(root)[d] PROVE ValidAt(p.node, p.walk, head)
  <2>1. PICK w \in Paths : Prefix(w, d) = p.walk /\ Along(root, w)[d] = p.node
    BY NodesWalked DEF LeadsTo
  <2>2. Len(p.walk) = d BY <2>1, PrefixIs
  <2>3. ShapedAt(p.node, w, d, E) \/ p.node = Missing BY <2>1 DEF Shaped
  <2>4. p.node # Missing
    <3>1. CASE d = 0
      <4>1. p.node = root BY <2>1, <3>1, AlongDown DEF Down
      <4> QED BY <1>2, <4>1, Kinds
    <3>2. CASE d # 0
      <4>1. d \in 1..(MaxDepth + 1) /\ d - 1 \in Depths BY <1>0, <3>2 DEF Depths
      <4>2. p \in LevelDown(root, d, NodesAt(root)[d - 1]) BY <4>1, NodesAtOf
      <4>3. PICK q \in NodesAt(root)[d - 1] : \E slot \in DOMAIN q.node.children :
              q.node.kind = "branch" /\ p.node = q.node.children[slot]
        BY <4>2 DEF LevelDown
      <4>4. PICK v \in Paths : Along(root, v)[d - 1] = q.node BY <4>1, NodesWalked DEF LeadsTo
      <4>5. ShapedAt(q.node, v, d - 1, E) BY <4>1, <4>4 DEF Shaped
      <4>6. BranchThere(q.node, v, d - 1) BY <4>3, <4>5, Kinds DEF ShapedAt, Found
      <4> QED BY <4>3, <4>6 DEF BranchThere
    <3> QED BY <3>1, <3>2
  <2>5. CASE BranchThere(p.node, w, d)
    <3>1. p.node.kind = "branch" /\ p.node.depth = d /\ p.node.prefix = Prefix(w, d) /\ d <= MaxDepth
      BY <2>5, Kinds DEF BranchThere
    <3> QED BY <2>1, <2>2, <3>1 DEF ValidAt
  <2>6. CASE Found(p.node, w, d, E)
    <3>1. PICK e \in E : p.node = LeafOf(e) /\ Prefix(Path[e.key], d) = Prefix(w, d)
      BY <2>6 DEF Found
    <3>2. p.node.kind = "leaf" /\ p.node.entry = e BY <3>1, Kinds
    <3> QED BY <2>1, <2>2, <3>1, <3>2 DEF ValidAt
  <2> QED BY <2>3, <2>4, <2>5, <2>6 DEF ShapedAt
<1> QED BY <1>2, <1>3, <1>4 DEF ValidIndex, Depths

(***************************************************************************)
(* The chain of commits.                                                   *)
(***************************************************************************)
LEMMA HopsEnough ==
  ASSUME NEW n \in Nat, n <= MaxGeneration
  PROVE  HopBound(Log2[n] + 1) <= MaxHops
<1>1. MaxGeneration \in Nat /\ MaxHops \in Nat /\ HopBound(Log2[MaxGeneration] + 1) <= MaxHops
  BY HopsAssumption
<1>2. PICK a : a = Log2[n] OBVIOUS
<1>3. PICK b : b = Log2[MaxGeneration] OBVIOUS
<1>4. a \in Nat /\ b \in Nat /\ a <= b BY <1>1, <1>2, <1>3, Log2Range, Log2Grows
<1>5. a + 1 \in Nat /\ b + 1 \in Nat /\ a + 1 <= b + 1 BY <1>4
<1>6. HopBound(a + 1) <= HopBound(b + 1) BY <1>5, HopBoundGrows
<1>7. HopBound(a + 1) \in Nat /\ HopBound(b + 1) \in Nat BY <1>5, HopBoundOf
<1> QED BY <1>1, <1>2, <1>3, <1>6, <1>7

LEMMA SkipTargetType == \A g \in Nat \ {0} : SkipTarget(g) \in 0..(g - 1)
<1> TAKE g \in Nat \ {0}
<1>1. PICK d : d = SkipDistance[g] OBVIOUS
<1>2. d \in 1..g BY <1>1, SkipDistanceBounds
<1>3. SkipTarget(g) = g - d BY <1>1 DEF SkipTarget
<1> QED BY <1>2, <1>3

\* The chain of the feed is one over which seeks work.
LEMMA ChainLinked ==
  ASSUME TypeOK, ChainInv
  PROVE  Linked(chain, Len(chain)) /\ Len(chain) \in Nat /\ DOMAIN chain = 1..Len(chain)
         /\ Len(chain) = ref.generation /\ Len(chain) <= MaxGeneration
BY DEF TypeOK, ChainInv, Linked

\* The commit that a publication adds.
NextCommit(epoch, carrier) ==
  [generation |-> ref.generation + 1, epoch |-> epoch, parent |-> ref.generation,
   skip |-> SkipTarget(ref.generation + 1), carrier |-> carrier,
   target |-> IF carrier THEN NoCommit ELSE ref.target]

\* What a publication appends to the chain: the skip target is found.
LEMMA Publishes ==
  ASSUME TypeOK, ChainInv, NEW epoch, NEW carrier, Publish(epoch, carrier)
  PROVE  /\ chain' = Append(chain, NextCommit(epoch, carrier))
         /\ ref' = [generation |-> ref.generation + 1, epoch |-> epoch,
                    target |-> IF carrier THEN ref.generation + 1 ELSE ref.target]
         /\ ref.generation + 1 <= MaxGeneration /\ reader' = reader
<1>1. Linked(chain, Len(chain)) /\ Len(chain) \in Nat /\ Len(chain) = ref.generation
      /\ Len(chain) <= MaxGeneration
  BY ChainLinked
<1>2. HopBound(Log2[Len(chain)] + 1) <= MaxHops BY <1>1, HopsEnough
<1>3. MaxHops \in Nat BY HopsAssumption
<1>4. ComputeSkip(chain) = {SkipTarget(Len(chain) + 1)} BY <1>1, <1>2, <1>3, ComputesSkip
<1>5. ComputeSkip(chain) = {SkipTarget(ref.generation + 1)} BY <1>1, <1>4
<1> QED BY <1>5 DEF Publish, NextCommit

\* The head after a publication binds the ref, if the log is not empty exactly
\* when something was published.
LEMMA ChainStep ==
  ASSUME TypeOK, ChainInv, NEW epoch \in Nat, ref.epoch <= epoch, NEW carrier \in BOOLEAN,
         Publish(epoch, carrier),
         IF carrier THEN log' # <<>> ELSE log' = log
  PROVE  /\ ChainInv' /\ chain' \in Seq(Header)
         /\ ref' \in [generation : Nat, epoch : Nat, target : Nat]
<1> DEFINE g == ref.generation + 1
<1>1. /\ chain' = Append(chain, NextCommit(epoch, carrier))
      /\ ref' = [generation |-> g, epoch |-> epoch, target |-> IF carrier THEN g ELSE ref.target]
      /\ g <= MaxGeneration
  BY Publishes
<1>2. PICK c : c = NextCommit(epoch, carrier) OBVIOUS
<1>3. ref.generation \in Nat /\ ref.epoch \in Nat /\ ref.target \in Nat /\ g \in Nat \ {0}
  BY DEF TypeOK
<1>4. SkipTarget(g) \in Nat BY <1>3, SkipTargetType
<1>5. /\ c.generation = g /\ c.epoch = epoch /\ c.parent = ref.generation
      /\ c.skip = SkipTarget(g) /\ c.carrier = carrier
      /\ c.target = IF carrier THEN NoCommit ELSE ref.target
  BY <1>2 DEF NextCommit
<1>6. c \in Header
  <2>1. NoCommit \in Nat BY DEF NoCommit
  <2> HIDE DEF g
  <2> QED BY <1>2, <1>3, <1>4, <2>1 DEF NextCommit, Header, g
<1>7. chain \in Seq(Header) /\ Len(chain) = ref.generation BY DEF TypeOK, ChainInv
<1>8. chain' \in Seq(Header) /\ Len(chain') = g /\ DOMAIN chain' = 1..g
      /\ chain'[g] = c /\ \A h \in 1..ref.generation : chain'[h] = chain[h]
  BY <1>1, <1>2, <1>3, <1>6, <1>7
<1>9. ref'.generation = g /\ ref'.epoch = epoch /\ ref'.target = IF carrier THEN g ELSE ref.target
  BY <1>1
<1>10. ref' \in [generation : Nat, epoch : Nat, target : Nat]
  <2> HIDE DEF g
  <2> QED BY <1>1, <1>3
<1>11. ASSUME NEW h \in DOMAIN chain'
       PROVE  /\ chain'[h].generation = h /\ chain'[h].parent = h - 1
              /\ chain'[h].skip = SkipTarget(h) /\ chain'[h].epoch <= ref'.epoch
  <2>1. CASE h = g BY <1>3, <1>5, <1>8, <1>9, <2>1
  <2>2. CASE h # g
    <3>1. h \in 1..ref.generation /\ h \in DOMAIN chain BY <1>3, <1>7, <1>8, <2>2
    <3>2. /\ chain[h].generation = h /\ chain[h].parent = h - 1
          /\ chain[h].skip = SkipTarget(h) /\ chain[h].epoch <= ref.epoch
      BY <3>1 DEF ChainInv
    <3>3. chain[h].epoch \in Nat
      <4>1. chain[h] \in Header BY <1>7, <3>1
      <4> QED BY <4>1 DEF Header
    <3> QED BY <1>3, <1>8, <1>9, <3>1, <3>2, <3>3
  <2> QED BY <2>1, <2>2
<1>12. CommitView(chain', g).target = ref'.target
  <2>1. chain'[g].carrier = carrier /\ chain'[g].target = IF carrier THEN NoCommit ELSE ref.target
    BY <1>5, <1>8
  <2>2. CommitView(chain', g).target = IF chain'[g].carrier THEN g ELSE chain'[g].target
    BY DEF CommitView
  <2> QED BY <1>9, <2>1, <2>2
<1>13. (ref'.target = NoCommit) <=> (log' = <<>>)
  <2>1. (ref.target = NoCommit) <=> (log = <<>>) BY DEF ChainInv
  <2>2. g # NoCommit BY <1>3 DEF NoCommit
  <2> QED BY <1>9, <2>1, <2>2
<1>14. CommitView(chain', ref'.generation).target = ref'.target BY <1>9, <1>12
<1> QED BY <1>1, <1>8, <1>9, <1>10, <1>11, <1>13, <1>14 DEF ChainInv

(***************************************************************************)
(* The commits that carry a manifest are as many as there are events.      *)
(***************************************************************************)
Carriers(c, g) == {h \in 1..g : c[h].carrier}

LEMMA CarriersFinite ==
  ASSUME NEW c, NEW g \in Nat
  PROVE  IsFiniteSet(Carriers(c, g)) /\ Cardinality(Carriers(c, g)) \in Nat
<1>1. IsFiniteSet(1..g) BY FS_Interval
<1>2. Carriers(c, g) \subseteq 1..g BY DEF Carriers
<1>3. IsFiniteSet(Carriers(c, g)) BY <1>1, <1>2, FS_Subset
<1> QED BY <1>3, FS_CardinalityType

\* The carriers of a chain that has grown.
LEMMA CarriersAfter ==
  ASSUME NEW c, NEW d, NEW n \in Nat, \A h \in 1..n : d[h] = c[h]
  PROVE  /\ \A g \in 0..n : Carriers(d, g) = Carriers(c, g)
         /\ d[n + 1].carrier =>
              Cardinality(Carriers(d, n + 1)) = Cardinality(Carriers(c, n)) + 1
         /\ ~d[n + 1].carrier =>
              Cardinality(Carriers(d, n + 1)) = Cardinality(Carriers(c, n))
<1>1. \A g \in 0..n : Carriers(d, g) = Carriers(c, g)
  <2> TAKE g \in 0..n
  <2>1. \A h \in 1..g : d[h] = c[h] OBVIOUS
  <2> QED BY <2>1 DEF Carriers
<1>2. 1..(n + 1) = 1..n \cup {n + 1} /\ n + 1 \notin 1..n OBVIOUS
<1>3. IsFiniteSet(Carriers(c, n)) BY CarriersFinite
<1>4. ASSUME d[n + 1].carrier
      PROVE  Cardinality(Carriers(d, n + 1)) = Cardinality(Carriers(c, n)) + 1
  <2>1. Carriers(d, n + 1) = Carriers(c, n) \cup {n + 1} BY <1>2, <1>4 DEF Carriers
  <2>2. n + 1 \notin Carriers(c, n) BY <1>2 DEF Carriers
  <2> QED BY <1>3, <2>1, <2>2, FS_AddElement
<1>5. ASSUME ~d[n + 1].carrier
      PROVE  Cardinality(Carriers(d, n + 1)) = Cardinality(Carriers(c, n))
  <2>1. Carriers(d, n + 1) = Carriers(c, n) BY <1>2, <1>5 DEF Carriers
  <2> QED BY <2>1
<1> QED BY <1>1, <1>4, <1>5

AppendedIn(c, i, g) == c[g].carrier /\ Cardinality(Carriers(c, g)) = i

LEMMA AppendedByIn ==
  \A i, g : AppendedBy(i, g) <=> g \in DOMAIN chain /\ AppendedIn(chain, i, g)
BY DEF AppendedBy, AppendedIn, Carriers

LEMMA AppendedByNext ==
  \A i, g : AppendedBy(i, g)' <=> g \in DOMAIN chain' /\ AppendedIn(chain', i, g)
BY DEF AppendedBy, AppendedIn, Carriers

\* There are as many carriers up to the head as in the chain.
LEMMA CarriersAll ==
  ASSUME TypeOK, IndexInv
  PROVE  Cardinality(Carriers(chain, Len(chain))) = Len(log)
<1>1. DOMAIN chain = 1..Len(chain) BY DEF TypeOK
<1> QED BY <1>1 DEF IndexInv, Carriers

\* What a publication adds to the history of the chain.
Adds(i, g, carrier) ==
  AppendedBy(i, g)' <=> \/ AppendedBy(i, g)
                        \/ carrier /\ g = Len(chain) + 1 /\ i = Len(log) + 1

\* Who wrote an event stays so when the chain grows.
LEMMA AppendedByStep ==
  ASSUME TypeOK, ChainInv, IndexInv, NEW epoch, NEW carrier \in BOOLEAN, Publish(epoch, carrier)
  PROVE  /\ \A i, g : Adds(i, g, carrier)
         /\ Cardinality({g \in DOMAIN chain' : chain'[g].carrier}) =
              IF carrier THEN Len(log) + 1 ELSE Len(log)
<1>1. PICK n : n = Len(chain) OBVIOUS
<1>2. n \in Nat /\ DOMAIN chain = 1..n BY <1>1, ChainLinked
<1>3. PICK h : h = NextCommit(epoch, carrier) OBVIOUS
<1>4. chain' = Append(chain, h) BY <1>3, Publishes
<1>5. PICK c : c = chain OBVIOUS
<1>6. PICK d : d = Append(c, h) OBVIOUS
<1>7. c \in Seq(Header) /\ Len(c) = n BY <1>1, <1>5 DEF TypeOK
<1>8. DOMAIN d = 1..(n + 1) /\ d[n + 1] = h /\ \A x \in 1..n : d[x] = c[x] BY <1>6, <1>7
<1>9. h.carrier = carrier BY <1>3 DEF NextCommit
<1>10. Cardinality(Carriers(c, n)) = Len(log) BY <1>1, <1>5, CarriersAll
<1>11. /\ \A g \in 0..n : Carriers(d, g) = Carriers(c, g)
       /\ d[n + 1].carrier => Cardinality(Carriers(d, n + 1)) = Cardinality(Carriers(c, n)) + 1
       /\ ~d[n + 1].carrier => Cardinality(Carriers(d, n + 1)) = Cardinality(Carriers(c, n))
  BY <1>2, <1>8, CarriersAfter
<1>12. Cardinality(Carriers(d, n + 1)) = IF carrier THEN Len(log) + 1 ELSE Len(log)
  BY <1>8, <1>9, <1>10, <1>11
<1>13. chain' = d BY <1>4, <1>5, <1>6
<1>14. ASSUME NEW i, NEW g PROVE Adds(i, g, carrier)
  <2>1. AppendedBy(i, g)' <=> g \in 1..(n + 1) /\ AppendedIn(d, i, g)
    BY <1>8, <1>13, AppendedByNext
  <2>2. AppendedBy(i, g) <=> g \in 1..n /\ AppendedIn(c, i, g) BY <1>2, <1>5, AppendedByIn
  <2>3. CASE g \in 1..n
    <3>1. AppendedIn(d, i, g) <=> AppendedIn(c, i, g) BY <1>2, <1>8, <1>11, <2>3 DEF AppendedIn
    <3>2. g \in 1..(n + 1) /\ g # n + 1 BY <1>2, <2>3
    <3> QED BY <1>1, <2>1, <2>2, <2>3, <3>1, <3>2 DEF Adds
  <2>4. CASE g = n + 1
    <3>1. AppendedIn(d, i, g) <=> carrier /\ i = Len(log) + 1
      BY <1>8, <1>9, <1>12, <2>4 DEF AppendedIn
    <3>2. g \in 1..(n + 1) /\ g \notin 1..n BY <1>2, <2>4
    <3> QED BY <1>1, <2>1, <2>2, <2>4, <3>1, <3>2 DEF Adds
  <2>5. CASE g \notin 1..n /\ g # n + 1
    <3>1. g \notin 1..(n + 1) BY <1>2, <2>5
    <3> QED BY <1>1, <2>1, <2>2, <2>5, <3>1 DEF Adds
  <2> QED BY <2>3, <2>4, <2>5
<1>15. {g \in DOMAIN chain' : chain'[g].carrier} = Carriers(d, n + 1)
  BY <1>8, <1>13 DEF Carriers
<1> QED BY <1>12, <1>14, <1>15

(***************************************************************************)
(* The events and the chunks of a log that has grown.                      *)
(***************************************************************************)
LEMMA EventsOf ==
  \A e : e \in Events <=> \E i \in DOMAIN log, g \in DOMAIN chain :
                            AppendedBy(i, g) /\ e = EntryOf(i, g)
BY DEF Events

LEMMA EventsNext ==
  \A e : e \in Events' <=> \E i \in DOMAIN log', g \in DOMAIN chain' :
                             AppendedBy(i, g)' /\ e = EntryOf(i, g)'
BY DEF Events

LEMMA EventEntries ==
  ASSUME TypeOK
  PROVE  Entries(Events)
<1>1. ASSUME NEW e \in Events PROVE e.key \in Key
  <2>1. PICK i \in DOMAIN log, g \in DOMAIN chain : e = EntryOf(i, g) BY EventsOf
  <2>2. log[i] \in Key BY DEF TypeOK
  <2> QED BY <2>1, <2>2 DEF EntryOf
<1> QED BY <1>1 DEF Entries

NewEvent(key) ==
  [key |-> key, first |-> Len(log) + 1, last |-> Len(log) + 1, generation |-> Len(chain) + 1]

NewChunk(key) == ChunkRef(<<[seq |-> Len(log) + 1, payload |-> key]>>, Len(log) + 1, 1)

\* A claim leaves the events as they are.
LEMMA EventsStay ==
  ASSUME TypeOK, ChainInv, IndexInv, NEW epoch, Publish(epoch, FALSE), log' = log
  PROVE  Events' = Events
<1>1. \A i, g : Adds(i, g, FALSE) BY AppendedByStep
<1>2. \A i, g : AppendedBy(i, g)' <=> AppendedBy(i, g) BY <1>1 DEF Adds
<1>3. \A i, g : EntryOf(i, g)' = EntryOf(i, g)
  <2> TAKE i, g
  <2> QED BY DEF EntryOf
<1>4. \A i, g : AppendedBy(i, g) => g \in DOMAIN chain BY DEF AppendedBy
<1>5. \A i, g : AppendedBy(i, g)' => g \in DOMAIN chain' BY DEF AppendedBy
<1>6. \A e : e \in Events' <=> e \in Events
  BY <1>2, <1>3, <1>4, <1>5, EventsOf, EventsNext
<1> QED BY <1>6

\* An append adds one event to them.
LEMMA EventsGrow ==
  ASSUME TypeOK, ChainInv, IndexInv, NEW epoch, Publish(epoch, TRUE),
         NEW key \in Key, log' = Append(log, key)
  PROVE  Events' = Events \cup {NewEvent(key)}
<1>1. PICK n : n = Len(log) OBVIOUS
<1>2. n \in Nat /\ DOMAIN log = 1..n BY <1>1 DEF TypeOK
<1>3. DOMAIN log' = 1..(n + 1) /\ log'[n + 1] = key /\ \A i \in 1..n : log'[i] = log[i]
  BY <1>1 DEF TypeOK
<1>4. PICK m : m = Len(chain) OBVIOUS
<1>5. m \in Nat /\ DOMAIN chain = 1..m BY <1>4, ChainLinked
<1>6. \A i, g : AppendedBy(i, g)' <=> AppendedBy(i, g) \/ (g = m + 1 /\ i = n + 1)
  <2>1. \A i, g : Adds(i, g, TRUE) BY AppendedByStep
  <2> QED BY <1>1, <1>4, <2>1 DEF Adds
<1>7. \A i \in 1..n : \A g : EntryOf(i, g)' = EntryOf(i, g)
  <2> TAKE i \in 1..n
  <2> TAKE g
  <2>1. log'[i] = log[i] BY <1>3
  <2> QED BY <2>1 DEF EntryOf
<1>8. EntryOf(n + 1, m + 1)' = NewEvent(key) BY <1>1, <1>3, <1>4 DEF EntryOf, NewEvent
<1>9. \A i, g : AppendedBy(i, g) => g \in DOMAIN chain BY DEF AppendedBy
<1>10. \A i, g : AppendedBy(i, g)' => g \in DOMAIN chain' BY DEF AppendedBy
<1>11. ~ \E g : AppendedBy(n + 1, g)
  <2> SUFFICES ASSUME NEW g, AppendedBy(n + 1, g) PROVE FALSE OBVIOUS
  <2>1. g \in 1..m /\ Cardinality(Carriers(chain, g)) = n + 1
    BY <1>5, AppendedByIn DEF AppendedIn
  <2>2. Cardinality(Carriers(chain, m)) = n BY <1>1, <1>4, CarriersAll
  <2>3. Carriers(chain, g) \subseteq Carriers(chain, m) BY <1>5, <2>1 DEF Carriers
  <2>4. IsFiniteSet(Carriers(chain, m)) BY <1>5, CarriersFinite
  <2>5. Cardinality(Carriers(chain, g)) <= Cardinality(Carriers(chain, m))
    BY <2>3, <2>4, FS_Subset
  <2> QED BY <1>2, <2>1, <2>2, <2>5
<1>12. ASSUME NEW e \in Events' PROVE e \in Events \cup {NewEvent(key)}
  <2>1. PICK i \in 1..(n + 1), g \in DOMAIN chain' : AppendedBy(i, g)' /\ e = EntryOf(i, g)'
    BY <1>3, EventsNext
  <2>2. CASE i = n + 1
    <3>1. g = m + 1 BY <1>6, <1>11, <2>1, <2>2
    <3> QED BY <1>8, <2>1, <2>2, <3>1
  <2>3. CASE i # n + 1
    <3>1. i \in 1..n BY <1>2, <2>3
    <3>2. AppendedBy(i, g) /\ e = EntryOf(i, g) BY <1>6, <1>7, <2>1, <2>3, <3>1
    <3> QED BY <1>2, <1>9, <3>1, <3>2, EventsOf
  <2> QED BY <2>2, <2>3
<1>13. ASSUME NEW e \in Events PROVE e \in Events'
  <2>1. PICK i \in 1..n, g \in DOMAIN chain : AppendedBy(i, g) /\ e = EntryOf(i, g)
    BY <1>2, EventsOf
  <2>2. AppendedBy(i, g)' /\ e = EntryOf(i, g)' /\ i \in DOMAIN log'
    BY <1>2, <1>3, <1>6, <1>7, <2>1
  <2> QED BY <1>10, <2>2, EventsNext
<1>14. NewEvent(key) \in Events'
  <2>1. AppendedBy(n + 1, m + 1)' BY <1>6
  <2>2. n + 1 \in DOMAIN log' BY <1>2, <1>3
  <2> QED BY <1>8, <1>10, <2>1, <2>2, EventsNext
<1> QED BY <1>12, <1>13, <1>14

LEMMA ChunksOf ==
  ASSUME NEW seq
  PROVE  /\ RefAt(seq).first = seq /\ RefAt(seq).count = 1
         /\ RefAt(seq).chunk = <<[seq |-> seq, payload |-> log[seq]]>>
         /\ seq \in Nat => RefAt(seq).last = seq
BY DEF RefAt, ChunkRef

LEMMA ChunkUnits ==
  ASSUME TypeOK
  PROVE  Units(Chunks)
<1>1. DOMAIN log = 1..Len(log) /\ Len(log) \in Nat BY DEF TypeOK
<1>2. \A seq \in 1..Len(log) : seq \in Nat \ {0} OBVIOUS
<1>3. ASSUME NEW r \in Chunks PROVE r.first \in Nat \ {0} /\ r.last = r.first /\ r.count = 1
  <2>1. PICK seq \in 1..Len(log) : r = RefAt(seq) BY <1>1 DEF Chunks
  <2>2. seq \in Nat \ {0} BY <1>2
  <2> QED BY <2>1, <2>2, ChunksOf
<1> QED BY <1>3 DEF Units

\* An append adds one chunk.
LEMMA ChunksGrow ==
  ASSUME TypeOK, NEW key \in Key, log' = Append(log, key)
  PROVE  Chunks' = Chunks \cup {NewChunk(key)}
<1>1. PICK n : n = Len(log) OBVIOUS
<1>2. n \in Nat /\ DOMAIN log = 1..n BY <1>1 DEF TypeOK
<1>3. DOMAIN log' = 1..(n + 1) /\ log'[n + 1] = key /\ \A i \in 1..n : log'[i] = log[i]
  BY <1>1 DEF TypeOK
<1>4. \A i \in 1..n : RefAt(i)' = RefAt(i)
  <2> TAKE i \in 1..n
  <2>1. log'[i] = log[i] BY <1>3
  <2> QED BY <2>1 DEF RefAt
<1>5. RefAt(n + 1)' = NewChunk(key) BY <1>1, <1>3 DEF RefAt, NewChunk
<1>6. Chunks' = {RefAt(seq)' : seq \in 1..(n + 1)}
  <2>1. Chunks' = {RefAt(seq)' : seq \in DOMAIN log'} BY DEF Chunks
  <2> QED BY <1>3, <2>1
<1>7. Chunks = {RefAt(seq) : seq \in 1..n} BY <1>2 DEF Chunks
<1>8. 1..(n + 1) = 1..n \cup {n + 1} BY <1>2
<1>9. PICK new : new = NewChunk(key) OBVIOUS
<1>10. ASSUME NEW r \in Chunks' PROVE r \in Chunks \cup {new}
  <2>1. PICK seq \in 1..(n + 1) : r = RefAt(seq)' BY <1>6
  <2> QED BY <1>4, <1>5, <1>7, <1>8, <1>9, <2>1
<1>11. ASSUME NEW r \in Chunks PROVE r \in Chunks'
  <2>1. PICK seq \in 1..n : r = RefAt(seq) BY <1>7
  <2>2. r = RefAt(seq)' BY <1>4, <2>1
  <2> QED BY <1>6, <1>8, <2>1, <2>2
<1>12. new \in Chunks' BY <1>5, <1>6, <1>8, <1>9
<1> QED BY <1>9, <1>10, <1>11, <1>12

(***************************************************************************)
(* What an append makes of the manifest.                                   *)
(***************************************************************************)
LEMMA NewChunkIs ==
  ASSUME TypeOK, NEW key
  PROVE  /\ NewChunk(key).first = Len(log) + 1 /\ NewChunk(key).last = Len(log) + 1
         /\ NewChunk(key).count = 1 /\ Len(log) + 1 \in Nat \ {0}
<1>1. Len(log) \in Nat BY DEF TypeOK
<1> QED BY <1>1 DEF NewChunk, ChunkRef

\* The first reference makes a tree.
LEMMA FirstTree ==
  ASSUME NEW Q, Units(Q), NEW more \in Q, more.first = 1
  PROVE  /\ CatalogAppend({}, more) = {RootOf(Leaf(<<more>>))}
         /\ Leaf(<<more>>) \in Trees(Q)[0]
         /\ RootOf(Leaf(<<more>>)).first = 1 /\ RootOf(Leaf(<<more>>)).last = more.last
<1>1. CatalogAppend({}, more) = {RootOf(Leaf(<<more>>))} BY DEF CatalogAppend
<1>2. PICK s : s = <<more>> OBVIOUS
<1>3. s \in Seq(Q) /\ Len(s) = 1 /\ s[1] = more /\ DOMAIN s = 1..1 BY <1>2
<1>4. more.last = 1 BY DEF Units
<1>5. Items \in Nat /\ 1 <= Items BY WidthAssumption
<1>6. Contiguous(s)
  <2>1. \A i \in DOMAIN s : s[i] = more BY <1>3
  <2>2. 1 <= Len(s) /\ Len(s) <= Items BY <1>3, <1>5
  <2>3. ~ \E i \in 2..Len(s) : TRUE BY <1>3
  <2>4. \A i \in DOMAIN s : 1 <= s[i].first /\ s[i].first <= s[i].last BY <1>4, <2>1
  <2> QED BY <2>2, <2>3, <2>4 DEF Contiguous
<1>7. s \in Runs(Q) BY <1>3, <1>6, RunsOf
<1>8. Leaf(s) \in Trees(Q)[0] BY <1>7, TreesOf
<1>9. PICK n : n = Leaf(s) OBVIOUS
<1>10. Span(n).first = 1 /\ Span(n).last = more.last
  <2>1. Span(n) = [first |-> s[1].first, last |-> s[Len(s)].last, chunks |-> Len(s)]
    BY <1>9, LeafFields
  <2> QED BY <1>3, <2>1
<1>11. RootOf(n).first = 1 /\ RootOf(n).last = more.last BY <1>10, ChildFields
<1> QED BY <1>1, <1>2, <1>8, <1>9, <1>11

\* The root of the catalog spans the log, one chunk for each event.
LEMMA RootedTree ==
  ASSUME NEW Q, Units(Q), NEW catalog, NEW last, Rooted(catalog, Q, last)
  PROVE  \E h \in 0..MaxHeight : \E node \in Trees(Q)[h] :
           /\ catalog = {RootOf(node)} /\ RootOf(node).first = 1 /\ RootOf(node).last = last
           /\ RootOf(node).chunks = last /\ last \in Nat \ {0} /\ TreeOk(node, h)
<1>1. PICK h \in 0..MaxHeight : \E node \in Trees(Q)[h] :
        catalog = {RootOf(node)} /\ RootOf(node).first = 1 /\ RootOf(node).last = last
  BY DEF Rooted
<1>2. PICK node \in Trees(Q)[h] :
        catalog = {RootOf(node)} /\ RootOf(node).first = 1 /\ RootOf(node).last = last
  BY <1>1
<1>3. TreeOk(node, h) BY TreesOk
<1>4. SpanOk(Span(node)) BY <1>3 DEF TreeOk
<1>5. RootOf(node).first = Span(node).first /\ RootOf(node).last = Span(node).last
      /\ RootOf(node).chunks = Span(node).chunks
  BY ChildFields
<1>6. Span(node).first = 1 /\ Span(node).last = last BY <1>2, <1>5
<1>7. RootOf(node).chunks = last /\ last \in Nat \ {0} BY <1>4, <1>5, <1>6 DEF SpanOk
<1> QED BY <1>2, <1>3, <1>7

\* A catalog of all references takes one more, or is full.
Takes(catalog, more, Q) ==
  \/ \E root : CatalogAppend(catalog, more) = {root} /\ Rooted({root}, Q, more.last)
  \/ CatalogAppend(catalog, more) = {} /\ Capacity[MaxHeight] < more.last

\* The catalog takes the next chunk, unless it is full.
LEMMA CatalogTakes ==
  ASSUME TypeOK, CatalogInv, NEW Q, Units(Q), NEW more \in Q, Chunks \subseteq Q,
         more.first = Len(log) + 1
  PROVE  Takes(manifest.catalog, more, Q)
<1>1. Len(log) \in Nat BY DEF TypeOK
<1>2. CASE log = <<>>
  <2>1. manifest.catalog = {} /\ Len(log) = 0 BY <1>2 DEF CatalogInv
  <2>2. more.first = 1 BY <2>1
  <2>3. PICK node : node = Leaf(<<more>>) OBVIOUS
  <2>4. PICK root : root = RootOf(node) OBVIOUS
  <2>5. CatalogAppend({}, more) = {root} /\ node \in Trees(Q)[0] /\ root.first = 1
        /\ root.last = more.last
    BY <2>2, <2>3, <2>4, FirstTree
  <2>6. 0 \in 0..MaxHeight BY WidthAssumption
  <2>7. Rooted({root}, Q, more.last) BY <2>4, <2>5, <2>6 DEF Rooted
  <2> QED BY <2>1, <2>5, <2>7 DEF Takes
<1>3. CASE log # <<>>
  <2>1. Rooted(manifest.catalog, Chunks, Len(log)) BY <1>3 DEF CatalogInv
  <2>2. PICK h \in 0..MaxHeight : \E node \in Trees(Chunks)[h] :
          /\ manifest.catalog = {RootOf(node)} /\ RootOf(node).first = 1
          /\ RootOf(node).last = Len(log)
    BY <2>1 DEF Rooted
  <2>3. PICK node \in Trees(Chunks)[h] :
          /\ manifest.catalog = {RootOf(node)} /\ RootOf(node).first = 1
          /\ RootOf(node).last = Len(log)
    BY <2>2
  <2>4. node \in Trees(Q)[h] BY TreesGrow
  <2>5. more.first = RootOf(node).last + 1 BY <2>3
  <2>6. CASE \E k \in 0..MaxHeight : \E m \in Trees(Q)[k] :
               /\ CatalogAppend({RootOf(node)}, more) = {RootOf(m)}
               /\ RootOf(m).first = RootOf(node).first /\ RootOf(m).last = more.last
    <3>1. PICK k \in 0..MaxHeight : \E m \in Trees(Q)[k] :
                 /\ CatalogAppend({RootOf(node)}, more) = {RootOf(m)}
                 /\ RootOf(m).first = RootOf(node).first /\ RootOf(m).last = more.last
      BY <2>6
    <3>2. PICK m \in Trees(Q)[k] :
                 /\ CatalogAppend({RootOf(node)}, more) = {RootOf(m)}
                 /\ RootOf(m).first = RootOf(node).first /\ RootOf(m).last = more.last
      BY <3>1
    <3>3. Rooted({RootOf(m)}, Q, more.last) BY <2>3, <3>2 DEF Rooted
    <3> QED BY <2>3, <3>2, <3>3 DEF Takes
  <2>7. CASE /\ CatalogAppend({RootOf(node)}, more) = {}
             /\ RootOf(node).first + Capacity[MaxHeight] <= more.last
    <3>1. PICK c : c = Capacity[MaxHeight] OBVIOUS
    <3>2. c \in Nat
      <4>1. MaxHeight \in 0..MaxHeight BY WidthAssumption
      <4> QED BY <3>1, <4>1, CapacityType
    <3>3. more.last = Len(log) + 1 BY DEF Units
    <3>4. 1 + c <= more.last BY <2>3, <2>7, <3>1
    <3>5. c < more.last BY <1>1, <3>2, <3>3, <3>4
    <3> QED BY <2>3, <2>7, <3>1, <3>5 DEF Takes
  <2> QED BY <2>4, <2>5, <2>6, <2>7, CatalogGrows
<1> QED BY <1>2, <1>3

\* Looking up a key.
LEMMA KeyFound ==
  ASSUME TypeOK, IndexInv, NEW key \in Key
  PROVE  /\ \A e \in Events : e.key = key => Lookup(manifest.index, key) = {e}
         /\ (\A e \in Events : e.key # key) => Lookup(manifest.index, key) = {}
<1>1. Entries(Events) BY EventEntries
<1>2. PICK root : root = manifest.index.node OBVIOUS
<1>3. PICK E : E = Events OBVIOUS
<1>4. Shaped(root, E) /\ Holds(root, E) /\ Entries(E) BY <1>1, <1>2, <1>3 DEF IndexInv
<1>5. PICK index : index = manifest.index OBVIOUS
<1>6. index.node = root BY <1>2, <1>5
<1>7. index.entries = 0 => E = {}
  <2> SUFFICES ASSUME index.entries = 0 PROVE E = {} OBVIOUS
  <2>1. Len(log) = 0 BY <1>5 DEF IndexInv
  <2>2. DOMAIN log = {} BY <2>1 DEF TypeOK
  <2> QED BY <1>3, <2>2, EventsOf
<1>8. /\ \A e \in E : e.key = key => Lookup(index, key) = {e}
      /\ (\A e \in E : e.key # key) => Lookup(index, key) = {}
  BY <1>4, <1>6, <1>7, LooksUp
<1> QED BY <1>3, <1>5, <1>8

\* The keys of the log are those of the events.
LEMMA LoggedEvent ==
  ASSUME TypeOK, IndexInv
  PROVE  /\ \A key \in Logged : \E e \in Events : e.key = key
         /\ \A e \in Events : e.key \in Logged
<1>1. ASSUME NEW key \in Logged PROVE \E e \in Events : e.key = key
  <2>1. PICK i \in DOMAIN log : key = log[i] BY DEF Logged
  <2>2. PICK g \in DOMAIN chain : AppendedBy(i, g) BY DEF IndexInv
  <2>3. EntryOf(i, g) \in Events BY <2>2, EventsOf
  <2>4. EntryOf(i, g).key = key BY <2>1 DEF EntryOf
  <2> QED BY <2>3, <2>4
<1>2. ASSUME NEW e \in Events PROVE e.key \in Logged
  <2>1. PICK i \in DOMAIN log, g \in DOMAIN chain : e = EntryOf(i, g) BY EventsOf
  <2> QED BY <2>1 DEF EntryOf, Logged
<1> QED BY <1>1, <1>2

\* An index takes a new key, unless another key has the same path.
Indexes(key) ==
  \/ \E N : /\ Extends(N, manifest.index.node, NewEvent(key), Events)
            /\ Insert(manifest.index, NewEvent(key)) =
                 {[node |-> N, entries |-> manifest.index.entries + 1]}
  \/ /\ Insert(manifest.index, NewEvent(key)) = {}
     /\ \E other \in Logged : Path[other] = Path[key]

\* The index takes the next event, unless a path is taken.
LEMMA IndexTakes ==
  ASSUME TypeOK, IndexInv, NEW key \in Key \ Logged
  PROVE  Indexes(key)
<1>1. PICK e : e = NewEvent(key) OBVIOUS
<1>2. e.key = key BY <1>1 DEF NewEvent
<1>3. PICK E : E = Events OBVIOUS
<1>4. PICK root : root = manifest.index.node OBVIOUS
<1>5. PICK index : index = manifest.index OBVIOUS
<1>6. Entries(E) /\ Shaped(root, E) BY <1>3, <1>4, EventEntries DEF IndexInv
<1>7. \A f \in E : f.key # e.key BY <1>2, <1>3, LoggedEvent
<1>8. e.key \in Key /\ index.node = root BY <1>2, <1>4, <1>5
<1>9. \/ \E N : /\ Extends(N, root, e, E)
                /\ Insert(index, e) = {[node |-> N, entries |-> index.entries + 1]}
      \/ Insert(index, e) = {} /\ \E f \in E : Path[f.key] = Path[e.key]
  BY <1>6, <1>7, <1>8, Inserts
<1>10. ASSUME NEW f \in E, Path[f.key] = Path[e.key]
       PROVE  \E other \in Logged : Path[other] = Path[key]
  <2>1. f.key \in Logged BY <1>3, LoggedEvent
  <2> QED BY <1>2, <1>10, <2>1
<1> QED BY <1>1, <1>3, <1>4, <1>5, <1>9, <1>10 DEF Indexes

\* The manifest after an append is made of the two.
LEMMA AppendedIs ==
  ASSUME TypeOK, ChainInv, CatalogInv, NEW key
  PROVE  Appended(manifest, key, ref.generation + 1) =
           {[generation |-> ref.generation + 1, head |-> Len(log) + 1,
             catalog |-> {root}, index |-> index] :
              root \in CatalogAppend(manifest.catalog, NewChunk(key)),
              index \in Insert(manifest.index, NewEvent(key))}
<1>1. manifest.head = Len(log) /\ ref.generation = Len(chain) BY DEF CatalogInv, ChainInv
<1> QED BY <1>1 DEF Appended, NewChunk, NewEvent

LEMMA NewChunks ==
  ASSUME TypeOK, NEW key
  PROVE  Units(Chunks \cup {NewChunk(key)}) /\ NewChunk(key) \in Chunks \cup {NewChunk(key)}
<1>1. PICK new : new = NewChunk(key) OBVIOUS
<1>2. new.first \in Nat \ {0} /\ new.last = new.first /\ new.count = 1 BY <1>1, NewChunkIs
<1>3. Units(Chunks) BY ChunkUnits
<1>4. Units(Chunks \cup {new}) BY <1>2, <1>3 DEF Units
<1> QED BY <1>1, <1>4

\* The log before a position does not change when it grows.
LEMMA SubSeqIs ==
  ASSUME NEW S, NEW s \in Seq(S), NEW a \in Nat \ {0}, NEW b \in Nat, b <= Len(s), a <= b + 1
  PROVE  /\ SubSeq(s, a, b) \in Seq(S) /\ Len(SubSeq(s, a, b)) = b + 1 - a
         /\ \A i \in 1..(b + 1 - a) : SubSeq(s, a, b)[i] = s[a + i - 1]
<1>1. PICK n : n = b + 1 - a OBVIOUS
<1>2. n \in Nat BY <1>1
<1>3. PICK t : t = SubSeq(s, a, b) OBVIOUS
<1>4. t = [i \in 1..n |-> s[a + i - 1]]
  <2>1. SubSeq(s, a, b) = [i \in 1..(1 + b - a) |-> s[i + a - 1]] OBVIOUS
  <2>2. 1 + b - a = n BY <1>1
  <2>3. \A i \in 1..n : i + a - 1 = a + i - 1 BY <1>2
  <2> QED BY <1>3, <2>1, <2>2, <2>3
<1>5. \A i \in 1..n : a + i - 1 \in 1..Len(s) BY <1>1, <1>2
<1>6. t \in Seq(S) /\ Len(t) = n
  <2>1. \A i \in 1..n : s[a + i - 1] \in S BY <1>5
  <2> QED BY <1>2, <1>4, <2>1
<1>7. \A i \in 1..n : t[i] = s[a + i - 1] BY <1>4
<1> QED BY <1>1, <1>3, <1>6, <1>7

LEMMA SubSeqKept ==
  ASSUME NEW S, NEW s \in Seq(S), NEW e \in S, NEW a \in Nat \ {0}, NEW b \in Nat,
         b <= Len(s), a <= b + 1
  PROVE  SubSeq(Append(s, e), a, b) = SubSeq(s, a, b)
<1>1. PICK t : t = Append(s, e) OBVIOUS
<1>2. t \in Seq(S) /\ Len(t) = Len(s) + 1 /\ \A i \in 1..Len(s) : t[i] = s[i] BY <1>1
<1>3. b <= Len(t) BY <1>2
<1>4. PICK u : u = SubSeq(s, a, b) OBVIOUS
<1>5. PICK v : v = SubSeq(t, a, b) OBVIOUS
<1>6. u \in Seq(S) /\ Len(u) = b + 1 - a /\ \A i \in 1..(b + 1 - a) : u[i] = s[a + i - 1]
  BY <1>4, SubSeqIs
<1>7. v \in Seq(S) /\ Len(v) = b + 1 - a /\ \A i \in 1..(b + 1 - a) : v[i] = t[a + i - 1]
  BY <1>2, <1>3, <1>5, SubSeqIs
<1>8. \A i \in 1..(b + 1 - a) : a + i - 1 \in 1..Len(s) OBVIOUS
<1>9. \A i \in 1..(b + 1 - a) : u[i] = v[i] BY <1>2, <1>6, <1>7, <1>8
<1> QED BY <1>1, <1>4, <1>5, <1>6, <1>7, <1>9

LEMMA SubSeqJoin ==
  ASSUME NEW S, NEW s \in Seq(S), NEW a \in Nat \ {0}, NEW b \in Nat, NEW c \in Nat,
         a <= b + 1, b <= c, c <= Len(s)
  PROVE  SubSeq(s, a, b) \o SubSeq(s, b + 1, c) = SubSeq(s, a, c)
<1>1. PICK u : u = SubSeq(s, a, b) OBVIOUS
<1>2. PICK v : v = SubSeq(s, b + 1, c) OBVIOUS
<1>3. PICK w : w = SubSeq(s, a, c) OBVIOUS
<1>4. u \in Seq(S) /\ Len(u) = b + 1 - a /\ \A i \in 1..(b + 1 - a) : u[i] = s[a + i - 1]
  BY <1>1, SubSeqIs
<1>5. v \in Seq(S) /\ Len(v) = c - b /\ \A i \in 1..(c - b) : v[i] = s[b + i]
  <2>1. PICK x : x = b + 1 OBVIOUS
  <2>2. x \in Nat \ {0} /\ x <= c + 1 /\ c + 1 - x = c - b BY <2>1
  <2>3. v \in Seq(S) /\ Len(v) = c + 1 - x /\ \A i \in 1..(c + 1 - x) : v[i] = s[x + i - 1]
    BY <1>2, <2>1, <2>2, SubSeqIs
  <2>4. \A i \in 1..(c - b) : x + i - 1 = b + i BY <2>1
  <2> QED BY <2>2, <2>3, <2>4
<1>6. w \in Seq(S) /\ Len(w) = c + 1 - a /\ \A i \in 1..(c + 1 - a) : w[i] = s[a + i - 1]
  BY <1>3, SubSeqIs
<1>7. PICK z : z = u \o v OBVIOUS
<1>8. /\ z \in Seq(S) /\ Len(z) = c + 1 - a /\ \A i \in 1..Len(u) : z[i] = u[i]
      /\ \A i \in 1..Len(v) : z[Len(u) + i] = v[i]
  <2>1. u \in Seq(S) /\ v \in Seq(S) BY <1>4, <1>5
  <2>2. z \in Seq(S) /\ Len(z) = Len(u) + Len(v) BY <1>7, <2>1
  <2>3. \A i \in 1..Len(u) : z[i] = u[i] BY <1>7, <2>1
  <2>4. \A i \in 1..Len(v) : z[Len(u) + i] = v[i] BY <1>7, <2>1
  <2>5. Len(u) + Len(v) = c + 1 - a BY <1>4, <1>5
  <2> QED BY <2>2, <2>3, <2>4, <2>5
<1>9. ASSUME NEW i \in 1..(c + 1 - a) PROVE z[i] = w[i]
  <2>1. CASE i <= b + 1 - a
    <3>1. i \in 1..(b + 1 - a) BY <2>1
    <3> QED BY <1>4, <1>6, <1>8, <3>1
  <2>2. CASE ~(i <= b + 1 - a)
    <3>1. PICK j : j = i - (b + 1 - a) OBVIOUS
    <3>2. j \in 1..(c - b) /\ i = Len(u) + j /\ b + j = a + i - 1 BY <1>4, <2>2, <3>1
    <3>3. z[i] = v[j] BY <1>5, <1>8, <3>2
    <3>4. v[j] = s[b + j] BY <1>5, <3>2
    <3>5. w[i] = s[a + i - 1] BY <1>6
    <3> QED BY <3>2, <3>3, <3>4, <3>5
  <2> QED BY <2>1, <2>2
<1>10. z = w
  <2>1. Len(z) = Len(w) /\ \A i \in 1..Len(z) : z[i] = w[i] BY <1>6, <1>8, <1>9
  <2> QED BY <1>6, <1>8, <2>1
<1> QED BY <1>1, <1>2, <1>3, <1>7, <1>10

\* What readers hold of a log they still hold of a longer one.
LEMMA ReadersKept ==
  ASSUME TypeOK, ReaderInv, reader' = reader, NEW key \in Key, log' = Append(log, key)
  PROVE  ReaderInv'
<1>1. log \in Seq(Key) /\ Len(log) \in Nat /\ Len(log') = Len(log) + 1 BY DEF TypeOK
<1>2. ASSUME NEW r \in Reader
      PROVE  /\ reader'[r].start \in 1..reader'[r].cursor
             /\ reader'[r].cursor \in 1..(Len(log') + 1)
             /\ reader'[r].got = SubSeq(log', reader'[r].start, reader'[r].cursor - 1)
  <2>1. PICK a : a = reader[r].start OBVIOUS
  <2>2. PICK c : c = reader[r].cursor OBVIOUS
  <2>3. a \in 1..c /\ c \in 1..(Len(log) + 1) /\ reader[r].got = SubSeq(log, a, c - 1)
    BY <2>1, <2>2 DEF ReaderInv
  <2>4. PICK b : b = c - 1 OBVIOUS
  <2>5. a \in Nat \ {0} /\ b \in Nat /\ b <= Len(log) /\ a <= b + 1 /\ c = b + 1
    BY <1>1, <2>3, <2>4
  <2>6. SubSeq(Append(log, key), a, b) = SubSeq(log, a, b) BY <1>1, <2>5, SubSeqKept
  <2>7. c \in 1..(Len(log') + 1) BY <1>1, <2>3
  <2> QED BY <2>1, <2>2, <2>3, <2>4, <2>6, <2>7
<1> QED BY <1>2 DEF ReaderInv

(***************************************************************************)
(* Every step keeps the invariant.                                         *)
(***************************************************************************)
LEMMA FeedInit == Init => FeedIInv
<1> SUFFICES ASSUME Init PROVE FeedIInv OBVIOUS
<1>1. chain = <<>> /\ log = <<>> /\ manifest = EmptyManifest
      /\ ref = [generation |-> 0, epoch |-> 0, target |-> NoCommit]
      /\ reader = [r \in Reader |-> StartAt(1)]
  BY DEF Init
<1>2. Len(chain) = 0 /\ Len(log) = 0 /\ DOMAIN chain = {} /\ DOMAIN log = {} BY <1>1
<1>3. TypeOK
  <2>1. chain \in Seq(Header) /\ log \in Seq(Key) BY <1>1
  <2>2. ref \in [generation : Nat, epoch : Nat, target : Nat] BY <1>1 DEF NoCommit
  <2>3. StartAt(1) \in [start : Nat, cursor : Nat, got : Seq(Key)] BY DEF StartAt
  <2>4. reader \in [Reader -> [start : Nat, cursor : Nat, got : Seq(Key)]] BY <1>1, <2>3
  <2> QED BY <2>1, <2>2, <2>4 DEF TypeOK
<1>4. ChainInv
  <2>1. MaxGeneration \in Nat BY HopsAssumption
  <2> QED BY <1>1, <1>2, <2>1 DEF ChainInv
<1>5. CatalogInv BY <1>1, <1>2 DEF CatalogInv, EmptyManifest
<1>6. IndexInv
  <2>1. manifest.index = EmptyIndex BY <1>1 DEF EmptyManifest
  <2>2. EmptyIndex.node = EmptyBranch /\ EmptyIndex.entries = 0 BY DEF EmptyIndex
  <2>3. {g \in DOMAIN chain : chain[g].carrier} = {} BY <1>2
  <2>4. Cardinality({}) = 0 BY FS_EmptySet
  <2>5. Events = {} BY <1>2, EventsOf
  <2>6. Shaped(EmptyBranch, {}) /\ Holds(EmptyBranch, {}) BY EmptyShaped
  <2> QED BY <1>2, <2>1, <2>2, <2>3, <2>4, <2>5, <2>6 DEF IndexInv
<1>7. ReaderInv
  <2>1. SubSeq(<<>>, 1, 0) = <<>>
    <3>1. SubSeq(<<>>, 1, 0) = [i \in 1..(1 + 0 - 1) |-> <<>>[i + 1 - 1]] OBVIOUS
    <3>2. 1..(1 + 0 - 1) = {} OBVIOUS
    <3>3. PICK t : t = SubSeq(<<>>, 1, 0) OBVIOUS
    <3>4. t \in Seq({}) /\ Len(t) = 0 BY <3>1, <3>2, <3>3
    <3> QED BY <3>3, <3>4
  <2>2. \A r \in Reader : reader[r].start = 1 /\ reader[r].cursor = 1 /\ reader[r].got = <<>>
    BY <1>1 DEF StartAt
  <2>3. SubSeq(log, 1, 1 - 1) = <<>> BY <1>1, <2>1
  <2>4. 1 \in 1..1 /\ 1 \in 1..(Len(log) + 1) BY <1>2
  <2> QED BY <2>2, <2>3, <2>4 DEF ReaderInv
<1> QED BY <1>3, <1>4, <1>5, <1>6, <1>7 DEF FeedIInv

LEMMA AppendKeepsIndex ==
  ASSUME TypeOK, ChainInv, IndexInv, Publish(ref.epoch, TRUE), NEW key \in Key,
         log' = Append(log, key), NEW N, Extends(N, manifest.index.node, NewEvent(key), Events),
         manifest'.index = [node |-> N, entries |-> manifest.index.entries + 1]
  PROVE  IndexInv'
<1>1. log \in Seq(Key) /\ Len(log) \in Nat /\ DOMAIN log = 1..Len(log) BY DEF TypeOK
<1>2. Len(log') = Len(log) + 1 /\ DOMAIN log' = 1..(Len(log) + 1) /\ log' # <<>>
  BY <1>1
<1>3. manifest'.index.node = N /\ manifest'.index.entries = manifest.index.entries + 1 OBVIOUS
<1>4. manifest.index.entries = Len(log) BY DEF IndexInv
<1>5. manifest'.index.entries = Len(log') BY <1>2, <1>3, <1>4
<1>6. /\ \A i, g : Adds(i, g, TRUE)
      /\ Cardinality({g \in DOMAIN chain' : chain'[g].carrier}) = Len(log) + 1
  BY AppendedByStep
<1>7. Events' = Events \cup {NewEvent(key)} BY EventsGrow
<1>8. ASSUME NEW i \in DOMAIN log' PROVE \E g \in DOMAIN chain' : AppendedBy(i, g)'
  <2>1. \A g : AppendedBy(i, g)' => g \in DOMAIN chain' BY DEF AppendedBy
  <2>2. CASE i = Len(log) + 1
    <3>1. PICK g : g = Len(chain) + 1 OBVIOUS
    <3>2. Adds(i, g, TRUE) BY <1>6
    <3>3. AppendedBy(i, g)' BY <2>2, <3>1, <3>2 DEF Adds
    <3> QED BY <2>1, <3>3
  <2>3. CASE i # Len(log) + 1
    <3>1. i \in DOMAIN log BY <1>1, <1>2, <2>3
    <3>2. PICK g : AppendedBy(i, g) BY <3>1 DEF IndexInv
    <3>3. AppendedBy(i, g)' BY <1>6, <3>2 DEF Adds
    <3> QED BY <2>1, <3>3
  <2> QED BY <2>2, <2>3
<1>9. PICK E : E = Events OBVIOUS
<1>10. PICK e : e = NewEvent(key) OBVIOUS
<1>11. PICK root : root = manifest.index.node OBVIOUS
<1>12. Shaped(root, E) /\ Holds(root, E) /\ Entries(E) BY <1>9, <1>11, EventEntries DEF IndexInv
<1>13. e.key \in Key BY <1>10 DEF NewEvent
<1>14. Extends(N, root, e, E) BY <1>9, <1>10, <1>11
<1>15. PICK F : F = E \cup {e} OBVIOUS
<1>16. Shaped(N, F) /\ Holds(N, F) BY <1>12, <1>13, <1>14, <1>15, ExtendsShaped, ExtendsHolds
<1>17. Events' = F /\ manifest'.index.node = N BY <1>3, <1>7, <1>9, <1>10, <1>15
<1>18. Shaped(manifest'.index.node, Events') /\ Holds(manifest'.index.node, Events')
  BY <1>16, <1>17
<1> QED BY <1>2, <1>5, <1>6, <1>8, <1>18 DEF IndexInv

LEMMA AppendKeepsCatalog ==
  ASSUME TypeOK, CatalogInv, NEW key \in Key, log' = Append(log, key),
         NEW root, root \in CatalogAppend(manifest.catalog, NewChunk(key)),
         manifest'.catalog = {root}, manifest'.head = Len(log) + 1
  PROVE  CatalogInv'
<1>1. log \in Seq(Key) /\ Len(log) \in Nat /\ Len(log') = Len(log) + 1 /\ log' # <<>>
  BY DEF TypeOK
<1>2. PICK Q : Q = Chunks \cup {NewChunk(key)} OBVIOUS
<1>3. PICK more : more = NewChunk(key) OBVIOUS
<1>4. PICK catalog : catalog = manifest.catalog OBVIOUS
<1>5. Units(Q) /\ more \in Q /\ Chunks \subseteq Q /\ more.first = Len(log) + 1
      /\ more.last = Len(log) + 1
  BY <1>2, <1>3, NewChunks, NewChunkIs
<1>6. Takes(catalog, more, Q) BY <1>4, <1>5, CatalogTakes
<1>7. root \in CatalogAppend(catalog, more) BY <1>3, <1>4
<1>8. Rooted({root}, Q, more.last) BY <1>6, <1>7 DEF Takes
<1>9. Chunks' = Q BY <1>2, ChunksGrow
<1>10. Rooted(manifest'.catalog, Chunks', Len(log')) BY <1>1, <1>5, <1>8, <1>9
<1> QED BY <1>1, <1>10 DEF CatalogInv

\* An append keeps the invariant.
LEMMA AppendKeeps ==
  ASSUME FeedIInv, NEW key \in Key, AppendStable(key)
  PROVE  FeedIInv'
<1>1. TypeOK /\ ChainInv /\ CatalogInv /\ IndexInv /\ ReaderInv BY DEF FeedIInv
<1>2. /\ Lookup(manifest.index, key) = {}
      /\ manifest' \in Appended(manifest, key, ref.generation + 1)
      /\ log' = Append(log, key) /\ Publish(ref.epoch, TRUE)
  BY DEF AppendStable
<1>3. key \notin Logged
  <2> SUFFICES ASSUME key \in Logged PROVE FALSE OBVIOUS
  <2>1. PICK e \in Events : e.key = key BY <1>1, LoggedEvent
  <2>2. Lookup(manifest.index, key) = {e} BY <1>1, <2>1, KeyFound
  <2> QED BY <1>2, <2>2
<1>4. PICK root \in CatalogAppend(manifest.catalog, NewChunk(key)),
           index \in Insert(manifest.index, NewEvent(key)) :
        manifest' = [generation |-> ref.generation + 1, head |-> Len(log) + 1,
                     catalog |-> {root}, index |-> index]
  BY <1>1, <1>2, AppendedIs
<1>5. manifest'.catalog = {root} /\ manifest'.head = Len(log) + 1 /\ manifest'.index = index
  BY <1>4
<1>6. Indexes(key) BY <1>1, <1>3, IndexTakes
<1>7. PICK N : /\ Extends(N, manifest.index.node, NewEvent(key), Events)
               /\ Insert(manifest.index, NewEvent(key)) =
                    {[node |-> N, entries |-> manifest.index.entries + 1]}
  BY <1>4, <1>6 DEF Indexes
<1>8. manifest'.index = [node |-> N, entries |-> manifest.index.entries + 1] BY <1>4, <1>5, <1>7
<1>9. IndexInv' BY <1>1, <1>2, <1>7, <1>8, AppendKeepsIndex
<1>10. CatalogInv' BY <1>1, <1>2, <1>4, <1>5, AppendKeepsCatalog
<1>11. ref.epoch \in Nat /\ ref.epoch <= ref.epoch BY <1>1 DEF TypeOK
<1>12. log' \in Seq(Key) /\ log' # <<>>
  <2>1. PICK s : s = log OBVIOUS
  <2>2. s \in Seq(Key) BY <1>1, <2>1 DEF TypeOK
  <2>3. PICK t : t = Append(s, key) OBVIOUS
  <2>4. t \in Seq(Key) /\ Len(t) = Len(s) + 1 /\ Len(s) \in Nat BY <2>2, <2>3
  <2>5. t # <<>> BY <2>4
  <2> QED BY <1>2, <2>1, <2>3, <2>4, <2>5
<1>13. /\ ChainInv' /\ chain' \in Seq(Header)
       /\ ref' \in [generation : Nat, epoch : Nat, target : Nat]
  BY <1>1, <1>2, <1>11, <1>12, ChainStep
<1>14. reader' = reader BY <1>2 DEF Publish
<1>15. ReaderInv' BY <1>1, <1>2, <1>14, ReadersKept
<1>16. TypeOK' BY <1>1, <1>12, <1>13, <1>14 DEF TypeOK
<1> QED BY <1>9, <1>10, <1>13, <1>15, <1>16 DEF FeedIInv

\* A claim keeps the invariant.
LEMMA ClaimKeeps ==
  ASSUME FeedIInv, Claim
  PROVE  FeedIInv'
<1>1. TypeOK /\ ChainInv /\ CatalogInv /\ IndexInv /\ ReaderInv BY DEF FeedIInv
<1>2. Publish(ref.epoch + 1, FALSE) /\ manifest' = manifest /\ log' = log BY DEF Claim
<1>3. reader' = reader BY <1>2 DEF Publish
<1>4. ref.epoch + 1 \in Nat /\ ref.epoch <= ref.epoch + 1 BY <1>1 DEF TypeOK
<1>5. /\ ChainInv' /\ chain' \in Seq(Header)
      /\ ref' \in [generation : Nat, epoch : Nat, target : Nat]
  BY <1>1, <1>2, <1>4, ChainStep
<1>6. TypeOK' BY <1>1, <1>2, <1>3, <1>5 DEF TypeOK
<1>7. Chunks' = Chunks BY <1>2 DEF Chunks, RefAt
<1>8. CatalogInv' BY <1>1, <1>2, <1>7 DEF CatalogInv
<1>9. IndexInv'
  <2>1. /\ \A i, g : Adds(i, g, FALSE)
        /\ Cardinality({g \in DOMAIN chain' : chain'[g].carrier}) = Len(log)
    BY <1>1, <1>2, AppendedByStep
  <2>2. Events' = Events BY <1>1, <1>2, EventsStay
  <2>3. ASSUME NEW i \in DOMAIN log' PROVE \E g \in DOMAIN chain' : AppendedBy(i, g)'
    <3>1. PICK g : AppendedBy(i, g) BY <1>1, <1>2, <2>3 DEF IndexInv
    <3>2. AppendedBy(i, g)' BY <2>1, <3>1 DEF Adds
    <3>3. g \in DOMAIN chain' BY <3>2 DEF AppendedBy
    <3> QED BY <3>2, <3>3
  <2>4. Shaped(manifest'.index.node, Events') /\ Holds(manifest'.index.node, Events')
    BY <1>1, <1>2, <2>2 DEF IndexInv
  <2>5. manifest'.index.entries = Len(log') /\ (log' = <<>> => manifest'.index = EmptyIndex)
    BY <1>1, <1>2 DEF IndexInv
  <2> QED BY <1>2, <2>1, <2>3, <2>4, <2>5 DEF IndexInv
<1>10. ReaderInv' BY <1>1, <1>2, <1>3 DEF ReaderInv
<1> QED BY <1>5, <1>6, <1>8, <1>9, <1>10 DEF FeedIInv

(***************************************************************************)
(* Reading: what is found, page by page.                                   *)
(***************************************************************************)
LEMMA CatalogTree ==
  ASSUME TypeOK, CatalogInv, log # <<>>
  PROVE  \E h \in 0..MaxHeight : \E node \in Trees(Chunks)[h] :
           /\ manifest.catalog = {RootOf(node)} /\ RootOf(node).first = 1
           /\ RootOf(node).last = Len(log) /\ RootOf(node).chunks = Len(log)
           /\ Len(log) \in Nat \ {0} /\ ValidTree(node)
<1>1. Units(Chunks) BY ChunkUnits
<1>2. PICK Q : Q = Chunks OBVIOUS
<1>3. PICK catalog : catalog = manifest.catalog OBVIOUS
<1>4. PICK n : n = Len(log) OBVIOUS
<1>5. Units(Q) /\ Rooted(catalog, Q, n) BY <1>1, <1>2, <1>3, <1>4 DEF CatalogInv
<1>6. PICK h \in 0..MaxHeight : \E node \in Trees(Q)[h] :
        /\ catalog = {RootOf(node)} /\ RootOf(node).first = 1 /\ RootOf(node).last = n
        /\ RootOf(node).chunks = n /\ n \in Nat \ {0} /\ TreeOk(node, h)
  BY <1>5, RootedTree
<1>7. PICK node \in Trees(Q)[h] :
        /\ catalog = {RootOf(node)} /\ RootOf(node).first = 1 /\ RootOf(node).last = n
        /\ RootOf(node).chunks = n /\ n \in Nat \ {0} /\ TreeOk(node, h)
  BY <1>6
<1>8. ValidTree(node) BY <1>5, TreesValidate
<1> QED BY <1>2, <1>3, <1>4, <1>7, <1>8

\* The leaf that covers a position holds its chunk, and no other that covers it.
LEMMA ChunkFound ==
  ASSUME TypeOK, CatalogInv, NEW seq \in 1..Len(log)
  PROVE  \E refs : /\ SeekLeaf(manifest.catalog, seq) = {refs}
                   /\ {r \in {refs[i] : i \in DOMAIN refs} : Covers(r, seq)} = {RefAt(seq)}
<1>1. Len(log) \in Nat /\ DOMAIN log = 1..Len(log) /\ log # <<>> BY DEF TypeOK
<1>2. PICK h \in 0..MaxHeight : \E node \in Trees(Chunks)[h] :
        /\ manifest.catalog = {RootOf(node)} /\ RootOf(node).first = 1
        /\ RootOf(node).last = Len(log)
  BY <1>1, CatalogTree
<1>3. PICK node \in Trees(Chunks)[h] :
        /\ manifest.catalog = {RootOf(node)} /\ RootOf(node).first = 1
        /\ RootOf(node).last = Len(log)
  BY <1>2
<1>4. PICK Q : Q = Chunks OBVIOUS
<1>5. Units(Q) /\ node \in Trees(Q)[h] BY <1>3, <1>4, ChunkUnits
<1>6. Covers(RootOf(node), seq) /\ seq \in Nat BY <1>1, <1>3 DEF Covers
<1>7. PICK leaf \in Trees(Q)[0] : /\ Covers(LeafSpan(leaf.refs), seq)
                                  /\ SeekLeaf({RootOf(node)}, seq) = {leaf.refs}
  <2>1. PICK top : top = node OBVIOUS
  <2>2. PICK n : n = seq OBVIOUS
  <2>3. top \in Trees(Q)[h] /\ n \in Nat /\ Covers(RootOf(top), n) BY <1>5, <1>6, <2>1, <2>2
  <2>4. Arrives(Q, top, n) BY <1>5, <2>3, SeekArrives
  <2> QED BY <2>1, <2>2, <2>4 DEF Arrives
<1>8. PICK refs : refs = leaf.refs OBVIOUS
<1>9. refs \in Seq(Q) /\ Contiguous(refs) /\ Spans(refs) BY <1>5, <1>7, <1>8, LeafParts
<1>10. 1 <= Len(refs) /\ Len(refs) \in Nat /\ DOMAIN refs = 1..Len(refs)
  BY <1>9 DEF Contiguous
<1>11. LeafSpan(refs).first = refs[1].first /\ LeafSpan(refs).last = refs[Len(refs)].last
  BY <1>9, <1>10 DEF LeafSpan, Last
<1>12. refs[1].first <= seq /\ seq <= refs[Len(refs)].last BY <1>7, <1>8, <1>11 DEF Covers
<1>13. PICK i \in 1..Len(refs) : Covers(refs[i], seq) BY <1>6, <1>9, <1>12, RunFinds
<1>14. \A j \in 1..Len(refs) : \E k \in 1..Len(log) : refs[j] = RefAt(k)
  <2>1. \A j \in 1..Len(refs) : refs[j] \in Chunks BY <1>4, <1>9, <1>10
  <2> QED BY <1>1, <2>1 DEF Chunks
<1>15. \A k \in 1..Len(log) : Covers(RefAt(k), seq) <=> k = seq
  <2> TAKE k \in 1..Len(log)
  <2>1. k \in Nat BY <1>1
  <2>2. RefAt(k).first = k /\ RefAt(k).last = k BY <2>1, ChunksOf
  <2> QED BY <1>6, <2>1, <2>2 DEF Covers
<1>16. refs[i] = RefAt(seq) BY <1>13, <1>14, <1>15
<1>17. ASSUME NEW r \in {refs[j] : j \in DOMAIN refs}, Covers(r, seq) PROVE r = RefAt(seq)
  <2>1. PICK j \in 1..Len(refs) : r = refs[j] BY <1>10, <1>17
  <2>2. PICK k \in 1..Len(log) : r = RefAt(k) BY <1>14, <2>1
  <2> QED BY <1>15, <1>17, <2>2
<1>18. RefAt(seq) \in {refs[j] : j \in DOMAIN refs} BY <1>10, <1>16
<1>19. Covers(RefAt(seq), seq) BY <1>15
<1>20. {r \in {refs[j] : j \in DOMAIN refs} : Covers(r, seq)} = {RefAt(seq)}
  BY <1>17, <1>18, <1>19
<1>21. SeekLeaf(manifest.catalog, seq) = {refs} BY <1>3, <1>7, <1>8
<1> QED BY <1>20, <1>21

\* The frame at each position is the event at that position of the log.
LEMMA FrameIs ==
  ASSUME TypeOK, CatalogInv, NEW seq \in 1..Len(log)
  PROVE  FrameAt(manifest, seq) = {[seq |-> seq, payload |-> log[seq]]}
<1>1. PICK refs : /\ SeekLeaf(manifest.catalog, seq) = {refs}
                  /\ {r \in {refs[i] : i \in DOMAIN refs} : Covers(r, seq)} = {RefAt(seq)}
  BY ChunkFound
<1>2. PICK f : f = [seq |-> seq, payload |-> log[seq]] OBVIOUS
<1>3. PICK one : one = RefAt(seq) OBVIOUS
<1>4. one.first = seq /\ one.count = 1 /\ one.last = seq /\ one.chunk = <<f>>
  BY <1>2, <1>3, ChunksOf
<1>5. manifest.head = Len(log) /\ seq \in Nat /\ seq <= Len(log)
  BY DEF CatalogInv, TypeOK
<1>6. Len(one.chunk) = 1 /\ DOMAIN one.chunk = {1} /\ one.chunk[1] = f /\ f.seq = seq
  <2>1. PICK t : t = <<f>> OBVIOUS
  <2>2. Len(t) = 1 /\ DOMAIN t = {1} /\ t[1] = f BY <2>1
  <2> QED BY <1>2, <1>4, <2>1, <2>2
<1>7. ChunkOk(one, manifest.head) BY <1>4, <1>5, <1>6 DEF ChunkOk
<1>8. UNION {{s[i] : i \in DOMAIN s} : s \in SeekLeaf(manifest.catalog, seq)} =
        {refs[i] : i \in DOMAIN refs}
  BY <1>1
<1>9. PICK all : all = {refs[i] : i \in DOMAIN refs} OBVIOUS
<1>10. {r \in all : Covers(r, seq) /\ ChunkOk(r, manifest.head)} = {one}
  BY <1>1, <1>3, <1>7, <1>9
<1>11. {frame \in {one.chunk[i] : i \in DOMAIN one.chunk} : frame.seq = seq} = {f}
  BY <1>6
<1>12. FrameAt(manifest, seq) =
         UNION {{frame \in {r.chunk[i] : i \in DOMAIN r.chunk} : frame.seq = seq} :
                  r \in {r \in all : Covers(r, seq) /\ ChunkOk(r, manifest.head)}}
  BY <1>8, <1>9 DEF FrameAt
<1>13. FrameAt(manifest, seq) =
         UNION {{frame \in {r.chunk[i] : i \in DOMAIN r.chunk} : frame.seq = seq} : r \in {one}}
  BY <1>10, <1>12
<1>14. FrameAt(manifest, seq) = {f} BY <1>11, <1>13
<1> QED BY <1>2, <1>14

\* The published state passes every check.
LEMMA UsableStore ==
  ASSUME TypeOK, ChainInv, CatalogInv, IndexInv
  PROVE  Usable
<1>1. ref.generation # 0 => BoundTo(ref)
  <2> SUFFICES ASSUME ref.generation # 0 PROVE BoundTo(ref) OBVIOUS
  <2>1. ref.generation \in Nat /\ DOMAIN chain = 1..ref.generation BY DEF TypeOK, ChainInv
  <2>2. ref.generation \in DOMAIN chain BY <2>1
  <2>3. chain[ref.generation].generation = ref.generation
        /\ chain[ref.generation].epoch <= ref.epoch
        /\ CommitView(chain, ref.generation).target = ref.target
    BY <2>2 DEF ChainInv
  <2>4. CommitView(chain, ref.generation).generation = chain[ref.generation].generation
        /\ CommitView(chain, ref.generation).epoch = chain[ref.generation].epoch
    BY DEF CommitView
  <2> QED BY <2>3, <2>4 DEF BoundTo
<1>2. Published => LoadManifest # {}
  <2> SUFFICES ASSUME Published PROVE ValidManifest(manifest) BY DEF LoadManifest
  <2>1. log # <<>> BY DEF Published, ChainInv
  <2>2. PICK h \in 0..MaxHeight : \E node \in Trees(Chunks)[h] :
           /\ manifest.catalog = {RootOf(node)} /\ RootOf(node).first = 1
           /\ RootOf(node).last = Len(log) /\ RootOf(node).chunks = Len(log)
           /\ Len(log) \in Nat \ {0} /\ ValidTree(node)
    BY <2>1, CatalogTree
  <2>3. PICK root : /\ manifest.catalog = {root} /\ root.first = 1 /\ root.last = Len(log)
                    /\ root.chunks = Len(log) /\ Len(log) \in Nat \ {0}
    BY <2>2
  <2>4. manifest.head = Len(log) /\ manifest.index.entries = Len(log)
    BY DEF CatalogInv, IndexInv
  <2> QED BY <2>3, <2>4 DEF ValidManifest
<1> QED BY <1>1, <1>2 DEF Usable

\* What a page holds, and where it ends.
GoodPage(page, cursor) ==
  /\ page.outcome \in {"ok", "too large"}
  /\ page.next \in cursor..(Len(log) + 1)
  /\ page.got = SubSeq(log, cursor, page.next - 1)

LEMMA NoneYet ==
  ASSUME TypeOK, NEW cursor \in 1..(Len(log) + 1)
  PROVE  SubSeq(log, cursor, cursor - 1) = <<>>
<1>1. PICK b : b = cursor - 1 OBVIOUS
<1>2. b \in Nat /\ b <= Len(log) /\ cursor <= b + 1 /\ cursor \in Nat \ {0} /\ b + 1 - cursor = 0
  BY <1>1 DEF TypeOK
<1>3. log \in Seq(Key) BY DEF TypeOK
<1>4. PICK t : t = SubSeq(log, cursor, b) OBVIOUS
<1>5. t \in Seq(Key) /\ Len(t) = b + 1 - cursor BY <1>2, <1>3, <1>4, SubSeqIs
<1>6. t = <<>> BY <1>2, <1>5
<1> QED BY <1>1, <1>4, <1>6

\* The events of a page and one more.
LEMMA OneMore ==
  ASSUME TypeOK, NEW cursor \in 1..(Len(log) + 1), NEW next \in cursor..Len(log)
  PROVE  SubSeq(log, cursor, next) = Append(SubSeq(log, cursor, next - 1), log[next])
<1>1. PICK b : b = next - 1 OBVIOUS
<1>2. /\ b \in Nat /\ b <= Len(log) /\ cursor <= b + 1 /\ cursor \in Nat \ {0} /\ next = b + 1
      /\ next \in Nat /\ next <= Len(log) /\ cursor <= next + 1
  BY <1>1 DEF TypeOK
<1>3. log \in Seq(Key) BY DEF TypeOK
<1>4. PICK s : s = SubSeq(log, cursor, b) OBVIOUS
<1>5. PICK t : t = SubSeq(log, cursor, next) OBVIOUS
<1>6. /\ s \in Seq(Key) /\ Len(s) = b + 1 - cursor
      /\ \A i \in 1..(b + 1 - cursor) : s[i] = log[cursor + i - 1]
  BY <1>2, <1>3, <1>4, SubSeqIs
<1>7. /\ t \in Seq(Key) /\ Len(t) = next + 1 - cursor
      /\ \A i \in 1..(next + 1 - cursor) : t[i] = log[cursor + i - 1]
  BY <1>2, <1>3, <1>5, SubSeqIs
<1>8. log[next] \in Key BY <1>2, <1>3
<1>9. PICK a : a = Append(s, log[next]) OBVIOUS
<1>10. /\ a \in Seq(Key) /\ Len(a) = Len(s) + 1 /\ a[Len(s) + 1] = log[next]
       /\ \A i \in 1..Len(s) : a[i] = s[i]
  BY <1>6, <1>8, <1>9
<1>11. Len(a) = Len(t) BY <1>2, <1>6, <1>7, <1>10
<1>12. ASSUME NEW i \in 1..Len(a) PROVE a[i] = t[i]
  <2>1. CASE i <= Len(s)
    <3>1. i \in 1..Len(s) /\ i \in 1..(next + 1 - cursor) BY <1>6, <1>7, <1>11, <2>1
    <3> QED BY <1>6, <1>7, <1>10, <3>1
  <2>2. CASE ~(i <= Len(s))
    <3>1. i = Len(s) + 1 /\ cursor + i - 1 = next /\ i \in 1..(next + 1 - cursor)
      BY <1>2, <1>6, <1>10, <2>2
    <3>2. t[i] = log[cursor + i - 1] BY <1>7, <3>1
    <3> QED BY <1>10, <3>1, <3>2
  <2> QED BY <2>1, <2>2
<1>13. a = t BY <1>7, <1>10, <1>11, <1>12
<1> QED BY <1>1, <1>4, <1>5, <1>9, <1>13

\* A round of the loop: the page is as it was, or has the next event.
RoundOk(s, cursor, n) ==
  /\ GoodPage(s.page, cursor) /\ s.done \in BOOLEAN
  /\ ~s.done => cursor + n <= s.page.next

OneRound(v, cursor, n) == \E s : v = {s} /\ RoundOk(s, cursor, n)

\* A round of the loop finds its frame, and ends or makes progress.
LEMMA RoundReads ==
  ASSUME TypeOK, CatalogInv, NEW cursor \in 1..(Len(log) + 1), NEW limit, NEW p, NEW raw,
         GoodPage(p, cursor), NEW n \in Nat, cursor + n <= p.next
  PROVE  OneRound(Round(manifest, limit, p, raw), cursor, n + 1)
<1>1. manifest.head = Len(log) /\ Len(log) \in Nat BY DEF CatalogInv, TypeOK
<1>2. p.next \in cursor..(Len(log) + 1) /\ p.got = SubSeq(log, cursor, p.next - 1)
  BY DEF GoodPage
<1>3. RoundOk(Done(p, raw), cursor, n + 1) BY DEF RoundOk, Done
<1>4. CASE p.next > manifest.head \/ Len(p.got) >= limit.events
  <2>1. Round(manifest, limit, p, raw) = {Done(p, raw)} BY <1>4 DEF Round
  <2> QED BY <1>3, <2>1 DEF OneRound
<1>5. CASE ~(p.next > manifest.head \/ Len(p.got) >= limit.events)
  <2>1. PICK next : next = p.next OBVIOUS
  <2>2. next \in 1..Len(log) /\ next \in cursor..Len(log) /\ (next + 1) - 1 = next
        /\ next + 1 \in cursor..(Len(log) + 1)
    <3>1. ~(next > Len(log)) BY <1>1, <1>5, <2>1
    <3>2. next \in cursor..(Len(log) + 1) BY <1>2, <2>1
    <3> QED BY <1>1, <3>1, <3>2
  <2>3. PICK f : f = [seq |-> next, payload |-> log[next]] OBVIOUS
  <2>4. FrameAt(manifest, next) = {f} /\ f.payload = log[next] BY <2>2, <2>3, FrameIs
  <2> DEFINE s == LET size == raw + Size[f.payload] IN
                  IF size <= limit.bytes
                  THEN Reading(PageOf("ok", Append(p.got, f.payload), p.next + 1), size)
                  ELSE IF p.got = <<>> THEN Done(PageOf("too large", <<>>, p.next), raw)
                  ELSE Done(p, raw)
  <2>5. Round(manifest, limit, p, raw) = {s} BY <1>5, <2>1, <2>4 DEF Round
  <2>6. PICK more : more = PageOf("ok", Append(p.got, f.payload), p.next + 1) OBVIOUS
  <2>7. GoodPage(more, cursor) /\ cursor + (n + 1) <= more.next
    <3>1. more.outcome = "ok" /\ more.got = Append(p.got, log[next]) /\ more.next = next + 1
      BY <2>1, <2>4, <2>6 DEF PageOf
    <3>2. more.got = SubSeq(log, cursor, next) BY <1>2, <2>1, <2>2, <3>1, OneMore
    <3>3. cursor + (n + 1) <= next + 1 BY <2>1, <2>2
    <3> QED BY <2>2, <3>1, <3>2, <3>3 DEF GoodPage
  <2>8. PICK none : none = PageOf("too large", <<>>, p.next) OBVIOUS
  <2>9. ASSUME p.got = <<>> PROVE GoodPage(none, cursor)
    <3>1. none.outcome = "too large" /\ none.got = <<>> /\ none.next = p.next
      BY <2>8 DEF PageOf
    <3> QED BY <1>2, <2>9, <3>1 DEF GoodPage
  <2>10. RoundOk(s, cursor, n + 1)
    <3>1. PICK size : size = raw + Size[f.payload] OBVIOUS
    <3>2. CASE size <= limit.bytes
      <4>1. s = Reading(more, size) BY <2>6, <3>1, <3>2
      <4> HIDE DEF s
      <4>2. s.page = more /\ s.done = FALSE BY <4>1 DEF Reading, Done
      <4> QED BY <2>7, <4>2 DEF RoundOk
    <3>3. CASE ~(size <= limit.bytes) /\ p.got = <<>>
      <4>1. s = Done(none, raw) BY <2>8, <3>1, <3>3
      <4> HIDE DEF s
      <4>2. s.page = none /\ s.done = TRUE BY <4>1 DEF Reading, Done
      <4> QED BY <2>9, <3>3, <4>2 DEF RoundOk
    <3>4. CASE ~(size <= limit.bytes) /\ p.got # <<>>
      <4>1. s = Done(p, raw) BY <3>1, <3>4
      <4> HIDE DEF s
      <4> QED BY <1>3, <4>1
    <3> QED BY <3>2, <3>3, <3>4
  <2> HIDE DEF s
  <2> QED BY <2>5, <2>10 DEF OneRound
<1> QED BY <1>4, <1>5

CollectBase(p)       == {Reading(PageOf("ok", <<>>, p[2]), 0)}
CollectStep(p, n, v) == UNION {IF s.done THEN {s} ELSE Round(p[1], p[3], s.page, s.raw) : s \in v}
Collecting == INSTANCE Steps WITH Base <- CollectBase, Step <- CollectStep

CollectBy(u, m, cursor, limit) ==
  /\ u[0] = {Reading(PageOf("ok", <<>>, cursor), 0)}
  /\ \A n \in 1..(m.head + 1) :
       u[n] = UNION {IF s.done THEN {s} ELSE Round(m, limit, s.page, s.raw) : s \in u[n - 1]}
  /\ Collect(m, cursor, limit) = {s.page : s \in {s \in u[m.head + 1] : s.done}}

LEMMA CollectOf ==
  ASSUME NEW m, m.head \in Nat, NEW cursor, NEW limit
  PROVE  \E u : CollectBy(u, m, cursor, limit)
<1> DEFINE G(f) ==
      [n \in 0..(m.head + 1) |->
         IF n = 0 THEN {Reading(PageOf("ok", <<>>, cursor), 0)}
         ELSE UNION {IF s.done THEN {s} ELSE Round(m, limit, s.page, s.raw) : s \in f[n - 1]}]
           u == CHOOSE f : f = G(f)
<1>1. \E f : f = G(f)
  <2>1. PICK p : p = <<m, cursor, limit>> OBVIOUS
  <2>2. p[1] = m /\ p[2] = cursor /\ p[3] = limit BY <2>1
  <2>3. PICK n : n = m.head + 1 OBVIOUS
  <2>4. n \in Nat BY <2>3
  <2>5. PICK f : Collecting!Solves(f, p, n) BY <2>4, Collecting!Defined
  <2>6. f = G(f) BY <2>2, <2>3, <2>5 DEF Collecting!Solves, CollectBase, CollectStep
  <2> QED BY <2>6
<1>2. u = G(u) BY <1>1
<1>3. Collect(m, cursor, limit) = {s.page : s \in {s \in u[m.head + 1] : s.done}} BY DEF Collect
<1> HIDE DEF u
<1>4. u[0] = {Reading(PageOf("ok", <<>>, cursor), 0)}
  <2>1. u[0] = G(u)[0] BY <1>2
  <2>2. 0 \in 0..(m.head + 1) OBVIOUS
  <2>3. G(u)[0] = {Reading(PageOf("ok", <<>>, cursor), 0)} BY <2>2
  <2> HIDE DEF G
  <2> QED BY <2>1, <2>3
<1>5. ASSUME NEW n \in 1..(m.head + 1)
      PROVE  u[n] = UNION {IF s.done THEN {s} ELSE Round(m, limit, s.page, s.raw) : s \in u[n - 1]}
  <2>1. u[n] = G(u)[n] BY <1>2
  <2>2. n \in 0..(m.head + 1) /\ n # 0 OBVIOUS
  <2>3. G(u)[n] = UNION {IF s.done THEN {s} ELSE Round(m, limit, s.page, s.raw) : s \in u[n - 1]}
    BY <2>2
  <2> HIDE DEF G
  <2> QED BY <2>1, <2>3
<1> HIDE DEF G
<1> QED BY <1>3, <1>4, <1>5 DEF CollectBy

\* The loop ends with a page that continues the log at the cursor.
LEMMA Collects ==
  ASSUME TypeOK, CatalogInv, NEW cursor \in 1..(Len(log) + 1), NEW limit
  PROVE  \E page : Collect(manifest, cursor, limit) = {page} /\ GoodPage(page, cursor)
<1>1. manifest.head = Len(log) /\ Len(log) \in Nat BY DEF CatalogInv, TypeOK
<1>2. PICK m : m = manifest OBVIOUS
<1>3. PICK h : h = Len(log) + 1 OBVIOUS
<1>4. m.head + 1 = h /\ m.head \in Nat /\ h \in Nat BY <1>1, <1>2, <1>3
<1>5. PICK u : CollectBy(u, m, cursor, limit) BY <1>4, CollectOf
<1> DEFINE T == {n \in 0..h : \E s : u[n] = {s} /\ RoundOk(s, cursor, n)}
<1>6. 0 \in T
  <2>1. PICK page : page = PageOf("ok", <<>>, cursor) OBVIOUS
  <2>2. PICK s : s = Reading(page, 0) OBVIOUS
  <2>3. u[0] = {s} BY <1>5, <2>1, <2>2 DEF CollectBy
  <2>4. page.outcome = "ok" /\ page.got = <<>> /\ page.next = cursor /\ s.page = page
        /\ s.done = FALSE
    BY <2>1, <2>2 DEF PageOf, Reading
  <2>5. SubSeq(log, cursor, cursor - 1) = <<>> BY NoneYet
  <2>6. GoodPage(page, cursor) BY <1>1, <2>4, <2>5 DEF GoodPage
  <2>7. cursor + 0 <= cursor BY <1>1
  <2>8. RoundOk(s, cursor, 0) BY <2>4, <2>6, <2>7 DEF RoundOk
  <2> QED BY <1>4, <2>3, <2>8
<1>7. ASSUME NEW n \in 0..(h - 1), n \in T PROVE n + 1 \in T
  <2>1. PICK s : u[n] = {s} /\ RoundOk(s, cursor, n) BY <1>7
  <2>2. n + 1 \in 1..(m.head + 1) /\ (n + 1) - 1 = n /\ n + 1 \in 0..h /\ n \in Nat BY <1>4
  <2>3. u[n + 1] = UNION {IF t.done THEN {t} ELSE Round(m, limit, t.page, t.raw) : t \in u[n]}
    BY <1>5, <2>2 DEF CollectBy
  <2>4. u[n + 1] = IF s.done THEN {s} ELSE Round(m, limit, s.page, s.raw) BY <2>1, <2>3
  <2>5. CASE s.done
    <3>1. RoundOk(s, cursor, n + 1) BY <2>1, <2>5 DEF RoundOk
    <3> QED BY <2>2, <2>4, <2>5, <3>1
  <2>6. CASE ~s.done
    <3>1. PICK p : p = s.page OBVIOUS
    <3>2. PICK raw : raw = s.raw OBVIOUS
    <3>3. GoodPage(p, cursor) /\ cursor + n <= p.next BY <2>1, <2>6, <3>1 DEF RoundOk
    <3>4. OneRound(Round(manifest, limit, p, raw), cursor, n + 1) BY <2>2, <3>3, RoundReads
    <3>5. OneRound(u[n + 1], cursor, n + 1) BY <1>2, <2>4, <2>6, <3>1, <3>2, <3>4
    <3> QED BY <2>2, <3>5 DEF OneRound
  <2> QED BY <2>5, <2>6
<1> HIDE DEF T
<1>8. h \in T
  <2>1. 0..h \subseteq T BY <1>4, <1>6, <1>7, LowBits!UpTo
  <2> QED BY <1>4, <2>1
<1>9. PICK s : u[h] = {s} /\ RoundOk(s, cursor, h) BY <1>8 DEF T
<1>10. s.done
  <2> SUFFICES ASSUME ~s.done PROVE FALSE OBVIOUS
  <2>1. cursor + h <= s.page.next /\ s.page.next \in cursor..(Len(log) + 1)
    BY <1>9 DEF RoundOk, GoodPage
  <2> QED BY <1>1, <1>3, <2>1
<1>11. Collect(m, cursor, limit) = {s.page}
  <2>1. Collect(m, cursor, limit) = {t.page : t \in {t \in u[h] : t.done}}
    BY <1>4, <1>5 DEF CollectBy
  <2>2. {t \in u[h] : t.done} = {s} BY <1>9, <1>10
  <2> QED BY <2>1, <2>2
<1>12. GoodPage(s.page, cursor) BY <1>9 DEF RoundOk
<1> QED BY <1>2, <1>11, <1>12

\* Every page within the log is such a page.
LEMMA PageReads ==
  ASSUME FeedIInv, NEW cursor \in 1..(Len(log) + 1), NEW limit
  PROVE  \E page : Page(cursor, limit) = {page} /\ GoodPage(page, cursor)
<1>1. TypeOK /\ ChainInv /\ CatalogInv /\ IndexInv BY DEF FeedIInv
<1>2. Usable BY <1>1, UsableStore
<1>3. cursor \in 1..(manifest.head + 1) BY <1>1 DEF CatalogInv
<1>4. Page(cursor, limit) = Collect(manifest, cursor, limit) BY <1>2, <1>3 DEF Page
<1> QED BY <1>1, <1>4, Collects

\* Readers change nothing of the store.
LEMMA StoreKept ==
  ASSUME FeedIInv, UNCHANGED store
  PROVE  ChainInv' /\ CatalogInv' /\ IndexInv' /\ log' = log
         /\ chain' \in Seq(Header) /\ log' \in Seq(Key)
         /\ ref' \in [generation : Nat, epoch : Nat, target : Nat]
<1>1. TypeOK /\ ChainInv /\ CatalogInv /\ IndexInv BY DEF FeedIInv
<1>2. chain' = chain /\ ref' = ref /\ manifest' = manifest /\ log' = log BY DEF store
<1>3. ChainInv' BY <1>1, <1>2 DEF ChainInv
<1>4. Chunks' = Chunks BY <1>2 DEF Chunks, RefAt
<1>5. CatalogInv' BY <1>1, <1>2, <1>4 DEF CatalogInv
<1>6. \A i, g : AppendedBy(i, g)' <=> AppendedBy(i, g)
  <2> TAKE i, g
  <2> QED BY <1>2 DEF AppendedBy
<1>7. \A i, g : EntryOf(i, g)' = EntryOf(i, g)
  <2> TAKE i, g
  <2> QED BY <1>2 DEF EntryOf
<1>8. Events' = Events
  <2>1. \A e : e \in Events' <=> e \in Events BY <1>2, <1>6, <1>7, EventsOf, EventsNext
  <2> QED BY <2>1
<1>9. Shaped(manifest'.index.node, Events') /\ Holds(manifest'.index.node, Events')
  BY <1>1, <1>2, <1>8 DEF IndexInv
<1>10. ASSUME NEW i \in DOMAIN log' PROVE \E g \in DOMAIN chain' : AppendedBy(i, g)'
  <2>1. PICK g \in DOMAIN chain : AppendedBy(i, g) BY <1>1, <1>2, <1>10 DEF IndexInv
  <2> QED BY <1>2, <1>6, <2>1
<1>11. /\ manifest'.index.entries = Len(log')
       /\ Cardinality({g \in DOMAIN chain' : chain'[g].carrier}) = Len(log')
       /\ log' = <<>> => manifest'.index = EmptyIndex
  BY <1>1, <1>2 DEF IndexInv
<1>12. IndexInv' BY <1>9, <1>10, <1>11 DEF IndexInv
<1>13. chain' \in Seq(Header) /\ log' \in Seq(Key)
       /\ ref' \in [generation : Nat, epoch : Nat, target : Nat]
  BY <1>1, <1>2 DEF TypeOK
<1> QED BY <1>2, <1>3, <1>5, <1>12, <1>13

\* A reader is where a good page of the same log has brought it.
LEMMA ReceiveKeeps ==
  ASSUME FeedIInv, UNCHANGED store, NEW r \in Reader, NEW limit,
         NEW page \in Page(reader[r].cursor, limit), Receive(r, page)
  PROVE  FeedIInv'
<1>1. TypeOK /\ ReaderInv BY DEF FeedIInv
<1>2. log \in Seq(Key) /\ Len(log) \in Nat BY <1>1 DEF TypeOK
<1>3. PICK old : old = reader[r] OBVIOUS
<1>4. /\ old \in [start : Nat, cursor : Nat, got : Seq(Key)]
      /\ old.start \in 1..old.cursor /\ old.cursor \in 1..(Len(log) + 1)
      /\ old.got = SubSeq(log, old.start, old.cursor - 1)
  BY <1>1, <1>3 DEF TypeOK, ReaderInv
<1>5. PICK c : c = old.cursor OBVIOUS
<1>6. PICK a : a = old.start OBVIOUS
<1>7. c \in 1..(Len(log) + 1) /\ a \in 1..c /\ a \in Nat /\ c \in Nat BY <1>2, <1>4, <1>5, <1>6
<1>8. page \in Page(c, limit) BY <1>3, <1>5
<1>9. GoodPage(page, c) BY <1>7, <1>8, PageReads
<1>10. PICK x : x = page.next OBVIOUS
<1>11. x \in c..(Len(log) + 1) /\ page.got = SubSeq(log, c, x - 1) BY <1>9, <1>10 DEF GoodPage
<1>12. PICK got : got = old.got \o page.got OBVIOUS
<1>13. got = SubSeq(log, a, x - 1) /\ got \in Seq(Key)
  <2>1. PICK b : b = c - 1 OBVIOUS
  <2>2. PICK d : d = x - 1 OBVIOUS
  <2>3. /\ a \in Nat \ {0} /\ b \in Nat /\ d \in Nat /\ a <= b + 1 /\ b <= d /\ d <= Len(log)
        /\ b + 1 = c /\ a <= d + 1
    BY <1>2, <1>7, <1>11, <2>1, <2>2
  <2>4. SubSeq(log, a, b) \o SubSeq(log, b + 1, d) = SubSeq(log, a, d) BY <1>2, <2>3, SubSeqJoin
  <2>5. SubSeq(log, a, d) \in Seq(Key) BY <1>2, <2>3, SubSeqIs
  <2> QED BY <1>4, <1>5, <1>6, <1>11, <1>12, <2>1, <2>2, <2>3, <2>4, <2>5
<1>14. PICK new : new = [start |-> a, cursor |-> x, got |-> got] OBVIOUS
<1>15. reader' = [reader EXCEPT ![r] = new]
  <2>1. reader' = [reader EXCEPT ![r] = [start |-> reader[r].start, cursor |-> page.next,
                                         got |-> reader[r].got \o page.got]]
    BY DEF Receive
  <2> QED BY <1>3, <1>6, <1>10, <1>12, <1>14, <2>1
<1>16. new \in [start : Nat, cursor : Nat, got : Seq(Key)]
  <2>1. x \in Nat BY <1>7, <1>11
  <2> QED BY <1>7, <1>13, <1>14, <2>1
<1>17. reader \in [Reader -> [start : Nat, cursor : Nat, got : Seq(Key)]] BY <1>1 DEF TypeOK
<1>18. reader' \in [Reader -> [start : Nat, cursor : Nat, got : Seq(Key)]]
       /\ reader'[r] = new /\ \A q \in Reader : q # r => reader'[q] = reader[q]
  BY <1>15, <1>16, <1>17
<1>19. log' = log /\ TypeOK'
  BY <1>18, StoreKept DEF TypeOK
<1>20. ReaderInv'
  <2>1. ASSUME NEW q \in Reader
        PROVE  /\ reader'[q].start \in 1..reader'[q].cursor
               /\ reader'[q].cursor \in 1..(Len(log') + 1)
               /\ reader'[q].got = SubSeq(log', reader'[q].start, reader'[q].cursor - 1)
    <3>1. CASE q = r
      <4>1. new.start = a /\ new.cursor = x /\ new.got = got BY <1>14
      <4>2. a \in 1..x /\ x \in 1..(Len(log) + 1) BY <1>2, <1>7, <1>11
      <4> QED BY <1>13, <1>18, <1>19, <3>1, <4>1, <4>2
    <3>2. CASE q # r
      <4>1. reader'[q] = reader[q] BY <1>18, <3>2
      <4> QED BY <1>1, <1>19, <4>1 DEF ReaderInv
    <3> QED BY <3>1, <3>2
  <2> QED BY <2>1 DEF ReaderInv
<1> QED BY <1>19, <1>20, StoreKept DEF FeedIInv

\* Beginning again at the head keeps the invariant.
LEMMA SeekToHeadKeeps ==
  ASSUME FeedIInv, NEW r \in Reader, SeekToHead(r)
  PROVE  FeedIInv'
<1>1. TypeOK /\ ReaderInv /\ CatalogInv BY DEF FeedIInv
<1>2. UNCHANGED store BY DEF SeekToHead
<1>3. Len(log) \in Nat /\ manifest.head = Len(log) BY <1>1 DEF TypeOK, CatalogInv
<1>4. PICK x : x = Len(log) + 1 OBVIOUS
<1>5. x \in 1..(Len(log) + 1) /\ x \in Nat /\ x \in 1..x BY <1>3, <1>4
<1>6. PICK new : new = [start |-> x, cursor |-> x, got |-> <<>>] OBVIOUS
<1>7. reader' = [reader EXCEPT ![r] = new] BY <1>3, <1>4, <1>6 DEF SeekToHead, StartAt
<1>8. new \in [start : Nat, cursor : Nat, got : Seq(Key)] BY <1>5, <1>6
<1>9. reader \in [Reader -> [start : Nat, cursor : Nat, got : Seq(Key)]] BY <1>1 DEF TypeOK
<1>10. reader' \in [Reader -> [start : Nat, cursor : Nat, got : Seq(Key)]]
       /\ reader'[r] = new /\ \A q \in Reader : q # r => reader'[q] = reader[q]
  BY <1>7, <1>8, <1>9
<1>11. log' = log /\ TypeOK' BY <1>2, <1>10, StoreKept DEF TypeOK
<1>12. ReaderInv'
  <2>1. ASSUME NEW q \in Reader
        PROVE  /\ reader'[q].start \in 1..reader'[q].cursor
               /\ reader'[q].cursor \in 1..(Len(log') + 1)
               /\ reader'[q].got = SubSeq(log', reader'[q].start, reader'[q].cursor - 1)
    <3>1. CASE q = r
      <4>1. new.start = x /\ new.cursor = x /\ new.got = <<>> BY <1>6
      <4>2. SubSeq(log, x, x - 1) = <<>> BY <1>1, <1>5, NoneYet
      <4> QED BY <1>5, <1>10, <1>11, <3>1, <4>1, <4>2
    <3>2. CASE q # r
      <4>1. reader'[q] = reader[q] BY <1>10, <3>2
      <4> QED BY <1>1, <1>11, <4>1 DEF ReaderInv
    <3> QED BY <3>1, <3>2
  <2> QED BY <2>1 DEF ReaderInv
<1> QED BY <1>2, <1>11, <1>12, StoreKept DEF FeedIInv

LEMMA StutterKeeps == ASSUME FeedIInv, UNCHANGED vars PROVE FeedIInv'
<1>1. UNCHANGED store /\ reader' = reader BY DEF vars
<1>2. /\ ChainInv' /\ CatalogInv' /\ IndexInv' /\ log' = log
      /\ chain' \in Seq(Header) /\ log' \in Seq(Key)
      /\ ref' \in [generation : Nat, epoch : Nat, target : Nat]
  BY <1>1, StoreKept
<1>3. TypeOK /\ ReaderInv BY DEF FeedIInv
<1>4. TypeOK' BY <1>1, <1>2, <1>3 DEF TypeOK
<1>5. ReaderInv' BY <1>1, <1>2, <1>3 DEF ReaderInv
<1> QED BY <1>2, <1>4, <1>5 DEF FeedIInv

\* Every step keeps the invariant.
LEMMA FeedStep == FeedIInv /\ [Next]_vars => FeedIInv'
<1> SUFFICES ASSUME FeedIInv, [Next]_vars PROVE FeedIInv' OBVIOUS
<1>1. ASSUME NEW key \in Key, AppendStable(key) PROVE FeedIInv' BY <1>1, AppendKeeps
<1>2. CASE Claim BY <1>2, ClaimKeeps
<1>3. ASSUME NEW r \in Reader, NEW limit \in Limit, ReadPage(r, limit) PROVE FeedIInv'
  <2>1. UNCHANGED store BY <1>3 DEF ReadPage
  <2>2. PICK page \in Page(reader[r].cursor, limit) : Receive(r, page) BY <1>3 DEF ReadPage
  <2> QED BY <2>1, <2>2, ReceiveKeeps
<1>4. ASSUME NEW r \in Reader, FollowPage(r) PROVE FeedIInv'
  <2>1. UNCHANGED store BY <1>4 DEF FollowPage
  <2>2. PICK page \in Page(reader[r].cursor, FullPage) : Receive(r, page)
    BY <1>4 DEF FollowPage
  <2> QED BY <2>1, <2>2, ReceiveKeeps
<1>5. ASSUME NEW r \in Reader, SeekToHead(r) PROVE FeedIInv' BY <1>5, SeekToHeadKeeps
<1>6. CASE UNCHANGED vars BY <1>6, StutterKeeps
<1> QED BY <1>1, <1>2, <1>3, <1>4, <1>5, <1>6 DEF Next

\* The inductive invariant of the complete feed holds for any keys and paths,
\* any widths and heights of nodes, any limits and any number of readers.
THEOREM FeedInvariant == Spec => []FeedIInv
<1>1. Init => FeedIInv BY FeedInit
<1>2. FeedIInv /\ [Next]_vars => FeedIInv' BY FeedStep
<1> QED BY <1>1, <1>2, PTL DEF Spec

(***************************************************************************)
(* What the feed promises.                                                 *)
(***************************************************************************)
LEMMA IndexAnswers == FeedIInv => IndexAgrees
<1> SUFFICES ASSUME FeedIInv PROVE IndexAgrees OBVIOUS
<1>1. TypeOK /\ IndexInv BY DEF FeedIInv
<1>2. manifest.index.entries = Len(log) BY <1>1 DEF IndexInv
<1>3. ASSUME NEW key \in Key, key \in Logged
      PROVE  \E i \in DOMAIN log, g \in DOMAIN chain :
               /\ log[i] = key
               /\ chain[g].carrier
               /\ Cardinality({h \in 1..g : chain[h].carrier}) = i
               /\ Lookup(manifest.index, key) =
                    {[key |-> key, first |-> i, last |-> i, generation |-> g]}
  <2>1. PICK e \in Events : e.key = key BY <1>1, <1>3, LoggedEvent
  <2>2. PICK i \in DOMAIN log, g \in DOMAIN chain : AppendedBy(i, g) /\ e = EntryOf(i, g)
    BY <2>1, EventsOf
  <2>3. Lookup(manifest.index, key) = {e} BY <1>1, <2>1, KeyFound
  <2>4. log[i] = key BY <2>1, <2>2 DEF EntryOf
  <2>5. e = [key |-> key, first |-> i, last |-> i, generation |-> g]
    BY <2>2, <2>4 DEF EntryOf
  <2>6. chain[g].carrier /\ Cardinality({h \in 1..g : chain[h].carrier}) = i
    BY <2>2 DEF AppendedBy
  <2> QED BY <2>3, <2>4, <2>5, <2>6
<1>4. ASSUME NEW key \in Key, key \notin Logged PROVE Lookup(manifest.index, key) = {}
  <2>1. \A e \in Events : e.key # key BY <1>1, <1>4, LoggedEvent
  <2> QED BY <1>1, <2>1, KeyFound
<1> QED BY <1>2, <1>3, <1>4 DEF IndexAgrees

LEMMA CatalogAnswers == FeedIInv => CatalogAgrees
<1> SUFFICES ASSUME FeedIInv PROVE CatalogAgrees OBVIOUS
<1>1. TypeOK /\ CatalogInv BY DEF FeedIInv
<1>2. \A seq \in 1..Len(log) : FrameAt(manifest, seq) = {[seq |-> seq, payload |-> log[seq]]}
  BY <1>1, FrameIs
<1>3. CASE log = <<>>
  <2>1. manifest.catalog = {} BY <1>1, <1>3 DEF CatalogInv
  <2>2. SeekLeaf({}, 0) = {} /\ SeekLeaf({}, Len(log) + 1) = {} BY SeekMisses
  <2> QED BY <1>2, <2>1, <2>2 DEF CatalogAgrees
<1>4. CASE log # <<>>
  <2>1. PICK h \in 0..MaxHeight : \E node \in Trees(Chunks)[h] :
           /\ manifest.catalog = {RootOf(node)} /\ RootOf(node).first = 1
           /\ RootOf(node).last = Len(log) /\ RootOf(node).chunks = Len(log)
           /\ Len(log) \in Nat \ {0} /\ ValidTree(node)
    BY <1>1, <1>4, CatalogTree
  <2>2. PICK node :
           /\ manifest.catalog = {RootOf(node)} /\ RootOf(node).first = 1
           /\ RootOf(node).last = Len(log) /\ RootOf(node).chunks = Len(log)
           /\ Len(log) \in Nat \ {0} /\ ValidTree(node)
    BY <2>1
  <2>3. RootOf(node).node = node BY ChildFields
  <2>4. \A seq : seq \in {0, Len(log) + 1} => \A r \in manifest.catalog : ~Covers(r, seq)
    BY <2>2 DEF Covers
  <2>5. SeekLeaf(manifest.catalog, 0) = {} /\ SeekLeaf(manifest.catalog, Len(log) + 1) = {}
    BY <2>4, SeekMisses
  <2> QED BY <1>2, <2>2, <2>3, <2>5 DEF CatalogAgrees
<1> QED BY <1>3, <1>4

LEMMA StoreValidates == FeedIInv => PublishedValidates
<1> SUFFICES ASSUME FeedIInv PROVE PublishedValidates OBVIOUS
<1>1. TypeOK /\ ChainInv /\ CatalogInv /\ IndexInv BY DEF FeedIInv
<1>2. Usable BY <1>1, UsableStore
<1>3. PICK head : head = [seq |-> manifest.head, generation |-> ref.generation] OBVIOUS
<1>4. Len(log) \in Nat /\ DOMAIN log = 1..Len(log) BY <1>1 DEF TypeOK
<1>5. head.seq = Len(log) /\ head.generation = ref.generation BY <1>1, <1>3 DEF CatalogInv
<1>6. PICK root : root = manifest.index.node OBVIOUS
<1>7. PICK index : index = manifest.index OBVIOUS
<1>8. PICK E : E = Events OBVIOUS
<1>9. Shaped(root, E) /\ Holds(root, E) /\ Entries(E)
  BY <1>1, <1>6, <1>8, EventEntries DEF IndexInv
<1>10. index.node = root /\ index.entries = Len(log) BY <1>1, <1>6, <1>7 DEF IndexInv
<1>11. index.entries <= head.seq BY <1>4, <1>5, <1>10
<1>12. \A e \in E : ValidEntry(e, head)
  <2> TAKE e \in E
  <2>1. PICK i \in DOMAIN log, g \in DOMAIN chain : e = EntryOf(i, g) BY <1>8, EventsOf
  <2>2. e.first = i /\ e.last = i /\ e.generation = g BY <2>1 DEF EntryOf
  <2>3. i \in 1..Len(log) /\ g \in 1..ref.generation /\ ref.generation \in Nat
    BY <1>1, <1>4, <2>1, ChainLinked DEF TypeOK
  <2> QED BY <1>4, <1>5, <2>2, <2>3 DEF ValidEntry
<1>13. index.entries = 0 => log = <<>> BY <1>4, <1>10
<1>14. index.entries = 0 <=> E = {}
  <2>1. ASSUME index.entries = 0 PROVE E = {}
    <3>1. DOMAIN log = {} BY <1>4, <1>10, <2>1
    <3> QED BY <1>8, <3>1, EventsOf
  <2>2. ASSUME index.entries # 0 PROVE E # {}
    <3>1. 1 \in DOMAIN log BY <1>4, <1>10, <2>2
    <3>2. PICK g \in DOMAIN chain : AppendedBy(1, g) BY <1>1, <3>1 DEF IndexInv
    <3>3. EntryOf(1, g) \in E BY <1>8, <3>1, <3>2, EventsOf
    <3> QED BY <3>3
  <2> QED BY <2>1, <2>2
<1>15. index.entries = 0 => root = EmptyBranch
  <2> SUFFICES ASSUME index.entries = 0 PROVE root = EmptyBranch OBVIOUS
  <2>1. manifest.index = EmptyIndex BY <1>1, <1>13 DEF IndexInv
  <2> QED BY <1>6, <2>1 DEF EmptyIndex
<1>16. ValidIndex(index, head) BY <1>9, <1>10, <1>11, <1>12, <1>14, <1>15, IndexValid
<1> QED BY <1>2, <1>3, <1>7, <1>16 DEF PublishedValidates

LEMMA ChainAnswers == FeedIInv => ChainSeeks
<1> SUFFICES ASSUME FeedIInv PROVE ChainSeeks OBVIOUS
<1>1. TypeOK /\ ChainInv BY DEF FeedIInv
<1>2. PICK c : c = chain OBVIOUS
<1>3. PICK n : n = Len(chain) OBVIOUS
<1>4. Linked(c, n) /\ n \in Nat /\ DOMAIN c = 1..n /\ n <= MaxGeneration
  BY <1>1, <1>2, <1>3, ChainLinked
<1>5. MaxHops \in Nat /\ MaxGeneration \in Nat BY HopsAssumption
<1>6. ASSUME NEW start \in 1..n, NEW target \in 1..start
      PROVE  /\ \E found \in Seek(c, start, target) :
                  found.digest = target /\ found.hops <= HopBound(Log2[start] + 1)
             /\ History(c, start, target) = [i \in 1..target |-> start + 1 - i]
  <2>1. start \in Nat /\ start <= MaxGeneration BY <1>4, <1>5
  <2>2. HopBound(Log2[start] + 1) <= MaxHops BY <2>1, HopsEnough
  <2>3. PICK m \in 0..HopBound(Log2[start] + 1) : Seek(c, start, target) = {At(target, m)}
    BY <1>4, <1>5, <2>2, SeekFinds
  <2>4. At(target, m).digest = target /\ At(target, m).hops = m BY DEF At
  <2>5. History(c, start, target) = [i \in 1..target |-> start + 1 - i] BY <1>4, HistoryLists
  <2>6. m <= HopBound(Log2[start] + 1)
    <3>1. PICK b : b = HopBound(Log2[start] + 1) OBVIOUS
    <3>2. m \in 0..b BY <2>3, <3>1
    <3>3. m <= b BY <3>2
    <3> QED BY <3>1, <3>3
  <2> QED BY <2>3, <2>4, <2>5, <2>6
<1> QED BY <1>2, <1>4, <1>6 DEF ChainSeeks

LEMMA CausesOnly == FeedIInv => RefusedOnlyForCause
<1> SUFFICES ASSUME FeedIInv, NEW key \in Key \ Logged,
                    Appended(manifest, key, ref.generation + 1) = {}
             PROVE  \/ \E other \in Logged : Path[other] = Path[key]
                    \/ Len(log) >= Capacity[MaxHeight]
  BY DEF RefusedOnlyForCause
<1>1. TypeOK /\ ChainInv /\ CatalogInv /\ IndexInv BY DEF FeedIInv
<1>2. CatalogAppend(manifest.catalog, NewChunk(key)) = {}
      \/ Insert(manifest.index, NewEvent(key)) = {}
  <2> SUFFICES ASSUME NEW root \in CatalogAppend(manifest.catalog, NewChunk(key)),
                      NEW index \in Insert(manifest.index, NewEvent(key))
               PROVE  FALSE
    OBVIOUS
  <2>1. PICK m : m = [generation |-> ref.generation + 1, head |-> Len(log) + 1,
                      catalog |-> {root}, index |-> index]
    OBVIOUS
  <2>2. m \in Appended(manifest, key, ref.generation + 1) BY <1>1, <2>1, AppendedIs
  <2> QED BY <2>2
<1>3. CASE CatalogAppend(manifest.catalog, NewChunk(key)) = {}
  <2>1. PICK Q : Q = Chunks \cup {NewChunk(key)} OBVIOUS
  <2>2. PICK more : more = NewChunk(key) OBVIOUS
  <2>3. PICK catalog : catalog = manifest.catalog OBVIOUS
  <2>4. Units(Q) /\ more \in Q /\ Chunks \subseteq Q /\ more.first = Len(log) + 1
        /\ more.last = Len(log) + 1
    BY <1>1, <2>1, <2>2, NewChunks, NewChunkIs
  <2>5. Takes(catalog, more, Q) BY <1>1, <2>3, <2>4, CatalogTakes
  <2>6. Capacity[MaxHeight] < Len(log) + 1 BY <1>3, <2>2, <2>3, <2>4, <2>5 DEF Takes
  <2>7. Len(log) \in Nat BY <1>1 DEF TypeOK
  <2>8. Capacity[MaxHeight] \in Nat
    <3>1. MaxHeight \in 0..MaxHeight BY WidthAssumption
    <3> QED BY <3>1, CapacityType
  <2> QED BY <2>6, <2>7, <2>8
<1>4. CASE Insert(manifest.index, NewEvent(key)) = {}
  <2>1. Indexes(key) BY <1>1, IndexTakes
  <2> QED BY <1>4, <2>1 DEF Indexes
<1> QED BY <1>2, <1>3, <1>4

LEMMA PagesAnswer == FeedIInv => PagesTile
<1> SUFFICES ASSUME FeedIInv, NEW r \in Reader
             PROVE  /\ \A limit \in Limit : \E page \in Page(reader[r].cursor, limit) :
                         page.outcome \in {"ok", "too large"}
                    /\ reader[r].got = SubSeq(log, reader[r].start, reader[r].cursor - 1)
  BY DEF PagesTile
<1>1. /\ reader[r].cursor \in 1..(Len(log) + 1)
      /\ reader[r].got = SubSeq(log, reader[r].start, reader[r].cursor - 1)
  BY DEF FeedIInv, ReaderInv
<1>2. PICK cursor : cursor = reader[r].cursor OBVIOUS
<1>3. ASSUME NEW limit \in Limit
      PROVE  \E page \in Page(cursor, limit) : page.outcome \in {"ok", "too large"}
  <2>1. cursor \in 1..(Len(log) + 1) BY <1>1, <1>2
  <2>2. PICK page : Page(cursor, limit) = {page} /\ GoodPage(page, cursor) BY <2>1, PageReads
  <2> QED BY <2>2 DEF GoodPage
<1> QED BY <1>1, <1>2, <1>3

\* The index is the partial function from the keys of the log to where, and in
\* which generation, they were appended: for any paths, however deep they
\* agree.
THEOREM IndexIsPartialFunction == Spec => []IndexAgrees
BY FeedInvariant, IndexAnswers, PTL

\* The catalog is the sequence of the events, for any width and height.
THEOREM CatalogIsSequence == Spec => []CatalogAgrees
BY FeedInvariant, CatalogAnswers, PTL

\* What was published is accepted by everybody who reads it.
THEOREM PublishedIsAccepted == Spec => []PublishedValidates
BY FeedInvariant, StoreValidates, PTL

\* Every earlier commit is found, within half the square of the digits of the
\* generation.
THEOREM EveryCommitIsFound == Spec => []ChainSeeks
BY FeedInvariant, ChainAnswers, PTL

\* An append is refused only where the catalog is full or two keys have the
\* same path.
THEOREM RefusalsHaveCause == Spec => []RefusedOnlyForCause
BY FeedInvariant, CausesOnly, PTL

\* Pages tile the log for any limits.
THEOREM PagesTileTheLog == Spec => []PagesTile
BY FeedInvariant, PagesAnswer, PTL
=============================================================================
