------------------------------- MODULE Steps -------------------------------
(***************************************************************************)
(* A recursion that goes from i - 1 to i is well defined, whatever its     *)
(* steps are: an instance names the recursion, and p its parameters.       *)
(***************************************************************************)
EXTENDS TLAPS, Integers, NaturalsInduction, WellFoundedInduction

CONSTANTS Base(_), Step(_, _, _)

\* Induction up to a bound, over a set of numbers in the place of a predicate
\* (as in module Recursion, of which an instance of this one has no need).
LEMMA UpTo ==
  ASSUME NEW n \in Nat, NEW T, 0 \in T, \A k \in 0..(n-1) : k \in T => k + 1 \in T
  PROVE  0..n \subseteq T
<1> DEFINE R == OpToRel(<, Nat)
           C == {k \in 0..n : k \notin T}
<1>1. SUFFICES ASSUME NEW m \in C PROVE FALSE OBVIOUS
<1>2. PICK x \in C : \A y \in C : ~(<<y, x>> \in R)
  <2>1. IsWellFoundedOn(R, Nat) BY NatLessThanWellFounded
  <2>2. m \in C /\ C \subseteq Nat OBVIOUS
  <2> HIDE DEF R, C
  <2> QED BY <2>1, <2>2, WFMin
<1>3. x \in 0..n /\ x \notin T BY <1>2
<1>4. x # 0 BY <1>3
<1>5. x - 1 \in 0..(n-1) /\ (x - 1) + 1 = x BY <1>3, <1>4
<1>6. x - 1 \notin T BY <1>3, <1>5
<1>7. x - 1 \in C BY <1>5, <1>6
<1>8. <<x - 1, x>> \in R BY <1>3, <1>5 DEF OpToRel
<1> QED BY <1>2, <1>7, <1>8


Solves(f, p, n) == f = [i \in 0..n |-> IF i = 0 THEN Base(p) ELSE Step(p, i, f[i - 1])]

LEMMA Defined == \A p : \A n \in Nat : \E f : Solves(f, p, n)
<1> TAKE p
<1> TAKE n \in Nat
<1> DEFINE T == {k \in 0..n : \E f : Solves(f, p, k)}
<1>1. 0 \in T
  <2> DEFINE g == [i \in 0..0 |-> Base(p)]
  <2>1. Solves(g, p, 0) BY DEF Solves
  <2> QED BY <2>1
<1>2. ASSUME NEW k \in 0..(n - 1), k \in T PROVE k + 1 \in T
  <2>1. PICK f : Solves(f, p, k) BY <1>2
  <2> DEFINE v == Step(p, k + 1, f[k])
             g == [i \in 0..(k + 1) |-> IF i = k + 1 THEN v ELSE f[i]]
  <2>2. \A i \in 0..k : f[i] = IF i = 0 THEN Base(p) ELSE Step(p, i, f[i - 1])
    BY <2>1 DEF Solves
  <2>3. ASSUME NEW i \in 0..(k + 1)
        PROVE  g[i] = IF i = 0 THEN Base(p) ELSE Step(p, i, g[i - 1])
    <3>1. CASE i = k + 1
      <4>1. i # 0 /\ i - 1 = k /\ k \in 0..(k + 1) /\ k # k + 1 BY <3>1
      <4>2. g[i - 1] = f[k] BY <4>1
      <4>3. g[i] = v BY <3>1
      <4> HIDE DEF g
      <4> QED BY <3>1, <4>1, <4>2, <4>3
    <3>2. CASE i # k + 1
      <4>1. i \in 0..k /\ g[i] = f[i] BY <3>2
      <4>2. i # 0 => g[i - 1] = f[i - 1] BY <3>2
      <4> QED BY <2>2, <4>1, <4>2
    <3> QED BY <3>1, <3>2
  <2>4. g = [i \in 0..(k + 1) |-> g[i]] OBVIOUS
  <2> HIDE DEF g
  <2>5. Solves(g, p, k + 1) BY <2>3, <2>4 DEF Solves
  <2>6. k + 1 \in 0..n OBVIOUS
  <2> QED BY <2>5, <2>6
<1> HIDE DEF T
<1>3. 0..n \subseteq T BY <1>1, <1>2, UpTo
<1> QED BY <1>3 DEF T
(***************************************************************************)
(* The same for a recursion that goes from n to any smaller number.        *)
(***************************************************************************)
Falls(f, p, back, n) ==
  f = [i \in 0..n |-> IF i = 0 THEN Base(p) ELSE Step(p, i, f[back[i]])]

Backwards(back) == back \in [Nat -> Nat] /\ \A n \in Nat \ {0} : back[n] < n

LEMMA FallsExist ==
  ASSUME NEW p, NEW back, Backwards(back), NEW n \in Nat
  PROVE  \E f : Falls(f, p, back, n)
<1> DEFINE T == {k \in 0..n : \E f : Falls(f, p, back, k)}
<1>1. 0 \in T
  <2> DEFINE g == [i \in 0..0 |-> Base(p)]
  <2>1. Falls(g, p, back, 0) BY DEF Falls
  <2> QED BY <2>1
<1>2. ASSUME NEW k \in 0..(n - 1), k \in T PROVE k + 1 \in T
  <2>1. PICK f : Falls(f, p, back, k) BY <1>2
  <2> DEFINE v == Step(p, k + 1, f[back[k + 1]])
             g == [i \in 0..(k + 1) |-> IF i = k + 1 THEN v ELSE f[i]]
  <2>2. \A i \in 0..k : f[i] = IF i = 0 THEN Base(p) ELSE Step(p, i, f[back[i]])
    BY <2>1 DEF Falls
  <2>3. ASSUME NEW i \in 0..(k + 1)
        PROVE  g[i] = IF i = 0 THEN Base(p) ELSE Step(p, i, g[back[i]])
    <3>0. i # 0 => back[i] \in 0..(i - 1) BY DEF Backwards
    <3>1. CASE i = k + 1
      <4>1. i # 0 /\ back[i] \in 0..k BY <3>0, <3>1
      <4>2. g[back[i]] = f[back[i]] BY <4>1
      <4>3. g[i] = v BY <3>1
      <4> HIDE DEF g
      <4> QED BY <3>1, <4>1, <4>2, <4>3
    <3>2. CASE i # k + 1
      <4>1. i \in 0..k /\ g[i] = f[i] BY <3>2
      <4>2. i # 0 => g[back[i]] = f[back[i]] BY <3>0, <3>2
      <4> QED BY <2>2, <4>1, <4>2
    <3> QED BY <3>1, <3>2
  <2>4. g = [i \in 0..(k + 1) |-> g[i]] OBVIOUS
  <2> HIDE DEF g
  <2>5. Falls(g, p, back, k + 1) BY <2>3, <2>4 DEF Falls
  <2>6. k + 1 \in 0..n OBVIOUS
  <2> QED BY <2>5, <2>6
<1> HIDE DEF T
<1>3. 0..n \subseteq T BY <1>1, <1>2, UpTo
<1> QED BY <1>3 DEF T

LEMMA FallsAgree ==
  ASSUME NEW p, NEW back, Backwards(back), NEW n \in Nat, NEW m \in Nat, n <= m,
         NEW f, NEW g, Falls(f, p, back, n), Falls(g, p, back, m)
  PROVE  \A i \in 0..n : f[i] = g[i]
<1> DEFINE T == {k \in 0..n : \A i \in 0..k : f[i] = g[i]}
<1>1. 0 \in T BY DEF Falls
<1>2. ASSUME NEW k \in 0..(n - 1), k \in T PROVE k + 1 \in T
  <2>1. back[k + 1] \in 0..k BY DEF Backwards
  <2>2. f[back[k + 1]] = g[back[k + 1]] BY <1>2, <2>1
  <2>3. k + 1 \in 0..n /\ k + 1 \in 0..m /\ k + 1 # 0 OBVIOUS
  <2>4. f[k + 1] = Step(p, k + 1, f[back[k + 1]]) BY <2>3 DEF Falls
  <2>5. g[k + 1] = Step(p, k + 1, g[back[k + 1]]) BY <2>3 DEF Falls
  <2>6. f[k + 1] = g[k + 1] BY <2>2, <2>4, <2>5
  <2>7. \A i \in 0..(k + 1) : i \in 0..k \/ i = k + 1 OBVIOUS
  <2>8. \A i \in 0..k : f[i] = g[i] BY <1>2
  <2>9. \A i \in 0..(k + 1) : f[i] = g[i] BY <2>6, <2>7, <2>8
  <2> QED BY <2>3, <2>9
<1> HIDE DEF T
<1>3. 0..n \subseteq T BY <1>1, <1>2, UpTo
<1>4. n \in T BY <1>3
<1> QED BY <1>4 DEF T

Unending(f, p, back) ==
  f = [n \in Nat |-> IF n = 0 THEN Base(p) ELSE Step(p, n, f[back[n]])]

LEMMA Endless == \A p, back : Backwards(back) => \E f : Unending(f, p, back)
<1> TAKE p, back
<1> HAVE Backwards(back)
<1> DEFINE F(n) == CHOOSE f : Falls(f, p, back, n)
           h == [n \in Nat |-> F(n)[n]]
<1>1. \A n \in Nat : Falls(F(n), p, back, n) BY FallsExist
<1>2. ASSUME NEW n \in Nat
      PROVE  h[n] = IF n = 0 THEN Base(p) ELSE Step(p, n, h[back[n]])
  <2>1. h[n] = F(n)[n] OBVIOUS
  <2>2. F(n)[n] = IF n = 0 THEN Base(p) ELSE Step(p, n, F(n)[back[n]])
    <3> HIDE DEF F
    <3> QED BY <1>1 DEF Falls
  <2>3. ASSUME n # 0 PROVE h[back[n]] = F(n)[back[n]]
    <3>1. PICK b : b = back[n] OBVIOUS
    <3>2. b \in Nat /\ b <= n /\ b \in 0..b BY <2>3, <3>1 DEF Backwards
    <3>3. h[b] = F(b)[b] BY <3>2
    <3> HIDE DEF F, h
    <3>4. F(b)[b] = F(n)[b] BY <1>1, <3>2, FallsAgree
    <3> QED BY <3>1, <3>3, <3>4
  <2> HIDE DEF F, h
  <2> QED BY <2>1, <2>2, <2>3
<1>3. h = [n \in Nat |-> h[n]] OBVIOUS
<1> HIDE DEF h
<1>4. h = [n \in Nat |-> IF n = 0 THEN Base(p) ELSE Step(p, n, h[back[n]])] BY <1>2, <1>3
<1> QED BY <1>4 DEF Unending
=============================================================================
