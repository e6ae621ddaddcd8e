----------------------------- MODULE Recursion -----------------------------
(***************************************************************************)
(* Facts about what a recursion over the positions of a sequence computes, *)
(* from the least counterexample: the natural numbers are well-founded.    *)
(***************************************************************************)
EXTENDS SequencesExt, TLAPS, NaturalsInduction, WellFoundedInduction,
        SequenceTheorems

\* Induction up to a bound, over a set of numbers in the place of a predicate.
LEMMA UpTo ==
  ASSUME NEW n \in Nat, NEW T, 0 \in T, \A k \in 0..(n-1) : k \in T => k + 1 \in T
  PROVE  0..n \subseteq T
<1> DEFINE R == OpToRel(<, Nat)
           C == {k \in 0..n : k \notin T}
<1>1. SUFFICES ASSUME NEW m \in C PROVE FALSE OBVIOUS
<1>2. PICK x \in C : \A y \in C : ~(<<y, x>> \in R)
  <2>1. IsWellFoundedOn(R, Nat) BY NatLessThanWellFounded
  <2>2. m \in C /\ C \subseteq Nat OBVIOUS
  <2> HIDE DEF R, C
  <2> QED BY <2>1, <2>2, WFMin
<1>3. x \in 0..n /\ x \notin T BY <1>2
<1>4. x # 0 BY <1>3
<1>5. x - 1 \in 0..(n-1) /\ (x - 1) + 1 = x BY <1>3, <1>4
<1>6. x - 1 \notin T BY <1>3, <1>5
<1>7. x - 1 \in C BY <1>5, <1>6
<1>8. <<x - 1, x>> \in R BY <1>3, <1>5 DEF OpToRel
<1> QED BY <1>2, <1>7, <1>8

\* f[i] is what F makes of b in i steps.
Iterates(f, n, S, b, F) ==
  f \in [0..n -> S] /\ f[0] = b /\ \A i \in 1..n : f[i] = F[i][f[i-1]]

LEMMA Solution ==
  ASSUME NEW n \in Nat, NEW S, NEW b \in S, NEW F \in [1..n -> [S -> S]]
  PROVE  \E f : Iterates(f, n, S, b, F)
<1> DEFINE P(k) == \E f \in [0..k -> S] : f[0] = b /\ \A i \in 1..k : f[i] = F[i][f[i-1]]
           T == {k \in 0..n : P(k)}
<1>1. P(0)
  <2> DEFINE g == [i \in 0..0 |-> b]
  <2>1. g \in [0..0 -> S] OBVIOUS
  <2>2. g[0] = b OBVIOUS
  <2>3. \A i \in 1..0 : g[i] = F[i][g[i-1]] OBVIOUS
  <2> HIDE DEF g
  <2> QED BY <2>1, <2>2, <2>3
<1>2. ASSUME NEW k \in 0..(n-1), P(k) PROVE P(k+1)
  <2>1. PICK f \in [0..k -> S] : f[0] = b /\ \A i \in 1..k : f[i] = F[i][f[i-1]] BY <1>2
  <2> DEFINE g == [i \in 0..(k+1) |-> IF i = k+1 THEN F[k+1][f[k]] ELSE f[i]]
  <2>2. F[k+1][f[k]] \in S
    <3>1. F[k+1] \in [S -> S] OBVIOUS
    <3> QED BY <2>1, <3>1
  <2>3. g \in [0..(k+1) -> S] BY <2>1, <2>2
  <2>4. g[0] = b BY <2>1
  <2>5. ASSUME NEW i \in 1..(k+1) PROVE g[i] = F[i][g[i-1]]
    <3>1. CASE i = k + 1
      <4>1. g[i] = F[k+1][f[k]] BY <3>1
      <4>2. g[i-1] = f[k] BY <3>1
      <4> QED BY <3>1, <4>1, <4>2
    <3>2. CASE i # k + 1
      <4>1. i \in 1..k /\ i - 1 \in 0..k BY <3>2
      <4>2. g[i] = f[i] /\ g[i-1] = f[i-1] BY <4>1
      <4> QED BY <2>1, <4>1, <4>2
    <3> QED BY <3>1, <3>2
  <2> HIDE DEF g
  <2> QED BY <2>3, <2>4, <2>5
<1>3. 0 \in T BY <1>1
<1>4. \A k \in 0..(n-1) : k \in T => k + 1 \in T
  <2> SUFFICES ASSUME NEW k \in 0..(n-1), k \in T PROVE k + 1 \in T OBVIOUS
  <2> k + 1 \in 0..n OBVIOUS
  <2>1. P(k+1) BY <1>2
  <2> QED BY <2>1
<1> HIDE DEF P
<1>5. T = {k \in 0..n : P(k)} OBVIOUS
<1> HIDE DEF T
<1>6. 0..n \subseteq T BY <1>3, <1>4, UpTo
<1>7. P(n) BY <1>5, <1>6
<1> QED BY <1>7 DEF P, Iterates

\* f[i] is the first i of the sequences, one after the other.
Unfolds(f, ss, S) ==
  /\ f \in [0..Len(ss) -> Seq(S)] /\ f[0] = <<>>
  /\ \A i \in 1..Len(ss) : f[i] = f[i-1] \o ss[i]

\* What FlattenSeq computes.
LEMMA Flattened ==
  ASSUME NEW S, NEW ss \in Seq(Seq(S))
  PROVE  \E f : Unfolds(f, ss, S) /\ FlattenSeq(ss) = f[Len(ss)]
<1> DEFINE n == Len(ss)
           F == [i \in 1..n |-> [s \in Seq(S) |-> s \o ss[i]]]
<1>1. n \in Nat OBVIOUS
<1>2. F \in [1..n -> [Seq(S) -> Seq(S)]] OBVIOUS
<1>3. PICK f \in [0..n -> Seq(S)] : f[0] = <<>> /\ \A i \in 1..n : f[i] = F[i][f[i-1]]
  <2>1. <<>> \in Seq(S) OBVIOUS
  <2> HIDE DEF F, n
  <2>2. \E f : Iterates(f, n, Seq(S), <<>>, F) BY <1>1, <1>2, <2>1, Solution
  <2> QED BY <2>2 DEF Iterates
<1>4. \A i \in 1..n : f[i] = f[i-1] \o ss[i] /\ f[i-1] \in Seq(S)
  <2> SUFFICES ASSUME NEW i \in 1..n PROVE f[i] = f[i-1] \o ss[i] /\ f[i-1] \in Seq(S) OBVIOUS
  <2>1. i - 1 \in 0..n OBVIOUS
  <2>2. f[i-1] \in Seq(S) BY <1>3, <2>1
  <2>3. F[i] = [s \in Seq(S) |-> s \o ss[i]] OBVIOUS
  <2> HIDE DEF F
  <2> QED BY <1>3, <2>2, <2>3
<1>5. ASSUME n = 0 PROVE FlattenSeq(ss) = f[n]
  <2>1. FlattenSeq(ss) = <<>> BY <1>5 DEF FlattenSeq
  <2> QED BY <1>3, <1>5, <2>1
<1>6. ASSUME n # 0 PROVE FlattenSeq(ss) = f[n]
  <2> DEFINE G(g) == [i \in 1..Len(ss) |-> IF i = 1 THEN ss[i] ELSE g[i-1] \o ss[i]]
             h == CHOOSE g : g = G(g)
  <2>1. FlattenSeq(ss) = h[n] BY <1>6 DEF FlattenSeq
  <2>2. \E g : g = G(g)
    <3> DEFINE e == [i \in 1..n |-> f[i]]
    <3>1. ASSUME NEW i \in 1..n
          PROVE e[i] = IF i = 1 THEN ss[i] ELSE e[i-1] \o ss[i]
      <4>1. CASE i = 1
        <5>0. 1 \in 1..n /\ 1 - 1 = 0 BY <4>1
        <5>1. f[1] = f[0] \o ss[1] BY <1>4, <5>0
        <5>2. f[1] = ss[1] BY <1>3, <4>1, <5>1
        <5> QED BY <4>1, <5>2
      <4>2. CASE i # 1
        <5>1. i - 1 \in 1..n BY <4>2
        <5>2. e[i-1] = f[i-1] BY <5>1
        <5> QED BY <1>4, <4>2, <5>2
      <4> QED BY <4>1, <4>2
    <3>2. e = G(e)
      <4> HIDE DEF e
      <4>1. e = [i \in 1..n |-> e[i]] BY DEF e
      <4> QED BY <3>1, <4>1
    <3> HIDE DEF e, G
    <3> QED BY <3>2
  <2>3. h = G(h)
    <3> HIDE DEF G
    <3> QED BY <2>2
  <2>4. \A i \in 1..n : h[i] = IF i = 1 THEN ss[i] ELSE h[i-1] \o ss[i]
    <3> HIDE DEF h
    <3> QED BY <2>3
  <2> HIDE DEF h
  <2> DEFINE T == {k \in 0..n : k = 0 \/ h[k] = f[k]}
  <2>5. 0 \in T OBVIOUS
  <2>6. ASSUME NEW k \in 0..(n-1), k \in T PROVE k + 1 \in T
    <3>1. k + 1 \in 1..n /\ (k+1) - 1 = k OBVIOUS
    <3>2. f[k+1] = f[k] \o ss[k+1] BY <1>4, <3>1
    <3>3. h[k+1] = IF k = 0 THEN ss[k+1] ELSE h[k] \o ss[k+1] BY <2>4, <3>1
    <3>4. CASE k = 0
      <4>1. ss[k+1] \in Seq(S) BY <3>1
      <4>2. f[k] = <<>> BY <1>3, <3>4
      <4>3. f[k+1] = ss[k+1] BY <3>2, <4>1, <4>2
      <4> QED BY <3>1, <3>3, <3>4, <4>3
    <3>5. CASE k # 0
      <4>1. h[k] = f[k] BY <2>6, <3>5
      <4>2. h[k+1] = h[k] \o ss[k+1] BY <3>3, <3>5
      <4>3. h[k+1] = f[k+1] BY <3>2, <4>1, <4>2
      <4> HIDE DEF h, F, G
      <4> QED BY <3>1, <4>3
    <3> QED BY <3>4, <3>5
  <2>7. T \subseteq 0..n /\ \A k \in T : k = 0 \/ h[k] = f[k] OBVIOUS
  <2> HIDE DEF T
  <2>8. 0..n \subseteq T BY <1>1, <2>5, <2>6, UpTo
  <2>9. h[n] = f[n] BY <1>6, <2>7, <2>8
  <2> QED BY <2>1, <2>9
<1>7. FlattenSeq(ss) = f[n] BY <1>5, <1>6
<1>8. Unfolds(f, ss, S) BY <1>3, <1>4 DEF Unfolds
<1> QED BY <1>7, <1>8
\* What is unfolded agrees as long as the sequences do.
LEMMA SameUnfolding ==
  ASSUME NEW S, NEW ss \in Seq(Seq(S)), NEW tt \in Seq(Seq(S)), NEW f, NEW g,
         Unfolds(f, ss, S), Unfolds(g, tt, S),
         NEW n \in Nat, n <= Len(ss), n <= Len(tt), \A i \in 1..n : ss[i] = tt[i]
  PROVE  \A i \in 0..n : f[i] = g[i]
<1> DEFINE T == {i \in 0..n : f[i] = g[i]}
<1>1. 0 \in T BY DEF Unfolds
<1>2. \A k \in 0..(n-1) : k \in T => k + 1 \in T
  <2> SUFFICES ASSUME NEW k \in 0..(n-1), k \in T PROVE k + 1 \in T OBVIOUS
  <2>1. k + 1 \in 1..n /\ (k + 1) - 1 = k OBVIOUS
  <2>2. k + 1 \in 1..Len(ss) /\ k + 1 \in 1..Len(tt) BY <2>1
  <2>3. f[k+1] = f[k] \o ss[k+1] /\ g[k+1] = g[k] \o tt[k+1] BY <2>1, <2>2 DEF Unfolds
  <2>4. f[k] = g[k] /\ ss[k+1] = tt[k+1] /\ k + 1 \in 0..n BY <2>1
  <2>5. f[k+1] = g[k+1] BY <2>3, <2>4
  <2> QED BY <2>4, <2>5
<1> HIDE DEF T
<1>3. 0..n \subseteq T BY <1>1, <1>2, UpTo
<1> QED BY <1>3 DEF T

Firsts(ss, i) == [k \in 1..i |-> ss[k]]

\* Flattening the first i sequences, for each i.
LEMMA FirstsUnfold ==
  ASSUME NEW S, NEW ss \in Seq(Seq(S))
  PROVE  \E f : /\ Unfolds(f, ss, S) /\ FlattenSeq(ss) = f[Len(ss)]
                /\ \A i \in 0..Len(ss) : FlattenSeq(Firsts(ss, i)) = f[i]
<1>1. PICK f : Unfolds(f, ss, S) /\ FlattenSeq(ss) = f[Len(ss)] BY Flattened
<1>2. ASSUME NEW i \in 0..Len(ss) PROVE FlattenSeq(Firsts(ss, i)) = f[i]
  <2>1. PICK tt : tt = Firsts(ss, i) OBVIOUS
  <2>2. i \in Nat /\ tt \in Seq(Seq(S)) /\ Len(tt) = i /\ \A k \in 1..i : tt[k] = ss[k]
    BY <2>1 DEF Firsts
  <2>3. PICK g : Unfolds(g, tt, S) /\ FlattenSeq(tt) = g[Len(tt)] BY <2>2, Flattened
  <2>4. i <= Len(ss) /\ i <= Len(tt) /\ \A k \in 1..i : ss[k] = tt[k] BY <2>2
  <2>5. \A k \in 0..i : f[k] = g[k] BY SMTT(30), <1>1, <2>2, <2>3, <2>4, SameUnfolding
  <2> QED BY <2>1, <2>2, <2>3, <2>5
<1> QED BY <1>1, <1>2

\* Flattening one sequence more appends it.
LEMMA FlattenAppend ==
  ASSUME NEW S, NEW ss \in Seq(Seq(S)), NEW s \in Seq(S)
  PROVE  /\ FlattenSeq(ss) \in Seq(S)
         /\ FlattenSeq(Append(ss, s)) = FlattenSeq(ss) \o s
<1>1. PICK tt : tt = Append(ss, s) OBVIOUS
<1>2. PICK n : n = Len(ss) OBVIOUS
<1>3. /\ n \in Nat /\ tt \in Seq(Seq(S)) /\ Len(tt) = n + 1 /\ tt[n+1] = s
      /\ \A i \in 1..n : ss[i] = tt[i]
  BY <1>1, <1>2
<1>4. PICK f : Unfolds(f, ss, S) /\ FlattenSeq(ss) = f[Len(ss)] BY Flattened
<1>5. PICK g : Unfolds(g, tt, S) /\ FlattenSeq(tt) = g[Len(tt)] BY <1>3, Flattened
<1>6. f[n] = g[n]
  <2>1. n <= Len(ss) /\ n <= Len(tt) /\ n \in 0..n BY <1>2, <1>3
  <2>2. \A i \in 0..n : f[i] = g[i] BY <1>3, <1>4, <1>5, <2>1, SameUnfolding
  <2> QED BY <2>1, <2>2
<1>7. n + 1 \in 1..Len(tt) /\ (n + 1) - 1 = n BY <1>3
<1>8. g[n+1] = g[n] \o tt[n+1] BY <1>5, <1>7 DEF Unfolds
<1>9. f[n] \in Seq(S) BY <1>2, <1>3, <1>4 DEF Unfolds
<1> QED BY <1>1, <1>2, <1>3, <1>4, <1>5, <1>6, <1>8, <1>9

Begins(s, t, S) == \E rest \in Seq(S) : t = s \o rest

\* Any prefix of the sequences flattens to a prefix of the whole.
LEMMA FlattenPrefix ==
  ASSUME NEW S, NEW ss \in Seq(Seq(S)), NEW i \in 0..Len(ss)
  PROVE  /\ FlattenSeq(Firsts(ss, i)) \in Seq(S)
         /\ i > 0 => FlattenSeq(Firsts(ss, i)) = FlattenSeq(Firsts(ss, i - 1)) \o ss[i]
         /\ i = 0 => FlattenSeq(Firsts(ss, i)) = <<>>
         /\ Begins(FlattenSeq(Firsts(ss, i)), FlattenSeq(ss), S)
<1>1. PICK f : /\ Unfolds(f, ss, S) /\ FlattenSeq(ss) = f[Len(ss)]
               /\ \A k \in 0..Len(ss) : FlattenSeq(Firsts(ss, k)) = f[k]
  BY FirstsUnfold
<1>2. PICK n : n = Len(ss) OBVIOUS
<1>3. n \in Nat /\ f \in [0..n -> Seq(S)] /\ f[0] = <<>>
      /\ \A k \in 1..n : f[k] = f[k-1] \o ss[k]
  BY <1>1, <1>2 DEF Unfolds
<1>4. \A k \in 1..n : ss[k] \in Seq(S) BY <1>2
<1> DEFINE T == {k \in 0..n : \E rest \in Seq(S) : f[n] = f[n-k] \o rest}
<1>5. 0 \in T
  <2>1. f[n] \in Seq(S) /\ n - 0 = n /\ 0 \in 0..n BY <1>3
  <2>2. f[n] = f[n-0] \o <<>> BY <2>1, ConcatEmptySeq
  <2>3. <<>> \in Seq(S) OBVIOUS
  <2> QED BY <2>1, <2>2, <2>3
<1>6. \A k \in 0..(n-1) : k \in T => k + 1 \in T
  <2> SUFFICES ASSUME NEW k \in 0..(n-1), k \in T PROVE k + 1 \in T OBVIOUS
  <2>1. PICK rest \in Seq(S) : f[n] = f[n-k] \o rest OBVIOUS
  <2>2. n - k \in 1..n /\ (n - k) - 1 = n - (k + 1) /\ n - (k + 1) \in 0..n BY <1>3
  <2>3. f[n-k] = f[n-(k+1)] \o ss[n-k] BY <1>3, <2>2
  <2>4. f[n-(k+1)] \in Seq(S) /\ ss[n-k] \in Seq(S) BY <1>3, <1>4, <2>2
  <2> DEFINE a == f[n-(k+1)]
             b == ss[n-k]
  <2>5. (a \o b) \o rest = a \o (b \o rest)
    <3>1. a \in Seq(S) /\ b \in Seq(S) /\ rest \in Seq(S) BY <2>4
    <3> HIDE DEF a, b, T
    <3> QED BY SMTT(30), <3>1, ConcatAssociative
  <2>6. b \o rest \in Seq(S)
    <3>1. b \in Seq(S) BY <2>4
    <3> HIDE DEF a, b, T
    <3> QED BY <3>1
  <2>7. f[n] = a \o (b \o rest) BY <2>1, <2>3, <2>5
  <2>8. k + 1 \in 0..n BY <1>3
  <2> HIDE DEF b
  <2> QED BY <2>6, <2>7, <2>8
<1> HIDE DEF T
<1>7. 0..n \subseteq T BY <1>3, <1>5, <1>6, UpTo
<1>8. n - i \in 0..n /\ n - (n - i) = i BY <1>2, <1>3
<1>9. \E rest \in Seq(S) : f[n] = f[i] \o rest BY <1>7, <1>8 DEF T
<1>10. ASSUME i > 0 PROVE f[i] = f[i-1] \o ss[i] /\ i - 1 \in 0..Len(ss)
  <2>1. i \in 1..n BY <1>2, <1>3, <1>10
  <2> QED BY SMTT(30), <1>2, <1>3, <2>1
<1>11. f[i] \in Seq(S) BY <1>2, <1>3
<1>12. Begins(f[i], f[n], S) BY <1>9 DEF Begins
<1> QED BY <1>1, <1>2, <1>3, <1>10, <1>11, <1>12
=============================================================================
