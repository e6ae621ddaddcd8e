---------------------------- MODULE GroupProofs ----------------------------
(***************************************************************************)
(* Group commit is right for any number of group writers and appenders,    *)
(* any batches, any operation ids and payloads, any number of rounds,      *)
(* faults and deleted rows.                                                *)
(***************************************************************************)
EXTENDS GroupInv, Recursion

-----------------------------------------------------------------------------
(* What the operators on batches and commits compute.                      *)

\* s holds the first of the first k submissions of b, for each id they name.
FirstsOf(s, b, k) ==
  /\ Distinct(s)
  /\ \A m \in 1..Len(s) : \E i \in 1..k : s[m] = b[i]
  /\ \A i \in 1..k : \E m \in 1..Len(s) : s[m].op = b[i].op

\* The items of a batch are its submissions, one of each id.
LEMMA UniqueItems ==
  ASSUME NEW batch \in Batch
  PROVE  /\ Unique(batch) \in Seq(Submission) /\ Unique(batch) # <<>>
         /\ Distinct(Unique(batch))
         /\ Range(Unique(batch)) \subseteq Range(batch)
<1> DEFINE P == [i \in DOMAIN batch |->
                   IF \E k \in 1..(i-1) : batch[k].op = batch[i].op THEN <<>> ELSE <<batch[i]>>]
<1>1. PICK b : b = batch OBVIOUS
<1>2. b \in Seq(Submission) /\ b # <<>> BY <1>1, BatchAssumption
<1>3. PICK n : n = Len(b) OBVIOUS
<1>4. n \in Nat \ {0} /\ DOMAIN b = 1..n /\ \A i \in 1..n : b[i] \in Submission BY <1>2, <1>3
<1>5. PICK ss : ss = P OBVIOUS
<1>6. /\ ss \in Seq(Seq(Submission)) /\ Len(ss) = n
      /\ \A i \in 1..n : IF \E k \in 1..(i-1) : b[k].op = b[i].op THEN ss[i] = <<>>
                                                                  ELSE ss[i] = <<b[i]>>
  <2>1. ss = [i \in 1..n |-> ss[i]] BY <1>1, <1>4, <1>5
  <2>2. \A i \in 1..n : IF \E k \in 1..(i-1) : b[k].op = b[i].op THEN ss[i] = <<>>
                                                                 ELSE ss[i] = <<b[i]>>
    BY <1>1, <1>4, <1>5
  <2> HIDE DEF P
  <2>3. ASSUME NEW i \in 1..n PROVE ss[i] \in Seq(Submission)
    <3>1. PICK x : x = b[i] OBVIOUS
    <3>2. x \in Submission BY <1>4, <3>1
    <3>3. <<>> \in Seq(Submission) /\ <<x>> \in Seq(Submission) BY <3>2
    <3>4. ss[i] = <<>> \/ ss[i] = <<x>> BY <2>2, <3>1
    <3> QED BY <3>3, <3>4
  <2>4. ss \in [1..n -> Seq(Submission)] BY <2>1, <2>3
  <2>5. ss \in Seq(Seq(Submission)) /\ Len(ss) = n BY <1>4, <2>4
  <2> QED BY <2>2, <2>5
<1>7. Unique(batch) = FlattenSeq(ss) BY <1>5 DEF Unique
<1> HIDE DEF P
<1>8. PICK f : Unfolds(f, ss, Submission) /\ FlattenSeq(ss) = f[Len(ss)] BY <1>6, Flattened
<1>9. f \in [0..n -> Seq(Submission)] /\ f[0] = <<>>
      /\ \A i \in 1..n : f[i] = f[i-1] \o ss[i]
  BY <1>6, <1>8 DEF Unfolds
<1> DEFINE T == {k \in 0..n : FirstsOf(f[k], b, k)}
<1>10. 0 \in T BY <1>4, <1>9 DEF FirstsOf, Distinct
<1>11. \A k \in 0..(n-1) : k \in T => k + 1 \in T
  <2> SUFFICES ASSUME NEW k \in 0..(n-1), k \in T PROVE k + 1 \in T OBVIOUS
  <2>1. k + 1 \in 1..n /\ (k + 1) - 1 = k /\ k + 1 \in 0..n /\ k \in 0..n BY <1>4
  <2>2. PICK s : s = f[k] OBVIOUS
  <2>3. s \in Seq(Submission) BY <1>9, <2>1, <2>2
  <2>4. FirstsOf(s, b, k) BY <2>2
  <2>5. f[k+1] = s \o ss[k+1] BY <1>9, <2>1, <2>2
  <2> HIDE DEF T
  <2>6. CASE \E i \in 1..k : b[i].op = b[k+1].op
    <3>1. ss[k+1] = <<>> BY <1>6, <2>1, <2>6
    <3>2. f[k+1] = s BY <2>3, <2>5, <3>1, ConcatEmptySeq
    <3>3. \A m \in 1..Len(s) : \E i \in 1..(k+1) : s[m] = b[i]
      <4> TAKE m \in 1..Len(s)
      <4>1. PICK i \in 1..k : s[m] = b[i] BY <2>4 DEF FirstsOf
      <4>2. i \in 1..(k+1) BY <2>1
      <4> QED BY <4>1, <4>2
    <3>4. \A i \in 1..(k+1) : \E m \in 1..Len(s) : s[m].op = b[i].op
      <4> TAKE i \in 1..(k+1)
      <4>1. PICK j \in 1..k : b[j].op = b[i].op
        <5>1. i \in 1..k \/ i = k + 1 BY <2>1
        <5> QED BY <2>6, <5>1
      <4>2. PICK m \in 1..Len(s) : s[m].op = b[j].op BY <2>4 DEF FirstsOf
      <4> QED BY <4>1, <4>2
    <3>5. FirstsOf(s, b, k + 1) BY <2>4, <3>3, <3>4 DEF FirstsOf
    <3> QED BY <2>1, <3>2, <3>5 DEF T
  <2>7. CASE ~\E i \in 1..k : b[i].op = b[k+1].op
    <3>1. ss[k+1] = <<b[k+1]>> BY <1>6, <2>1, <2>7
    <3>2. PICK x : x = b[k+1] OBVIOUS
    <3>3. x \in Submission BY <1>4, <2>1, <3>2
    <3>4. PICK t : t = f[k+1] OBVIOUS
    <3>5. t = s \o <<x>> BY <2>5, <3>1, <3>2, <3>4
    <3>6. /\ Len(t) = Len(s) + 1 /\ Len(s) \in Nat /\ t \in Seq(Submission)
          /\ t[Len(t)] = x /\ \A m \in 1..Len(s) : t[m] = s[m]
    BY <2>3, <3>3, <3>5
    <3>7. ASSUME NEW m \in 1..Len(s) PROVE s[m].op # x.op
      <4>1. PICK i \in 1..k : s[m] = b[i] BY <2>4 DEF FirstsOf
      <4>2. b[i].op # x.op BY <2>7, <3>2
      <4> QED BY <4>1, <4>2
    <3>8. Distinct(t)
      <4>1. DOMAIN t = 1..Len(t) /\ DOMAIN s = 1..Len(s) BY <2>3, <3>6
      <4>2. \A m, i \in 1..Len(s) : s[m].op = s[i].op => m = i
        BY <2>4, <4>1 DEF FirstsOf, Distinct
      <4> QED BY <3>6, <3>7, <4>1, <4>2 DEF Distinct
    <3>9. \A m \in 1..Len(t) : \E i \in 1..(k+1) : t[m] = b[i]
      <4> TAKE m \in 1..Len(t)
      <4>1. CASE m = Len(t) BY <2>1, <3>2, <3>6, <4>1
      <4>2. CASE m # Len(t)
        <5>1. m \in 1..Len(s) BY <3>6, <4>2
        <5>2. PICK i \in 1..k : s[m] = b[i] BY <2>4, <5>1 DEF FirstsOf
        <5>3. t[m] = b[i] /\ i \in 1..(k+1) BY <2>1, <3>6, <5>1, <5>2
        <5> QED BY <5>3
      <4> QED BY <4>1, <4>2
    <3>10. \A i \in 1..(k+1) : \E m \in 1..Len(t) : t[m].op = b[i].op
      <4> TAKE i \in 1..(k+1)
      <4>1. CASE i = k + 1
        <5>1. Len(t) \in 1..Len(t) BY <3>6
        <5> QED BY <3>2, <3>6, <4>1, <5>1
      <4>2. CASE i # k + 1
        <5>1. i \in 1..k BY <2>1, <4>2
        <5>2. PICK m \in 1..Len(s) : s[m].op = b[i].op BY <2>4, <5>1 DEF FirstsOf
        <5>3. m \in 1..Len(t) /\ t[m] = s[m] BY <3>6
        <5> QED BY <5>2, <5>3
      <4> QED BY <4>1, <4>2
    <3> QED BY <2>1, <3>4, <3>8, <3>9, <3>10 DEF T, FirstsOf
  <2> QED BY <2>6, <2>7
<1>12. \A k \in T : FirstsOf(f[k], b, k) OBVIOUS
<1> HIDE DEF T
<1>13. 0..n \subseteq T BY <1>4, <1>10, <1>11, UpTo
<1>14. PICK s : s = Unique(batch) OBVIOUS
<1>15. s = f[n] /\ s \in Seq(Submission) /\ n \in 0..n BY <1>4, <1>6, <1>7, <1>8, <1>9, <1>14
<1>16. FirstsOf(s, b, n) BY <1>12, <1>13, <1>15
<1>17. s # <<>>
  <2>1. 1 \in 1..n BY <1>4
  <2>2. \E m \in 1..Len(s) : TRUE BY <1>16, <2>1 DEF FirstsOf
  <2> QED BY <1>15, <2>2
<1>18. Range(s) \subseteq Range(b)
  <2>1. \A m \in DOMAIN s : \E i \in DOMAIN b : s[m] = b[i]
    <3>1. DOMAIN s = 1..Len(s) /\ DOMAIN b = 1..n BY <1>4, <1>15
    <3> QED BY <1>16, <3>1 DEF FirstsOf
  <2> QED BY <2>1 DEF Range
<1>19. Distinct(s) BY <1>16 DEF FirstsOf
<1> QED BY <1>1, <1>14, <1>15, <1>17, <1>18, <1>19

\* The extents of the items add up.
LEMMA Extents ==
  ASSUME NEW items \in Seq(Submission)
  PROVE  /\ Extent(items, 0) = 0
         /\ \A i \in 0..Len(items) : Extent(items, i) \in Nat
         /\ \A i \in 1..Len(items) :
              Extent(items, i) = Extent(items, i - 1) + Len(items[i].payload)
         /\ \A i \in 0..Len(items) : Extent(items, i) <= Extent(items, Len(items))
         /\ \A i \in 1..Len(items) :
              SubSeq(FlattenSeq([k \in DOMAIN items |-> items[k].payload]),
                     Extent(items, i - 1) + 1, Extent(items, i)) = items[i].payload
         /\ FlattenSeq([k \in DOMAIN items |-> items[k].payload]) \in Seq(Event)
         /\ Len(FlattenSeq([k \in DOMAIN items |-> items[k].payload])) = Extent(items, Len(items))
<1>1. PICK n : n = Len(items) OBVIOUS
<1>2. PICK ss : ss = [k \in DOMAIN items |-> items[k].payload] OBVIOUS
<1>3. n \in Nat /\ DOMAIN items = 1..n BY <1>1
<1>4. \A k \in 1..n : items[k].payload \in Seq(Event)
  <2> TAKE k \in 1..n
  <2>1. items[k] \in Submission BY <1>3
  <2> QED BY <2>1, PayloadAssumption DEF Submission
<1>5. ss \in Seq(Seq(Event)) /\ Len(ss) = n /\ \A k \in 1..n : ss[k] = items[k].payload
  <2>1. ss \in [1..n -> Seq(Event)] BY <1>2, <1>3, <1>4
  <2> QED BY <1>2, <1>3, <2>1
<1>6. \A i \in 0..n : Extent(items, i) = Len(FlattenSeq(Firsts(ss, i)))
  <2> TAKE i \in 0..n
  <2>1. \A k \in 1..i : ss[k] = items[k].payload BY <1>3, <1>5
  <2>2. Firsts(ss, i) = [k \in 1..i |-> items[k].payload] BY <2>1 DEF Firsts
  <2> QED BY <2>2 DEF Extent
<1>7. PICK F : F = [i \in 0..n |-> FlattenSeq(Firsts(ss, i))] OBVIOUS
<1>8. \A i \in 0..n : /\ F[i] \in Seq(Event) /\ Extent(items, i) = Len(F[i])
                      /\ i > 0 => F[i] = F[i-1] \o ss[i]
                      /\ i = 0 => F[i] = <<>>
  <2> TAKE i \in 0..n
  <2>1. i \in 0..Len(ss) BY <1>5
  <2>2. F[i] = FlattenSeq(Firsts(ss, i)) BY <1>7
  <2>3. ASSUME i > 0 PROVE F[i] = F[i-1] \o ss[i]
    <3>1. F[i-1] = FlattenSeq(Firsts(ss, i - 1)) BY <1>3, <1>7, <2>3
    <3> QED BY <1>5, <2>1, <2>2, <2>3, <3>1, FlattenPrefix
  <2>4. F[i] \in Seq(Event) /\ (i = 0 => F[i] = <<>>) BY <1>5, <2>1, <2>2, FlattenPrefix
  <2>5. Extent(items, i) = Len(F[i]) BY <1>6, <2>2
  <2> QED BY <2>3, <2>4, <2>5
<1>15. ASSUME NEW i \in 0..n PROVE \E rest \in Seq(Event) : FlattenSeq(ss) = F[i] \o rest
  <2>1. i \in 0..Len(ss) BY <1>5
  <2>2. F[i] = FlattenSeq(Firsts(ss, i)) BY <1>7
  <2>3. Begins(FlattenSeq(Firsts(ss, i)), FlattenSeq(ss), Event)
    BY <1>5, <2>1, FlattenPrefix
  <2> QED BY <2>2, <2>3 DEF Begins
<1>16. \A i \in 0..n : F[i] \in Seq(Event)
  <2> TAKE i \in 0..n
  <2> QED BY <1>8
<1>17. \A i \in 0..n : Extent(items, i) = Len(F[i])
  <2> TAKE i \in 0..n
  <2> QED BY <1>8
<1>9. FlattenSeq(ss) = F[n]
  <2>1. Firsts(ss, n) = ss BY <1>5 DEF Firsts
  <2> QED BY <1>3, <1>7, <2>1
<1>10. Extent(items, 0) = 0
  <2>1. 0 \in 0..n BY <1>3
  <2> QED BY <1>8, <2>1
<1>11. ASSUME NEW i \in 1..n
       PROVE  /\ Extent(items, i) = Extent(items, i - 1) + Len(items[i].payload)
              /\ SubSeq(F[n], Extent(items, i - 1) + 1, Extent(items, i)) = items[i].payload
  <2>1. i \in 0..n /\ i - 1 \in 0..n /\ i > 0 BY <1>3
  <2>2. PICK a : a = F[i-1] OBVIOUS
  <2>3. PICK b : b = items[i].payload OBVIOUS
  <2>4. PICK rest \in Seq(Event) : F[n] = F[i] \o rest BY <1>9, <1>15, <2>1
  <2>5. F[i] = a \o b BY <1>5, <1>8, <2>1, <2>2, <2>3
  <2>6. a \in Seq(Event) /\ b \in Seq(Event) /\ Extent(items, i - 1) = Len(a)
        /\ Extent(items, i) = Len(a \o b)
    BY <1>4, <1>8, <2>1, <2>2, <2>3, <2>5
  <2>7. PICK e : e = (a \o b) \o rest OBVIOUS
  <2>8. SubSeq(e, Len(a) + 1, Len(a \o b)) = b
    <3>1. Len(a \o b) = Len(a) + Len(b) BY <2>6
    <3>2. /\ Len(e) = Len(a) + Len(b) + Len(rest) /\ e \in Seq(Event)
          /\ \A k \in 1..Len(b) : e[Len(a) + k] = b[k]
      BY <2>4, <2>6, <2>7, ConcatProperties
    <3>3. PICK x : x = SubSeq(e, Len(a) + 1, Len(a) + Len(b)) OBVIOUS
    <3>4. Len(a) \in Nat /\ Len(b) \in Nat /\ Len(rest) \in Nat BY <2>4, <2>6
    <3>5. x \in Seq(Event) /\ Len(x) = Len(b) /\ \A k \in 1..Len(b) : x[k] = e[Len(a) + k]
      BY <3>2, <3>3, <3>4, SMTT(30)
    <3>6. x = b BY <2>6, <3>2, <3>5, SeqEqual
    <3> QED BY <3>1, <3>3, <3>6
  <2>9. Len(a \o b) = Len(a) + Len(b) BY <2>6
  <2>10. F[n] = e BY <2>4, <2>5, <2>7
  <2> QED BY <2>3, <2>6, <2>8, <2>9, <2>10
<1>12. ASSUME NEW i \in 0..n PROVE Extent(items, i) <= Extent(items, n)
  <2>1. PICK rest \in Seq(Event) : F[n] = F[i] \o rest BY <1>9, <1>15
  <2>2. F[i] \in Seq(Event) /\ n \in 0..n BY <1>3, <1>16
  <2>3. Len(F[n]) = Len(F[i]) + Len(rest) /\ Len(rest) \in Nat /\ Len(F[i]) \in Nat
    BY <2>1, <2>2
  <2> QED BY <1>17, <2>2, <2>3
<1>13. \A i \in 0..n : Extent(items, i) \in Nat BY <1>16, <1>17
<1>14. F[n] \in Seq(Event) /\ Len(F[n]) = Extent(items, n)
  <2>1. n \in 0..n BY <1>3
  <2> QED BY <1>8, <2>1
<1> QED BY <1>1, <1>2, <1>9, <1>10, <1>11, <1>12, <1>13, <1>14

Requests(commit) == FlattenSeq([i \in DOMAIN commit |-> commit[i].request])

\* A prepared commit admits the items, in adjacent ranges from the head on.
LEMMA PreparedCommit ==
  ASSUME NEW items \in Seq(Submission), HeadSeq \in Nat
  PROVE  /\ Prepared(items) \in Seq(Admission) /\ Len(Prepared(items)) = Len(items)
         /\ \A i \in DOMAIN items :
              /\ Prepared(items)[i].identity = items[i].op
              /\ Prepared(items)[i].request = items[i].payload
              /\ Prepared(items)[i].first = HeadSeq + Extent(items, i - 1) + 1
              /\ Prepared(items)[i].last = HeadSeq + Extent(items, i)
         /\ Submitted(Prepared(items)) = items
         /\ Identities(Prepared(items)) = {s.op : s \in Range(items)}
<1>1. PICK n : n = Len(items) OBVIOUS
<1>2. n \in Nat /\ DOMAIN items = 1..n /\ \A i \in 1..n : items[i] \in Submission BY <1>1
<1>3. PICK c : c = Prepared(items) OBVIOUS
<1>11. PICK h : h = HeadSeq OBVIOUS
<1>4. ASSUME NEW i \in 1..n
      PROVE  /\ c[i] \in Admission
             /\ c[i].identity = items[i].op /\ c[i].request = items[i].payload
             /\ c[i].first = h + Extent(items, i - 1) + 1 /\ c[i].last = h + Extent(items, i)
  <2>1. PICK a, b : a = Extent(items, i - 1) /\ b = Extent(items, i) OBVIOUS
  <2>2. i \in 0..n /\ i - 1 \in 0..n BY <1>2
  <2>3. a \in Nat /\ b \in Nat BY <1>1, <2>1, <2>2, Extents
  <2>4. PICK o, p : o = items[i].op /\ p = items[i].payload OBVIOUS
  <2>5. o \in Op /\ p \in Payloads BY <1>2, <2>4 DEF Submission
  <2>6. c[i] = [identity |-> o, request |-> p, first |-> h + a + 1, last |-> h + b]
    BY <1>2, <1>3, <1>11, <2>1, <2>4 DEF Prepared
  <2>7. h + a + 1 \in Nat /\ h + b \in Nat BY <1>11, <2>3
  <2> QED BY <2>1, <2>4, <2>5, <2>6, <2>7 DEF Admission
<1>6. c = [i \in 1..n |-> c[i]] BY <1>2, <1>3 DEF Prepared
<1>7. c \in [1..n -> Admission] BY <1>4, <1>6
<1>8. c \in Seq(Admission) /\ Len(c) = n /\ DOMAIN c = 1..n BY <1>2, <1>7
<1>9. Submitted(c) = items
  <2>1. \A i \in 1..n : [op |-> c[i].identity, payload |-> c[i].request] = items[i]
    <3> TAKE i \in 1..n
    <3>1. items[i] = [op |-> items[i].op, payload |-> items[i].payload]
      BY <1>2 DEF Submission
    <3>2. c[i].identity = items[i].op /\ c[i].request = items[i].payload BY <1>4
    <3> QED BY <3>1, <3>2
  <2>2. Submitted(c) = [i \in 1..n |-> items[i]] BY <1>8, <2>1 DEF Submitted
  <2> QED BY <1>2, <2>2
<1>10. Identities(c) = {s.op : s \in Range(items)}
  BY <1>2, <1>4, <1>8 DEF Identities, Range
<1> QED BY <1>1, <1>2, <1>3, <1>4, <1>8, <1>9, <1>10, <1>11

\* What a commit adds to the events of the log.
LEMMA EventsGrow ==
  ASSUME log \in Seq(Commit \ {<<>>}), NEW commit \in Commit \ {<<>>}
  PROVE  /\ Events \in Seq(Event) /\ Requests(commit) \in Seq(Event)
         /\ log' = Append(log, commit) => Events' = Events \o Requests(commit)
<1>1. ASSUME NEW c \in Commit PROVE Requests(c) \in Seq(Event)
  <2>1. PICK ss : ss = [i \in DOMAIN c |-> c[i].request] OBVIOUS
  <2>2. \A i \in DOMAIN c : c[i].request \in Seq(Event)
    <3> TAKE i \in DOMAIN c
    <3>1. c[i] \in Admission BY DEF Commit
    <3> QED BY <3>1, PayloadAssumption DEF Admission
  <2>3. DOMAIN c = 1..Len(c) /\ Len(c) \in Nat BY DEF Commit
  <2>4. ss \in [1..Len(c) -> Seq(Event)] BY <2>1, <2>2, <2>3
  <2>5. ss \in Seq(Seq(Event)) BY <2>3, <2>4
  <2>6. <<>> \in Seq(Event) OBVIOUS
  <2> QED BY <2>1, <2>5, <2>6, FlattenAppend DEF Requests
<1>2. PICK tt : tt = [g \in DOMAIN log |-> Requests(log[g])] OBVIOUS
<1>3. Events = FlattenSeq(tt) BY <1>2 DEF Events, Requests
<1>4. tt \in Seq(Seq(Event))
  <2>1. DOMAIN log = 1..Len(log) /\ Len(log) \in Nat /\ \A g \in DOMAIN log : log[g] \in Commit
    OBVIOUS
  <2>2. \A g \in DOMAIN log : Requests(log[g]) \in Seq(Event) BY <1>1, <2>1
  <2>3. tt \in [1..Len(log) -> Seq(Event)] BY <1>2, <2>1, <2>2
  <2> QED BY <2>1, <2>3
<1>5. PICK r : r = Requests(commit) OBVIOUS
<1>6. r \in Seq(Event) BY <1>1, <1>5
<1>7. ASSUME log' = Append(log, commit) PROVE Events' = FlattenSeq(Append(tt, r))
  <2>1. PICK new : new = log' OBVIOUS
  <2>2. /\ new = Append(log, commit) /\ DOMAIN new = 1..(Len(log) + 1)
        /\ Len(log) \in Nat /\ new[Len(log) + 1] = commit
        /\ \A g \in 1..Len(log) : new[g] = log[g]
    BY <1>7, <2>1
  <2>3. Events' = FlattenSeq([g \in DOMAIN new |-> Requests(new[g])])
    BY <2>1 DEF Events, Requests
  <2>4. PICK vv : vv = [g \in DOMAIN new |-> Requests(new[g])] OBVIOUS
  <2>5. vv = Append(tt, r)
    <3>1. DOMAIN log = 1..Len(log) OBVIOUS
    <3>2. Len(tt) = Len(log) /\ \A g \in 1..Len(log) : tt[g] = Requests(log[g]) BY <1>2, <2>2, <3>1
    <3>3. vv = [g \in 1..(Len(log) + 1) |-> vv[g]] BY <2>2, <2>4
    <3>4. \A g \in 1..Len(log) : vv[g] = tt[g] BY <2>2, <2>4, <3>2
    <3>5. vv[Len(log) + 1] = r BY <1>5, <2>2, <2>4
    <3>6. vv \in Seq(Seq(Event))
      <4>1. \A g \in 1..(Len(log) + 1) : vv[g] \in Seq(Event)
        <5> TAKE g \in 1..(Len(log) + 1)
        <5>1. CASE g = Len(log) + 1 BY <1>6, <3>5, <5>1
        <5>2. CASE g # Len(log) + 1
          <6>1. g \in 1..Len(log) /\ g \in 1..Len(tt) BY <2>2, <3>2, <5>2
          <6>2. tt[g] \in Seq(Event) BY <1>4, <6>1
          <6> QED BY <3>4, <6>1, <6>2
        <5> QED BY <5>1, <5>2
      <4>2. vv \in [1..(Len(log) + 1) -> Seq(Event)] BY <3>3, <4>1
      <4> QED BY <2>2, <4>2
    <3>7. Len(vv) = Len(log) + 1 BY <2>2, <2>4, <3>6
    <3>8. PICK ww : ww = Append(tt, r) OBVIOUS
    <3>9. ww \in Seq(Seq(Event)) /\ Len(ww) = Len(log) + 1 /\ ww[Len(log) + 1] = r
          /\ \A g \in 1..Len(log) : ww[g] = tt[g]
      BY <1>4, <1>6, <3>2, <3>8
    <3>10. \A g \in 1..(Len(log) + 1) : vv[g] = ww[g]
      <4> TAKE g \in 1..(Len(log) + 1)
      <4>1. g \in 1..Len(log) \/ g = Len(log) + 1 BY <2>2
      <4>2. CASE g = Len(log) + 1 BY <3>5, <3>9, <4>2
      <4>3. CASE g \in 1..Len(log)
        <5>1. ww[g] = tt[g] BY <3>9, <4>3
        <5>2. vv[g] = tt[g] BY <3>4, <4>3
        <5> QED BY <5>1, <5>2
      <4> QED BY <4>1, <4>2, <4>3
    <3>11. vv = ww BY <3>6, <3>7, <3>9, <3>10, SeqEqual
    <3> QED BY <3>8, <3>11
  <2> QED BY <2>3, <2>4, <2>5
<1> QED BY <1>3, <1>4, <1>5, <1>6, <1>7, FlattenAppend
-----------------------------------------------------------------------------
(* What a step may do to the store: the log grows by one commit, a row is  *)
(* written, or a row nobody works on is lost.                              *)

StoreInv ==
  /\ log \in Seq(Commit \ {<<>>})
  /\ rows \in [Op -> Row \cup {None}] /\ rowVersion \in [Op -> Nat]
  /\ LogOK /\ \A o \in Op : RowOK(o)

\* What holds of the store for tasks and messages that work on the ids in O.
Stays(O) ==
  /\ Len(log') \in Nat /\ Len(log) <= Len(log')
  /\ \A g \in DOMAIN log : g \in DOMAIN log' /\ log'[g] = log[g]
  /\ Len(log') = Len(log) => log' = log
  /\ \A o \in O, v \in Nat, row \in Row : MayPut(o, v, row) => MayPut(o, v, row)'
  /\ \A s \in Submission : s.op \in O /\ Held(s) => Held(s)'
  /\ \A s \in Submission, b \in 0..Len(log) : s.op \in O /\ Synced(s, b) => Synced(s, b)'

LogGrows(commit) == log' = Append(log, commit) /\ rows' = rows /\ rowVersion' = rowVersion

\* The ids of a commit that lands have rows that name its base, and no commit yet.
LEMMA NewlyCommitted ==
  ASSUME StoreInv, NEW commit \in Commit \ {<<>>}, MayCommit(commit, Len(log)),
         NEW i \in DOMAIN commit
  PROVE  LET o == commit[i].identity IN
         /\ o \in Op /\ rows[o] # None /\ rows[o].request = commit[i].request
         /\ rows[o].state = "Pending" /\ rows[o].base = Len(log)
         /\ CommittedAt(o) = {}
<1> DEFINE o == commit[i].identity
           s == [op |-> o, payload |-> commit[i].request]
<1>1. o \in Op /\ s.op = o /\ s.payload = commit[i].request
  <2>1. commit[i] \in Admission BY DEF Commit
  <2> QED BY <2>1 DEF Admission
<1>2. s \in Range(Submitted(commit)) BY DEF Submitted, Range
<1>3. Len(log) = Len(log) OBVIOUS
<1>4. Synced(s, Len(log)) BY <1>2 DEF MayCommit
<1>5. Held(s) /\ rows[s.op].state = "Pending" /\ rows[s.op].base = Len(log) BY <1>4 DEF Synced
<1>6. rows[o] # None /\ rows[o].request = commit[i].request BY <1>1, <1>5 DEF Held
<1>7. CommittedAt(o) \subseteq {Len(log) + 1} BY <1>1, <1>5, <1>6 DEF StoreInv, RowOK
<1>8. CommittedAt(o) \subseteq 1..Len(log) /\ Len(log) \in Nat BY DEF CommittedAt, StoreInv
<1>9. CommittedAt(o) = {} BY <1>7, <1>8
<1> QED BY <1>1, <1>5, <1>6, <1>9

\* What a commit put at the end leaves of the log.
LEMMA Growing ==
  ASSUME StoreInv, NEW commit \in Commit \ {<<>>}, LogGrows(commit)
  PROVE  /\ Len(log) \in Nat /\ Len(log') = Len(log) + 1 /\ DOMAIN log = 1..Len(log)
         /\ DOMAIN log' = 1..(Len(log) + 1)
         /\ log' \in Seq(Commit \ {<<>>})
         /\ \A g \in 1..Len(log) : log'[g] = log[g]
         /\ log'[Len(log) + 1] = commit
         /\ \A o : CommittedAt(o)' = IF o \in Identities(commit) THEN CommittedAt(o) \cup {Len(log) + 1}
                                                               ELSE CommittedAt(o)
<1>1. PICK old, new : old = log /\ new = log' OBVIOUS
<1>2. old \in Seq(Commit \ {<<>>}) /\ new = Append(old, commit) BY <1>1 DEF StoreInv, LogGrows
<1>3. /\ Len(old) \in Nat /\ Len(new) = Len(old) + 1 /\ DOMAIN old = 1..Len(old)
      /\ DOMAIN new = 1..(Len(old) + 1) /\ new \in Seq(Commit \ {<<>>})
      /\ \A g \in 1..Len(old) : new[g] = old[g]
      /\ new[Len(old) + 1] = commit
  BY <1>2
<1>4. ASSUME NEW o
      PROVE  {g \in DOMAIN new : o \in Identities(new[g])}
               = IF o \in Identities(commit) THEN {g \in DOMAIN old : o \in Identities(old[g])} \cup {Len(old) + 1}
                                              ELSE {g \in DOMAIN old : o \in Identities(old[g])}
  BY <1>3
<1>5. ASSUME NEW o PROVE CommittedAt(o) = {g \in DOMAIN old : o \in Identities(old[g])}
  BY <1>1 DEF CommittedAt
<1>6. ASSUME NEW o PROVE CommittedAt(o)' = {g \in DOMAIN new : o \in Identities(new[g])}
  BY <1>1 DEF CommittedAt, Identities
<1> QED BY <1>1, <1>3, <1>4, <1>5, <1>6

\* The history stays true when a commit lands.
LEMMA HistoryGrows ==
  ASSUME StoreInv, NEW commit \in Commit \ {<<>>}, MayCommit(commit, Len(log)), LogGrows(commit)
  PROVE  LogOK'
<1>1. /\ Len(log) \in Nat /\ DOMAIN log = 1..Len(log) /\ DOMAIN log' = 1..(Len(log) + 1)
      /\ \A g \in 1..Len(log) : log'[g] = log[g]
      /\ log'[Len(log) + 1] = commit /\ Len(log') = Len(log) + 1
      /\ log' \in Seq(Commit \ {<<>>})
  BY Growing
<1> DEFINE items == Submitted(commit)
<1>2. Distinct(items) /\ OneSource(items) /\ commit = Prepared(items) BY DEF MayCommit
<1>3. commit \in Seq(Admission) /\ Len(commit) \in Nat \ {0} /\ DOMAIN commit = 1..Len(commit)
  BY DEF Commit
<1>4. items \in Seq(Submission) /\ Len(items) = Len(commit) /\ DOMAIN items = DOMAIN commit
  <2>1. ASSUME NEW i \in DOMAIN commit
        PROVE  [op |-> commit[i].identity, payload |-> commit[i].request] \in Submission
    <3>1. commit[i] \in Admission BY <1>3
    <3> QED BY <3>1 DEF Admission, Submission
  <2>2. items \in [1..Len(commit) -> Submission] BY <1>3, <2>1 DEF Submitted
  <2> HIDE DEF items
  <2> QED BY <1>3, <2>2
<1>5. LogOK /\ Events \in Seq(Event) /\ HeadSeq = Len(Events) /\ HeadSeq \in Nat
  <2>1. LogOK /\ log \in Seq(Commit \ {<<>>}) BY DEF StoreInv
  <2>2. Events \in Seq(Event) BY <2>1, EventsGrow
  <2> QED BY <2>1, <2>2 DEF LogOK
<1>6. Events' = Events \o Requests(commit) /\ Requests(commit) \in Seq(Event)
  BY EventsGrow DEF StoreInv, LogGrows
<1> DEFINE n == Len(items)
<1>17. PICK r : r = Requests(commit) OBVIOUS
<1>7. r = FlattenSeq([k \in DOMAIN items |-> items[k].payload])
  <2>1. \A k \in DOMAIN commit : commit[k].request = items[k].payload BY DEF Submitted
  <2> QED BY <1>4, <1>17, <2>1 DEF Requests
<1> HIDE DEF items
<1>8. /\ Len(r) = Extent(items, n)
      /\ \A i \in 0..n : Extent(items, i) \in Nat /\ Extent(items, i) <= Extent(items, n)
      /\ \A i \in 1..n : Extent(items, i) = Extent(items, i - 1) + Len(items[i].payload)
      /\ \A i \in 1..n : SubSeq(r, Extent(items, i - 1) + 1, Extent(items, i)) = items[i].payload
  BY <1>4, <1>7, Extents
<1>9. ASSUME NEW i \in 1..n
      PROVE  /\ commit[i].identity = items[i].op /\ commit[i].request = items[i].payload
             /\ commit[i].first = HeadSeq + Extent(items, i - 1) + 1
             /\ commit[i].last = HeadSeq + Extent(items, i)
  <2>1. i \in DOMAIN items BY <1>3, <1>4
  <2> QED BY <1>2, <1>4, <1>5, <2>1, PreparedCommit
<1>10. PICK old, new : old = Events /\ new = Events' OBVIOUS
<1>11. old \in Seq(Event) /\ r \in Seq(Event) /\ new = old \o r /\ Len(old) = HeadSeq
  BY <1>5, <1>6, <1>10, <1>17
<1>21. old \in Seq(Event) /\ r \in Seq(Event) /\ new = old \o r BY <1>11
<1>18. Len(new) = Len(old) + Len(r) /\ Len(old) \in Nat /\ Len(r) \in Nat /\ new \in Seq(Event)
  <2>1. Len(old) \in Nat /\ Len(r) \in Nat BY <1>21
  <2>2. new \in Seq(Event) BY <1>21
  <2>3. Len(new) = Len(old) + Len(r) BY <1>21
  <2> QED BY <2>1, <2>2, <2>3
<1>19. \A k \in 1..Len(old) : new[k] = old[k] BY <1>11
<1>20. ASSUME NEW k \in 1..Len(r) PROVE new[Len(old) + k] = r[k]
  BY <1>11
<1>12. /\ new \in Seq(Event) /\ Len(new) = Len(old) + Len(r) /\ Len(old) \in Nat /\ Len(r) \in Nat
       /\ \A k \in 1..Len(old) : new[k] = old[k]
       /\ \A k \in 1..Len(r) : new[Len(old) + k] = r[k]
  BY <1>18, <1>19, <1>20
<1>13. HeadSeq' = Len(Events')
  <2>1. log' # <<>> /\ Last(log') = commit
    <3>1. PICK l : l = log' OBVIOUS
    <3>2. l \in Seq(Commit \ {<<>>}) /\ Len(l) = Len(log) + 1 /\ l[Len(log) + 1] = commit
      BY <1>1, <3>1
    <3>3. l # <<>> /\ Last(l) = commit BY <1>1, <3>2 DEF Last
    <3> QED BY <3>1, <3>3
  <2>2. HeadSeq' = Last(commit).last BY <2>1 DEF HeadSeq
  <2>3. Last(commit) = commit[n] /\ n \in 1..n BY <1>3, <1>4 DEF Last
  <2>4. commit[n].last = HeadSeq + Extent(items, n) BY <1>9, <2>3
  <2> QED BY <1>8, <1>10, <1>11, <1>12, <2>2, <2>3, <2>4
<1>14. AdmittedOnce'
  <2>1. SUFFICES ASSUME NEW g \in DOMAIN log', NEW h \in DOMAIN log',
                        NEW i \in DOMAIN log'[g], NEW j \in DOMAIN log'[h],
                        log'[g][i].identity = log'[h][j].identity
                 PROVE  g = h /\ i = j
    BY DEF AdmittedOnce
  <2>2. ASSUME NEW a \in 1..Len(log), NEW k \in DOMAIN log[a], NEW m \in DOMAIN commit,
               log[a][k].identity = commit[m].identity
        PROVE  FALSE
    <3>1. CommittedAt(commit[m].identity) = {} BY NewlyCommitted
    <3>2. a \in CommittedAt(log[a][k].identity) BY <1>1 DEF CommittedAt, Identities
    <3> QED BY <2>2, <3>1, <3>2
  <2>3. (g \in 1..Len(log) /\ log'[g] = log[g]) \/ (g = Len(log) + 1 /\ log'[g] = commit)
    BY <1>1
  <2>4. (h \in 1..Len(log) /\ log'[h] = log[h]) \/ (h = Len(log) + 1 /\ log'[h] = commit)
    BY <1>1
  <2>5. CASE log'[g] = log[g] /\ g \in 1..Len(log)
    <3>1. CASE log'[h] = log[h] /\ h \in 1..Len(log)
      BY <1>1, <1>5, <2>1, <2>5, <3>1 DEF LogOK, AdmittedOnce
    <3>2. CASE log'[h] = commit
      <4>1. i \in DOMAIN log[g] /\ j \in DOMAIN commit
            /\ log[g][i].identity = commit[j].identity
        BY <2>1, <2>5, <3>2
      <4> QED BY <2>2, <2>5, <4>1
    <3> QED BY <2>4, <3>1, <3>2
  <2>6. CASE log'[g] = commit /\ g = Len(log) + 1
    <3>1. CASE log'[h] = log[h] /\ h \in 1..Len(log)
      <4>1. j \in DOMAIN log[h] /\ i \in DOMAIN commit
            /\ log[h][j].identity = commit[i].identity
        BY <2>1, <2>6, <3>1
      <4> QED BY <2>2, <3>1, <4>1
    <3>2. CASE log'[h] = commit /\ h = Len(log) + 1
      <4>1. i \in 1..n /\ j \in 1..n /\ commit[i].identity = commit[j].identity
        BY <1>3, <1>4, <2>1, <2>6, <3>2
      <4>2. items[i].op = items[j].op BY <1>9, <4>1
      <4>3. i = j BY <1>2, <1>3, <1>4, <4>1, <4>2 DEF Distinct, items
      <4> QED BY <2>6, <3>2, <4>3
    <3> QED BY <2>4, <3>1, <3>2
  <2> QED BY <2>3, <2>5, <2>6
<1>15. ASSUME NEW g \in DOMAIN log' PROVE OneSource(Submitted(log'[g]))
  <2>1. CASE g \in 1..Len(log) BY <1>1, <1>5, <2>1 DEF LogOK
  <2>2. CASE g = Len(log) + 1 BY <1>1, <1>2, <2>2 DEF items
  <2> QED BY <1>1, <2>1, <2>2
<1>16. ASSUME NEW g \in DOMAIN log', NEW i \in DOMAIN log'[g] PROVE Written(log'[g][i], Events')
  <2>1. CASE g \in 1..Len(log)
    <3>1. i \in DOMAIN log[g] /\ log'[g][i] = log[g][i] BY <1>1, <2>1
    <3>2. PICK a : a = log[g][i] OBVIOUS
    <3>3. Written(a, Events) BY <1>1, <1>5, <2>1, <3>1, <3>2 DEF LogOK
    <3>4. a.first \in Nat /\ a.last \in Nat
      <4>1. log[g] \in Seq(Admission) BY <2>1 DEF StoreInv, Commit
      <4>2. a \in Admission BY <3>1, <3>2, <4>1
      <4> QED BY <4>2 DEF Admission
    <3>5. 0 < a.first /\ a.first <= a.last + 1 /\ a.last <= Len(old)
          /\ SubSeq(old, a.first, a.last) = a.request
      BY <1>10, <3>3 DEF Written
    <3>6. SubSeq(new, a.first, a.last) = SubSeq(old, a.first, a.last) /\ a.last <= Len(new)
      BY <1>11, <1>12, <3>4, <3>5
    <3>7. 0 < a.first /\ a.first <= a.last + 1 /\ a.last <= Len(Events')
          /\ SubSeq(Events', a.first, a.last) = a.request
      BY <1>10, <3>5, <3>6
    <3>8. Written(a, Events') BY <3>7 DEF Written
    <3> QED BY <3>1, <3>2, <3>8
  <2>2. CASE g = Len(log) + 1
    <3>1. log'[g] = commit BY <1>1, <2>2
    <3>2. PICK a : a = commit[i] OBVIOUS
    <3>3. i \in 1..n /\ i \in 0..n /\ i - 1 \in 0..n BY <1>3, <1>4, <3>1 DEF items
    <3>4. PICK b, e : b = Extent(items, i - 1) /\ e = Extent(items, i) OBVIOUS
    <3>5. a.first = Len(old) + b + 1 /\ a.last = Len(old) + e /\ a.request = items[i].payload
      BY <1>9, <1>11, <3>2, <3>3, <3>4
    <3>6. b \in Nat /\ e \in Nat /\ e <= Len(r) /\ SubSeq(r, b + 1, e) = a.request
      BY <1>8, <3>3, <3>4, <3>5
    <3>7. b <= e
      <4>1. items[i] \in Submission BY <1>4, <3>3
      <4>2. items[i].payload \in Seq(Event) BY <4>1, PayloadAssumption DEF Submission
      <4>3. e = b + Len(items[i].payload) /\ Len(items[i].payload) \in Nat
        BY <1>8, <3>3, <3>4, <4>2, SMTT(30)
      <4> QED BY <3>6, <4>3
    <3>11. Len(old) + b + 1 \in 1..(Len(new) + 1) /\ Len(old) + e \in 0..Len(new)
          /\ (Len(old) + e) - (Len(old) + b + 1) + 1 = e - b /\ e - b \in Nat
      BY <1>18, <3>6, <3>7
    <3>8. SubSeq(new, Len(old) + b + 1, Len(old) + e) = SubSeq(r, b + 1, e)
      <4>1. PICK x, y : x = SubSeq(new, Len(old) + b + 1, Len(old) + e) /\ y = SubSeq(r, b + 1, e)
        OBVIOUS
      <4>2. /\ x \in Seq(Event) /\ Len(x) = e - b
            /\ \A k \in 1..(e - b) : x[k] = new[Len(old) + b + k]
        BY <1>12, <3>6, <3>11, <4>1, SMTT(30)
      <4>3. /\ y \in Seq(Event) /\ Len(y) = e - b
            /\ \A k \in 1..(e - b) : y[k] = r[b + k]
        BY <1>11, <3>6, <3>7, <4>1, SMTT(30)
      <4>4. \A k \in 1..(e - b) : x[k] = y[k]
        <5> TAKE k \in 1..(e - b)
        <5>1. b + k \in 1..Len(r) /\ Len(old) + b + k = Len(old) + (b + k) BY <1>12, <3>6
        <5>2. new[Len(old) + (b + k)] = r[b + k] BY <1>12, <5>1
        <5> QED BY <4>2, <4>3, <5>1, <5>2
      <4>5. x = y BY <4>2, <4>3, <4>4, SeqEqual
      <4> QED BY <4>1, <4>5
    <3>9. 0 < a.first /\ a.first <= a.last + 1 /\ a.last <= Len(Events')
          /\ SubSeq(Events', a.first, a.last) = a.request
      <4>1. a.last <= Len(new) /\ 0 < a.first /\ a.first <= a.last + 1
        BY <1>12, <3>5, <3>6, <3>7
      <4>2. SubSeq(new, a.first, a.last) = a.request BY <3>5, <3>6, <3>8
      <4> QED BY <1>10, <4>1, <4>2
    <3>10. Written(a, Events') BY <3>9 DEF Written
    <3> QED BY <3>1, <3>2, <3>10
  <2> QED BY <1>1, <2>1, <2>2
<1> QED BY <1>13, <1>14, <1>15, <1>16 DEF LogOK

\* A commit that lands.
LEMMA CommitLands ==
  ASSUME StoreInv, NEW commit \in Commit \ {<<>>}, MayCommit(commit, Len(log)), LogGrows(commit)
  PROVE  StoreInv' /\ Stays(Op)
<1>1. /\ Len(log) \in Nat /\ Len(log') = Len(log) + 1 /\ DOMAIN log = 1..Len(log)
      /\ DOMAIN log' = 1..(Len(log) + 1) /\ log' \in Seq(Commit \ {<<>>})
      /\ \A g \in 1..Len(log) : log'[g] = log[g]
      /\ log'[Len(log) + 1] = commit
      /\ \A o : CommittedAt(o)' = IF o \in Identities(commit) THEN CommittedAt(o) \cup {Len(log) + 1}
                                                            ELSE CommittedAt(o)
  BY Growing
<1>2. rows' = rows /\ rowVersion' = rowVersion BY DEF LogGrows
<1>3. ASSUME NEW o \in Op, o \in Identities(commit)
      PROVE  rows[o] # None /\ rows[o].state = "Pending" /\ rows[o].base = Len(log)
             /\ CommittedAt(o) = {}
             /\ \A i \in DOMAIN commit : commit[i].identity = o => commit[i].request = rows[o].request
  <2>1. PICK i \in DOMAIN commit : commit[i].identity = o BY <1>3 DEF Identities
  <2>2. \A k \in DOMAIN commit : commit[k].identity = o => commit[k].request = rows[o].request
    BY NewlyCommitted
  <2> QED BY <2>1, <2>2, NewlyCommitted
<1>4. ASSUME NEW o \in Op PROVE RowOK(o)'
  <2>1. RowOK(o) BY DEF StoreInv
  <2>2. SUFFICES ASSUME rows[o] # None
                 PROVE  /\ rowVersion[o] # 0 /\ rows[o].base <= Len(log') /\ Agrees(o, rows[o])'
                        /\ rows[o].state = "Pending" => CommittedAt(o)' \subseteq {rows[o].base + 1}
                        /\ rows[o].state = "Applied" => CommittedAt(o)' # {}
    BY <1>2 DEF RowOK
  <2>3. rows[o] \in Row BY <2>2 DEF StoreInv
  <2>4. rowVersion[o] # 0 /\ rows[o].base <= Len(log') BY <1>1, <2>1, <2>2, <2>3 DEF RowOK, Row
  <2>5. Agrees(o, rows[o]) BY <2>1, <2>2 DEF RowOK
  <2>6. \A g \in DOMAIN log' : \A i \in DOMAIN log'[g] :
          log'[g][i].identity = o => log'[g][i].request = rows[o].request
    <3> TAKE g \in DOMAIN log'
    <3> TAKE i \in DOMAIN log'[g]
    <3> HAVE log'[g][i].identity = o
    <3>1. CASE g \in 1..Len(log) BY <1>1, <2>5, <3>1 DEF Agrees
    <3>2. CASE g = Len(log) + 1
      <4>1. i \in DOMAIN commit /\ commit[i].identity = o BY <1>1, <3>2
      <4>2. o \in Identities(commit) BY <4>1 DEF Identities
      <4> QED BY <1>1, <1>3, <3>2, <4>1, <4>2
    <3> QED BY <1>1, <3>1, <3>2
  <2>7. Agrees(o, rows[o])' BY <1>2, <2>6 DEF Agrees
  <2>8. rows[o].state = "Pending" => CommittedAt(o)' \subseteq {rows[o].base + 1}
    <3>1. CASE o \in Identities(commit) BY <1>1, <1>3, <3>1
    <3>2. CASE o \notin Identities(commit) BY <1>1, <2>1, <2>2, <3>2 DEF RowOK
    <3> QED BY <3>1, <3>2
  <2>9. rows[o].state = "Applied" => CommittedAt(o)' # {} BY <1>1, <2>1, <2>2 DEF RowOK
  <2> QED BY <2>4, <2>7, <2>8, <2>9
<1>5. LogOK' BY HistoryGrows
<1>6. StoreInv' BY <1>1, <1>2, <1>4, <1>5 DEF StoreInv
<1>7. ASSUME NEW o \in Op, NEW v \in Nat, NEW row \in Row, MayPut(o, v, row) PROVE MayPut(o, v, row)'
  <2>1. row.base <= Len(log') /\ row.base <= Len(log) BY <1>1, <1>7 DEF MayPut, Row
  <2>2. row.state = "Applied" => v # 0 /\ CommittedAt(o)' # {} BY <1>1, <1>7 DEF MayPut
  <2>3. v = 0 /\ rows[o] = None => CommittedAt(o)' = {} BY <1>1, <1>3, <1>7 DEF MayPut
  <2>4. ASSUME v # 0, v = rowVersion[o], row.state = "Pending"
        PROVE  rows[o].base = row.base \/ CommittedAt(o)' = {}
    <3>1. rows[o].base <= row.base /\ (rows[o].base = row.base \/ CommittedAt(o) = {})
      BY <1>7, <2>4 DEF MayPut
    <3>2. CASE o \in Identities(commit)
      <4>1. rows[o].base = Len(log) BY <1>3, <3>2
      <4>2. row.base \in Nat BY DEF Row
      <4> QED BY <1>1, <2>1, <3>1, <4>1, <4>2
    <3>3. CASE o \notin Identities(commit) BY <1>1, <3>1, <3>3
    <3> QED BY <3>2, <3>3
  <2>5. v # 0 /\ v = rowVersion[o] =>
          /\ rows[o] # None /\ rows[o].request = row.request
          /\ row.state = "Pending" =>
               /\ rows[o].state = "Pending" /\ rows[o].base <= row.base
               /\ rows[o].base = row.base \/ CommittedAt(o)' = {}
    BY <1>7, <2>4 DEF MayPut
  <2>6. v <= rowVersion[o] BY <1>7 DEF MayPut
  <2> QED BY <1>2, <2>1, <2>2, <2>3, <2>5, <2>6 DEF MayPut
<1>8. ASSUME NEW s \in Submission PROVE Held(s)' <=> Held(s) BY <1>2 DEF Held
<1>9. ASSUME NEW s \in Submission, NEW b \in 0..Len(log) PROVE Synced(s, b)'
  BY <1>1 DEF Synced
<1>10. Len(log') # Len(log) /\ Len(log) <= Len(log') /\ Len(log') \in Nat
  <2>1. PICK n, m : n = Len(log) /\ m = Len(log') OBVIOUS
  <2>2. n \in Nat /\ m = n + 1 BY <1>1, <2>1
  <2>3. m # n /\ n <= m /\ m \in Nat BY <2>2
  <2> QED BY <2>1, <2>3
<1>11. \A g \in DOMAIN log : g \in DOMAIN log' /\ log'[g] = log[g] BY <1>1
<1> QED BY <1>6, <1>7, <1>8, <1>9, <1>10, <1>11 DEF Stays

RowWritten(o, row) ==
  /\ log' = log
  /\ rows' = [rows EXCEPT ![o] = row] /\ rowVersion' = [rowVersion EXCEPT ![o] = @ + 1]

\* While its row is pending at the head, an operation is not committed.
LEMMA NotYet ==
  ASSUME StoreInv, NEW o \in Op, rows[o] # None, rows[o].state = "Pending",
         rows[o].base = Len(log)
  PROVE  CommittedAt(o) = {}
<1>1. CommittedAt(o) \subseteq {Len(log) + 1} BY DEF StoreInv, RowOK
<1>2. CommittedAt(o) \subseteq 1..Len(log) /\ Len(log) \in Nat BY DEF CommittedAt, StoreInv
<1> QED BY <1>1, <1>2

\* A row that is written against the version it may be written against.
LEMMA RowLands ==
  ASSUME StoreInv, NEW o \in Op, NEW row \in Row, NEW v \in Nat, MayPut(o, v, row),
         v = RowVersionOf(o), RowWritten(o, row)
  PROVE  StoreInv' /\ Stays(Op)
<1>1. /\ log' = log /\ Len(log) \in Nat /\ rows'[o] = row /\ rowVersion'[o] = rowVersion[o] + 1
      /\ rowVersion[o] \in Nat
      /\ \A p \in Op \ {o} : rows'[p] = rows[p] /\ rowVersion'[p] = rowVersion[p]
      /\ rows' \in [Op -> Row \cup {None}] /\ rowVersion' \in [Op -> Nat]
  BY DEF StoreInv, RowWritten
<1>2. row # None /\ row.base \in Nat BY AbsentAssumption DEF Row
<1>3. \A p : CommittedAt(p)' = CommittedAt(p) BY <1>1 DEF CommittedAt, Identities
<1>4. RowOK(o) BY DEF StoreInv
<1>5. rows[o] = None => CommittedAt(o) = {}
  BY DEF RowVersionOf, MayPut
<1>6. ASSUME rows[o] # None
      PROVE  /\ v # 0 /\ v = rowVersion[o] /\ rows[o].request = row.request
             /\ row.state = "Pending" =>
                  /\ rows[o].state = "Pending" /\ rows[o].base <= row.base
                  /\ rows[o].base = row.base \/ CommittedAt(o) = {}
             /\ CommittedAt(o) \subseteq DOMAIN log /\ Agrees(o, rows[o])
  <2>1. v # 0 /\ v = rowVersion[o] BY <1>4, <1>6 DEF RowVersionOf, RowOK
  <2> QED BY <1>4, <1>6, <2>1 DEF MayPut, RowOK, CommittedAt
<1>7. Agrees(o, row)
  <2>1. CASE rows[o] = None
    <3>1. \A g \in DOMAIN log : o \notin Identities(log[g]) BY <1>5, <2>1 DEF CommittedAt
    <3> QED BY <3>1 DEF Agrees, Identities
  <2>2. CASE rows[o] # None BY <1>6, <2>2 DEF Agrees
  <2> QED BY <2>1, <2>2
<1>8. RowOK(o)'
  <2>1. rowVersion'[o] # 0 /\ row.base <= Len(log) BY <1>1 DEF MayPut
  <2>2. Agrees(o, row)' BY <1>1, <1>7 DEF Agrees
  <2>3. row.state = "Pending" => CommittedAt(o) \subseteq {row.base + 1}
    <3>1. CASE rows[o] = None BY <1>5, <3>1
    <3>2. CASE rows[o] # None BY <1>4, <1>6, <3>2 DEF RowOK
    <3> QED BY <3>1, <3>2
  <2>4. row.state = "Applied" => CommittedAt(o) # {} BY DEF MayPut
  <2>5. Agrees(o, rows[o])'
    <3>1. rows'[o] = row BY <1>1
    <3> QED BY <2>2, <3>1 DEF Agrees
  <2> QED BY <1>1, <1>3, <2>1, <2>3, <2>4, <2>5 DEF RowOK
<1>9. ASSUME NEW p \in Op, p # o PROVE RowOK(p)'
  <2>1. RowOK(p) BY DEF StoreInv
  <2>2. rows'[p] = rows[p] /\ rowVersion'[p] = rowVersion[p] BY <1>1, <1>9
  <2>3. Agrees(p, rows[p])' <=> Agrees(p, rows[p]) BY <1>1, <2>2 DEF Agrees
  <2> QED BY <1>1, <1>3, <2>1, <2>2, <2>3 DEF RowOK
<1>10. LogOK' <=> LogOK
  BY <1>1 DEF LogOK, AdmittedOnce, HeadSeq, Events
<1>11. StoreInv' BY <1>1, <1>8, <1>9, <1>10 DEF StoreInv
<1>12. ASSUME NEW p \in Op, NEW w \in Nat, NEW other \in Row, MayPut(p, w, other)
       PROVE  MayPut(p, w, other)'
  <2>1. CASE p # o
    <3>1. rows'[p] = rows[p] /\ rowVersion'[p] = rowVersion[p] BY <1>1, <2>1
    <3> QED BY <1>1, <1>3, <1>12, <3>1 DEF MayPut
  <2>2. CASE p = o
    <3>1. w < rowVersion'[o] BY <1>1, <1>12, <2>2 DEF MayPut
    <3> QED BY <1>1, <1>2, <1>3, <1>12, <2>2, <3>1 DEF MayPut
  <2> QED BY <2>1, <2>2
<1>13. ASSUME NEW s \in Submission, Held(s) PROVE Held(s)'
  <2>1. CASE s.op # o
    <3>1. rows'[s.op] = rows[s.op] BY <1>1, <2>1 DEF Submission
    <3> QED BY <1>13, <3>1 DEF Held
  <2>2. CASE s.op = o BY <1>1, <1>2, <1>6, <1>13, <2>2 DEF Held
  <2> QED BY <2>1, <2>2
<1>14. ASSUME NEW s \in Submission, NEW b \in 0..Len(log), Synced(s, b) PROVE Synced(s, b)'
  <2>1. SUFFICES ASSUME Len(log) = b
                 PROVE  rows'[s.op].state = "Pending" /\ rows'[s.op].base = b /\ Held(s)'
    BY <1>1 DEF Synced
  <2>2. Held(s) /\ rows[s.op].state = "Pending" /\ rows[s.op].base = b BY <1>14, <2>1 DEF Synced
  <2>3. CASE s.op # o
    <3>1. rows'[s.op] = rows[s.op] BY <1>1, <2>3 DEF Submission
    <3> QED BY <1>13, <2>2, <3>1
  <2>4. CASE s.op = o
    <3>1. rows[o] # None BY <2>2, <2>4 DEF Held
    <3>2. CommittedAt(o) = {} BY <2>1, <2>2, <2>4, <3>1, NotYet
    <3>3. row.state # "Applied" BY <3>2 DEF MayPut
    <3>4. row.state = "Pending" BY <3>3 DEF Row
    <3>5. row.base <= b /\ b <= row.base BY <1>6, <2>1, <2>2, <2>4, <3>1, <3>4 DEF MayPut
    <3>6. row.base = b BY <1>1, <1>2, <2>1, <3>5
    <3> QED BY <1>1, <1>13, <2>2, <2>4, <3>4, <3>6
  <2> QED BY <2>3, <2>4
<1>15. Stays(Op)
  <2>1. /\ Len(log') \in Nat /\ Len(log) <= Len(log')
        /\ \A g \in DOMAIN log : g \in DOMAIN log' /\ log'[g] = log[g]
        /\ Len(log') = Len(log) => log' = log
    BY <1>1
  <2>2. \A p \in Op, w \in Nat, other \in Row : MayPut(p, w, other) => MayPut(p, w, other)'
    BY <1>12
  <2>3. \A s \in Submission : s.op \in Op /\ Held(s) => Held(s)' BY <1>13
  <2>4. \A s \in Submission, b \in 0..Len(log) :
          s.op \in Op /\ Synced(s, b) => Synced(s, b)'
    BY <1>14
  <2> QED BY ONLY <2>1, <2>2, <2>3, <2>4 DEF Stays
<1> QED BY <1>11, <1>15

\* A row that is lost, as far as its operation is nobody's.
LEMMA RowLoses ==
  ASSUME StoreInv, NEW o \in Op, log' = log, rows' = [rows EXCEPT ![o] = None],
         rowVersion' = [rowVersion EXCEPT ![o] = @ + 1]
  PROVE  StoreInv' /\ Stays(Op \ {o})
<1>1. /\ Len(log) \in Nat /\ rows'[o] = None
      /\ \A p \in Op \ {o} : rows'[p] = rows[p] /\ rowVersion'[p] = rowVersion[p]
      /\ rows' \in [Op -> Row \cup {None}] /\ rowVersion' \in [Op -> Nat]
  BY DEF StoreInv
<1>2. \A p : CommittedAt(p)' = CommittedAt(p) BY DEF CommittedAt, Identities
<1>3. ASSUME NEW p \in Op PROVE RowOK(p)'
  <2>1. CASE p = o BY <1>1, <2>1 DEF RowOK
  <2>2. CASE p # o
    <3>1. RowOK(p) /\ rows'[p] = rows[p] /\ rowVersion'[p] = rowVersion[p]
      BY <1>1, <2>2 DEF StoreInv
    <3>2. Agrees(p, rows[p])' <=> Agrees(p, rows[p]) BY <3>1 DEF Agrees
    <3> QED BY <1>2, <3>1, <3>2 DEF RowOK
  <2> QED BY <2>1, <2>2
<1>4. LogOK' <=> LogOK BY DEF LogOK, AdmittedOnce, HeadSeq, Events
<1>5. StoreInv' BY <1>1, <1>3, <1>4 DEF StoreInv
<1>6. ASSUME NEW p \in Op \ {o}, NEW v \in Nat, NEW row \in Row, MayPut(p, v, row)
      PROVE  MayPut(p, v, row)'
  BY <1>1, <1>2, <1>6 DEF MayPut
<1>7. ASSUME NEW s \in Submission, s.op \in Op \ {o}
      PROVE  rows'[s.op] = rows[s.op] /\ (Held(s) => Held(s)')
             /\ \A b : Synced(s, b) => Synced(s, b)'
  <2>1. rows'[s.op] = rows[s.op] BY <1>1, <1>7
  <2> QED BY <2>1 DEF Held, Synced
<1> QED BY <1>1, <1>5, <1>6, <1>7 DEF Stays

\* A step that leaves the store alone.
LEMMA Unchanged ==
  ASSUME StoreInv, UNCHANGED store
  PROVE  StoreInv' /\ Stays(Op)
<1>1. log' = log /\ rows' = rows /\ rowVersion' = rowVersion BY DEF store
<1>2. \A o : CommittedAt(o)' = CommittedAt(o) BY <1>1 DEF CommittedAt, Identities
<1>3. \A o \in Op : RowOK(o)' <=> RowOK(o) BY <1>1, <1>2 DEF RowOK, Agrees
<1>4. LogOK' <=> LogOK BY <1>1 DEF LogOK, AdmittedOnce, HeadSeq, Events
<1>5. StoreInv' BY <1>1, <1>3, <1>4 DEF StoreInv
<1>6. Len(log) \in Nat BY DEF StoreInv
<1> QED BY <1>1, <1>2, <1>5, <1>6 DEF Stays, MayPut, Held, Synced

\* A write that may be on its way, when it arrives.
LEMMA Landing ==
  ASSUME StoreInv, NEW m \in RowMsg \cup LogMsg, MessageOK(m), PutMatches(m), ApplyPut(m)
  PROVE  StoreInv' /\ Stays(Op)
<1>1. CASE m.key = "row"
  <2>1. m \in RowMsg BY <1>1 DEF RowMsg, LogMsg
  <2>2. m.op \in Op /\ m.version \in Nat /\ m.value \in Row BY <2>1 DEF RowMsg
  <2>3. MayPut(m.op, m.version, m.value) /\ m.version = RowVersionOf(m.op)
    BY <1>1 DEF MessageOK, PutMatches
  <2>4. RowWritten(m.op, m.value) BY <1>1 DEF ApplyPut, RowWritten
  <2> QED BY <2>2, <2>3, <2>4, RowLands
<1>2. CASE m.key # "row"
  <2>1. m \in LogMsg BY <1>2 DEF RowMsg, LogMsg
  <2>2. m.value \in Commit \ {<<>>} BY <2>1 DEF LogMsg
  <2>3. MayCommit(m.value, Len(log)) BY <1>2 DEF MessageOK, PutMatches
  <2>4. LogGrows(m.value) BY <1>2 DEF ApplyPut, LogGrows
  <2> QED BY <2>2, <2>3, <2>4, CommitLands
<1> QED BY <1>1, <1>2
-----------------------------------------------------------------------------
(* Who stands by keeps what it knows.                                      *)

\* The fields of a job.
LEMMA JobFields ==
  ASSUME NEW j \in JobType
  PROVE  /\ j.items \in Seq(Submission) /\ j.pending \in Seq(Submission)
         /\ j.at \in Nat \ {0} /\ j.start \in Nat /\ j.base \in Nat /\ j.rounds \in Nat
         /\ j.seen.row \in Row \cup {None} /\ j.seen.version \in Nat
         /\ j.seen = [row |-> j.seen.row, version |-> j.seen.version]
         /\ j.draft \in Commit /\ j.todo \in Seq(Op) /\ j.done \in Done \cup {None}
<1>1. j.seen \in [row : Row \cup {None}, version : Nat] BY DEF JobType
<1>2. j.seen.row \in Row \cup {None} /\ j.seen.version \in Nat
      /\ j.seen = [row |-> j.seen.row, version |-> j.seen.version] BY <1>1
<1> QED BY <1>2 DEF JobType

Uses(j, s) == s \in Range(j.items) \/ s \in Range(j.pending)

\* A task at work has a submission to attend to.
LEMMA NowTypes ==
  ASSUME NEW j \in JobType, Admits(j) \/ j.pending # <<>>
  PROVE  /\ Now(j) \in Submission /\ Now(j).op \in Op /\ Uses(j, Now(j))
         /\ Wanted(j) \in Row /\ Wanted(j).state = "Pending" /\ Wanted(j).base = j.base
         /\ Wanted(j).request = Now(j).payload
         /\ \A s : Uses(j, s) => s \in Submission
<1>1. j.items \in Seq(Submission) /\ j.pending \in Seq(Submission) /\ j.at \in Nat \ {0}
      /\ j.base \in Nat
  BY JobFields
<1>2. Now(j) \in Submission /\ Uses(j, Now(j))
  <2>1. CASE Admits(j)
    <3>1. j.at \in DOMAIN j.items /\ Now(j) = j.items[j.at] BY <1>1, <2>1 DEF Admits, Now
    <3> QED BY <1>1, <3>1 DEF Uses, Range
  <2>2. CASE ~Admits(j)
    <3>1. 1 \in DOMAIN j.pending /\ Now(j) = j.pending[1] BY <1>1, <2>2 DEF Now
    <3> QED BY <1>1, <3>1 DEF Uses, Range
  <2> QED BY <2>1, <2>2
<1>3. Now(j).op \in Op /\ Now(j).payload \in Payloads BY <1>2 DEF Submission
<1>4. Wanted(j) \in Row BY <1>1, <1>3 DEF Wanted, Row
<1>5. \A s : Uses(j, s) => s \in Submission BY <1>1 DEF Uses, Range
<1> QED BY <1>2, <1>3, <1>4, <1>5 DEF Wanted

\* What only grows.
LEMMA Grown ==
  ASSUME StoreInv, NEW O, Stays(O)
  PROVE  /\ \A o : CommittedAt(o) # {} => CommittedAt(o)' # {}
         /\ \A a : Admitted(a) => Admitted(a)'
         /\ Len(log) \in Nat
         /\ Len(log') = Len(log) => HeadSeq' = HeadSeq
<1>1. \A g \in DOMAIN log : g \in DOMAIN log' /\ log'[g] = log[g] BY DEF Stays
<1>2. ASSUME NEW o, CommittedAt(o) # {} PROVE CommittedAt(o)' # {}
  <2>1. PICK g \in DOMAIN log : o \in Identities(log[g]) BY <1>2 DEF CommittedAt
  <2>2. g \in DOMAIN log' /\ o \in Identities(log'[g]) BY <1>1, <2>1
  <2> QED BY <2>2 DEF CommittedAt, Identities
<1>3. ASSUME NEW a, Admitted(a) PROVE Admitted(a)'
  <2>1. a.generation \in DOMAIN log' /\ log'[a.generation] = log[a.generation]
    BY <1>1, <1>3 DEF Admitted
  <2> QED BY <1>3, <2>1 DEF Admitted
<1>4. Len(log') = Len(log) => HeadSeq' = HeadSeq BY DEF Stays, HeadSeq
<1>5. Len(log) \in Nat BY DEF StoreInv
<1> QED BY <1>2, <1>3, <1>4, <1>5

\* A draft stays the draft for its base.
LEMMA DraftStays ==
  ASSUME StoreInv, NEW O, Stays(O), NEW items, NEW commit, NEW base \in Nat, base <= Len(log),
         Len(log) = base => commit = Prepared(items)
  PROVE  (Len(log) = base => commit = Prepared(items))'
<1>1. Len(log) \in Nat /\ (Len(log') = Len(log) => HeadSeq' = HeadSeq) BY Grown
<1>2. SUFFICES ASSUME Len(log') = base PROVE commit = Prepared(items)' OBVIOUS
<1>3. Len(log') = Len(log) BY <1>1, <1>2 DEF Stays
<1> QED BY <1>1, <1>2, <1>3 DEF Prepared

\* A commit that may be put stays one.
LEMMA CommitStays ==
  ASSUME StoreInv, NEW O, Stays(O), NEW commit \in Commit \ {<<>>}, NEW base \in Nat,
         \A i \in DOMAIN commit : commit[i].identity \in O, MayCommit(commit, base)
  PROVE  MayCommit(commit, base)'
<1>1. base <= Len(log) /\ Len(log) \in Nat /\ Len(log') \in Nat /\ Len(log) <= Len(log')
  BY Grown DEF MayCommit, Stays
<1>2. base <= Len(log') BY <1>1
<1> SUFFICES ASSUME Len(log') = base
             PROVE  /\ Distinct(Submitted(commit)) /\ OneSource(Submitted(commit))
                    /\ commit = Prepared(Submitted(commit))'
                    /\ \A s \in Range(Submitted(commit)) : Synced(s, base)'
  BY <1>2 DEF MayCommit
<1>3. Len(log') = Len(log) /\ Len(log) = base BY <1>1
<1>4. Distinct(Submitted(commit)) /\ OneSource(Submitted(commit))
      /\ commit = Prepared(Submitted(commit))
      /\ \A s \in Range(Submitted(commit)) : Synced(s, base)
  BY <1>3 DEF MayCommit
<1>5. HeadSeq' = HeadSeq BY <1>3, Grown
<1>6. commit = Prepared(Submitted(commit))' BY <1>4, <1>5 DEF Prepared
<1>7. ASSUME NEW s \in Range(Submitted(commit)) PROVE Synced(s, base)'
  <2>1. PICK i \in DOMAIN commit : s = [op |-> commit[i].identity, payload |-> commit[i].request]
    BY DEF Range, Submitted
  <2>2. commit[i] \in Admission BY DEF Commit
  <2>3. s \in Submission /\ s.op \in O BY <2>1, <2>2 DEF Admission, Submission
  <2>4. base \in 0..Len(log) BY <1>1
  <2>5. Synced(s, base) BY <1>4
  <2> QED BY <2>3, <2>4, <2>5 DEF Stays
<1> QED BY <1>4, <1>6, <1>7

\* A task keeps what it knows as long as nothing happens to the ids it works on.
LEMMA TaskStays ==
  ASSUME StoreInv, NEW O \in SUBSET Op, Stays(O), NEW k \in Labels, NEW j \in JobType,
         TaskOK(k, j), k # "idle" => \A s : Uses(j, s) => s.op \in O
  PROVE  TaskOK(k, j)'
<1>1. CASE k = "idle" BY <1>1 DEF TaskOK
<1>2. CASE k # "idle"
  <2> DEFINE o == Now(j).op
  <2>1. Shape(j) /\ Phase(k, j) BY <1>2 DEF TaskOK
  <2>2. /\ Now(j) \in Submission /\ o \in O /\ Wanted(j) \in Row
        /\ \A s : Uses(j, s) => s \in Submission /\ s.op \in O
    BY <1>2, <2>1, NowTypes DEF Shape
  <2>3. /\ \A p : CommittedAt(p) # {} => CommittedAt(p)' # {}
        /\ Len(log) \in Nat /\ Len(log') \in Nat /\ Len(log) <= Len(log')
    BY Grown DEF Stays
  <2>4. /\ j.seen.row \in Row \cup {None} /\ j.seen.version \in Nat /\ j.todo \in Seq(Op)
        /\ j.start \in Nat /\ j.base \in Nat /\ j.rounds \in Nat
    BY JobFields
  <2>5. ASSUME NEW s, Uses(j, s), Held(s) PROVE Held(s)' BY <2>2, <2>5 DEF Stays
  <2>6. Shape(j)'
    <3>1. j.start <= Len(log') /\ j.base <= Len(log') BY <2>1, <2>3, <2>4 DEF Shape
    <3>2. \A s \in Range(j.pending) : Held(s) => Held(s)' BY <2>5 DEF Uses
    <3> QED BY <2>1, <3>1, <3>2 DEF Shape
  <2>7. ASSUME NEW p \in O, NEW v \in Nat, NEW row \in Row, MayPut(p, v, row)
        PROVE  MayPut(p, v, row)'
    BY <2>7 DEF Stays
  <2>8. Claiming(j) => Claiming(j)' BY <2>2, <2>4, <2>7 DEF Claiming
  <2>9. ASSUME Drafted(j) PROVE Drafted(j)'
    <3>1. j.base <= Len(log) BY <2>1 DEF Shape
    <3>2. (Len(log) = j.base => j.draft = Prepared(j.pending))'
      BY <2>4, <2>9, <3>1, DraftStays DEF Drafted
    <3> QED BY <2>9, <3>2 DEF Drafted
  <2>10. ASSUME Syncing(j) PROVE Syncing(j)'
    <3>1. Drafted(j)' BY <2>9, <2>10 DEF Syncing
    <3>2. ASSUME NEW s \in Range(j.pending), Synced(s, j.base) PROVE Synced(s, j.base)'
      <4>1. s \in Submission /\ s.op \in O BY <2>2 DEF Uses
      <4>2. j.base \in 0..Len(log) BY <2>1, <2>3, <2>4 DEF Shape
      <4> QED BY <3>2, <4>1, <4>2 DEF Stays
    <3> QED BY <2>10, <3>1, <3>2 DEF Syncing
  <2>11. Phase(k, j)'
    <3>1. CASE k \in {"cached", "scan"} BY <2>1, <2>3, <3>1 DEF Phase
    <3>2. CASE k \in {"readbase", "create"} BY <2>1, <2>2, <2>7, <3>2 DEF Phase
    <3>3. CASE k \in {"resolve", "rebase", "attempt", "write"}
      <4>1. Held(Now(j)) => Held(Now(j))' BY <2>2, <2>5 DEF Stays
      <4> QED BY <2>1, <2>8, <2>9, <3>3, <4>1 DEF Phase
    <3>4. CASE k \in {"syncload", "cas"} BY <2>1, <2>10, <3>4 DEF Phase
    <3>5. CASE k = "syncput"
      <4>1. Syncing(j) /\ j.todo # <<>> /\ MayPut(Head(j.todo), j.seen.version, j.seen.row)
            /\ j.seen.row # None
        BY <2>1, <3>5 DEF Phase
      <4>2. Head(j.todo) \in Range(j.todo) BY <2>4, <4>1 DEF Range
      <4>3. PICK s \in Range(j.pending) : s.op = Head(j.todo) BY <4>1, <4>2 DEF Syncing
      <4>4. Head(j.todo) \in O BY <2>2, <4>3 DEF Uses
      <4>5. MayPut(Head(j.todo), j.seen.version, j.seen.row)' BY <2>4, <2>7, <4>1, <4>4
      <4> QED BY <2>1, <2>10, <3>5, <4>5 DEF Phase
    <3>6. CASE k = "finalize"
      <4>1. j.done.generation \in DOMAIN log' /\ log'[j.done.generation] = log[j.done.generation]
        BY <2>1, <3>6 DEF Phase, Stays
      <4>2. Held(Now(j))'
        <5>1. Held(Now(j)) BY <2>1, <3>6 DEF Phase
        <5> QED BY <2>2, <5>1 DEF Stays
      <4> QED BY <2>1, <3>6, <4>1, <4>2 DEF Phase, Identities
    <3>7. CASE k = "load" BY <3>7 DEF Phase
    <3> QED BY <1>2, <3>1, <3>2, <3>3, <3>4, <3>5, <3>6, <3>7 DEF Labels
  <2> QED BY <1>2, <2>6, <2>11 DEF TaskOK
<1> QED BY <1>1, <1>2

\* So does a message.
LEMMA MessageStays ==
  ASSUME StoreInv, NEW O \in SUBSET Op, Stays(O), NEW m \in RowMsg \cup LogMsg,
         \A o \in Op : Carries(m, o) => o \in O, MessageOK(m)
  PROVE  MessageOK(m)'
<1>1. CASE m.key = "row"
  <2>1. m.op \in Op /\ m.version \in Nat /\ m.value \in Row BY <1>1 DEF RowMsg, LogMsg
  <2>2. m.op \in O BY <1>1, <2>1 DEF Carries
  <2> QED BY <1>1, <2>1, <2>2 DEF MessageOK, Stays
<1>2. CASE m.key # "row"
  <2>1. m.value \in Commit \ {<<>>} /\ m.version \in Nat BY <1>2 DEF RowMsg, LogMsg
  <2>2. ASSUME NEW i \in DOMAIN m.value PROVE m.value[i].identity \in O
    <3>1. m.value[i] \in Admission BY <2>1 DEF Commit
    <3>2. m.value[i].identity \in Op /\ m.value[i].identity \in Identities(m.value)
      BY <3>1 DEF Admission, Identities
    <3> QED BY <1>2, <3>2 DEF Carries
  <2> QED BY <1>2, <2>1, <2>2, CommitStays DEF MessageOK
<1> QED BY <1>1, <1>2
-----------------------------------------------------------------------------
(* The writes that tasks issue.                                            *)

\* What the operators on tasks say of their jobs.
LEMMA Names == \A l \in Task : /\ Current(l) = Now(job[l]) /\ (Admitting(l) <=> Admits(job[l]))
                               /\ Pending(l) = Wanted(job[l])
  BY DEF Current, Now, Admitting, Admits, Pending, Wanted

\* The sequence of the head is a number.
LEMMA HeadType == StoreInv => HeadSeq \in Nat
<1> SUFFICES ASSUME StoreInv PROVE HeadSeq \in Nat OBVIOUS
<1>1. HeadSeq = Len(Events) /\ log \in Seq(Commit \ {<<>>}) BY DEF StoreInv, LogOK
<1>2. Events \in Seq(Event)
  <2>1. CASE log = <<>>
    <3>1. Events = FlattenSeq(<<>>) BY <2>1 DEF Events
    <3>2. FlattenSeq(<<>>) \in Seq(Event)
      <4>1. <<>> \in Seq(Seq(Event)) /\ <<>> \in Seq(Event) OBVIOUS
      <4> QED BY <4>1, FlattenAppend
    <3> QED BY <3>1, <3>2
  <2>2. CASE log # <<>>
    <3>1. log[1] \in Commit \ {<<>>} BY <1>1, <2>2
    <3> QED BY <1>1, <3>1, EventsGrow
  <2> QED BY <2>1, <2>2
<1> QED BY <1>1, <1>2

\* The invariant says of the store what the lemmas above need.
LEMMA Recorded == ASSUME GroupInductive PROVE StoreInv
  BY DEF GroupInductive, Types, StoreInv

\* What is known of the task that takes a step.
LEMMA Acting ==
  ASSUME GroupInductive, NEW l \in Task, pc[l] # "idle"
  PROVE  LET j == job[l] IN
         /\ j \in JobType /\ Shape(j) /\ Phase(pc[l], j) /\ pc[l] \in Labels
         /\ Admits(j) \/ j.pending # <<>>
         /\ Now(j) \in Submission /\ Now(j).op \in Op
  BY NowTypes DEF GroupInductive, Types, TaskOK, Shape

\* A batch has one source.
LEMMA PendingSource ==
  ASSUME NEW j \in JobType, Shape(j), j.pending # <<>>
  PROVE  OneSource(j.pending)
<1>1. CASE j.items = <<>> BY <1>1 DEF Shape, OneSource
<1>2. CASE j.items # <<>>
  <2>1. PICK batch \in Batch : j.items = Unique(batch) BY <1>2 DEF Shape
  <2>2. Range(j.pending) \subseteq Range(j.items) BY <1>2 DEF Shape, Range
  <2> QED BY <2>1, <2>2 DEF OneSource
<1> QED BY <1>1, <1>2

\* The commit a task puts.
LEMMA CommitIssued ==
  ASSUME StoreInv, NEW j \in JobType, Shape(j), Syncing(j), j.todo = <<>>
  PROVE  /\ j.draft \in Commit \ {<<>>} /\ MayCommit(j.draft, j.base)
         /\ Len(log) = j.base => /\ j.draft = Prepared(j.pending)
                                 /\ Identities(j.draft) = {s.op : s \in Range(j.pending)}
<1>1. j.draft \in Commit /\ j.pending \in Seq(Submission) /\ j.draft # <<>>
  BY JobFields DEF Syncing, Drafted
<1>2. j.base <= Len(log) /\ Distinct(j.pending) BY DEF Shape
<1>3. ASSUME Len(log) = j.base
      PROVE  /\ j.draft = Prepared(j.pending) /\ Submitted(j.draft) = j.pending
             /\ Identities(j.draft) = {s.op : s \in Range(j.pending)}
             /\ \A s \in Range(j.pending) : Synced(s, j.base)
             /\ OneSource(j.pending)
  <2>1. j.draft = Prepared(j.pending) BY <1>3 DEF Syncing, Drafted
  <2>2. HeadSeq \in Nat BY HeadType
  <2>3. Range(j.todo) = {} BY DEF Range
  <2>4. \A s \in Range(j.pending) : Synced(s, j.base) BY <2>3 DEF Syncing
  <2>5. j.pending # <<>> BY DEF Shape, Syncing, Drafted
  <2>6. Submitted(j.draft) = j.pending /\ Identities(j.draft) = {s.op : s \in Range(j.pending)}
    BY <1>1, <2>1, <2>2, PreparedCommit
  <2> QED BY <2>1, <2>4, <2>5, <2>6, PendingSource
<1>4. MayCommit(j.draft, j.base) BY <1>2, <1>3 DEF MayCommit
<1> QED BY <1>1, <1>3, <1>4

\* Whatever a task issues may arrive at any time.
LEMMA Issued ==
  ASSUME GroupInductive, NEW l \in Task, Writing(l)
  PROVE  Outgoing(l) \in RowMsg \cup LogMsg /\ MessageOK(Outgoing(l))
<1> DEFINE j == job[l]
           o == Now(j).op
<1>1. pc[l] # "idle" /\ StoreInv BY Recorded DEF Writing
<1>2. /\ j \in JobType /\ Shape(j) /\ Phase(pc[l], j) /\ o \in Op
      /\ Current(l) = Now(j) /\ Pending(l) = Wanted(j)
  BY <1>1, Acting, Names
<1>3. Wanted(j) \in Row BY <1>2, NowTypes DEF Shape
<1>4. /\ j.seen.version \in Nat /\ j.seen.row \in Row \cup {None} /\ j.todo \in Seq(Op)
      /\ j.base \in Nat
  BY <1>2, JobFields
<1>5. \A p \in Op, v \in Nat, row \in Row :
        /\ RowPut(p, v, row) \in RowMsg /\ RowPut(p, v, row).key = "row"
        /\ RowPut(p, v, row).op = p /\ RowPut(p, v, row).version = v
        /\ RowPut(p, v, row).value = row
  BY DEF RowPut, RowMsg
<1> HIDE DEF j, o
<1>6. CASE pc[l] = "create"
  <2>1. Outgoing(l) = RowPut(o, 0, Wanted(j)) BY <1>2, <1>6 DEF Outgoing, o
  <2>2. MayPut(o, 0, Wanted(j)) BY <1>2, <1>6 DEF Phase, o
  <2> QED BY <1>2, <1>3, <1>5, <2>1, <2>2 DEF MessageOK
<1>7. CASE pc[l] \in {"rebase", "write"}
  <2>1. Outgoing(l) = RowPut(o, j.seen.version, Wanted(j)) BY <1>2, <1>7 DEF Outgoing, o, j
  <2>2. MayPut(o, j.seen.version, Wanted(j)) BY <1>2, <1>7 DEF Phase, Claiming, o
  <2> QED BY <1>2, <1>3, <1>4, <1>5, <2>1, <2>2 DEF MessageOK
<1>8. CASE pc[l] = "syncput"
  <2>1. Outgoing(l) = RowPut(Head(j.todo), j.seen.version, j.seen.row) BY <1>8 DEF Outgoing, j
  <2>2. j.todo # <<>> /\ j.seen.row # None /\ MayPut(Head(j.todo), j.seen.version, j.seen.row)
    BY <1>2, <1>8 DEF Phase
  <2>3. Head(j.todo) \in Op BY <1>4, <2>2
  <2> QED BY <1>4, <1>5, <2>1, <2>2, <2>3 DEF MessageOK
<1>9. CASE pc[l] = "cas"
  <2>1. Outgoing(l) = LogPut(j.draft, j.base) BY <1>9 DEF Outgoing, j
  <2>2. j.draft \in Commit \ {<<>>} /\ MayCommit(j.draft, j.base)
    BY <1>1, <1>2, <1>9, CommitIssued DEF Phase
  <2>3. j.draft[1].identity \in Op
    <3>1. j.draft[1] \in Admission BY <2>2 DEF Commit
    <3> QED BY <3>1 DEF Admission
  <2>4. /\ LogPut(j.draft, j.base) \in LogMsg /\ LogPut(j.draft, j.base).key # "row"
        /\ LogPut(j.draft, j.base).value = j.draft /\ LogPut(j.draft, j.base).version = j.base
        /\ LogPut(j.draft, j.base).op = j.draft[1].identity
    BY <1>4, <2>2, <2>3 DEF LogPut, LogMsg
  <2> QED BY <2>1, <2>2, <2>4 DEF MessageOK
<1>10. CASE pc[l] = "finalize"
  <2> DEFINE p == Head(j.todo)
             r == [rows[p] EXCEPT !.state = "Applied", !.generation = j.done.generation]
  <2>1. /\ j.todo # <<>> /\ j.done # None /\ j.done.generation \in DOMAIN log
        /\ Range(j.todo) \subseteq Identities(log[j.done.generation])
    BY <1>2, <1>10 DEF Phase
  <2>2. p \in Op /\ p \in Range(j.todo) BY <1>4, <2>1 DEF Range
  <2>3. rows[p] # None BY <1>10 DEF Writing, j
  <2>4. rows[p] \in Row /\ RowOK(p) /\ rowVersion[p] \in Nat BY <1>1, <2>2, <2>3 DEF StoreInv
  <2>5. j.done.generation \in Nat BY <1>1, <2>1 DEF StoreInv
  <2>6. r \in Row /\ r.state = "Applied" /\ r.request = rows[p].request /\ r.base = rows[p].base
    BY <2>4, <2>5 DEF Row
  <2>7. RowVersionOf(p) = rowVersion[p] /\ rowVersion[p] # 0 /\ rows[p].base <= Len(log)
    BY <2>3, <2>4 DEF RowVersionOf, RowOK
  <2>8. CommittedAt(p) # {} BY <2>1, <2>2 DEF CommittedAt
  <2>9. Outgoing(l) = RowPut(p, RowVersionOf(p), r) BY <1>10 DEF Outgoing, j
  <2> HIDE DEF r
  <2>10. MayPut(p, rowVersion[p], r) BY <2>3, <2>4, <2>6, <2>7, <2>8 DEF MayPut
  <2> HIDE DEF p
  <2> QED BY <1>5, <2>2, <2>4, <2>6, <2>7, <2>9, <2>10 DEF MessageOK
<1> QED BY <1>6, <1>7, <1>8, <1>9, <1>10 DEF Writing
-----------------------------------------------------------------------------
(* What a step does to its task, its producers and the wire.               *)

Moves(l) == \E k \in Labels, j \in JobType : Continue(l, k, j) /\ TaskOK(k, j)'

Told ==
  /\ acks' \subseteq acks \cup {a \in Ack : Admitted(a)'}
  /\ errors' \subseteq errors \cup [op : Op, error : Error \ {"RecoveryFailed"}]

Sent ==
  /\ wire' \subseteq wire \cup {m \in RowMsg \cup LogMsg : MessageOK(m)}
  /\ spent' \in [batches : Nat, appends : Nat, faults : Nat, losses : Nat]

\* A step of one task keeps the invariant if it keeps the store's, moves the
\* task where it may be, and tells its producers what is true.
LEMMA Stepped ==
  ASSUME GroupInductive, NEW l \in Task, StoreInv', Stays(Op), Moves(l), Told, Sent
  PROVE  GroupInductive'
<1>1. StoreInv BY Recorded
<1>2. PICK k \in Labels, j \in JobType : Continue(l, k, j) /\ TaskOK(k, j)' BY DEF Moves
<1>3. /\ pc' = [pc EXCEPT ![l] = k] /\ job' = [job EXCEPT ![l] = j] BY <1>2 DEF Continue
<1>4. pc \in [Task -> Labels] /\ job \in [Task -> JobType] BY DEF GroupInductive, Types
<1>5. wire \subseteq RowMsg \cup LogMsg /\ acks \subseteq Ack /\ errors \subseteq [op : Op, error : Error]
  BY DEF GroupInductive, Types
<1>6. wire' \subseteq RowMsg \cup LogMsg BY <1>5 DEF Sent
<1>7. acks' \subseteq Ack BY <1>5 DEF Told
<1>8. errors' \subseteq [op : Op, error : Error]
  <2>1. [op : Op, error : Error \ {"RecoveryFailed"}] \subseteq [op : Op, error : Error] OBVIOUS
  <2> QED BY <1>5, <2>1 DEF Told
<1>9. Types'
  <2>1. pc' \in [Task -> Labels] /\ job' \in [Task -> JobType] BY <1>3, <1>4
  <2>2. log' \in Seq(Commit \ {<<>>}) /\ rows' \in [Op -> Row \cup {None}]
        /\ rowVersion' \in [Op -> Nat]
    BY DEF StoreInv
  <2>3. spent' \in [batches : Nat, appends : Nat, faults : Nat, losses : Nat] BY DEF Sent
  <2> QED BY <1>6, <1>7, <1>8, <2>1, <2>2, <2>3 DEF Types
<1>10. ASSUME NEW t \in Task PROVE TaskOK(pc[t], job[t])'
  <2>1. CASE t = l
    <3>1. pc'[t] = k /\ job'[t] = j BY <1>3, <1>4, <2>1
    <3>2. PICK kk, jj : kk = pc'[t] /\ jj = job'[t] OBVIOUS
    <3>3. TaskOK(kk, jj)' BY <1>2, <3>1, <3>2
    <3> QED BY <1>2, <3>1
  <2>2. CASE t # l
    <3>1. PICK kk \in Labels, jj \in JobType : kk = pc[t] /\ jj = job[t] BY <1>4
    <3>2. pc'[t] = kk /\ job'[t] = jj BY <1>3, <1>4, <2>2, <3>1
    <3>3. TaskOK(kk, jj) BY <3>1 DEF GroupInductive
    <3>4. kk # "idle" => \A s : Uses(jj, s) => s.op \in Op
      <4>1. HAVE kk # "idle"
      <4>2. Admits(jj) \/ jj.pending # <<>> BY <3>3, <4>1 DEF TaskOK, Shape
      <4>3. \A s : Uses(jj, s) => s \in Submission BY <4>2, NowTypes
      <4> QED BY <4>3 DEF Submission
    <3>5. TaskOK(kk, jj)' BY <1>1, <3>3, <3>4, TaskStays
    <3> QED BY <3>2, <3>5
  <2> QED BY <2>1, <2>2
<1>11. ASSUME NEW m \in wire' PROVE MessageOK(m)'
  <2>1. m \in RowMsg \cup LogMsg /\ MessageOK(m) BY <1>5 DEF Sent, GroupInductive
  <2>2. \A o \in Op : Carries(m, o) => o \in Op OBVIOUS
  <2> QED BY <1>1, <2>1, <2>2, MessageStays
<1>12. ASSUME NEW a \in acks' PROVE Admitted(a)'
  <2>1. CASE a \in acks BY <1>1, <2>1, Grown DEF GroupInductive
  <2>2. CASE a \notin acks BY <2>2 DEF Told
  <2> QED BY <2>1, <2>2
<1>13. NeverFailsClosed'
  <2>1. ASSUME NEW e \in errors' PROVE e.error # "RecoveryFailed"
    BY DEF Told, GroupInductive, NeverFailsClosed
  <2> QED BY <2>1 DEF NeverFailsClosed
<1> QED BY <1>9, <1>10, <1>11, <1>12, <1>13 DEF GroupInductive, StoreInv

\* A quiet step tells nobody anything.
LEMMA QuietTold == Quietly => Told BY DEF Quietly, Told
-----------------------------------------------------------------------------
(* Control flow.                                                           *)

\* A task may always go back to idle.
LEMMA Returns ==
  ASSUME NEW l, Return(l)
  PROVE  Moves(l)
<1>1. Fresh \in JobType
  <2>1. NoRead \in [row : Row \cup {None}, version : Nat] BY DEF NoRead
  <2>2. <<>> \in Seq(Submission) /\ <<>> \in Commit /\ <<>> \in Seq(Op) BY DEF Commit
  <2> QED BY <2>1, <2>2 DEF Fresh, JobType
<1>2. "idle" \in Labels /\ Continue(l, "idle", Fresh) BY DEF Labels, Return
<1>3. TaskOK("idle", Fresh)' BY DEF TaskOK
<1> QED BY <1>1, <1>2, <1>3 DEF Moves

\* A job with the same items, as far on, has the same shape.
LEMMA Reshaped ==
  ASSUME StoreInv, Stays(Op), NEW j \in JobType, Shape(j),
         NEW new \in JobType, new.items = j.items, new.pending = j.pending, new.at = j.at,
         new.start = j.start, new.base <= Len(log'), new.rounds < MaxAttempts
  PROVE  Shape(new)' /\ Now(new) = Now(j) /\ (Admits(new) <=> Admits(j)) /\ Shape(j)'
<1>1. /\ Len(log) \in Nat /\ Len(log') \in Nat /\ Len(log) <= Len(log') BY Grown DEF Stays
<1>2. j.start \in Nat /\ j.base \in Nat /\ new.base \in Nat BY JobFields
<1>3. \A s \in Range(j.pending) : Held(s) => Held(s)'
  <2>1. Admits(j) \/ j.pending # <<>> BY DEF Shape
  <2>2. \A s \in Range(j.pending) : s \in Submission /\ s.op \in Op
    BY <2>1, NowTypes DEF Uses, Submission
  <2> QED BY <2>2 DEF Stays
<1>4. j.start <= Len(log') /\ j.base <= Len(log') BY <1>1, <1>2 DEF Shape
<1>5. Now(new) = Now(j) /\ (Admits(new) <=> Admits(j)) BY DEF Now, Admits
<1>6. Shape(new)'
  <2>1. Distinct(new.items) /\ Distinct(new.pending)
        /\ (Admits(new) \/ new.pending # <<>>)
    BY <1>5 DEF Shape
  <2>2. IF new.items = <<>> THEN Len(new.pending) = 1 /\ Range(new.pending) \subseteq Lone
        ELSE /\ \E batch \in Batch : new.items = Unique(batch)
             /\ \A s \in Range(new.pending) :
                  Held(s)' /\ \E i \in DOMAIN new.items : i < new.at /\ new.items[i] = s
    BY <1>3 DEF Shape
  <2> QED BY <1>4, <2>1, <2>2 DEF Shape
<1>7. Shape(j)' BY <1>3, <1>4 DEF Shape
<1> QED BY <1>5, <1>6, <1>7

\* The job of another round, if there is one.
LEMMA Restarts ==
  ASSUME StoreInv, Stays(Op), NEW j \in JobType, Shape(j), NEW l, job[l] = j, Again(l)
  PROVE  (Moves(l) /\ Quietly) \/ Fail(l, "NotConverged")
<1>1. PICK new : new = [j EXCEPT !.rounds = @ + 1, !.seen = NoRead, !.base = 0, !.draft = <<>>, !.todo = <<>>]
  OBVIOUS
<1>2. /\ j.rounds \in Nat /\ j \in JobType BY JobFields
<1>3. NoRead \in [row : Row \cup {None}, version : Nat] BY DEF NoRead
<1>4. new \in JobType
  <2>1. PICK c, t : c = <<>> /\ t = <<>> OBVIOUS
  <2>2. c \in Commit /\ t \in Seq(Op) BY <2>1 DEF Commit
  <2>3. PICK r : r = j.rounds + 1 OBVIOUS
  <2>4. r \in Nat BY <1>2, <2>3
  <2>5. PICK n : n = NoRead OBVIOUS
  <2>6. n \in [row : Row \cup {None}, version : Nat] BY <1>3, <2>5
  <2>7. new = [j EXCEPT !.rounds = r, !.seen = n, !.base = 0, !.draft = c, !.todo = t]
    BY <1>1, <2>1, <2>3, <2>5
  <2> QED BY <1>2, <2>2, <2>4, <2>6, <2>7 DEF JobType
<1>5. /\ new.items = j.items /\ new.pending = j.pending /\ new.at = j.at
      /\ new.start = j.start /\ new.base = 0
  BY <1>1 DEF JobType
<1>6. CASE new.rounds < MaxAttempts
  <2>1. Continue(l, "load", new) /\ Quietly BY <1>1, <1>6 DEF Again, Quietly
  <2>2. new.base <= Len(log') BY <1>5 DEF Stays
  <2>3. Shape(new)' BY <1>4, <1>5, <1>6, <2>2, Reshaped
  <2>4. Phase("load", new)' BY DEF Phase
  <2>5. TaskOK("load", new)' BY <2>3, <2>4 DEF TaskOK
  <2>6. "load" \in Labels BY DEF Labels
  <2> QED BY <1>4, <2>1, <2>5, <2>6 DEF Moves
<1>7. CASE ~(new.rounds < MaxAttempts) BY <1>1, <1>7 DEF Again
<1> QED BY <1>6, <1>7

\* An item is dealt with, and perhaps joins those to be published.
LEMMA Advances ==
  ASSUME StoreInv, Stays(Op), NEW j \in JobType, Shape(j), Admits(j), NEW l, job[l] = j,
         NEW pending, Advance(l, pending),
         pending = j.pending \/ (pending = Append(j.pending, Now(j)) /\ Held(Now(j))')
  PROVE  Moves(l)
<1>1. /\ j.items \in Seq(Submission) /\ j.pending \in Seq(Submission) /\ j.at \in Nat \ {0}
      /\ j.start \in Nat
  BY JobFields
<1>2. j.at \in DOMAIN j.items /\ Now(j) = j.items[j.at] /\ j.items # <<>>
  BY <1>1 DEF Admits, Now
<1>3. PICK x : x = Now(j) OBVIOUS
<1>4. x \in Submission /\ x = j.items[j.at] BY <1>1, <1>2, <1>3
<1>5. /\ Distinct(j.items) /\ Distinct(j.pending) /\ \E batch \in Batch : j.items = Unique(batch)
      /\ \A s \in Range(j.pending) : Held(s) /\ \E i \in DOMAIN j.items : i < j.at /\ j.items[i] = s
      /\ j.start <= Len(log)
  BY <1>2 DEF Shape
<1>6. \A s \in Range(j.pending) : Held(s)'
  <2>1. \A s \in Range(j.pending) : s \in Submission BY <1>1 DEF Range
  <2>2. \A s \in Submission : s.op \in Op BY DEF Submission
  <2> QED BY <1>5, <2>1, <2>2 DEF Stays
<1>7. /\ pending \in Seq(Submission) /\ Distinct(pending)
      /\ \A s \in Range(pending) :
           Held(s)' /\ \E i \in DOMAIN j.items : i < j.at + 1 /\ j.items[i] = s
  <2>1. CASE pending = j.pending
    <3>1. ASSUME NEW s \in Range(pending)
          PROVE  Held(s)' /\ \E i \in DOMAIN j.items : i < j.at + 1 /\ j.items[i] = s
      <4>1. PICK i \in DOMAIN j.items : i < j.at /\ j.items[i] = s BY <1>5, <2>1
      <4>2. i < j.at + 1 BY <1>1, <4>1
      <4> QED BY <1>6, <2>1, <4>1, <4>2
    <3> QED BY <1>1, <1>5, <2>1, <3>1
  <2>2. CASE pending = Append(j.pending, x) /\ Held(x)'
    <3>1. PICK q, n : q = j.pending /\ n = Len(j.pending) OBVIOUS
    <3>2. /\ n \in Nat /\ DOMAIN q = 1..n /\ DOMAIN pending = 1..(n+1) /\ pending \in Seq(Submission)
          /\ pending[n+1] = x /\ \A i \in 1..n : pending[i] = q[i]
      BY <1>1, <1>4, <2>2, <3>1
    <3>3. ASSUME NEW i \in 1..n PROVE q[i].op # x.op
      <4>1. q[i] \in Range(j.pending) BY <3>1, <3>2 DEF Range
      <4>2. PICK k \in DOMAIN j.items : k < j.at /\ j.items[k] = q[i] BY <1>5, <4>1
      <4>3. k # j.at BY <1>1, <4>2
      <4> QED BY <1>2, <1>4, <1>5, <4>2, <4>3 DEF Distinct
    <3>4. Distinct(q) BY <1>5, <3>1
    <3>5. Distinct(pending)
      <4>1. ASSUME NEW a \in 1..(n+1), NEW b \in 1..(n+1), pending[a].op = pending[b].op
            PROVE  a = b
        <5>1. CASE a \in 1..n /\ b \in 1..n BY <3>2, <3>4, <4>1, <5>1 DEF Distinct
        <5>2. CASE a = n + 1 /\ b \in 1..n BY <3>2, <3>3, <4>1, <5>2
        <5>3. CASE a \in 1..n /\ b = n + 1 BY <3>2, <3>3, <4>1, <5>3
        <5> QED BY <3>2, <5>1, <5>2, <5>3
      <4> QED BY <3>2, <4>1 DEF Distinct
    <3>6. ASSUME NEW s \in Range(pending)
          PROVE  Held(s)' /\ \E i \in DOMAIN j.items : i < j.at + 1 /\ j.items[i] = s
      <4>1. PICK i \in 1..(n+1) : s = pending[i] BY <3>2 DEF Range
      <4>2. CASE i = n + 1
        <5>1. j.at < j.at + 1 /\ s = x BY <1>1, <3>2, <4>1, <4>2
        <5>2. Held(s)' BY <2>2, <5>1
        <5> QED BY <1>2, <1>4, <5>1, <5>2
      <4>3. CASE i \in 1..n
        <5>1. s \in Range(j.pending) BY <3>1, <3>2, <4>1, <4>3 DEF Range
        <5>2. PICK k \in DOMAIN j.items : k < j.at /\ j.items[k] = s BY <1>5, <5>1
        <5>3. k < j.at + 1 BY <1>1, <5>2
        <5> QED BY <1>6, <5>1, <5>2, <5>3
      <4> QED BY <3>2, <4>1, <4>2, <4>3
    <3> QED BY <3>2, <3>5, <3>6
  <2> QED BY <1>3, <2>1, <2>2
<1>8. PICK new : new = [j EXCEPT !.at = @ + 1, !.pending = pending, !.seen = NoRead, !.base = 0, !.rounds = 0]
  OBVIOUS
<1>9. new \in JobType
  <2>1. PICK n, a : n = NoRead /\ a = j.at + 1 OBVIOUS
  <2>2. n \in [row : Row \cup {None}, version : Nat] /\ a \in Nat \ {0} BY <1>1, <2>1 DEF NoRead
  <2>3. new = [j EXCEPT !.at = a, !.pending = pending, !.seen = n, !.base = 0, !.rounds = 0]
    BY <1>8, <2>1
  <2> QED BY <1>7, <2>2, <2>3 DEF JobType
<1>10. /\ new.items = j.items /\ new.pending = pending /\ new.at = j.at + 1
       /\ new.start = j.start /\ new.base = 0 /\ new.rounds = 0
  BY <1>8 DEF JobType
<1>11. CASE new.at > Len(new.items) /\ pending = <<>>
  <2>1. Return(l) BY <1>8, <1>11 DEF Advance
  <2> QED BY <2>1, Returns
<1>12. CASE ~(new.at > Len(new.items) /\ pending = <<>>)
  <2>1. Continue(l, "load", new) BY <1>8, <1>12 DEF Advance
  <2>2. Admits(new) \/ new.pending # <<>> BY <1>1, <1>10, <1>12 DEF Admits
  <2>3. new.start <= Len(log') /\ new.base <= Len(log') /\ new.rounds < MaxAttempts
    BY <1>1, <1>5, <1>10, Grown, BoundAssumption DEF Stays
  <2>4. Shape(new)' BY <1>2, <1>5, <1>7, <1>10, <2>2, <2>3 DEF Shape
  <2>5. Phase("load", new)' BY DEF Phase
  <2>6. TaskOK("load", new)' BY <2>4, <2>5 DEF TaskOK
  <2>7. "load" \in Labels BY DEF Labels
  <2> QED BY <1>9, <2>1, <2>6, <2>7 DEF Moves
<1> QED BY <1>11, <1>12

\* The current item is left.
LEMMA Skips ==
  ASSUME StoreInv, Stays(Op), NEW j \in JobType, Shape(j), Admits(j), NEW l, job[l] = j, Skip(l)
  PROVE  Moves(l)
<1>1. PICK p : p = j.pending OBVIOUS
<1>2. Advance(l, p) /\ (p = j.pending \/ (p = Append(j.pending, Now(j)) /\ Held(Now(j))'))
  BY <1>1 DEF Skip
<1> QED BY <1>2, Advances

\* The current item will be published.
LEMMA Joins ==
  ASSUME StoreInv, Stays(Op), NEW j \in JobType, Shape(j), Admits(j), NEW l \in Task, job[l] = j,
         Join(l), Held(Now(j))'
  PROVE  Moves(l)
<1>1. PICK p : p = Append(j.pending, Now(j)) OBVIOUS
<1>2. Advance(l, p) /\ (p = j.pending \/ (p = Append(j.pending, Now(j)) /\ Held(Now(j))'))
  BY <1>1, Names DEF Join
<1> QED BY <1>2, Advances

\* An error ends the admission of one item, or all of the job.
LEMMA Fails ==
  ASSUME StoreInv, Stays(Op), NEW l \in Task, NEW j \in JobType, Shape(j), job[l] = j,
         NEW error \in Error \ {"RecoveryFailed"}, Fail(l, error)
  PROVE  Moves(l) /\ Told
<1>1. Current(l) = Now(j) /\ (Admitting(l) <=> Admits(j)) BY Names
<1>2. Now(j) \in Submission /\ j.pending \in Seq(Submission) BY NowTypes, JobFields DEF Shape
<1>3. ASSUME NEW S \in SUBSET Submission
      PROVE  Refusals(S, error) \subseteq [op : Op, error : Error \ {"RecoveryFailed"}]
  <2>1. \A s \in S : s.op \in Op BY DEF Submission
  <2> QED BY <2>1 DEF Refusals
<1>4. acks' = acks BY DEF Fail
<1>5. CASE Admits(j)
  <2>1. Skip(l) /\ errors' = errors \cup Refusals({Now(j)}, error) BY <1>1, <1>5 DEF Fail
  <2>2. Moves(l) BY <1>5, <2>1, Skips
  <2>3. Told BY <1>2, <1>3, <1>4, <2>1 DEF Told
  <2> QED BY <2>2, <2>3
<1>6. CASE ~Admits(j)
  <2>1. Return(l) /\ errors' = errors \cup Refusals(Range(j.pending), error)
    BY <1>1, <1>6 DEF Fail
  <2>2. Range(j.pending) \subseteq Submission BY <1>2 DEF Range
  <2>3. Told BY <1>3, <1>4, <2>1, <2>2 DEF Told
  <2> QED BY <2>1, <2>3, Returns
<1> QED BY <1>5, <1>6

\* Another round, or none.
LEMMA Agains ==
  ASSUME StoreInv, Stays(Op), NEW l \in Task, NEW j \in JobType, Shape(j), job[l] = j, Again(l)
  PROVE  Moves(l) /\ Told
<1>1. "NotConverged" \in Error \ {"RecoveryFailed"} BY DEF Error
<1> QED BY <1>1, Restarts, Fails, QuietTold

\* The receipts of a commit are what it admitted.
LEMMA ReceiptsTrue ==
  ASSUME StoreInv, NEW items \in Seq(Submission), NEW g \in DOMAIN log, NEW first \in BOOLEAN
  PROVE  Receipts(items, g, first) \subseteq {a \in Ack : Admitted(a)}
<1> SUFFICES ASSUME NEW s \in Range(items), s.op \in Identities(log[g])
             PROVE  LET a == AdmissionOf(s.op, log[g])
                        r == [op |-> s.op, payload |-> s.payload, generation |-> g, first |-> a.first,
                              last |-> a.last, first_delivery |-> first] IN
                    r \in Ack /\ Admitted(r)
  BY DEF Receipts
<1>1. g \in Nat /\ log[g] \in Seq(Admission) BY DEF StoreInv, Commit
<1>2. PICK a : a = AdmissionOf(s.op, log[g]) OBVIOUS
<1>3. PICK i \in DOMAIN log[g] : log[g][i].identity = s.op BY DEF Identities
<1>4. log[g][i] \in Range(log[g]) BY DEF Range
<1>5. a \in Range(log[g]) /\ a.identity = s.op BY <1>2, <1>3, <1>4 DEF AdmissionOf
<1>6. PICK k \in DOMAIN log[g] : a = log[g][k] BY <1>5 DEF Range
<1>7. a \in Admission BY <1>1, <1>6
<1>8. a.first \in Nat /\ a.last \in Nat BY <1>7 DEF Admission
<1>9. s \in Submission BY DEF Range
<1>10. s.op \in Op /\ s.payload \in Payloads BY <1>9 DEF Submission
<1>11. PICK r : r = [op |-> s.op, payload |-> s.payload, generation |-> g, first |-> a.first,
                     last |-> a.last, first_delivery |-> first]
  OBVIOUS
<1>12. r \in Ack BY <1>1, <1>8, <1>10, <1>11 DEF Ack
<1>13. r.op = s.op /\ r.generation = g /\ r.first = a.first /\ r.last = a.last BY <1>11
<1>14. Admitted(r) BY <1>5, <1>6, <1>13 DEF Admitted
<1> QED BY <1>2, <1>11, <1>12, <1>14

\* The commit that answers a job or its item.
LEMMA Founds ==
  ASSUME StoreInv, Stays(Op), NEW l \in Task, NEW j \in JobType, Shape(j), job[l] = j,
         NEW g \in DOMAIN log, NEW first \in BOOLEAN, Found(l, g, first)
  PROVE  Moves(l) /\ Told
<1>1. Current(l) = Now(j) /\ (Admitting(l) <=> Admits(j)) BY Names
<1>2. Now(j) \in Submission /\ j.pending \in Seq(Submission) BY NowTypes, JobFields DEF Shape
<1>3. ASSUME NEW items \in Seq(Submission)
      PROVE  Receipts(items, g, first) \subseteq {a \in Ack : Admitted(a)'}
  BY ReceiptsTrue, Grown
<1>4. CASE Admits(j)
  <2>1. /\ acks' = acks \cup Receipts(<<Now(j)>>, g, first)
        /\ Skip(l) /\ errors' = errors
    BY <1>1, <1>4 DEF Found
  <2>2. <<Now(j)>> \in Seq(Submission) BY <1>2
  <2>3. Told BY <1>3, <2>1, <2>2 DEF Told
  <2> QED BY <1>4, <2>1, <2>3, Skips
<1>5. CASE ~Admits(j)
  <2>1. /\ acks' = acks \cup Receipts(j.pending, g, first) /\ Return(l)
        /\ errors' = errors \cup Refusals({s \in Range(j.pending) : s.op \notin Identities(log[g])},
                                          "NotAdmitted")
    BY <1>1, <1>5 DEF Found
  <2>2. \A s \in Range(j.pending) : s \in Submission BY <1>2 DEF Range
  <2>3. "NotAdmitted" \in Error \ {"RecoveryFailed"} BY DEF Error
  <2>4. Refusals({s \in Range(j.pending) : s.op \notin Identities(log[g])}, "NotAdmitted")
          \subseteq [op : Op, error : Error \ {"RecoveryFailed"}]
    <3>1. \A s \in Range(j.pending) : s.op \in Op BY <2>2 DEF Submission
    <3> QED BY <2>3, <3>1 DEF Refusals
  <2>5. Told BY <1>2, <1>3, <2>1, <2>4 DEF Told
  <2> QED BY <2>1, <2>5, Returns
<1> QED BY <1>4, <1>5
-----------------------------------------------------------------------------
(* One lemma per action.                                                   *)

\* What is lost on the wire was issued by the task.
LEMMA Sends ==
  ASSUME GroupInductive, NEW l \in Task, NoFault \/ Fault(l)
  PROVE  Sent
<1>1. spent \in [batches : Nat, appends : Nat, faults : Nat, losses : Nat]
  BY DEF GroupInductive, Types
<1>2. \A m \in wire : MessageOK(m) /\ m \in RowMsg \cup LogMsg BY DEF GroupInductive, Types
<1>3. CASE NoFault BY <1>1, <1>2, <1>3 DEF NoFault, Sent
<1>4. CASE Fault(l)
  <2>1. spent' \in [batches : Nat, appends : Nat, faults : Nat, losses : Nat]
    <3>1. PICK n : n = spent.faults + 1 OBVIOUS
    <3>2. n \in Nat BY <1>1, <3>1
    <3>3. spent' = [spent EXCEPT !.faults = n] BY <1>4, <3>1 DEF Fault
    <3> QED BY <1>1, <3>2, <3>3
  <2>2. wire' = wire \/ (Writing(l) /\ wire' = wire \cup {Outgoing(l)}) BY <1>4 DEF Fault
  <2>3. Writing(l) => Outgoing(l) \in RowMsg \cup LogMsg /\ MessageOK(Outgoing(l)) BY Issued
  <2> QED BY <1>2, <2>1, <2>2, <2>3 DEF Sent
<1> QED BY <1>3, <1>4

\* What a task may be after a step that leaves its row alone, it may be before.
LEMMA MovesTo ==
  ASSUME StoreInv, Stays(Op), NEW l, NEW k \in Labels \ {"idle"}, NEW new \in JobType,
         Continue(l, k, new), Shape(new), Phase(k, new)
  PROVE  Moves(l)
<1>1. TaskOK(k, new) BY DEF TaskOK
<1>2. \A s : Uses(new, s) => s.op \in Op
  <2>1. Admits(new) \/ new.pending # <<>> BY DEF Shape
  <2>2. \A s : Uses(new, s) => s \in Submission BY <2>1, NowTypes
  <2> QED BY <2>2 DEF Submission
<1>3. TaskOK(k, new)' BY <1>1, <1>2, TaskStays
<1> QED BY <1>3 DEF Moves

\* A job with the same items has the same shape at any base in the log.
LEMMA SameShape ==
  ASSUME NEW j, Shape(j), NEW new,
         new.items = j.items, new.pending = j.pending, new.at = j.at,
         new.start = j.start, new.base <= Len(log), new.rounds = j.rounds
  PROVE  Shape(new) /\ Now(new) = Now(j) /\ (Admits(new) <=> Admits(j))
BY DEF Shape, Now, Admits

Seeing(j, row, v, base) == [j EXCEPT !.seen = [row |-> row, version |-> v], !.base = base]

\* A job that has seen a row, and may be based elsewhere.
LEMMA JobSeen ==
  ASSUME NEW j \in JobType, NEW row \in Row \cup {None}, NEW v \in Nat, NEW base \in Nat,
         NEW new, new = Seeing(j, row, v, base)
  PROVE  /\ new \in JobType
         /\ new.items = j.items /\ new.pending = j.pending /\ new.at = j.at
         /\ new.start = j.start /\ new.rounds = j.rounds /\ new.base = base
         /\ new.seen.row = row /\ new.seen.version = v
<1>1. PICK n : n = [row |-> row, version |-> v] OBVIOUS
<1>2. n \in [row : Row \cup {None}, version : Nat] /\ n.row = row /\ n.version = v BY <1>1
<1>3. new = [j EXCEPT !.seen = n, !.base = base] BY <1>1 DEF Seeing
<1>4. new \in JobType BY <1>2, <1>3 DEF JobType
<1>5. /\ new.items = j.items /\ new.pending = j.pending /\ new.at = j.at
      /\ new.start = j.start /\ new.rounds = j.rounds /\ new.base = base /\ new.seen = n
  BY <1>3 DEF JobType
<1> QED BY <1>2, <1>4, <1>5

\* A row that exists has been written.
LEMMA Versions ==
  ASSUME StoreInv, NEW o \in Op
  PROVE  /\ RowVersionOf(o) \in Nat /\ rowVersion[o] \in Nat
         /\ rows[o] = None => RowVersionOf(o) = 0
         /\ rows[o] # None => /\ RowVersionOf(o) = rowVersion[o] /\ rowVersion[o] # 0
                              /\ rows[o] \in Row
  BY DEF StoreInv, RowVersionOf, RowOK

\* A row that is loaded may be replaced until somebody else writes it.
LEMMA LoadIntentKeeps ==
  ASSUME GroupInductive, NEW l \in Task, LoadIntent(l)
  PROVE  GroupInductive'
<1>1. PICK j \in JobType : j = job[l] BY DEF GroupInductive, Types
<1>2. Shape(j) /\ Now(j) \in Submission /\ Now(j).op \in Op /\ StoreInv
  BY <1>1, Acting, Recorded DEF LoadIntent
<1>3. Current(l) = Now(j) BY <1>1, Names
<1>4. StoreInv' /\ Stays(Op) BY <1>2, Unchanged DEF LoadIntent
<1>5. Sent BY Sends DEF LoadIntent
<1>6. PICK o : o = Now(j).op OBVIOUS
<1>7. PICK row, v : row = rows[o] /\ v = RowVersionOf(o) OBVIOUS
<1>8. o \in Op /\ v \in Nat /\ row \in Row \cup {None} /\ RowOK(o) /\ j.base \in Nat
  BY <1>2, <1>6, <1>7, Versions, JobFields DEF StoreInv
<1>9. row # None => row \in Row /\ v = rowVersion[o] /\ v # 0 BY <1>2, <1>7, <1>8, Versions
<1>10. PICK seen : seen = [j EXCEPT !.seen = [row |-> row, version |-> v]] OBVIOUS
<1>20. PICK b : b = j.base OBVIOUS
<1>11. seen = Seeing(j, row, v, b) /\ b \in Nat
  BY <1>8, <1>10, <1>20 DEF JobType, Seeing
<1>12. /\ seen \in JobType
       /\ seen.items = j.items /\ seen.pending = j.pending /\ seen.at = j.at
       /\ seen.start = j.start /\ seen.rounds = j.rounds /\ seen.base = j.base
       /\ seen.seen.row = row /\ seen.seen.version = v
  BY <1>8, <1>11, <1>20, JobSeen
<1>13. j.base <= Len(log) BY <1>2 DEF Shape
<1>14. Shape(seen) /\ Now(seen) = Now(j) BY <1>2, <1>12, <1>13, SameShape
<1>15. "scan" \in Labels \ {"idle"} /\ "cached" \in Labels \ {"idle"} /\ "resolve" \in Labels \ {"idle"}
  BY DEF Labels
<1>16. CASE row = None /\ Continue(l, "scan", seen) /\ Quietly
  <2>1. Phase("scan", seen) BY <1>12, <1>16 DEF Phase
  <2>2. Moves(l) BY <1>2, <1>4, <1>12, <1>14, <1>15, <1>16, <2>1, MovesTo
  <2> QED BY <1>4, <1>5, <1>16, <2>2, QuietTold, Stepped
<1>17. CASE row # None /\ Fail(l, "IdempotencyConflict")
  <2>1. "IdempotencyConflict" \in Error \ {"RecoveryFailed"} BY DEF Error
  <2>2. Moves(l) /\ Told BY <1>1, <1>2, <1>4, <1>17, <2>1, Fails
  <2> QED BY <1>4, <1>5, <2>2, Stepped
<1>18. CASE row # None /\ row.state = "Applied" /\ Continue(l, "cached", seen) /\ Quietly
  <2>1. CommittedAt(o) # {} BY <1>7, <1>8, <1>18 DEF RowOK
  <2>2. Phase("cached", seen) BY <1>6, <1>12, <1>14, <1>18, <2>1 DEF Phase
  <2>3. Moves(l) BY <1>2, <1>4, <1>12, <1>14, <1>15, <1>18, <2>2, MovesTo
  <2> QED BY <1>4, <1>5, <1>18, <2>3, QuietTold, Stepped
<1>19. CASE /\ row # None /\ row.request = Now(j).payload /\ row.state = "Pending"
            /\ Continue(l, "resolve", [seen EXCEPT !.base = row.base]) /\ Quietly
  <2>1. PICK new, base : new = [seen EXCEPT !.base = row.base] /\ base = row.base OBVIOUS
  <2>2. new = Seeing(j, row, v, base)
    BY <1>10, <2>1 DEF JobType, Seeing
  <2>3. row.base \in Nat /\ row \in Row /\ base \in Nat BY <1>9, <1>19, <2>1 DEF Row
  <2>14. v \in Nat /\ row \in Row \cup {None} /\ base \in Nat BY <1>8, <2>3
  <2>15. /\ new \in JobType
         /\ new.items = j.items /\ new.pending = j.pending /\ new.at = j.at
         /\ new.start = j.start /\ new.rounds = j.rounds /\ new.base = base
         /\ new.seen.row = row /\ new.seen.version = v
    BY <2>2, <2>14, JobSeen
  <2>4. /\ new \in JobType
        /\ new.items = j.items /\ new.pending = j.pending /\ new.at = j.at
        /\ new.start = j.start /\ new.rounds = j.rounds /\ new.base = row.base
        /\ new.seen.row = row /\ new.seen.version = v
    BY <2>1, <2>15
  <2>5. row.base <= Len(log) /\ CommittedAt(o) \subseteq {row.base + 1}
    BY <1>7, <1>8, <1>19 DEF RowOK
  <2>6. Shape(new) /\ Now(new) = Now(j) BY <1>2, <2>4, <2>5, SameShape
  <2>7. Held(Now(new)) BY <1>6, <1>7, <1>19, <2>6 DEF Held
  <2>8. /\ Wanted(new).state = "Pending" /\ Wanted(new).base = row.base
        /\ Wanted(new).request = row.request
    BY <1>19, <2>4, <2>6 DEF Wanted
  <2>9. MayPut(o, v, Wanted(new))
    BY <1>7, <1>8, <1>9, <1>19, <2>3, <2>5, <2>8 DEF MayPut
  <2>10. Claiming(new) BY <1>6, <1>9, <1>19, <2>4, <2>6, <2>9 DEF Claiming
  <2>11. Phase("resolve", new) BY <2>7, <2>10 DEF Phase
  <2>12. Continue(l, "resolve", new) BY <1>19, <2>1
  <2>13. Moves(l) BY <1>2, <1>4, <1>15, <2>4, <2>6, <2>11, <2>12, MovesTo
  <2> QED BY <1>4, <1>5, <1>19, <2>13, QuietTold, Stepped
<1> QED BY <1>1, <1>3, <1>6, <1>7, <1>10, <1>16, <1>17, <1>18, <1>19 DEF LoadIntent

\* A job with another base.
LEMMA JobBased ==
  ASSUME NEW j \in JobType, NEW base \in Nat, NEW new, new = [j EXCEPT !.base = base]
  PROVE  /\ new \in JobType
         /\ new.items = j.items /\ new.pending = j.pending /\ new.at = j.at
         /\ new.start = j.start /\ new.rounds = j.rounds /\ new.base = base
         /\ new.seen = j.seen /\ new.draft = j.draft /\ new.todo = j.todo
<1>1. new \in JobType BY DEF JobType
<1> QED BY <1>1 DEF JobType

\* The commit an applied row names answers, or the log is scanned.
LEMMA TryCachedAppliedKeeps ==
  ASSUME GroupInductive, NEW l \in Task, TryCachedApplied(l)
  PROVE  GroupInductive'
<1>1. PICK j \in JobType : j = job[l] BY DEF GroupInductive, Types
<1>2. Shape(j) /\ Phase("cached", j) /\ StoreInv BY <1>1, Acting, Recorded DEF TryCachedApplied
<1>3. Current(l) = Now(j) BY <1>1, Names
<1>4. StoreInv' /\ Stays(Op) BY <1>2, Unchanged DEF TryCachedApplied
<1>5. Sent BY Sends DEF TryCachedApplied
<1>6. CASE \E g \in DOMAIN log : Found(l, g, FALSE)
  <2>1. PICK g \in DOMAIN log : Found(l, g, FALSE) BY <1>6
  <2>2. PICK f \in BOOLEAN : f = FALSE OBVIOUS
  <2>3. Moves(l) /\ Told BY <1>1, <1>2, <1>4, <2>1, <2>2, Founds
  <2> QED BY <1>4, <1>5, <2>3, Stepped
<1>7. CASE Continue(l, "scan", j) /\ Quietly
  <2>1. Phase("scan", j) BY <1>2 DEF Phase
  <2>2. "scan" \in Labels \ {"idle"} BY DEF Labels
  <2>3. Moves(l) BY <1>2, <1>4, <1>7, <2>1, <2>2, MovesTo
  <2> QED BY <1>4, <1>5, <1>7, <2>3, QuietTold, Stepped
<1> QED BY <1>1, <1>6, <1>7 DEF TryCachedApplied, CommittedAt, Goto

\* The scan leaves no row to create for an operation that is committed.
LEMMA RecoverWithoutIntentKeeps ==
  ASSUME GroupInductive, NEW l \in Task, RecoverWithoutIntent(l)
  PROVE  GroupInductive'
<1>1. PICK j \in JobType : j = job[l] BY DEF GroupInductive, Types
<1>2. Shape(j) /\ Phase("scan", j) /\ StoreInv /\ Now(j) \in Submission /\ Now(j).op \in Op
      /\ (Admits(j) \/ j.pending # <<>>)
  BY <1>1, Acting, Recorded DEF RecoverWithoutIntent
<1>3. Current(l) = Now(j) /\ (Admitting(l) <=> Admits(j)) BY <1>1, Names
<1>4. StoreInv' /\ Stays(Op) BY <1>2, Unchanged DEF RecoverWithoutIntent
<1>5. Sent BY Sends DEF RecoverWithoutIntent
<1>6. PICK o : o = Now(j).op OBVIOUS
<1>7. o \in Op /\ rowVersion[o] \in Nat /\ j.start \in Nat /\ j.base \in Nat
  BY <1>2, <1>6, JobFields DEF StoreInv
<1>8. CASE \E g \in DOMAIN log : Found(l, g, FALSE)
  <2>1. PICK g \in DOMAIN log : Found(l, g, FALSE) BY <1>8
  <2>2. PICK f \in BOOLEAN : f = FALSE OBVIOUS
  <2>3. Moves(l) /\ Told BY <1>1, <1>2, <1>4, <2>1, <2>2, Founds
  <2> QED BY <1>4, <1>5, <2>3, Stepped
<1>9. CASE Fail(l, "IdempotencyConflict")
  <2>1. "IdempotencyConflict" \in Error \ {"RecoveryFailed"} BY DEF Error
  <2>2. Moves(l) /\ Told BY <1>1, <1>2, <1>4, <1>9, <2>1, Fails
  <2> QED BY <1>4, <1>5, <2>2, Stepped
<1>10. CASE CommittedAt(o) = {} /\ Quietly /\ Continue(l, "create", [j EXCEPT !.base = j.start])
  <2>1. PICK b, new : b = j.start /\ new = [j EXCEPT !.base = b] OBVIOUS
  <2>2. b \in Nat /\ b <= Len(log) BY <1>2, <1>7, <2>1 DEF Shape
  <2>3. /\ new \in JobType
        /\ new.items = j.items /\ new.pending = j.pending /\ new.at = j.at
        /\ new.start = j.start /\ new.rounds = j.rounds /\ new.base = b
    BY <2>1, <2>2, JobBased
  <2>4. Shape(new) /\ Now(new) = Now(j) BY <1>2, <2>2, <2>3, SameShape
  <2>5. Wanted(new).state = "Pending" /\ Wanted(new).base = b BY <2>3 DEF Wanted
  <2>6. MayPut(o, 0, Wanted(new)) BY <1>7, <1>10, <2>2, <2>5 DEF MayPut
  <2>7. Phase("create", new) BY <1>6, <2>4, <2>6 DEF Phase
  <2>8. "create" \in Labels \ {"idle"} BY DEF Labels
  <2>9. Moves(l) BY <1>2, <1>4, <1>10, <2>1, <2>3, <2>4, <2>7, <2>8, MovesTo
  <2> QED BY <1>4, <1>5, <1>10, <2>9, QuietTold, Stepped
<1>11. CASE CommittedAt(o) = {} /\ Quietly /\ Continue(l, "readbase", j)
  <2>1. j.seen.row = None BY <1>2, <1>6, <1>11 DEF Phase
  <2>2. j.base <= Len(log) BY <1>2 DEF Shape
  <2>3. Wanted(j).state = "Pending" /\ Wanted(j).base = j.base BY DEF Wanted
  <2>4. MayPut(o, 0, Wanted(j)) BY <1>7, <1>11, <2>2, <2>3 DEF MayPut
  <2>5. Phase("readbase", j) BY <1>6, <2>1, <2>4 DEF Phase
  <2>6. "readbase" \in Labels \ {"idle"} BY DEF Labels
  <2>7. Moves(l) BY <1>2, <1>4, <1>11, <2>5, <2>6, MovesTo
  <2> QED BY <1>4, <1>5, <1>11, <2>7, QuietTold, Stepped
<1> QED
  <2>1. \/ \E g \in CommittedAt(o) : Found(l, g, FALSE)
        \/ Fail(l, "IdempotencyConflict")
        \/ CommittedAt(o) = {} /\ Quietly /\ Continue(l, "create", [j EXCEPT !.base = j.start])
        \/ CommittedAt(o) = {} /\ Quietly /\ Continue(l, "readbase", j)
    BY <1>1, <1>3, <1>6 DEF RecoverWithoutIntent, Goto
  <2>2. CommittedAt(o) \subseteq DOMAIN log BY DEF CommittedAt
  <2> QED BY <1>8, <1>9, <1>10, <1>11, <2>1, <2>2

\* The head is where a new row will be pending.
LEMMA ReadBaseKeeps ==
  ASSUME GroupInductive, NEW l \in Task, ReadBase(l)
  PROVE  GroupInductive'
<1>1. PICK j \in JobType : j = job[l] BY DEF GroupInductive, Types
<1>2. Shape(j) /\ Phase("readbase", j) /\ StoreInv BY <1>1, Acting, Recorded DEF ReadBase
<1>3. StoreInv' /\ Stays(Op) BY <1>2, Unchanged DEF ReadBase
<1>4. Sent BY Sends DEF ReadBase
<1>5. PICK o : o = Now(j).op OBVIOUS
<1>6. j.seen.row = None /\ MayPut(o, 0, Wanted(j)) BY <1>2, <1>5 DEF Phase
<1>7. PICK b, new : b = Len(log) /\ new = [j EXCEPT !.base = b] OBVIOUS
<1>8. b \in Nat /\ b <= Len(log) BY <1>2, <1>7 DEF StoreInv
<1>9. Continue(l, "create", new) /\ Quietly BY <1>1, <1>6, <1>7 DEF ReadBase
<1>10. /\ new \in JobType
       /\ new.items = j.items /\ new.pending = j.pending /\ new.at = j.at
       /\ new.start = j.start /\ new.rounds = j.rounds /\ new.base = b
  BY <1>7, <1>8, JobBased
<1>11. Shape(new) /\ Now(new) = Now(j) BY <1>2, <1>8, <1>10, SameShape
<1>12. Wanted(new).state = "Pending" /\ Wanted(new).base = b /\ Wanted(j).state = "Pending"
  BY <1>10 DEF Wanted
<1>13. MayPut(o, 0, Wanted(new)) BY <1>6, <1>8, <1>12 DEF MayPut
<1>14. Phase("create", new) BY <1>5, <1>11, <1>13 DEF Phase
<1>15. "create" \in Labels \ {"idle"} BY DEF Labels
<1>16. Moves(l) BY <1>2, <1>3, <1>9, <1>10, <1>11, <1>14, <1>15, MovesTo
<1> QED BY <1>3, <1>4, <1>9, <1>16, QuietTold, Stepped

\* The write of a task lands as any message would.
LEMMA Puts ==
  ASSUME GroupInductive, NEW l \in Task, Writing(l), PutMatches(Outgoing(l)), ApplyPut(Outgoing(l))
  PROVE  StoreInv' /\ Stays(Op)
BY Issued, Landing, Recorded

\* A task that writes its own row holds it.
LEMMA OwnPut ==
  ASSUME GroupInductive, NEW l \in Task, NEW j \in JobType, j = job[l],
         pc[l] \in {"create", "rebase", "write"},
         PutMatches(Outgoing(l)), ApplyPut(Outgoing(l))
  PROVE  /\ StoreInv' /\ Stays(Op) /\ log' = log /\ Held(Now(j))'
         /\ rows'[Now(j).op] = Wanted(j)
<1>1. Writing(l) BY DEF Writing
<1>2. Now(j) \in Submission /\ Now(j).op \in Op /\ Wanted(j) \in Row
      /\ Wanted(j).request = Now(j).payload
  BY Acting, NowTypes DEF Shape
<1>3. PICK o : o = Now(j).op OBVIOUS
<1>4. Outgoing(l).key = "row" /\ Outgoing(l).op = o /\ Outgoing(l).value = Wanted(j)
  <2>1. PICK v : Outgoing(l) = RowPut(o, v, Wanted(j)) BY <1>3, Names DEF Outgoing
  <2> QED BY <2>1 DEF RowPut
<1>5. log' = log /\ rows' = [rows EXCEPT ![o] = Wanted(j)] BY <1>4 DEF ApplyPut
<1>6. rows'[o] = Wanted(j) BY <1>2, <1>3, <1>5 DEF GroupInductive, Types
<1>7. Wanted(j) # None BY <1>2, AbsentAssumption
<1>8. Held(Now(j))' BY <1>2, <1>3, <1>6, <1>7 DEF Held
<1> QED BY <1>1, <1>3, <1>5, <1>6, <1>8, Puts

\* A row is created, or the round is lost.
LEMMA CreateIntentKeeps ==
  ASSUME GroupInductive, NEW l \in Task, CreateIntent(l)
  PROVE  GroupInductive'
<1>1. PICK j \in JobType : j = job[l] BY DEF GroupInductive, Types
<1>2. Shape(j) /\ StoreInv BY <1>1, Acting, Recorded DEF CreateIntent
<1>3. Sent BY Sends DEF CreateIntent
<1>4. CASE Again(l) /\ UNCHANGED store
  <2>1. StoreInv' /\ Stays(Op) BY <1>2, <1>4, Unchanged
  <2>2. Moves(l) /\ Told BY <1>1, <1>2, <1>4, <2>1, Agains
  <2> QED BY <1>3, <2>1, <2>2, Stepped
<1>5. CASE /\ PutMatches(Outgoing(l)) /\ ApplyPut(Outgoing(l))
           /\ IF Admitting(l) THEN Join(l) /\ Quietly ELSE Again(l)
  <2>1. StoreInv' /\ Stays(Op) /\ Held(Now(j))' BY <1>1, <1>5, OwnPut DEF CreateIntent
  <2>2. Moves(l) /\ Told
    <3>1. CASE Admits(j)
      <4>1. Join(l) /\ Quietly BY <1>1, <1>5, <3>1, Names
      <4> QED BY <1>1, <1>2, <2>1, <3>1, <4>1, Joins, QuietTold
    <3>2. CASE ~Admits(j)
      <4>1. Again(l) BY <1>1, <1>5, <3>2, Names
      <4> QED BY <1>1, <1>2, <2>1, <4>1, Agains
    <3> QED BY <3>1, <3>2
  <2> QED BY <1>3, <2>1, <2>2, Stepped
<1> QED BY <1>4, <1>5 DEF CreateIntent

\* A row that is not committed where it is pending may be moved to the head.
LEMMA Raised ==
  ASSUME StoreInv, NEW o \in Op, NEW v \in Nat, NEW row \in Row, NEW new \in Row, v # 0,
         MayPut(o, v, row), row.state = "Pending", row.base + 1 \notin CommittedAt(o),
         new.state = "Pending", new.request = row.request, new.base = Len(log)
  PROVE  MayPut(o, v, new)
<1>1. Len(log) \in Nat /\ RowOK(o) BY DEF StoreInv
<1>2. v <= rowVersion[o] /\ row.base <= Len(log) BY DEF MayPut
<1>3. ASSUME v = rowVersion[o]
      PROVE  /\ rows[o] # None /\ rows[o].request = new.request
             /\ rows[o].state = "Pending" /\ rows[o].base <= new.base /\ CommittedAt(o) = {}
  <2>1. /\ rows[o] # None /\ rows[o].request = row.request
        /\ rows[o].state = "Pending" /\ rows[o].base <= row.base
        /\ (rows[o].base = row.base \/ CommittedAt(o) = {})
    BY <1>3 DEF MayPut
  <2>2. CommittedAt(o) \subseteq {rows[o].base + 1} BY <1>1, <2>1 DEF RowOK
  <2>3. CommittedAt(o) = {} BY <2>1, <2>2
  <2>4. rows[o].base <= Len(log) BY <1>1, <2>1 DEF RowOK
  <2> QED BY <2>1, <2>3, <2>4
<1> QED BY <1>1, <1>2, <1>3 DEF MayPut

\* A pending row is settled by the commit after its base, or moved to the head.
LEMMA ResolvePendingKeeps ==
  ASSUME GroupInductive, NEW l \in Task, ResolvePending(l)
  PROVE  GroupInductive'
<1>1. PICK j \in JobType : j = job[l] BY DEF GroupInductive, Types
<1>2. Shape(j) /\ Phase("resolve", j) /\ StoreInv /\ Now(j) \in Submission /\ Now(j).op \in Op
      /\ (Admits(j) \/ j.pending # <<>>)
  BY <1>1, Acting, Recorded DEF ResolvePending
<1>3. Current(l) = Now(j) /\ (Admitting(l) <=> Admits(j)) BY <1>1, Names
<1>4. StoreInv' /\ Stays(Op) BY <1>2, Unchanged DEF ResolvePending
<1>5. Sent BY Sends DEF ResolvePending
<1>6. PICK o, b : o = Now(j).op /\ b = j.base OBVIOUS
<1>7. /\ o \in Op /\ b \in Nat /\ b <= Len(log) /\ Len(log) \in Nat /\ DOMAIN log = 1..Len(log)
      /\ j.seen.version \in Nat
  <2>1. j.seen.version \in Nat /\ j.base \in Nat BY JobFields
  <2>2. j.base <= Len(log) BY <1>2 DEF Shape
  <2>3. Len(log) \in Nat /\ DOMAIN log = 1..Len(log) BY <1>2 DEF StoreInv
  <2> QED BY <1>2, <1>6, <2>1, <2>2, <2>3
<1>8. Held(Now(j)) /\ j.seen.version # 0 /\ MayPut(o, j.seen.version, Wanted(j))
  BY <1>2, <1>6 DEF Phase, Claiming
<1>9. ~(b > Len(log)) BY <1>7
<1>10. CASE b < Len(log) /\ o \in Identities(log[b + 1]) /\ Settle(l, b + 1) /\ Quietly
  <2>1. PICK d, t : d = [generation |-> b + 1, first |-> FALSE] /\ t = <<o>> OBVIOUS
  <2>2. b + 1 \in Nat \ {0} /\ b + 1 \in DOMAIN log BY <1>7, <1>10
  <2>3. d \in Done /\ d.generation = b + 1 /\ t \in Seq(Op) /\ t # <<>> /\ Range(t) = {o}
    <3>1. DOMAIN t = {1} /\ t[1] = o BY <2>1
    <3> QED BY <1>7, <2>1, <2>2, <3>1 DEF Done, Range
  <2>4. d # None BY <2>3, AbsentAssumption DEF Done
  <2>5. PICK new : new = [j EXCEPT !.todo = t, !.done = d] OBVIOUS
  <2>6. new \in JobType BY <2>3, <2>5 DEF JobType
  <2>7. /\ new.items = j.items /\ new.pending = j.pending /\ new.at = j.at /\ new.start = j.start
        /\ new.rounds = j.rounds /\ new.base = b /\ new.todo = t /\ new.done = d
    BY <1>6, <2>5 DEF JobType
  <2>8. Shape(new) /\ Now(new) = Now(j) BY <1>2, <1>7, <2>7, SameShape
  <2>9. Phase("finalize", new) BY <1>8, <1>10, <2>2, <2>3, <2>4, <2>7, <2>8 DEF Phase
  <2>10. Continue(l, "finalize", new) BY <1>1, <1>3, <1>6, <1>10, <2>1, <2>5 DEF Settle
  <2>11. "finalize" \in Labels \ {"idle"} BY DEF Labels
  <2>12. Moves(l) BY <1>2, <1>4, <2>6, <2>8, <2>9, <2>10, <2>11, MovesTo
  <2> QED BY <1>4, <1>5, <1>10, <2>12, QuietTold, Stepped
<1>11. CASE Fail(l, "IdempotencyConflict")
  <2>1. "IdempotencyConflict" \in Error \ {"RecoveryFailed"} BY DEF Error
  <2>2. Moves(l) /\ Told BY <1>1, <1>2, <1>4, <1>11, <2>1, Fails
  <2> QED BY <1>4, <1>5, <2>2, Stepped
<1>12. CASE Admits(j) /\ b = Len(log) /\ Join(l) /\ Quietly
  <2>1. Held(Now(j))' BY <1>2, <1>4, <1>8 DEF Stays
  <2>2. Moves(l) BY <1>1, <1>2, <1>4, <1>12, <2>1, Joins
  <2> QED BY <1>4, <1>5, <1>12, <2>2, QuietTold, Stepped
<1>13. ASSUME NEW k \in {"rebase", "attempt"}, Continue(l, k, [j EXCEPT !.base = Len(log)]),
              ~(b < Len(log) /\ o \in Identities(log[b + 1])),
              k = "rebase" <=> Admits(j), Quietly
       PROVE  GroupInductive'
  <2>1. PICK h, new : h = Len(log) /\ new = [j EXCEPT !.base = h] OBVIOUS
  <2>2. h \in Nat /\ h <= Len(log) BY <1>7, <2>1
  <2>3. /\ new \in JobType
        /\ new.items = j.items /\ new.pending = j.pending /\ new.at = j.at
        /\ new.start = j.start /\ new.rounds = j.rounds /\ new.base = h /\ new.seen = j.seen
    BY <2>1, <2>2, JobBased
  <2>4. Shape(new) /\ Now(new) = Now(j) /\ (Admits(new) <=> Admits(j))
    BY <1>2, <2>2, <2>3, SameShape
  <2>5. /\ Wanted(new) \in Row /\ Wanted(new).base = h /\ Wanted(new).state = "Pending"
        /\ Wanted(new).request = Wanted(j).request /\ Wanted(j) \in Row
        /\ Wanted(j).state = "Pending" /\ Wanted(j).base = b
    <3>1. Wanted(j) \in Row /\ Wanted(j).state = "Pending" /\ Wanted(j).base = b
          /\ Wanted(j).request = Now(j).payload
      BY <1>2, <1>6, NowTypes
    <3>2. Wanted(new) \in Row /\ Wanted(new).base = h /\ Wanted(new).state = "Pending"
          /\ Wanted(new).request = Now(new).payload
      BY <2>3, <2>4, NowTypes DEF Shape
    <3> QED BY <2>4, <3>1, <3>2
  <2>6. b + 1 \notin CommittedAt(o) BY <1>7, <1>13 DEF CommittedAt
  <2>7. MayPut(o, j.seen.version, Wanted(new)) BY <1>2, <1>7, <1>8, <2>1, <2>5, <2>6, Raised
  <2>8. Claiming(new) BY <1>6, <1>8, <2>3, <2>4, <2>7 DEF Claiming
  <2>9. Phase(k, new) BY <1>13, <2>4, <2>8 DEF Phase
  <2>10. k \in Labels \ {"idle"} BY DEF Labels
  <2>11. Moves(l) BY <1>2, <1>4, <1>13, <2>1, <2>3, <2>4, <2>9, <2>10, MovesTo
  <2> QED BY <1>4, <1>5, <1>13, <2>11, QuietTold, Stepped
<1> QED
  <2>1. \/ b < Len(log) /\ o \in Identities(log[b + 1]) /\ Settle(l, b + 1) /\ Quietly
        \/ Fail(l, "IdempotencyConflict")
        \/ /\ ~(b < Len(log) /\ o \in Identities(log[b + 1])) /\ Quietly
           /\ IF Admitting(l) THEN AdmitPending(l)
                              ELSE Continue(l, "attempt", [j EXCEPT !.base = Len(log)])
    BY <1>1, <1>3, <1>6, <1>9 DEF ResolvePending
  <2>2. AdmitPending(l) <=> IF b = Len(log) THEN Join(l)
                            ELSE Continue(l, "rebase", [j EXCEPT !.base = Len(log)])
    BY <1>1, <1>6 DEF AdmitPending
  <2>3. CASE /\ ~(b < Len(log) /\ o \in Identities(log[b + 1])) /\ Quietly
             /\ IF Admitting(l) THEN AdmitPending(l)
                                ELSE Continue(l, "attempt", [j EXCEPT !.base = Len(log)])
    <3>1. CASE Admits(j) /\ b = Len(log) BY <1>3, <1>12, <2>2, <2>3, <3>1
    <3>2. CASE Admits(j) /\ b # Len(log)
      <4>1. PICK k \in {"rebase", "attempt"} : k = "rebase" OBVIOUS
      <4>2. Continue(l, k, [j EXCEPT !.base = Len(log)]) BY <1>3, <2>2, <2>3, <3>2, <4>1
      <4> QED BY <1>13, <2>3, <3>2, <4>1, <4>2
    <3>3. CASE ~Admits(j)
      <4>1. PICK k \in {"rebase", "attempt"} : k = "attempt" OBVIOUS
      <4>2. Continue(l, k, [j EXCEPT !.base = Len(log)]) BY <1>3, <2>3, <3>3, <4>1
      <4> QED BY <1>13, <2>3, <3>3, <4>1, <4>2
    <3> QED BY <3>1, <3>2, <3>3
  <2> QED BY <1>10, <1>11, <2>1, <2>3

\* A pending row is moved up, or the round is lost.
LEMMA RebaseKeeps ==
  ASSUME GroupInductive, NEW l \in Task, Rebase(l)
  PROVE  GroupInductive'
<1>1. PICK j \in JobType : j = job[l] BY DEF GroupInductive, Types
<1>2. Shape(j) /\ Phase("rebase", j) /\ StoreInv BY <1>1, Acting, Recorded DEF Rebase
<1>3. Sent BY Sends DEF Rebase
<1>4. Admits(j) BY <1>2 DEF Phase
<1>5. CASE Again(l) /\ UNCHANGED store
  <2>1. StoreInv' /\ Stays(Op) BY <1>2, <1>5, Unchanged
  <2>2. Moves(l) /\ Told BY <1>1, <1>2, <1>5, <2>1, Agains
  <2> QED BY <1>3, <2>1, <2>2, Stepped
<1>6. CASE PutMatches(Outgoing(l)) /\ ApplyPut(Outgoing(l)) /\ Join(l) /\ Quietly
  <2>1. StoreInv' /\ Stays(Op) /\ Held(Now(j))' BY <1>1, <1>6, OwnPut DEF Rebase
  <2>2. Moves(l) BY <1>1, <1>2, <1>4, <1>6, <2>1, Joins
  <2> QED BY <1>3, <1>6, <2>1, <2>2, QuietTold, Stepped
<1> QED BY <1>5, <1>6 DEF Rebase

\* The commit is drafted while the head is the base.
LEMMA BeginAttemptKeeps ==
  ASSUME GroupInductive, NEW l \in Task, BeginAttempt(l)
  PROVE  GroupInductive'
<1>1. PICK j \in JobType : j = job[l] BY DEF GroupInductive, Types
<1>2. Shape(j) /\ Phase("attempt", j) /\ StoreInv BY <1>1, Acting, Recorded DEF BeginAttempt
<1>3. StoreInv' /\ Stays(Op) BY <1>2, Unchanged DEF BeginAttempt
<1>4. Sent BY Sends DEF BeginAttempt
<1>5. CASE Again(l)
  <2>1. Moves(l) /\ Told BY <1>1, <1>2, <1>3, <1>5, Agains
  <2> QED BY <1>3, <1>4, <2>1, Stepped
<1>6. CASE Continue(l, "write", [j EXCEPT !.draft = Prepared(j.pending)]) /\ Quietly
  <2>1. PICK c, new : c = Prepared(j.pending) /\ new = [j EXCEPT !.draft = c] OBVIOUS
  <2>2. ~Admits(j) /\ Claiming(j) /\ j.pending # <<>> /\ j.base <= Len(log)
    BY <1>2 DEF Phase, Shape
  <2>3. HeadSeq \in Nat /\ j.pending \in Seq(Submission) BY <1>2, HeadType, JobFields
  <2>4. c \in Seq(Admission) /\ Len(c) = Len(j.pending) BY <2>1, <2>3, PreparedCommit
  <2>5. c \in Commit /\ c # <<>> BY <2>2, <2>3, <2>4 DEF Commit
  <2>6. new \in JobType BY <2>1, <2>5 DEF JobType
  <2>7. /\ new.items = j.items /\ new.pending = j.pending /\ new.at = j.at /\ new.start = j.start
        /\ new.rounds = j.rounds /\ new.base = j.base /\ new.seen = j.seen /\ new.draft = c
    BY <2>1 DEF JobType
  <2>8. Shape(new) /\ Now(new) = Now(j) /\ (Admits(new) <=> Admits(j))
    BY <1>2, <2>2, <2>7, SameShape
  <2>9. Wanted(new) = Wanted(j) BY <2>7, <2>8 DEF Wanted
  <2>10. Drafted(new) BY <2>1, <2>2, <2>5, <2>7, <2>8 DEF Drafted
  <2>11. Claiming(new) BY <2>2, <2>7, <2>8, <2>9 DEF Claiming
  <2>12. Phase("write", new) BY <2>10, <2>11 DEF Phase
  <2>13. "write" \in Labels \ {"idle"} BY DEF Labels
  <2>14. Moves(l) BY <1>2, <1>3, <1>6, <2>1, <2>6, <2>8, <2>12, <2>13, MovesTo
  <2> QED BY <1>3, <1>4, <1>6, <2>14, QuietTold, Stepped
<1> QED BY <1>1, <1>5, <1>6 DEF BeginAttempt

\* What a task may be after a step, by its label.
LEMMA MovesInto ==
  ASSUME NEW l, NEW k \in Labels \ {"idle"}, NEW new \in JobType, Continue(l, k, new),
         Shape(new)', Phase(k, new)'
  PROVE  Moves(l)
<1>1. TaskOK(k, new)' BY DEF TaskOK
<1> QED BY <1>1 DEF Moves

\* The rows still to be synced are those of the companions.
LEMMA OtherIds ==
  ASSUME NEW items \in Seq(Submission), items # <<>>
  PROVE  /\ Ids(items) \in Seq(Op) /\ Ids(items) # <<>>
         /\ \A o \in Range(Ids(items)) : \E s \in Range(items) : s.op = o
         /\ Tail(Ids(items)) \in Seq(Op)
         /\ Tail(Ids(items)) # <<>> => Len(items) # 1
         /\ \A o \in Range(Tail(Ids(items))) : \E s \in Range(items) : s.op = o
         /\ \A s \in Range(items) : s = items[1] \/ s.op \in Range(Tail(Ids(items)))
<1>1. PICK n, q, t : n = Len(items) /\ q = Ids(items) /\ t = Tail(Ids(items)) OBVIOUS
<1>2. n \in Nat \ {0} /\ DOMAIN items = 1..n /\ \A i \in 1..n : items[i] \in Submission BY <1>1
<1>3. \A i \in 1..n : items[i].op \in Op BY <1>2 DEF Submission
<1>4. q \in [1..n -> Op] /\ \A i \in 1..n : q[i] = items[i].op BY <1>1, <1>2, <1>3 DEF Ids
<1>5. q \in Seq(Op) /\ Len(q) = n /\ q # <<>> BY <1>2, <1>4
<1>6. t \in Seq(Op) /\ Len(t) = n - 1 /\ \A i \in 1..(n-1) : t[i] = q[i + 1]
  BY <1>1, <1>2, <1>5
<1>7. \A i \in 1..n : items[i] \in Range(items) BY <1>2 DEF Range
<1>8. \A o \in Range(q) : \E s \in Range(items) : s.op = o
  <2> TAKE o \in Range(q)
  <2>1. PICK i \in 1..n : o = q[i] BY <1>4 DEF Range
  <2> QED BY <1>4, <1>7, <2>1
<1>9. \A o \in Range(t) : \E s \in Range(items) : s.op = o
  <2> TAKE o \in Range(t)
  <2>1. PICK i \in 1..(n-1) : o = t[i] BY <1>6 DEF Range
  <2>2. i + 1 \in 1..n BY <1>2
  <2> QED BY <1>4, <1>6, <1>7, <2>1, <2>2
<1>10. \A s \in Range(items) : s = items[1] \/ s.op \in Range(t)
  <2> TAKE s \in Range(items)
  <2>1. PICK i \in 1..n : s = items[i] BY <1>2 DEF Range
  <2>2. CASE i # 1
    <3>1. i - 1 \in 1..(n-1) /\ (i - 1) + 1 = i BY <1>2, <2>2
    <3>2. t[i - 1] = s.op /\ i - 1 \in DOMAIN t BY <1>4, <1>6, <2>1, <3>1
    <3> QED BY <3>2 DEF Range
  <2> QED BY <2>1, <2>2
<1>11. t # <<>> => n # 1 BY <1>2, <1>6
<1> QED BY <1>1, <1>5, <1>6, <1>8, <1>9, <1>10, <1>11

\* The leader's row is written; the companions' rows are still to be synced.
LEMMA WriteIntentKeeps ==
  ASSUME GroupInductive, NEW l \in Task, WriteIntent(l)
  PROVE  GroupInductive'
<1>1. PICK j \in JobType : j = job[l] BY DEF GroupInductive, Types
<1>2. Shape(j) /\ Phase("write", j) /\ StoreInv BY <1>1, Acting, Recorded DEF WriteIntent
<1>3. Sent BY Sends DEF WriteIntent
<1>4. CASE Again(l) /\ UNCHANGED store
  <2>1. StoreInv' /\ Stays(Op) BY <1>2, <1>4, Unchanged
  <2>2. Moves(l) /\ Told BY <1>1, <1>2, <1>4, <2>1, Agains
  <2> QED BY <1>3, <2>1, <2>2, Stepped
<1>5. CASE /\ PutMatches(Outgoing(l)) /\ ApplyPut(Outgoing(l)) /\ Quietly
           /\ Continue(l, IF Tail(Ids(j.pending)) = <<>> THEN "cas" ELSE "syncload",
                       [j EXCEPT !.todo = Tail(Ids(j.pending))])
  <2>1. /\ StoreInv' /\ Stays(Op) /\ log' = log /\ Held(Now(j))'
        /\ rows'[Now(j).op] = Wanted(j)
    BY <1>1, <1>5, OwnPut DEF WriteIntent
  <2>2. Drafted(j) /\ ~Admits(j) BY <1>2 DEF Phase, Drafted
  <2>3. j.pending # <<>> /\ j.pending \in Seq(Submission) /\ j.base \in Nat
        /\ j.base <= Len(log) /\ j.rounds < MaxAttempts
    BY <1>2, <2>2, JobFields DEF Shape
  <2>4. PICK t, new : t = Tail(Ids(j.pending)) /\ new = [j EXCEPT !.todo = t] OBVIOUS
  <2>5. /\ t \in Seq(Op) /\ (t # <<>> => Len(j.pending) # 1)
        /\ \A o \in Range(t) : \E s \in Range(j.pending) : s.op = o
        /\ \A s \in Range(j.pending) : s = j.pending[1] \/ s.op \in Range(t)
    BY <2>3, <2>4, OtherIds
  <2>6. new \in JobType BY <2>4, <2>5 DEF JobType
  <2>7. /\ new.items = j.items /\ new.pending = j.pending /\ new.at = j.at /\ new.start = j.start
        /\ new.rounds = j.rounds /\ new.base = j.base /\ new.draft = j.draft /\ new.todo = t
    BY <2>4 DEF JobType
  <2>8. Shape(new)' /\ (Admits(new) <=> Admits(j))
    <3>1. new.base <= Len(log') /\ new.rounds < MaxAttempts BY <2>1, <2>3, <2>7
    <3> QED BY <1>2, <2>1, <2>6, <2>7, <3>1, Reshaped
  <2>9. Drafted(new)'
    <3>1. Len(log) = j.base => j.draft = Prepared(j.pending) BY <2>2 DEF Drafted
    <3>2. (Len(log) = j.base => j.draft = Prepared(j.pending))'
      BY <1>2, <2>1, <2>3, <3>1, DraftStays
    <3> QED BY <2>2, <2>7, <2>8, <3>2 DEF Drafted
  <2>10. Synced(j.pending[1], j.base)'
    <3>1. Now(j) = j.pending[1] BY <2>2 DEF Now
    <3>2. Wanted(j).state = "Pending" /\ Wanted(j).base = j.base BY DEF Wanted
    <3> QED BY <2>1, <3>1, <3>2 DEF Synced
  <2>11. Syncing(new)'
    <3>1. t # <<>> => new.items # <<>> BY <1>2, <2>5, <2>7 DEF Shape
    <3>2. \A s \in Range(j.pending) : s.op \in Range(t) \/ Synced(s, j.base)' BY <2>5, <2>10
    <3> QED BY <2>5, <2>7, <2>9, <3>1, <3>2 DEF Syncing
  <2>12. Moves(l)
    <3>1. CASE t = <<>>
      <4>1. "cas" \in Labels \ {"idle"} /\ Continue(l, "cas", new) BY <1>5, <2>4, <3>1 DEF Labels
      <4>2. Phase("cas", new)' BY <2>7, <2>11, <3>1 DEF Phase
      <4> QED BY <2>6, <2>8, <4>1, <4>2, MovesInto
    <3>2. CASE t # <<>>
      <4>1. "syncload" \in Labels \ {"idle"} /\ Continue(l, "syncload", new)
        BY <1>5, <2>4, <3>2 DEF Labels
      <4>2. Phase("syncload", new)' BY <2>7, <2>11, <3>2 DEF Phase
      <4> QED BY <2>6, <2>8, <4>1, <4>2, MovesInto
    <3> QED BY <3>1, <3>2
  <2> QED BY <1>3, <1>5, <2>1, <2>12, QuietTold, Stepped
<1> QED BY <1>1, <1>4, <1>5 DEF WriteIntent

\* A companion's row is there, and in step or the round is lost.
LEMMA SyncLoadKeeps ==
  ASSUME GroupInductive, NEW l \in Task, SyncLoad(l)
  PROVE  GroupInductive'
<1>1. PICK j \in JobType : j = job[l] BY DEF GroupInductive, Types
<1>2. Shape(j) /\ Phase("syncload", j) /\ StoreInv BY <1>1, Acting, Recorded DEF SyncLoad
<1>3. StoreInv' /\ Stays(Op) BY <1>2, Unchanged DEF SyncLoad
<1>4. Sent BY Sends DEF SyncLoad
<1>5. Syncing(j) /\ j.todo # <<>> /\ j.items # <<>> /\ j.todo \in Seq(Op)
  BY <1>2, JobFields DEF Phase, Syncing
<1>6. PICK o : o = Head(j.todo) OBVIOUS
<1>7. o \in Op /\ o \in Range(j.todo) BY <1>5, <1>6 DEF Range
<1>8. PICK s \in Range(j.pending) : s.op = o BY <1>5, <1>7 DEF Syncing
<1>9. rows[o] # None BY <1>2, <1>5, <1>8 DEF Shape, Held
<1>10. PICK row, v : row = rows[o] /\ v = RowVersionOf(o) OBVIOUS
<1>11. row \in Row /\ v \in Nat /\ v # 0 /\ v = rowVersion[o] /\ RowOK(o)
  BY <1>2, <1>7, <1>9, <1>10, Versions DEF StoreInv
<1>12. CASE Again(l)
  <2>1. Moves(l) /\ Told BY <1>1, <1>2, <1>3, <1>12, Agains
  <2> QED BY <1>3, <1>4, <2>1, Stepped
<1>13. CASE /\ InStep(row, j.base) /\ Quietly
            /\ Continue(l, "syncput", [j EXCEPT !.seen = [row |-> row, version |-> v]])
  <2>1. PICK b, new : b = j.base /\ new = [j EXCEPT !.seen = [row |-> row, version |-> v]] OBVIOUS
  <2>2. b \in Nat /\ b <= Len(log) BY <1>2, <2>1, JobFields DEF Shape
  <2>3. new = Seeing(j, row, v, b) BY <2>1 DEF JobType, Seeing
  <2>14. row \in Row \cup {None} /\ v \in Nat /\ b \in Nat BY <1>11, <2>2
  <2>4. /\ new \in JobType
        /\ new.items = j.items /\ new.pending = j.pending /\ new.at = j.at
        /\ new.start = j.start /\ new.rounds = j.rounds /\ new.base = b
        /\ new.seen.row = row /\ new.seen.version = v
    BY <2>3, <2>14, JobSeen
  <2>5. new.draft = j.draft /\ new.todo = j.todo BY <2>1 DEF JobType
  <2>6. Shape(new) /\ (Admits(new) <=> Admits(j)) BY <1>2, <2>2, <2>4, SameShape
  <2>7. Drafted(new) BY <1>5, <2>1, <2>4, <2>5, <2>6 DEF Syncing, Drafted
  <2>8. Syncing(new) BY <1>5, <2>1, <2>4, <2>5, <2>7 DEF Syncing
  <2>9. row.state = "Pending" /\ row.base = b /\ row # None
    BY <1>9, <1>10, <1>13, <2>1 DEF InStep
  <2>10. MayPut(o, v, row) BY <1>10, <1>11, <2>2, <2>9 DEF MayPut
  <2>11. Phase("syncput", new) BY <1>5, <1>6, <1>11, <2>4, <2>5, <2>8, <2>9, <2>10 DEF Phase
  <2>12. "syncput" \in Labels \ {"idle"} BY DEF Labels
  <2>13. Moves(l) BY <1>2, <1>3, <1>13, <2>1, <2>4, <2>6, <2>11, <2>12, MovesTo
  <2> QED BY <1>3, <1>4, <1>13, <2>13, QuietTold, Stepped
<1> QED BY <1>1, <1>6, <1>9, <1>10, <1>12, <1>13 DEF SyncLoad

\* A companion is synced.
LEMMA SyncPutKeeps ==
  ASSUME GroupInductive, NEW l \in Task, SyncPut(l)
  PROVE  GroupInductive'
<1>1. PICK j \in JobType : j = job[l] BY DEF GroupInductive, Types
<1>2. Shape(j) /\ Phase("syncput", j) /\ StoreInv BY <1>1, Acting, Recorded DEF SyncPut
<1>3. Sent BY Sends DEF SyncPut
<1>4. CASE Again(l) /\ UNCHANGED store
  <2>1. StoreInv' /\ Stays(Op) BY <1>2, <1>4, Unchanged
  <2>2. Moves(l) /\ Told BY <1>1, <1>2, <1>4, <2>1, Agains
  <2> QED BY <1>3, <2>1, <2>2, Stepped
<1>5. CASE /\ PutMatches(Outgoing(l)) /\ ApplyPut(Outgoing(l)) /\ Quietly
           /\ Continue(l, IF Tail(j.todo) = <<>> THEN "cas" ELSE "syncload",
                       [j EXCEPT !.todo = Tail(j.todo), !.seen = NoRead])
  <2>1. StoreInv' /\ Stays(Op) BY <1>5, Puts DEF SyncPut, Writing
  <2>2. /\ Syncing(j) /\ j.todo # <<>> /\ j.seen.version # 0 /\ j.seen.row # None
        /\ j.seen.row.state = "Pending" /\ j.seen.row.base = j.base
        /\ MayPut(Head(j.todo), j.seen.version, j.seen.row)
    BY <1>2 DEF Phase
  <2>3. /\ j.todo \in Seq(Op) /\ j.pending \in Seq(Submission) /\ j.base \in Nat
        /\ j.base <= Len(log) /\ j.rounds < MaxAttempts /\ Len(log) \in Nat
        /\ j.seen.row \in Row \cup {None}
    <3>1. j.base <= Len(log) /\ j.rounds < MaxAttempts BY <1>2 DEF Shape
    <3>2. Len(log) \in Nat BY <1>2 DEF StoreInv
    <3> QED BY <3>1, <3>2, JobFields
  <2>4. PICK o, row, v : o = Head(j.todo) /\ row = j.seen.row /\ v = j.seen.version OBVIOUS
  <2>5. o \in Op /\ o \in Range(j.todo) /\ row \in Row BY <2>2, <2>3, <2>4 DEF Range
  <2>6. Outgoing(l) = RowPut(o, v, row) BY <1>1, <2>4 DEF Outgoing, SyncPut
  <2>7. v = RowVersionOf(o) /\ log' = log /\ rows' = [rows EXCEPT ![o] = row]
    BY <1>5, <2>6 DEF PutMatches, ApplyPut, RowPut
  <2>8. rows'[o] = row BY <1>2, <2>5, <2>7 DEF StoreInv
  <2>9. ~Admits(j) /\ Drafted(j) /\ j.items # <<>> BY <2>2 DEF Syncing, Drafted
  <2>10. PICK t, n, new : t = Tail(j.todo) /\ n = NoRead /\ new = [j EXCEPT !.todo = t, !.seen = n]
    OBVIOUS
  <2>11. PICK q, k : q = j.todo /\ k = Len(q) OBVIOUS
  <2>12. q \in Seq(Op) /\ k \in Nat \ {0} /\ q[1] = o /\ DOMAIN q = 1..k BY <2>2, <2>3, <2>4, <2>11
  <2>13. t \in Seq(Op) /\ Len(t) = k - 1 /\ \A i \in 1..(k-1) : t[i] = q[i+1]
    BY <2>10, <2>11, <2>12
  <2>14. \A p \in Range(q) : p = o \/ p \in Range(t)
    <3> TAKE p \in Range(q)
    <3>1. PICK i \in 1..k : p = q[i] BY <2>12 DEF Range
    <3>2. CASE i # 1
      <4>1. i - 1 \in 1..(k-1) /\ (i - 1) + 1 = i BY <2>12, <3>2
      <4>2. t[i - 1] = p /\ i - 1 \in DOMAIN t BY <2>13, <3>1, <4>1
      <4> QED BY <4>2 DEF Range
    <3> QED BY <2>12, <3>1, <3>2
  <2>15. \A p \in Range(t) : p \in Range(q)
    <3> TAKE p \in Range(t)
    <3>1. PICK i \in 1..(k-1) : p = t[i] BY <2>13 DEF Range
    <3>2. i + 1 \in 1..k BY <2>12
    <3> QED BY <2>12, <2>13, <3>1, <3>2 DEF Range
  <2>16. new \in JobType
    <3>1. n \in [row : Row \cup {None}, version : Nat] BY <2>10 DEF NoRead
    <3> QED BY <2>10, <2>13, <3>1 DEF JobType
  <2>17. /\ new.items = j.items /\ new.pending = j.pending /\ new.at = j.at /\ new.start = j.start
         /\ new.rounds = j.rounds /\ new.base = j.base /\ new.draft = j.draft /\ new.todo = t
    BY <2>10 DEF JobType
  <2>18. Shape(new)' /\ (Admits(new) <=> Admits(j))
    <3>1. new.base <= Len(log') /\ new.rounds < MaxAttempts BY <2>3, <2>7, <2>17
    <3> QED BY <1>2, <2>1, <2>16, <2>17, <3>1, Reshaped
  <2>19. Drafted(new)'
    <3>1. Len(log) = j.base => j.draft = Prepared(j.pending) BY <2>9 DEF Drafted
    <3>2. (Len(log) = j.base => j.draft = Prepared(j.pending))'
      BY <1>2, <2>1, <2>3, <3>1, DraftStays
    <3> QED BY <2>9, <2>17, <2>18, <3>2 DEF Drafted
  <2>20. ASSUME NEW s \in Range(j.pending), s.op \notin Range(t) PROVE Synced(s, j.base)'
    <3>1. s \in Submission /\ s.op \in Op
      <4>1. s \in Submission BY <2>3 DEF Range
      <4> QED BY <4>1 DEF Submission
    <3>2. CASE s.op = o
      <4>1. Held(s) BY <1>2, <2>9 DEF Shape
      <4>2. rows[o] # None /\ rows[o].request = s.payload BY <3>2, <4>1 DEF Held
      <4>3. v = rowVersion[o] BY <2>7, <4>2 DEF RowVersionOf
      <4>4. row.request = s.payload BY <2>2, <2>4, <4>2, <4>3 DEF MayPut
      <4>5. rows'[s.op] # None /\ rows'[s.op].request = s.payload
            /\ rows'[s.op].state = "Pending" /\ rows'[s.op].base = j.base
        BY <2>2, <2>4, <2>8, <3>2, <4>4
      <4> QED BY <4>5 DEF Synced, Held
    <3>3. CASE s.op # o
      <4>1. s.op \notin Range(j.todo) BY <2>11, <2>14, <2>20, <3>3
      <4>2. Synced(s, j.base) BY <2>2, <4>1 DEF Syncing
      <4>3. j.base \in 0..Len(log) BY <2>3
      <4> QED BY <2>1, <3>1, <4>2, <4>3 DEF Stays
    <3> QED BY <3>2, <3>3
  <2>21. Syncing(new)'
    <3>1. \A p \in Range(t) : \E s \in Range(j.pending) : s.op = p
      BY <2>2, <2>11, <2>15 DEF Syncing
    <3>2. \A s \in Range(j.pending) : s.op \in Range(t) \/ Synced(s, j.base)' BY <2>20
    <3> QED BY <2>9, <2>17, <2>19, <3>1, <3>2 DEF Syncing
  <2>22. Moves(l)
    <3>1. CASE t = <<>>
      <4>1. "cas" \in Labels \ {"idle"} /\ Continue(l, "cas", new) BY <1>5, <2>10, <3>1 DEF Labels
      <4>2. Phase("cas", new)' BY <2>17, <2>21, <3>1 DEF Phase
      <4> QED BY <2>16, <2>18, <4>1, <4>2, MovesInto
    <3>2. CASE t # <<>>
      <4>1. "syncload" \in Labels \ {"idle"} /\ Continue(l, "syncload", new)
        BY <1>5, <2>10, <3>2 DEF Labels
      <4>2. Phase("syncload", new)' BY <2>17, <2>21, <3>2 DEF Phase
      <4> QED BY <2>16, <2>18, <4>1, <4>2, MovesInto
    <3> QED BY <3>1, <3>2
  <2> QED BY <1>3, <1>5, <2>1, <2>22, QuietTold, Stepped
<1> QED BY <1>1, <1>4, <1>5 DEF SyncPut

\* All that is pending is committed at once.
LEMMA CasLogKeeps ==
  ASSUME GroupInductive, NEW l \in Task, CasLog(l)
  PROVE  GroupInductive'
<1>1. PICK j \in JobType : j = job[l] BY DEF GroupInductive, Types
<1>2. Shape(j) /\ Phase("cas", j) /\ StoreInv BY <1>1, Acting, Recorded DEF CasLog
<1>3. Sent BY Sends DEF CasLog
<1>4. CASE Again(l) /\ UNCHANGED store
  <2>1. StoreInv' /\ Stays(Op) BY <1>2, <1>4, Unchanged
  <2>2. Moves(l) /\ Told BY <1>1, <1>2, <1>4, <2>1, Agains
  <2> QED BY <1>3, <2>1, <2>2, Stepped
<1>5. CASE /\ PutMatches(Outgoing(l)) /\ ApplyPut(Outgoing(l)) /\ Quietly
           /\ Continue(l, "finalize",
                       [j EXCEPT !.todo = Ids(j.pending),
                                 !.done = [generation |-> Len(log) + 1, first |-> TRUE]])
  <2>1. StoreInv' /\ Stays(Op) BY <1>5, Puts DEF CasLog, Writing
  <2>2. Syncing(j) /\ j.todo = <<>> /\ Drafted(j) /\ ~Admits(j)
    BY <1>2 DEF Phase, Syncing, Drafted
  <2>3. /\ j.pending # <<>> /\ j.pending \in Seq(Submission) /\ j.base \in Nat
        /\ j.base <= Len(log) /\ j.rounds < MaxAttempts
    BY <1>2, <2>2, JobFields DEF Shape
  <2>4. Outgoing(l) = LogPut(j.draft, j.base) BY <1>1 DEF Outgoing, CasLog
  <2>5. Len(log) = j.base /\ log' = Append(log, j.draft)
        /\ rows' = rows /\ rowVersion' = rowVersion
    BY <1>5, <2>4 DEF PutMatches, ApplyPut, LogPut
  <2>6. j.draft \in Commit \ {<<>>} /\ Identities(j.draft) = {s.op : s \in Range(j.pending)}
    BY <1>2, <2>2, <2>5, CommitIssued
  <2>7. /\ Len(log) \in Nat /\ DOMAIN log' = 1..(Len(log) + 1) /\ log'[Len(log) + 1] = j.draft
    BY <1>2, <2>5, <2>6, Growing DEF LogGrows
  <2>8. PICK t, g : t = Ids(j.pending) /\ g = Len(log) + 1 OBVIOUS
  <2>9. PICK d : d = [generation |-> g, first |-> TRUE] OBVIOUS
  <2>10. g \in Nat \ {0} /\ g \in DOMAIN log' /\ log'[g] = j.draft BY <2>7, <2>8
  <2>11. d \in Done /\ d.generation = g BY <2>9, <2>10 DEF Done
  <2>12. d # None BY <2>11, AbsentAssumption DEF Done
  <2>13. /\ t \in Seq(Op) /\ t # <<>>
         /\ \A o \in Range(t) : \E s \in Range(j.pending) : s.op = o
    BY <2>3, <2>8, OtherIds
  <2>14. PICK new : new = [j EXCEPT !.todo = t, !.done = d] OBVIOUS
  <2>15. new \in JobType BY <2>11, <2>13, <2>14 DEF JobType
  <2>16. /\ new.items = j.items /\ new.pending = j.pending /\ new.at = j.at /\ new.start = j.start
         /\ new.rounds = j.rounds /\ new.base = j.base /\ new.todo = t /\ new.done = d
    BY <2>14 DEF JobType
  <2>17. Shape(new)' /\ Now(new) = Now(j)
    <3>1. new.base <= Len(log') /\ new.rounds < MaxAttempts BY <2>1, <2>3, <2>5, <2>16 DEF Stays
    <3> QED BY <1>2, <2>1, <2>15, <2>16, <3>1, Reshaped
  <2>18. Range(t) \subseteq Identities(j.draft) BY <2>6, <2>13
  <2>23. Held(Now(j))'
    <3>1. Now(j) = j.pending[1] /\ j.pending[1] \in Range(j.pending) BY <2>2, <2>3 DEF Now, Range
    <3>2. Range(j.todo) = {} BY <2>2 DEF Range
    <3>3. Synced(Now(j), j.base) BY <2>2, <3>1, <3>2 DEF Syncing
    <3>4. Held(Now(j)) BY <2>5, <3>3 DEF Synced
    <3>5. Now(j) \in Submission /\ Now(j).op \in Op BY <2>3, NowTypes
    <3> QED BY <2>1, <3>4, <3>5 DEF Stays
  <2>19. Phase("finalize", new)'
    <3>1. Held(Now(new))' BY <2>17, <2>23 DEF Held
    <3> QED BY <2>10, <2>11, <2>12, <2>13, <2>16, <2>18, <3>1 DEF Phase, Identities
  <2>20. "finalize" \in Labels \ {"idle"} BY DEF Labels
  <2>21. Continue(l, "finalize", new) BY <1>5, <2>8, <2>9, <2>14
  <2>22. Moves(l) BY <2>15, <2>17, <2>19, <2>20, <2>21, MovesInto
  <2> QED BY <1>3, <1>5, <2>1, <2>22, QuietTold, Stepped
<1> QED BY <1>1, <1>4, <1>5 DEF CasLog

\* A row is marked applied, or not; the last one releases the receipts.
LEMMA FinalizeIntentKeeps ==
  ASSUME GroupInductive, NEW l \in Task, FinalizeIntent(l)
  PROVE  GroupInductive'
<1>1. PICK j \in JobType : j = job[l] BY DEF GroupInductive, Types
<1>2. Shape(j) /\ Phase("finalize", j) /\ StoreInv BY <1>1, Acting, Recorded DEF FinalizeIntent
<1>3. Sent BY Sends DEF FinalizeIntent
<1>4. StoreInv' /\ Stays(Op)
  <2>1. CASE rows[Head(j.todo)] # None /\ ApplyPut(Outgoing(l))
    <3>1. Writing(l) BY <1>1, <2>1 DEF Writing, FinalizeIntent
    <3>2. PutMatches(Outgoing(l))
      <4>1. PICK o, row : Outgoing(l) = RowPut(o, RowVersionOf(o), row)
        BY DEF Outgoing, FinalizeIntent
      <4> QED BY <4>1 DEF PutMatches, RowPut
    <3> QED BY <2>1, <3>1, <3>2, Puts
  <2>2. CASE UNCHANGED store BY <1>2, <2>2, Unchanged
  <2> QED BY <1>1, <2>1, <2>2 DEF FinalizeIntent
<1>5. /\ j.todo \in Seq(Op) /\ j.todo # <<>> /\ j.done # None
      /\ j.done.generation \in DOMAIN log /\ j.done \in Done
      /\ Range(j.todo) \subseteq Identities(log[j.done.generation])
  BY <1>2, JobFields DEF Phase
<1>6. CASE Found(l, j.done.generation, j.done.first)
  <2>1. PICK g, f : g = j.done.generation /\ f = j.done.first OBVIOUS
  <2>2. g \in DOMAIN log /\ f \in BOOLEAN /\ Found(l, g, f) BY <1>5, <1>6, <2>1 DEF Done
  <2>3. Moves(l) /\ Told BY <1>1, <1>2, <1>4, <2>2, Founds
  <2> QED BY <1>3, <1>4, <2>3, Stepped
<1>7. CASE Tail(j.todo) # <<>> /\ Continue(l, "finalize", [j EXCEPT !.todo = Tail(j.todo)]) /\ Quietly
  <2>1. PICK q, t, k, new : q = j.todo /\ t = Tail(q) /\ k = Len(q) /\ new = [j EXCEPT !.todo = t]
    OBVIOUS
  <2>2. q \in Seq(Op) /\ k \in Nat \ {0} /\ DOMAIN q = 1..k BY <1>5, <2>1
  <2>3. t \in Seq(Op) /\ Len(t) = k - 1 /\ \A i \in 1..(k-1) : t[i] = q[i+1] BY <2>1, <2>2
  <2>4. \A p \in Range(t) : p \in Range(q)
    <3> TAKE p \in Range(t)
    <3>1. PICK i \in 1..(k-1) : p = t[i] BY <2>3 DEF Range
    <3>2. i + 1 \in 1..k BY <2>2
    <3> QED BY <2>2, <2>3, <3>1, <3>2 DEF Range
  <2>5. new \in JobType BY <2>1, <2>3 DEF JobType
  <2>6. /\ new.items = j.items /\ new.pending = j.pending /\ new.at = j.at /\ new.start = j.start
        /\ new.rounds = j.rounds /\ new.base = j.base /\ new.todo = t /\ new.done = j.done
    BY <2>1 DEF JobType
  <2>7. new.base <= Len(log) BY <1>2, <2>6 DEF Shape
  <2>8. Shape(new) /\ Now(new) = Now(j) BY <1>2, <2>6, <2>7, SameShape
  <2>9. Phase("finalize", new)
    <3>1. Held(Now(new)) BY <1>2, <2>8 DEF Phase
    <3> QED BY <1>5, <1>7, <2>1, <2>4, <2>6, <3>1 DEF Phase
  <2>10. "finalize" \in Labels \ {"idle"} BY DEF Labels
  <2>11. Continue(l, "finalize", new) BY <1>7, <2>1
  <2>12. Moves(l) BY <1>2, <1>4, <2>5, <2>8, <2>9, <2>10, <2>11, MovesTo
  <2> QED BY <1>3, <1>4, <1>7, <2>12, QuietTold, Stepped
<1> QED BY <1>1, <1>6, <1>7 DEF FinalizeIntent

\* A task gives up or dies anywhere.
LEMMA AbandonKeeps ==
  ASSUME GroupInductive, NEW l \in Task, Abandon(l)
  PROVE  GroupInductive'
<1>1. PICK j \in JobType : j = job[l] BY DEF GroupInductive, Types
<1>2. Shape(j) /\ StoreInv BY <1>1, Acting, Recorded DEF Abandon
<1>3. Sent BY Sends DEF Abandon
<1>4. StoreInv' /\ Stays(Op) BY <1>2, Unchanged DEF Abandon
<1>5. "BackendUnavailable" \in Error \ {"RecoveryFailed"} BY DEF Error
<1>6. CASE Fail(l, "BackendUnavailable")
  <2>1. Moves(l) /\ Told BY <1>1, <1>2, <1>4, <1>5, <1>6, Fails
  <2> QED BY <1>3, <1>4, <2>1, Stepped
<1>7. CASE Return(l) /\ Quietly BY <1>3, <1>4, <1>7, Returns, QuietTold, Stepped
<1> QED BY <1>6, <1>7 DEF Abandon

\* A batch starts with one item of each id.
LEMMA StartGroupKeeps ==
  ASSUME GroupInductive, NEW l \in Task, StartGroup(l)
  PROVE  GroupInductive'
<1>1. StoreInv' /\ Stays(Op) /\ StoreInv BY Recorded, Unchanged DEF StartGroup
<1>2. Sent
  <2>1. spent \in [batches : Nat, appends : Nat, faults : Nat, losses : Nat]
    BY DEF GroupInductive, Types
  <2>2. PICK n : n = spent.batches + 1 OBVIOUS
  <2>3. n \in Nat /\ spent' = [spent EXCEPT !.batches = n] BY <2>1, <2>2 DEF StartGroup
  <2> QED BY <2>1, <2>3 DEF Sent, StartGroup
<1>3. PICK batch \in Batch :
        /\ Continue(l, "load", [Fresh EXCEPT !.items = Unique(batch), !.start = Len(log)])
        /\ errors' = errors \cup Refusals(Misused(batch), "IdempotencyConflict")
  BY DEF StartGroup
<1>4. PICK q, h : q = Unique(batch) /\ h = Len(log) OBVIOUS
<1>5. /\ q \in Seq(Submission) /\ q # <<>> /\ Distinct(q) /\ Range(q) \subseteq Range(batch)
      /\ batch \in Seq(Submission) /\ h \in Nat
  BY <1>1, <1>4, UniqueItems, BatchAssumption DEF StoreInv
<1>6. Told
  <2>1. "IdempotencyConflict" \in Error \ {"RecoveryFailed"} BY DEF Error
  <2>2. \A s \in Range(batch) : s \in Submission BY <1>5 DEF Range
  <2>3. \A s \in Misused(batch) : s.op \in Op BY <2>2 DEF Misused, Submission
  <2>4. acks' = acks BY DEF StartGroup
  <2> QED BY <1>3, <2>1, <2>3, <2>4 DEF Told, Refusals
<1>7. PICK new : new = [Fresh EXCEPT !.items = q, !.start = h] OBVIOUS
<1>8. /\ new.items = q /\ new.at = 1 /\ new.start = h /\ new.pending = <<>>
      /\ new.base = 0 /\ new.rounds = 0
  BY <1>7 DEF Fresh
<1>9. new \in JobType
  <2>1. NoRead \in [row : Row \cup {None}, version : Nat] BY DEF NoRead
  <2>2. <<>> \in Seq(Submission) /\ <<>> \in Commit /\ <<>> \in Seq(Op) BY DEF Commit
  <2>3. PICK r : r = NoRead OBVIOUS
  <2>4. new = [items |-> q, at |-> 1, start |-> h, pending |-> <<>>, seen |-> r, base |-> 0,
               draft |-> <<>>, todo |-> <<>>, done |-> None, rounds |-> 0]
    BY <1>7, <2>3 DEF Fresh
  <2> QED BY <1>5, <2>1, <2>2, <2>3, <2>4 DEF JobType
<1>10. Shape(new)
  <2>1. Distinct(new.pending) BY <1>8 DEF Distinct
  <2>2. Range(new.pending) = {} BY <1>8 DEF Range
  <2>3. Admits(new) BY <1>5, <1>8 DEF Admits
  <2> QED BY <1>4, <1>5, <1>8, <2>1, <2>2, <2>3, BoundAssumption DEF Shape
<1>11. Phase("load", new) BY DEF Phase
<1>12. "load" \in Labels \ {"idle"} /\ Continue(l, "load", new) BY <1>3, <1>4, <1>7 DEF Labels
<1>13. Moves(l) BY <1>1, <1>9, <1>10, <1>11, <1>12, MovesTo
<1> QED BY <1>1, <1>2, <1>6, <1>13, Stepped

\* An append starts as a publication without companions.
LEMMA StartAppendKeeps ==
  ASSUME GroupInductive, NEW l \in Task, StartAppend(l)
  PROVE  GroupInductive'
<1>1. StoreInv' /\ Stays(Op) /\ StoreInv BY Recorded, Unchanged DEF StartAppend
<1>2. Sent
  <2>1. spent \in [batches : Nat, appends : Nat, faults : Nat, losses : Nat]
    BY DEF GroupInductive, Types
  <2>2. PICK n : n = spent.appends + 1 OBVIOUS
  <2>3. n \in Nat /\ spent' = [spent EXCEPT !.appends = n] BY <2>1, <2>2 DEF StartAppend
  <2> QED BY <2>1, <2>3 DEF Sent, StartAppend
<1>3. PICK s \in Lone : Continue(l, "load", [Fresh EXCEPT !.pending = <<s>>]) BY DEF StartAppend
<1>4. PICK q : q = <<s>> OBVIOUS
<1>5. /\ q \in Seq(Submission) /\ q # <<>> /\ Len(q) = 1 /\ Distinct(q)
      /\ Range(q) \subseteq Lone
  BY <1>4, BatchAssumption DEF Distinct, Range
<1>6. Told BY DEF Told, StartAppend
<1>7. PICK new : new = [Fresh EXCEPT !.pending = q] OBVIOUS
<1>8. /\ new.items = <<>> /\ new.at = 1 /\ new.start = 0 /\ new.pending = q
      /\ new.base = 0 /\ new.rounds = 0
  BY <1>7 DEF Fresh
<1>9. new \in JobType
  <2>1. NoRead \in [row : Row \cup {None}, version : Nat] BY DEF NoRead
  <2>2. <<>> \in Seq(Submission) /\ <<>> \in Commit /\ <<>> \in Seq(Op) BY DEF Commit
  <2>3. PICK r : r = NoRead OBVIOUS
  <2>4. new = [items |-> <<>>, at |-> 1, start |-> 0, pending |-> q, seen |-> r, base |-> 0,
               draft |-> <<>>, todo |-> <<>>, done |-> None, rounds |-> 0]
    BY <1>7, <2>3 DEF Fresh
  <2> QED BY <1>5, <2>1, <2>2, <2>3, <2>4 DEF JobType
<1>10. Shape(new)
  <2>1. Distinct(new.items) BY <1>8 DEF Distinct
  <2>2. Len(log) \in Nat BY <1>1 DEF StoreInv
  <2> QED BY <1>5, <1>8, <2>1, <2>2, BoundAssumption DEF Shape
<1>11. Phase("load", new) BY DEF Phase
<1>12. "load" \in Labels \ {"idle"} /\ Continue(l, "load", new) BY <1>3, <1>4, <1>7 DEF Labels
<1>13. Moves(l) BY <1>1, <1>9, <1>10, <1>11, <1>12, MovesTo
<1> QED BY <1>1, <1>2, <1>6, <1>13, Stepped

\* The environment moves no task.
LEMMA Stands ==
  ASSUME GroupInductive, NEW O \in SUBSET Op, StoreInv', Stays(O),
         UNCHANGED <<pc, job, acks, errors>>, wire' \subseteq wire,
         spent' \in [batches : Nat, appends : Nat, faults : Nat, losses : Nat],
         \A t \in Task : pc[t] # "idle" => \A s : Uses(job[t], s) => s.op \in O,
         \A m \in wire' : \A o \in Op : Carries(m, o) => o \in O
  PROVE  GroupInductive'
<1>1. StoreInv BY Recorded
<1>2. Types' BY DEF GroupInductive, Types, StoreInv
<1>3. ASSUME NEW t \in Task PROVE TaskOK(pc[t], job[t])'
  <2>1. PICK kk \in Labels, jj \in JobType : kk = pc[t] /\ jj = job[t] BY DEF GroupInductive, Types
  <2>2. TaskOK(kk, jj) BY <2>1 DEF GroupInductive
  <2>3. TaskOK(kk, jj)' BY <1>1, <2>1, <2>2, TaskStays
  <2>4. kk = pc'[t] /\ jj = job'[t] BY <2>1
  <2> QED BY <2>3, <2>4
<1>4. ASSUME NEW m \in wire' PROVE MessageOK(m)'
  <2>1. m \in RowMsg \cup LogMsg /\ MessageOK(m) BY DEF GroupInductive, Types
  <2> QED BY <1>1, <2>1, MessageStays
<1>5. ASSUME NEW a \in acks' PROVE Admitted(a)' BY <1>1, Grown DEF GroupInductive
<1>6. NeverFailsClosed' BY DEF GroupInductive, NeverFailsClosed
<1> QED BY <1>2, <1>3, <1>4, <1>5, <1>6 DEF GroupInductive, StoreInv

\* A late write arrives.
LEMMA LandKeeps ==
  ASSUME GroupInductive, NEW m \in wire, Land(m)
  PROVE  GroupInductive'
<1>1. StoreInv /\ m \in RowMsg \cup LogMsg /\ MessageOK(m) BY Recorded DEF GroupInductive, Types
<1>2. StoreInv' /\ Stays(Op)
  <2>1. CASE PutMatches(m) /\ ApplyPut(m) BY <1>1, <2>1, Landing
  <2>2. CASE UNCHANGED store BY <1>1, <2>2, Unchanged
  <2> QED BY <2>1, <2>2 DEF Land
<1>3. ASSUME NEW t \in Task, pc[t] # "idle" PROVE \A s : Uses(job[t], s) => s.op \in Op
  <2>1. PICK j \in JobType : j = job[t] BY DEF GroupInductive, Types
  <2>2. Admits(j) \/ j.pending # <<>> BY <1>3, <2>1, Acting
  <2>3. \A s : Uses(j, s) => s \in Submission BY <2>2, NowTypes
  <2> QED BY <2>1, <2>3 DEF Submission
<1>4. spent' \in [batches : Nat, appends : Nat, faults : Nat, losses : Nat]
  BY DEF GroupInductive, Types, Land
<1> QED BY <1>2, <1>3, <1>4, Stands DEF Land

\* A row nobody works on is deleted.
LEMMA LoseKeeps ==
  ASSUME GroupInductive, NEW o \in Op, Lose(o)
  PROVE  GroupInductive'
<1>1. StoreInv' /\ Stays(Op \ {o}) BY Recorded, RowLoses DEF Lose
<1>2. ASSUME NEW t \in Task, pc[t] # "idle" PROVE \A s : Uses(job[t], s) => s.op \in Op \ {o}
  <2>1. PICK j \in JobType : j = job[t] BY DEF GroupInductive, Types
  <2>2. Admits(j) \/ j.pending # <<>> BY <1>2, <2>1, Acting
  <2>3. \A s : Uses(j, s) => s \in Submission BY <2>2, NowTypes
  <2>4. ASSUME NEW s, Uses(j, s) PROVE s.op # o
    <3>1. ~\E u \in Range(j.items \o j.pending) : u.op = o BY <1>2, <2>1 DEF Lose, InUse
    <3>2. PICK a, b : a = j.items /\ b = j.pending OBVIOUS
    <3>3. a \in Seq(Submission) /\ b \in Seq(Submission) BY <3>2, JobFields
    <3>4. s \in Range(a \o b)
      <4>1. CASE s \in Range(a)
        <5>1. PICK i \in DOMAIN a : s = a[i] BY <4>1 DEF Range
        <5>2. i \in DOMAIN (a \o b) /\ (a \o b)[i] = s BY <3>3, <5>1
        <5> QED BY <5>2 DEF Range
      <4>2. CASE s \in Range(b)
        <5>1. PICK i \in DOMAIN b : s = b[i] BY <4>2 DEF Range
        <5>2. PICK n : n = Len(a) + i OBVIOUS
        <5>3. n \in DOMAIN (a \o b) /\ (a \o b)[n] = s BY <3>3, <5>1, <5>2
        <5> QED BY <5>3 DEF Range
      <4> QED BY <2>4, <3>2, <4>1, <4>2 DEF Uses
    <3> QED BY <3>1, <3>2, <3>4
  <2> QED BY <2>1, <2>3, <2>4 DEF Submission
<1>3. spent' \in [batches : Nat, appends : Nat, faults : Nat, losses : Nat]
  <2>1. spent \in [batches : Nat, appends : Nat, faults : Nat, losses : Nat]
    BY DEF GroupInductive, Types
  <2>2. PICK n : n = spent.losses + 1 OBVIOUS
  <2>3. n \in Nat /\ spent' = [spent EXCEPT !.losses = n] BY <2>1, <2>2 DEF Lose
  <2> QED BY <2>1, <2>3
<1>4. \A m \in wire' : \A p \in Op : Carries(m, p) => p \in Op \ {o} BY DEF Lose
<1>5. Op \ {o} \in SUBSET Op OBVIOUS
<1> QED BY <1>1, <1>2, <1>3, <1>4, <1>5, Stands DEF Lose
-----------------------------------------------------------------------------
\* The invariant holds at first.
LEMMA GroupStarts == Init => GroupInductive
<1> SUFFICES ASSUME Init PROVE GroupInductive OBVIOUS
<1>1. /\ log = <<>> /\ wire = {} /\ acks = {} /\ errors = {}
      /\ rows = [o \in Op |-> None] /\ rowVersion = [o \in Op |-> 0]
      /\ pc = [l \in Task |-> "idle"] /\ job = [l \in Task |-> Fresh]
      /\ spent = [batches |-> 0, appends |-> 0, faults |-> 0, losses |-> 0]
  BY DEF Init
<1>2. Fresh \in JobType
  <2>1. NoRead \in [row : Row \cup {None}, version : Nat] BY DEF NoRead
  <2>2. <<>> \in Seq(Submission) /\ <<>> \in Commit /\ <<>> \in Seq(Op) BY DEF Commit
  <2> QED BY <2>1, <2>2 DEF Fresh, JobType
<1>3. Types BY <1>1, <1>2 DEF Types, Labels
<1>4. LogOK
  <2>1. HeadSeq = 0 BY <1>1 DEF HeadSeq
  <2>2. Events = FlattenSeq(<<>>) BY <1>1 DEF Events
  <2>3. FlattenSeq(<<>>) = <<>>
    <3>1. PICK ss : ss = <<>> OBVIOUS
    <3>2. ss \in Seq(Seq(Event)) /\ Len(ss) = 0 BY <3>1
    <3>3. PICK f : Unfolds(f, ss, Event) /\ FlattenSeq(ss) = f[Len(ss)] BY <3>2, Flattened
    <3> QED BY <3>1, <3>2, <3>3 DEF Unfolds
  <2>4. DOMAIN log = {} BY <1>1
  <2> QED BY <2>1, <2>2, <2>3, <2>4 DEF LogOK, AdmittedOnce
<1>5. \A o \in Op : RowOK(o) BY <1>1 DEF RowOK
<1>6. \A l \in Task : TaskOK(pc[l], job[l]) BY <1>1 DEF TaskOK
<1> QED BY <1>1, <1>3, <1>4, <1>5, <1>6 DEF GroupInductive, NeverFailsClosed

\* Every step keeps it.
LEMMA GroupSteps == GroupInductive /\ [Next]_vars => GroupInductive'
<1> SUFFICES ASSUME GroupInductive, [Next]_vars PROVE GroupInductive' OBVIOUS
<1>1. CASE UNCHANGED vars
  <2>1. StoreInv' /\ Stays(Op) BY <1>1, Recorded, Unchanged DEF vars, store
  <2>2. ASSUME NEW t \in Task, pc[t] # "idle" PROVE \A s : Uses(job[t], s) => s.op \in Op
    <3>1. PICK j \in JobType : j = job[t] BY DEF GroupInductive, Types
    <3>2. Admits(j) \/ j.pending # <<>> BY <2>2, <3>1, Acting
    <3>3. \A s : Uses(j, s) => s \in Submission BY <3>2, NowTypes
    <3> QED BY <3>1, <3>3 DEF Submission
  <2>3. spent' \in [batches : Nat, appends : Nat, faults : Nat, losses : Nat]
    BY <1>1 DEF GroupInductive, Types, vars
  <2> QED BY <1>1, <2>1, <2>2, <2>3, Stands DEF vars
<1>2. ASSUME NEW l \in Task, StartGroup(l) \/ StartAppend(l) \/ Step(l) \/ Abandon(l)
      PROVE  GroupInductive'
  BY <1>2, StartGroupKeeps, StartAppendKeeps, AbandonKeeps, LoadIntentKeeps,
     TryCachedAppliedKeeps, RecoverWithoutIntentKeeps, ReadBaseKeeps, CreateIntentKeeps,
     ResolvePendingKeeps, RebaseKeeps, BeginAttemptKeeps, WriteIntentKeeps, SyncLoadKeeps,
     SyncPutKeeps, CasLogKeeps, FinalizeIntentKeeps
     DEF Step
<1>3. CASE \E m \in wire : Land(m) BY <1>3, LandKeeps
<1>4. CASE \E o \in Op : Lose(o) BY <1>4, LoseKeeps
<1> QED BY <1>1, <1>2, <1>3, <1>4 DEF Next

\* What group commit must keep true holds in every reachable state.
THEOREM GroupInvariant == Spec => []GroupInductive
BY GroupStarts, GroupSteps, PTL DEF Spec

\* It implies the types.
LEMMA GroupTypes == GroupInductive => TypeOK
<1> SUFFICES ASSUME GroupInductive PROVE TypeOK OBVIOUS
<1>1. Types BY DEF GroupInductive
<1>2. log \in Seq(Commit)
  <2>1. log \in Seq(Commit \ {<<>>}) BY <1>1 DEF Types
  <2> QED BY <2>1
<1>3. \A m \in wire : m.op \in Op /\ m.version \in Nat BY <1>1 DEF Types, RowMsg, LogMsg
<1>4. ASSUME NEW l \in Task
      PROVE  /\ job[l].items \in Seq(Submission) /\ job[l].pending \in Seq(Submission)
             /\ job[l].at \in Nat \ {0} /\ job[l].start \in Nat /\ job[l].base \in Nat
             /\ job[l].seen \in [row : Row \cup {None}, version : Nat]
             /\ job[l].draft \in Commit /\ job[l].todo \in Seq(Op) /\ job[l].rounds \in 0..MaxAttempts
             /\ (job[l].done = None \/ job[l].done \in [generation : Nat \ {0}, first : BOOLEAN])
  <2>1. PICK j \in JobType : j = job[l] BY <1>1 DEF Types
  <2>2. j.rounds \in 0..MaxAttempts
    <3>1. CASE pc[l] = "idle"
      <4>1. j = Fresh BY <2>1, <3>1 DEF GroupInductive, TaskOK
      <4> QED BY <4>1, BoundAssumption DEF Fresh
    <3>2. CASE pc[l] # "idle"
      <4>1. j.rounds < MaxAttempts /\ j.rounds \in Nat BY <2>1, <3>2, Acting, JobFields DEF Shape
      <4> QED BY <4>1, BoundAssumption
    <3> QED BY <3>1, <3>2
  <2>3. j.seen \in [row : Row \cup {None}, version : Nat] BY DEF JobType
  <2> QED BY <2>1, <2>2, <2>3, JobFields DEF Done
<1> QED BY <1>1, <1>2, <1>3, <1>4 DEF Types, TypeOK

\* Every variable keeps its type, and no loop runs more rounds than it may.
THEOREM GroupTypeOK == Spec => []TypeOK
BY GroupInvariant, GroupTypes, PTL

\* No operation is admitted twice, whether it travels as leader, as companion
\* or alone, and whatever is lost, late or repeated.
THEOREM GroupAdmittedOnce == Spec => []AdmittedOnce
<1>1. GroupInductive => AdmittedOnce BY DEF GroupInductive, LogOK
<1> QED BY <1>1, GroupInvariant, PTL

\* Recovery never finds a row ahead of the log, nor a companion without a row.
THEOREM GroupNeverFailsClosed == Spec => []NeverFailsClosed
<1>1. GroupInductive => NeverFailsClosed BY DEF GroupInductive
<1> QED BY <1>1, GroupInvariant, PTL
-----------------------------------------------------------------------------
(* Receipts.                                                               *)

\* A commit that names the id of s admitted it for s's payload, if the row of
\* s says so or if recovery takes the commit for s's.
LEMMA AdmittedForIt ==
  ASSUME NotTheLeaders, StoreInv, NEW g \in DOMAIN log, NEW s \in Submission, s \in Presented,
         Held(s) \/ SameRequest(log[g], s), NEW i \in DOMAIN log[g], log[g][i].identity = s.op
  PROVE  log[g][i].request = s.payload
<1>1. s.op \in Op BY DEF Submission
<1>2. CASE Held(s)
  <2>1. rows[s.op] # None /\ rows[s.op].request = s.payload BY <1>2 DEF Held
  <2>2. RowOK(s.op) BY <1>1 DEF StoreInv
  <2>3. Agrees(s.op, rows[s.op]) BY <2>1, <2>2 DEF RowOK
  <2> QED BY <2>1, <2>3 DEF Agrees
<1>3. CASE SameRequest(log[g], s)
  <2>1. PICK c : c = log[g] OBVIOUS
  <2>2. c \in Seq(Admission) /\ c # <<>> BY <2>1 DEF StoreInv, Commit
  <2>3. DOMAIN c = 1..Len(c) /\ Len(c) \in Nat \ {0} BY <2>2
  <2>4. \A k, m \in DOMAIN c : c[k].identity = c[m].identity => k = m
    BY <2>1 DEF StoreInv, LogOK, AdmittedOnce
  <2>5. CASE \E k \in DOMAIN c : c[k].identity = s.op /\ c[k].request = s.payload
    BY <2>1, <2>4, <2>5
  <2>6. CASE c[1].request = s.payload
    <3>1. PICK items : items = Submitted(c) OBVIOUS
    <3>2. /\ DOMAIN items = 1..Len(c) /\ Len(items) = Len(c)
          /\ \A k \in 1..Len(c) : items[k].op = c[k].identity /\ items[k].payload = c[k].request
      <4>1. items = [k \in 1..Len(c) |-> [op |-> c[k].identity, payload |-> c[k].request]]
        BY <2>3, <3>1 DEF Submitted
      <4> QED BY <2>3, <4>1
    <3>3. OneSource(items) BY <2>1, <3>1 DEF StoreInv, LogOK
    <3>4. i \in 1..Len(c) /\ 1 \in 1..Len(c) BY <2>1, <2>3
    <3>5. CASE Len(items) = 1
      <4>1. i = 1 BY <2>3, <3>2, <3>4, <3>5
      <4> QED BY <2>1, <2>6, <4>1
    <3>6. CASE \E batch \in Batch : Range(items) \subseteq Range(Unique(batch))
      <4>1. PICK batch \in Batch : Range(items) \subseteq Range(Unique(batch)) BY <3>6
      <4>2. items[1] \in Range(items) /\ items[i] \in Range(items) BY <3>2, <3>4 DEF Range
      <4>3. items[1] \in Range(Unique(batch)) /\ items[i] \in Range(Unique(batch)) BY <4>1, <4>2
      <4>4. items[i].op = s.op /\ items[1].payload = s.payload BY <2>1, <2>6, <3>2, <3>4
      <4>5. items[i].payload = s.payload BY <4>3, <4>4 DEF NotTheLeaders
      <4> QED BY <2>1, <3>2, <3>4, <4>5
    <3> QED BY <3>3, <3>5, <3>6 DEF OneSource
  <2> QED BY <1>3, <2>1, <2>5, <2>6 DEF SameRequest
<1> QED BY <1>2, <1>3

\* What a task works on was presented to it.
LEMMA Presents ==
  ASSUME NEW j \in JobType, Shape(j), NEW s, Uses(j, s)
  PROVE  s \in Presented
<1>1. CASE j.items = <<>>
  <2>1. Range(j.items) = {} BY <1>1 DEF Range
  <2> QED BY <1>1, <2>1 DEF Uses, Shape, Presented
<1>2. CASE j.items # <<>>
  <2>1. PICK batch \in Batch : j.items = Unique(batch) BY <1>2 DEF Shape
  <2>2. Range(j.items) \subseteq Range(batch) BY <2>1, UniqueItems
  <2>3. s \in Range(j.items) BY <1>2 DEF Uses, Shape, Range
  <2> QED BY <2>2, <2>3 DEF Presented
<1> QED BY <1>1, <1>2

\* A commit that answers a task: each item it names was admitted as presented.
LEMMA ReceiptsMatch ==
  ASSUME NotTheLeaders, StoreInv, NEW l \in Task, NEW j \in JobType, j = job[l], Shape(j),
         NEW g \in DOMAIN log, NEW first \in BOOLEAN, Found(l, g, first),
         Held(Now(j)) \/ SameRequest(log[g], Now(j))
  PROVE  acks' \subseteq acks \cup {a \in Ack : Matched(a)}
<1> DEFINE items == IF Admits(j) THEN <<Now(j)>> ELSE j.pending
<1>1. acks' = acks \cup Receipts(items, g, first) BY Names DEF Found
<1>2. /\ Now(j) \in Submission /\ Uses(j, Now(j)) /\ j.pending \in Seq(Submission)
      /\ \A s : Uses(j, s) => s \in Submission
  BY NowTypes, JobFields DEF Shape
<1>3. items \in Seq(Submission) BY <1>2
<1>4. ASSUME NEW s \in Range(items)
      PROVE  Uses(j, s) /\ (Held(s) \/ SameRequest(log[g], s))
  <2>1. CASE s = Now(j) BY <1>2, <2>1
  <2>2. CASE s # Now(j)
    <3>1. ~Admits(j) /\ s \in Range(j.pending)
      <4>1. CASE Admits(j)
        <5>1. s \in Range(<<Now(j)>>) BY <4>1
        <5>2. s = Now(j) BY <5>1 DEF Range
        <5> QED BY <2>2, <5>2
      <4> QED BY <4>1
    <3>2. CASE j.items = <<>>
      <4>1. Now(j) = j.pending[1] /\ Len(j.pending) = 1 BY <3>1, <3>2 DEF Now, Shape
      <4>2. s = Now(j) BY <1>2, <3>1, <4>1 DEF Range
      <4> QED BY <2>2, <4>2
    <3>3. CASE j.items # <<>> BY <3>1, <3>3 DEF Shape, Uses
    <3> QED BY <3>2, <3>3
  <2> QED BY <2>1, <2>2
<1> HIDE DEF items
<1>5. ASSUME NEW s \in Range(items), s.op \in Identities(log[g])
      PROVE  Matched([op |-> s.op, payload |-> s.payload, generation |-> g,
                      first |-> AdmissionOf(s.op, log[g]).first,
                      last |-> AdmissionOf(s.op, log[g]).last, first_delivery |-> first])
  <2>1. s \in Submission /\ s \in Presented /\ (Held(s) \/ SameRequest(log[g], s))
    BY <1>2, <1>4, Presents
  <2>2. PICK a : a = AdmissionOf(s.op, log[g]) OBVIOUS
  <2>3. \E b \in Range(log[g]) : b.identity = s.op BY <1>5 DEF Identities, Range
  <2>4. a \in Range(log[g]) /\ a.identity = s.op BY <2>2, <2>3 DEF AdmissionOf
  <2>5. PICK i \in DOMAIN log[g] : a = log[g][i] BY <2>4 DEF Range
  <2>6. log[g][i].request = s.payload BY <2>1, <2>4, <2>5, AdmittedForIt
  <2>7. PICK r : r = [op |-> s.op, payload |-> s.payload, generation |-> g, first |-> a.first,
                      last |-> a.last, first_delivery |-> first]
    OBVIOUS
  <2>8. r.op = s.op /\ r.payload = s.payload /\ r.generation = g /\ r.first = a.first
        /\ r.last = a.last
    BY <2>7
  <2>9. Matched(r) BY <2>4, <2>5, <2>6, <2>8 DEF Matched
  <2> QED BY <2>2, <2>7, <2>9
<1>6. \A r \in Receipts(items, g, first) : Matched(r) BY <1>5 DEF Receipts
<1>7. Receipts(items, g, first) \subseteq Ack BY <1>3, ReceiptsTrue
<1> QED BY <1>1, <1>6, <1>7

\* The log changes only by a commit put at its end.
LEMMA LogMoves ==
  ASSUME Next
  PROVE  log' = log \/ \E commit : log' = Append(log, commit)
<1>1. \A m : ApplyPut(m) => log' = log \/ log' = Append(log, m.value) BY DEF ApplyPut
<1>2. UNCHANGED store => log' = log BY DEF store
<1>3. ASSUME NEW l \in Task, StartGroup(l) \/ StartAppend(l) \/ Step(l) \/ Abandon(l)
      PROVE  log' = log \/ \E commit : log' = Append(log, commit)
  <2>1. UNCHANGED store \/ ApplyPut(Outgoing(l))
    BY <1>3 DEF StartGroup, StartAppend, Step, Abandon, LoadIntent, TryCachedApplied,
       RecoverWithoutIntent, ReadBase, CreateIntent, ResolvePending, Rebase, BeginAttempt,
       WriteIntent, SyncLoad, SyncPut, CasLog, FinalizeIntent, store
  <2> QED BY <1>1, <1>2, <2>1
<1>4. ASSUME NEW m \in wire, Land(m) PROVE log' = log \/ \E commit : log' = Append(log, commit)
  BY <1>1, <1>2, <1>4 DEF Land
<1>5. ASSUME NEW o \in Op, Lose(o) PROVE log' = log BY <1>5 DEF Lose
<1> QED BY <1>3, <1>4, <1>5 DEF Next

\* Receipts are handed out where a commit is found, and only for what it says.
LEMMA AcksTold ==
  ASSUME NotTheLeaders, GroupInductive, Next
  PROVE  acks' \subseteq acks \cup {a \in Ack : Matched(a)}
<1>1. StoreInv BY Recorded
<1>2. ASSUME NEW l \in Task, TryCachedApplied(l)
      PROVE  acks' \subseteq acks \cup {a \in Ack : Matched(a)}
  <2>1. PICK j \in JobType : j = job[l] BY DEF GroupInductive, Types
  <2>2. Shape(j) /\ Current(l) = Now(j) BY <1>2, <2>1, Acting, Names DEF TryCachedApplied
  <2>3. CASE acks' = acks BY <2>3
  <2>4. CASE acks' # acks
    <3>1. PICK g \in CommittedAt(Now(j).op) : SameRequest(log[g], Now(j)) /\ Found(l, g, FALSE)
      BY <1>2, <2>2, <2>4 DEF TryCachedApplied, Quietly
    <3>2. g \in DOMAIN log /\ FALSE \in BOOLEAN BY DEF CommittedAt
    <3> QED BY <1>1, <2>1, <2>2, <3>1, <3>2, ReceiptsMatch
  <2> QED BY <2>3, <2>4
<1>3. ASSUME NEW l \in Task, RecoverWithoutIntent(l)
      PROVE  acks' \subseteq acks \cup {a \in Ack : Matched(a)}
  <2>1. PICK j \in JobType : j = job[l] BY DEF GroupInductive, Types
  <2>2. Shape(j) /\ Current(l) = Now(j) BY <1>3, <2>1, Acting, Names DEF RecoverWithoutIntent
  <2>3. CASE acks' = acks BY <2>3
  <2>4. CASE acks' # acks
    <3>1. PICK g \in CommittedAt(Now(j).op) : SameRequest(log[g], Now(j)) /\ Found(l, g, FALSE)
      BY <1>3, <2>2, <2>4 DEF RecoverWithoutIntent, Fail, Quietly
    <3>2. g \in DOMAIN log /\ FALSE \in BOOLEAN BY DEF CommittedAt
    <3> QED BY <1>1, <2>1, <2>2, <3>1, <3>2, ReceiptsMatch
  <2> QED BY <2>3, <2>4
<1>4. ASSUME NEW l \in Task, FinalizeIntent(l)
      PROVE  acks' \subseteq acks \cup {a \in Ack : Matched(a)}
  <2>1. PICK j \in JobType : j = job[l] BY DEF GroupInductive, Types
  <2>2. Shape(j) /\ Phase("finalize", j) BY <1>4, <2>1, Acting DEF FinalizeIntent
  <2>3. CASE acks' = acks BY <2>3
  <2>4. CASE acks' # acks
    <3>1. PICK g, f : g = j.done.generation /\ f = j.done.first OBVIOUS
    <3>2. Found(l, g, f) BY <1>4, <2>1, <2>4, <3>1 DEF FinalizeIntent, Quietly
    <3>3. g \in DOMAIN log /\ Held(Now(j)) /\ j.done \in Done
      BY <2>2, <3>1, JobFields DEF Phase
    <3>4. f \in BOOLEAN BY <3>1, <3>3 DEF Done
    <3> QED BY <1>1, <2>1, <2>2, <3>2, <3>3, <3>4, ReceiptsMatch
  <2> QED BY <2>3, <2>4
<1>5. ASSUME NEW l \in Task, Again(l) PROVE acks' = acks BY <1>5 DEF Again, Fail
<1>6. ASSUME NEW l \in Task,
             \/ StartGroup(l) \/ StartAppend(l) \/ Abandon(l) \/ LoadIntent(l) \/ ReadBase(l)
             \/ CreateIntent(l) \/ ResolvePending(l) \/ Rebase(l) \/ BeginAttempt(l)
             \/ WriteIntent(l) \/ SyncLoad(l) \/ SyncPut(l) \/ CasLog(l)
      PROVE  acks' = acks
  BY <1>5, <1>6 DEF StartGroup, StartAppend, Abandon, LoadIntent, ReadBase, CreateIntent,
     ResolvePending, Rebase, BeginAttempt, WriteIntent, SyncLoad, SyncPut, CasLog, Quietly, Fail
<1>7. ASSUME NEW m, Land(m) PROVE acks' = acks BY <1>7 DEF Land
<1>8. ASSUME NEW o, Lose(o) PROVE acks' = acks BY <1>8 DEF Lose
<1> QED BY <1>2, <1>3, <1>4, <1>6, <1>7, <1>8 DEF Next, Step

\* No receipt is wrong at first,
LEMMA ReceiptsStart == Init => GroupReceipts
BY GroupStarts DEF GroupReceipts, Init

\* every step keeps them right,
LEMMA ReceiptsStep ==
  ASSUME NotTheLeaders
  PROVE  GroupReceipts /\ [Next]_vars => GroupReceipts'
<1> SUFFICES ASSUME GroupReceipts, [Next]_vars PROVE GroupReceipts' OBVIOUS
<1>1. GroupInductive /\ GroupInductive' BY GroupSteps DEF GroupReceipts
<1>2. ASSUME NEW a, Matched(a) PROVE Matched(a)'
  <2>1. \A g \in DOMAIN log : g \in DOMAIN log' /\ log'[g] = log[g]
    <3>1. CASE log' = log BY <3>1
    <3>2. CASE \E commit : log' = Append(log, commit)
      <4>1. PICK commit : log' = Append(log, commit) BY <3>2
      <4>2. PICK old, new : old = log /\ new = log' OBVIOUS
      <4>3. old \in Seq(Commit \ {<<>>}) /\ new = Append(old, commit)
        BY <1>1, <4>1, <4>2 DEF GroupInductive, Types
      <4>4. \A g \in DOMAIN old : g \in DOMAIN new /\ new[g] = old[g] BY <4>3
      <4> QED BY <4>2, <4>4
    <3>3. log' = log \/ \E commit : log' = Append(log, commit) BY LogMoves DEF vars, store
    <3> QED BY <3>1, <3>2, <3>3
  <2>2. a.generation \in DOMAIN log' /\ log'[a.generation] = log[a.generation]
    BY <1>2, <2>1 DEF Matched
  <2> QED BY <1>2, <2>2 DEF Matched
<1>3. acks' \subseteq acks \cup {a \in Ack : Matched(a)}
  <2>1. CASE Next BY <1>1, <2>1, AcksTold
  <2>2. CASE UNCHANGED vars BY <2>2 DEF vars
  <2> QED BY <2>1, <2>2
<1>4. \A a \in acks' : Matched(a)' BY <1>2, <1>3 DEF GroupReceipts
<1> QED BY <1>1, <1>4 DEF GroupReceipts

\* and right receipts are what the properties ask for.
LEMMA ReceiptsRead ==
  ASSUME GroupReceipts
  PROVE  AcksAreWritten /\ DifferentRequestConflicts
<1>1. ASSUME NEW a \in acks
      PROVE  /\ a.last <= Len(Events) /\ SubSeq(Events, a.first, a.last) = a.payload
             /\ AdmissionOf(a.op, log[a.generation]).request = a.payload
  <2>1. a.generation \in DOMAIN log /\ Matched(a) BY DEF GroupReceipts, Matched
  <2>2. PICK c : c = log[a.generation] OBVIOUS
  <2>3. PICK i \in DOMAIN c : /\ c[i].identity = a.op /\ c[i].first = a.first
                              /\ c[i].last = a.last /\ c[i].request = a.payload
    BY <2>1, <2>2 DEF Matched
  <2>4. LogOK BY DEF GroupReceipts, GroupInductive
  <2>5. Written(c[i], Events) BY <2>1, <2>2, <2>4 DEF LogOK
  <2>6. a.last <= Len(Events) /\ SubSeq(Events, a.first, a.last) = a.payload
    BY <2>3, <2>5 DEF Written
  <2>7. PICK b : b = AdmissionOf(a.op, c) OBVIOUS
  <2>8. \E x \in Range(c) : x.identity = a.op BY <2>3 DEF Range
  <2>9. b \in Range(c) /\ b.identity = a.op BY <2>7, <2>8 DEF AdmissionOf
  <2>10. PICK k \in DOMAIN c : b = c[k] BY <2>9 DEF Range
  <2>11. k = i BY <2>1, <2>2, <2>3, <2>4, <2>9, <2>10 DEF LogOK, AdmittedOnce
  <2> QED BY <2>2, <2>3, <2>6, <2>7, <2>10, <2>11
<1> QED BY <1>1 DEF AcksAreWritten, DifferentRequestConflicts

\* Every acknowledged range holds exactly the events its producer submitted,
\* as long as no id of a batch is presented with another's payload.
THEOREM GroupAcksAreWritten ==
  ASSUME NotTheLeaders
  PROVE  Spec => []AcksAreWritten
<1>1. GroupReceipts => AcksAreWritten BY ReceiptsRead
<1>2. GroupReceipts /\ [Next]_vars => GroupReceipts' BY ReceiptsStep
<1> QED BY <1>1, <1>2, ReceiptsStart, PTL DEF Spec

\* So far, whoever presents a used id for a different payload gets no receipt.
THEOREM GroupConflicts ==
  ASSUME NotTheLeaders
  PROVE  Spec => []DifferentRequestConflicts
<1>1. GroupReceipts => DifferentRequestConflicts BY ReceiptsRead
<1>2. GroupReceipts /\ [Next]_vars => GroupReceipts' BY ReceiptsStep
<1> QED BY <1>1, <1>2, ReceiptsStart, PTL DEF Spec
=============================================================================
