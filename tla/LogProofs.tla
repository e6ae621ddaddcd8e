------------------------------ MODULE LogProofs ------------------------------
(***************************************************************************)
(* Theorems about the log store, for any number of invocations, followers, *)
(* jobs, keys and payloads: what its operators compute on pieces that lie  *)
(* side by side, whatever their number, what the plans make of a ref, what *)
(* one commit does to the store, that every step keeps the inductive       *)
(* invariant, and what follows from it.                                    *)
(***************************************************************************)
EXTENDS LogInv, Recursion, FiniteSetTheorems, SequenceTheorems

-----------------------------------------------------------------------------
(* Frames of a span of events.                                             *)

LEMMA FramesType ==
  ASSUME NEW events \in Seq(Event), NEW first \in Nat \ {0}, NEW last \in Nat,
         first <= last, last <= Len(events)
  PROVE  /\ FramesOf(events, first, last) \in Seq(Frame)
         /\ Len(FramesOf(events, first, last)) = last - first + 1
         /\ \A i \in 1..(last - first + 1) :
              FramesOf(events, first, last)[i] = FrameAt(events, first + i - 1)
<1>1. ASSUME NEW i \in 1..(last - first + 1)
      PROVE FrameAt(events, first + i - 1) \in Frame
  <2>1. first + i - 1 \in 1..Len(events) /\ first + i - 1 \in Nat OBVIOUS
  <2>2. events[first + i - 1] \in Event BY <2>1
  <2>3. events[first + i - 1].payload \in Payload BY <2>2 DEF Event
  <2> QED BY <2>1, <2>3 DEF Frame, FrameAt
<1> DEFINE n == last - first + 1
           f == FramesOf(events, first, last)
<1>2. n \in Nat OBVIOUS
<1>3. f = [i \in 1..n |-> FrameAt(events, first + i - 1)] BY DEF FramesOf
<1> HIDE DEF n, f
<1>4. \A i \in 1..n : FrameAt(events, first + i - 1) \in Frame BY <1>1 DEF n
<1>5. f \in Seq(Frame) /\ Len(f) = n /\ \A i \in 1..n : f[i] = FrameAt(events, first + i - 1)
  BY <1>2, <1>3, <1>4
<1> QED BY <1>5 DEF n, f

LEMMA NoFrames ==
  ASSUME NEW events, NEW first \in Nat, NEW last \in Int, last < first
  PROVE  FramesOf(events, first, last) = <<>>
<1>1. 1..(last - first + 1) = {} OBVIOUS
<1> QED BY <1>1 DEF FramesOf

\* The log only grows at its end.
LEMMA FramesGrow ==
  ASSUME NEW events \in Seq(Event), NEW more \in Seq(Event),
         NEW first \in Nat \ {0}, NEW last \in Nat, last <= Len(events)
  PROVE  FramesOf(events \o more, first, last) = FramesOf(events, first, last)
<1>1. ASSUME NEW i \in 1..(last - first + 1)
      PROVE FrameAt(events \o more, first + i - 1) = FrameAt(events, first + i - 1)
  <2>1. first + i - 1 \in 1..Len(events) OBVIOUS
  <2>2. (events \o more)[first + i - 1] = events[first + i - 1] BY <2>1
  <2> QED BY <2>2 DEF FrameAt
<1> QED BY <1>1 DEF FramesOf

LEMMA FramesJoin ==
  ASSUME NEW events \in Seq(Event), NEW first \in Nat \ {0}, NEW mid \in Nat, NEW last \in Nat,
         first <= mid, mid < last, last <= Len(events)
  PROVE  FramesOf(events, first, mid) \o FramesOf(events, mid + 1, last)
           = FramesOf(events, first, last)
<1> DEFINE a == FramesOf(events, first, mid)
           b == FramesOf(events, mid + 1, last)
           c == FramesOf(events, first, last)
<1>1. /\ a \in Seq(Frame) /\ Len(a) = mid - first + 1
      /\ \A i \in 1..(mid - first + 1) : a[i] = FrameAt(events, first + i - 1)
  <2>1. mid <= Len(events) OBVIOUS
  <2> QED BY <2>1, FramesType
<1>2. /\ b \in Seq(Frame) /\ Len(b) = last - (mid + 1) + 1
      /\ \A i \in 1..(last - (mid + 1) + 1) : b[i] = FrameAt(events, mid + 1 + i - 1)
  <2>1. mid + 1 \in Nat \ {0} /\ mid + 1 <= last OBVIOUS
  <2> QED BY <2>1, FramesType
<1>3. /\ c \in Seq(Frame) /\ Len(c) = last - first + 1
      /\ \A i \in 1..(last - first + 1) : c[i] = FrameAt(events, first + i - 1)
  <2>1. first <= last OBVIOUS
  <2> QED BY <2>1, FramesType
<1> HIDE DEF a, b, c
<1>4. a \o b \in Seq(Frame) /\ Len(a \o b) = Len(c)
  <2>0. a \in Seq(Frame) /\ b \in Seq(Frame) BY <1>1, <1>2
  <2>1. a \o b \in Seq(Frame) /\ Len(a \o b) = Len(a) + Len(b) BY ONLY <2>0
  <2> QED BY <1>1, <1>2, <1>3, <2>1
<1>5. ASSUME NEW i \in 1..Len(c) PROVE (a \o b)[i] = c[i]
  <2>0. c[i] = FrameAt(events, first + i - 1) BY <1>3
  <2>1. CASE i <= Len(a)
    <3>1. i \in 1..(mid - first + 1) /\ i \in 1..Len(a) BY <1>1, <1>3, <2>1
    <3>2. (a \o b)[i] = a[i] BY <1>1, <1>2, <3>1
    <3> QED BY <1>1, <2>0, <3>1, <3>2
  <2>2. CASE i > Len(a)
    <3>1. i - Len(a) \in 1..(last - (mid + 1) + 1) /\ i \in 1..(Len(a) + Len(b))
      BY <1>1, <1>2, <1>3, <2>2
    <3>2. (a \o b)[i] = b[i - Len(a)] BY <1>1, <1>2, <2>2, <3>1
    <3>3. mid + 1 + (i - Len(a)) - 1 = first + i - 1 BY SMTT(30), <1>1, <1>3
    <3> QED BY <1>2, <2>0, <3>1, <3>2, <3>3
  <2>3. i <= Len(a) \/ i > Len(a) BY <1>1, <1>3
  <2> QED BY <2>1, <2>2, <2>3
<1>6. a \o b = c
  <2>1. c \in Seq(Frame) /\ \A i \in 1..Len(a \o b) : (a \o b)[i] = c[i] BY <1>3, <1>4, <1>5
  <2> QED BY <1>4, <2>1, SeqEqual
<1> QED BY <1>6 DEF a, b, c

-----------------------------------------------------------------------------
(* Sorting frames that are in order already.                               *)

LEMMA InOrderTail ==
  ASSUME NEW events \in Seq(Event), NEW first \in Nat \ {0}, NEW last \in Nat,
         first <= last, last <= Len(events), NEW low \in 1..(last - first + 2)
  PROVE  InOrder(FramesOf(events, first, last), low..(last - first + 1))
           = FramesOf(events, first + low - 1, last)
<1> DEFINE frames == FramesOf(events, first, last)
           n      == last - first + 1
           wanted == low..n
<1>1. n \in Nat /\ low \in Nat \ {0} /\ low <= n + 1 OBVIOUS
<1>2. \A i \in 1..n : frames[i] = FrameAt(events, first + i - 1) BY FramesType
<1>n. n = last - first + 1 OBVIOUS
<1> HIDE DEF frames, n
<1>3. Cardinality(wanted) = n - low + 1
  <2>1. low \in Int /\ n \in Int BY <1>1
  <2>2. Cardinality(wanted) = IF low > n THEN 0 ELSE n - low + 1 BY <2>1, FS_Interval
  <2> QED BY <1>1, <2>2
<1>4. ASSUME NEW i \in wanted
      PROVE  Cardinality({j \in wanted : Before(frames, j, i)}) = i - low
  <2>1. {j \in wanted : Before(frames, j, i)} = low..(i-1)
    <3>1. ASSUME NEW j \in wanted PROVE Before(frames, j, i) <=> j < i
      <4>1. i \in 1..n /\ j \in 1..n BY <1>1
      <4>2. frames[i] = FrameAt(events, first + i - 1) /\ frames[j] = FrameAt(events, first + j - 1)
        BY <1>2, <4>1
      <4>3. frames[i].seq = first + i - 1 /\ frames[j].seq = first + j - 1 BY <4>2 DEF FrameAt
      <4> QED BY <4>1, <4>3 DEF Before
    <3> QED BY <1>1, <3>1
  <2>2. low \in Int /\ i - 1 \in Int BY <1>1
  <2>3. Cardinality(low..(i-1)) = IF low > i - 1 THEN 0 ELSE (i - 1) - low + 1
    BY <2>2, FS_Interval
  <2>4. low <= i /\ i \in Int BY <1>1
  <2>5. Cardinality(low..(i-1)) = i - low BY <1>1, <2>3, <2>4
  <2> QED BY <2>1, <2>5
<1> DEFINE Rank(i) == Cardinality({j \in wanted : Before(frames, j, i)})
<1>5. \A i \in wanted : Rank(i) = i - low BY <1>4
<1> HIDE DEF Rank
<1>6. ASSUME NEW k \in 1..(n - low + 1)
      PROVE  frames[CHOOSE i \in wanted : Rank(i) = k - 1] = FrameAt(events, (first + low - 1) + k - 1)
  <2>1. low + k - 1 \in wanted /\ low + k - 1 \in 1..n BY <1>1
  <2>2. \A i \in wanted : Rank(i) = k - 1 <=> i = low + k - 1
    <3> SUFFICES ASSUME NEW i \in wanted PROVE Rank(i) = k - 1 <=> i = low + k - 1 OBVIOUS
    <3>1. Rank(i) = i - low BY <1>5
    <3> QED BY <1>1, <3>1
  <2>3. (CHOOSE i \in wanted : Rank(i) = k - 1) = low + k - 1
    <3> HIDE DEF wanted
    <3> QED BY <2>1, <2>2
  <2>4. first + (low + k - 1) - 1 = (first + low - 1) + k - 1 BY <1>1
  <2> QED BY <1>2, <2>1, <2>3, <2>4
<1>7. InOrder(frames, wanted)
        = [k \in 1..(n - low + 1) |-> FrameAt(events, (first + low - 1) + k - 1)]
  <2>1. InOrder(frames, wanted)
          = [k \in 1..Cardinality(wanted) |-> frames[CHOOSE i \in wanted : Rank(i) = k - 1]]
    BY DEF InOrder, Rank
  <2> HIDE DEF wanted
  <2> QED BY <1>3, <1>6, <2>1
<1>8. last - (first + low - 1) + 1 = n - low + 1 BY <1>1, <1>n
<1>9. InOrder(frames, wanted) = FramesOf(events, first + low - 1, last)
  BY <1>7, <1>8 DEF FramesOf
<1> QED BY <1>9 DEF frames, n

-----------------------------------------------------------------------------
(* Reading and merging pieces that lie side by side.                       *)

\* What a read or a compaction gathers from the pieces it opens.
Gathered(pieces, from) ==
  FlattenSeq([i \in DOMAIN pieces |-> IF pieces[i].last < from THEN <<>> ELSE pieces[i].frames])

LEMMA GatherTiles ==
  ASSUME NEW events \in Seq(Event), NEW pieces \in Seq(Piece), Beside(pieces, events),
         NEW from \in Nat, pieces # <<>>, from <= pieces[Len(pieces)].last
  PROVE  \E first \in Nat \ {0} :
           /\ first <= pieces[Len(pieces)].last
           /\ first <= from \/ first = pieces[1].first
           /\ Gathered(pieces, from) = FramesOf(events, first, pieces[Len(pieces)].last)
<1> DEFINE n  == Len(pieces)
           ss == [i \in 1..n |-> IF pieces[i].last < from THEN <<>> ELSE pieces[i].frames]
<1>1. n \in Nat \ {0} /\ DOMAIN pieces = 1..n OBVIOUS
<1>2. \A i \in 1..n : /\ pieces[i].first \in Nat \ {0} /\ pieces[i].last \in Nat
                      /\ pieces[i].frames \in Seq(Frame)
                      /\ pieces[i].first <= pieces[i].last /\ pieces[i].last <= Len(events)
                      /\ i > 1 => pieces[i].first = pieces[i-1].last + 1
                      /\ pieces[i].frames = FramesOf(events, pieces[i].first, pieces[i].last)
  <2> HIDE DEF ss, n
  <2> TAKE i \in 1..n
  <2>1. pieces[i].first \in Nat /\ pieces[i].last \in Nat /\ pieces[i].frames \in Seq(Frame)
    <3>1. pieces[i] \in Piece BY <1>1
    <3> QED BY <3>1 DEF Piece
  <2>2. /\ 0 < pieces[i].first /\ pieces[i].first <= pieces[i].last
        /\ pieces[i].last <= Len(events)
        /\ i > 1 => pieces[i].first = pieces[i-1].last + 1
        /\ pieces[i].frames = FramesOf(events, pieces[i].first, pieces[i].last)
    BY <1>1 DEF Beside
  <2> QED BY <2>1, <2>2
<1>3. ss \in Seq(Seq(Frame)) /\ Len(ss) = n
  <2>1. \A i \in 1..n : (IF pieces[i].last < from THEN <<>> ELSE pieces[i].frames) \in Seq(Frame)
    BY <1>2
  <2> QED BY <1>1, <2>1
<1>4. \A i \in 1..n : ss[i] = IF pieces[i].last < from THEN <<>> ELSE pieces[i].frames OBVIOUS
<1>5. Gathered(pieces, from) = FlattenSeq(ss) BY <1>1 DEF Gathered
<1> HIDE DEF ss
<1>6. PICK f : /\ f \in [0..n -> Seq(Frame)] /\ f[0] = <<>>
               /\ \A i \in 1..n : f[i] = f[i-1] \o ss[i]
               /\ FlattenSeq(ss) = f[n]
  <2>1. PICK f : Unfolds(f, ss, Frame) /\ FlattenSeq(ss) = f[Len(ss)] BY <1>3, Flattened
  <2> QED BY <1>3, <2>1 DEF Unfolds
<1> DEFINE Skipped(k) == f[k] = <<>> /\ (k = 0 \/ pieces[k].last < from)
           Reached(k) == /\ k > 0 /\ from <= pieces[k].last
                         /\ \E first \in Nat \ {0} :
                              /\ first <= pieces[k].last
                              /\ first <= from \/ first = pieces[1].first
                              /\ f[k] = FramesOf(events, first, pieces[k].last)
           T == {k \in 0..n : Skipped(k) \/ Reached(k)}
<1>7. 0 \in T BY <1>1, <1>6
<1>8. ASSUME NEW k \in 0..(n-1), k \in T PROVE k + 1 \in T
  <2>1. k + 1 \in 1..n /\ (k + 1) - 1 = k /\ k \in 0..n BY <1>1
  <2>2. f[k+1] = f[k] \o ss[k+1] /\ f[k] \in Seq(Frame) BY <1>6, <2>1
  <2>3. k > 0 => pieces[k+1].first = pieces[k].last + 1 BY SMTT(30), <1>2, <2>1
  <2>4. CASE pieces[k+1].last < from
    <3>1. ss[k+1] = <<>> BY <1>4, <2>1, <2>4
    <3>2. k = 0 \/ pieces[k].last < from
      <4>1. CASE k > 0
        <5>1. k \in 1..n BY <2>1, <4>1
        <5> QED BY <1>2, <2>1, <2>3, <2>4, <4>1, <5>1
      <4> QED BY <2>1, <4>1
    <3>3. f[k] = <<>> BY <1>2, <1>8, <2>1, <3>2
    <3>4. f[k+1] = <<>> BY <2>2, <3>1, <3>3
    <3> QED BY <2>1, <2>4, <3>4
  <2>5. CASE ~(pieces[k+1].last < from)
    <3>0. ss[k+1] = FramesOf(events, pieces[k+1].first, pieces[k+1].last)
          /\ pieces[k+1].last \in Nat /\ from <= pieces[k+1].last
          /\ pieces[k+1].first \in Nat \ {0} /\ pieces[k+1].first <= pieces[k+1].last
          /\ pieces[k+1].last <= Len(events) /\ ss[k+1] \in Seq(Frame)
      <4>1. ss[k+1] = pieces[k+1].frames BY <1>4, <2>1, <2>5
      <4> HIDE DEF n
      <4>2. pieces[k+1].last \in Nat BY <1>2, <2>1
      <4> QED BY <1>2, <2>1, <2>5, <4>1, <4>2
    <3>1. CASE Skipped(k)
      <4>1. f[k+1] = ss[k+1] BY <2>2, <3>0, <3>1
      <4>2. pieces[k+1].first <= from \/ pieces[k+1].first = pieces[1].first
        <5>1. CASE k = 0 BY <5>1
        <5>2. CASE k # 0
          <6>1. k \in 1..n BY <2>1, <5>2
          <6> QED BY <1>2, <2>3, <3>1, <5>2, <6>1
        <5> QED BY <5>1, <5>2
      <4>3. Reached(k+1) BY <2>1, <3>0, <4>1, <4>2
      <4> QED BY <2>1, <4>3
    <3>2. CASE Reached(k)
      <4>1. k \in 1..n BY <2>1, <3>2
      <4>2. PICK first \in Nat \ {0} :
               /\ first <= pieces[k].last
               /\ first <= from \/ first = pieces[1].first
               /\ f[k] = FramesOf(events, first, pieces[k].last)
        BY <3>2
      <4>3. /\ pieces[k].last \in Nat /\ pieces[k].last < pieces[k+1].last
            /\ pieces[k+1].first = pieces[k].last + 1
        BY <1>2, <2>3, <3>0, <4>1
      <4>4. f[k+1] = FramesOf(events, first, pieces[k+1].last)
        <5>1. f[k+1] = FramesOf(events, first, pieces[k].last)
                         \o FramesOf(events, pieces[k].last + 1, pieces[k+1].last)
          BY <2>2, <3>0, <4>2, <4>3
        <5> QED BY <3>0, <4>2, <4>3, <5>1, FramesJoin
      <4>5. first <= pieces[k+1].last BY SMTT(30), <3>0, <4>2, <4>3
      <4>6. Reached(k+1) BY <2>1, <3>0, <4>2, <4>4, <4>5
      <4> QED BY <2>1, <4>6
    <3> QED BY <1>8, <3>1, <3>2
  <2> QED BY <2>4, <2>5
<1>9. \A k \in T : Skipped(k) \/ Reached(k) OBVIOUS
<1> HIDE DEF T
<1>10. n \in T
  <2>1. 0..n \subseteq T BY <1>1, <1>7, <1>8, UpTo
  <2> QED BY <1>1, <2>1
<1>11. ~Skipped(n) BY <1>1, <1>2
<1>12. Reached(n) BY <1>9, <1>10, <1>11
<1> QED BY <1>5, <1>6, <1>12

\* LogStore.read on a manifest whose pieces tile the log.
LEMMA ReadTiles ==
  ASSUME NEW events \in Seq(Event), NEW m \in Manifest, NEW from \in Nat \ {0},
         Tiled(m.segments \o m.chunks, events)
  PROVE  Read(m, from) = IF m.trim > 0 /\ from <= m.trim THEN {}
                         ELSE {FramesOf(events, from, Len(events))}
<1>1. PICK pieces \in Seq(Piece) : pieces = m.segments \o m.chunks
  <2>1. m.segments \in Seq(Piece) /\ m.chunks \in Seq(Piece) BY DEF Manifest
  <2>2. m.segments \o m.chunks \in Seq(Piece) BY <2>1, ConcatProperties
  <2> QED BY <2>2
<1>2. m.trim \in Nat /\ Len(events) \in Nat /\ Tiled(pieces, events) BY <1>1 DEF Manifest
<1> DEFINE reached == Gathered(pieces, from)
           wanted  == {i \in DOMAIN reached : reached[i].seq >= from /\ reached[i].seq > m.trim}
<1>3. Read(m, from) = IF m.trim > 0 /\ from <= m.trim THEN {} ELSE {InOrder(reached, wanted)}
  BY <1>1 DEF Read, Gathered
<1>4. ASSUME ~(m.trim > 0 /\ from <= m.trim), Len(events) < from
      PROVE  InOrder(reached, wanted) = <<>>
  <2>1. ASSUME NEW i \in DOMAIN pieces PROVE pieces[i].last < from
    <3>1. pieces[i] \in Piece OBVIOUS
    <3>2. pieces[i].last <= Len(events) BY <1>2 DEF Tiled, Beside
    <3> QED BY <1>2, <1>4, <3>1, <3>2 DEF Piece
  <2>2. reached = FlattenSeq([i \in DOMAIN pieces |-> <<>>]) BY <2>1 DEF Gathered
  <2>3. PICK ss \in Seq(Seq(Frame)) : reached = FlattenSeq(ss) /\ \A i \in 1..Len(ss) : ss[i] = <<>>
    <3>1. DOMAIN pieces = 1..Len(pieces) /\ Len(pieces) \in Nat OBVIOUS
    <3> DEFINE n == Len(pieces)
    <3> HIDE DEF n, reached
    <3>2. [i \in 1..n |-> <<>>] \in Seq(Seq(Frame)) /\ Len([i \in 1..n |-> <<>>]) = n
      <4>1. n \in Nat /\ <<>> \in Seq(Frame) BY <3>1 DEF n
      <4> QED BY <4>1
    <3> QED BY <2>2, <3>1, <3>2 DEF n
  <2> HIDE DEF reached
  <2>4. PICK f : Unfolds(f, ss, Frame) /\ FlattenSeq(ss) = f[Len(ss)] BY Flattened
  <2> DEFINE n == Len(ss)
             T == {k \in 0..n : f[k] = <<>>}
  <2>5. n \in Nat OBVIOUS
  <2>6. /\ f \in [0..n -> Seq(Frame)] /\ f[0] = <<>>
        /\ \A i \in 1..n : f[i] = f[i-1] \o <<>>
    BY <2>3, <2>4 DEF Unfolds
  <2> HIDE DEF n
  <2>7. 0 \in T BY <2>5, <2>6
  <2>8. ASSUME NEW k \in 0..(n-1), k \in T PROVE k + 1 \in T
    <3>1. k + 1 \in 1..n /\ k + 1 \in 0..n /\ (k + 1) - 1 = k BY <2>5
    <3>2. f[k+1] = f[k] \o <<>> BY <2>6, <3>1
    <3>3. f[k+1] = <<>> BY <2>8, <3>2
    <3> QED BY <3>1, <3>3
  <2>9. \A k \in T : f[k] = <<>> OBVIOUS
  <2> HIDE DEF T
  <2>10. 0..n \subseteq T BY <2>5, <2>7, <2>8, UpTo
  <2>11. reached = <<>> BY <2>3, <2>4, <2>5, <2>9, <2>10 DEF n
  <2>12. wanted = {} BY <2>11
  <2>13. Cardinality(wanted) = 0 BY <2>12, FS_EmptySet
  <2> HIDE DEF wanted
  <2>14. 1..Cardinality(wanted) = {} BY <2>13
  <2> QED BY <2>14 DEF InOrder
<1>5. ASSUME ~(m.trim > 0 /\ from <= m.trim), from <= Len(events)
      PROVE  InOrder(reached, wanted) = FramesOf(events, from, Len(events))
  <2>1. /\ pieces # <<>> /\ pieces[Len(pieces)].last = Len(events) /\ pieces[1].first = 1
        /\ Beside(pieces, events)
    <3>1. Len(events) # 0 BY <1>2, <1>5
    <3>2. events # <<>> BY <3>1
    <3> QED BY <1>2, <3>2 DEF Tiled
  <2>2. PICK first \in Nat \ {0} : /\ first <= Len(events) /\ first <= from
                                  /\ reached = FramesOf(events, first, Len(events))
    <3>1. PICK first \in Nat \ {0} :
            /\ first <= pieces[Len(pieces)].last
            /\ first <= from \/ first = pieces[1].first
            /\ Gathered(pieces, from) = FramesOf(events, first, pieces[Len(pieces)].last)
      BY SMTT(30), <1>2, <1>5, <2>1, GatherTiles
    <3> QED BY <1>2, <1>5, <2>1, <3>1
  <2> HIDE DEF reached
  <2>l. PICK last \in Nat : last = Len(events) BY <1>2
  <2> DEFINE low  == from - first + 1
             n    == last - first + 1
  <2>3. /\ reached \in Seq(Frame) /\ Len(reached) = n
        /\ \A i \in 1..n : reached[i] = FrameAt(events, first + i - 1)
    <3>1. first <= last /\ last <= Len(events) /\ reached = FramesOf(events, first, last)
      BY <2>2, <2>l
    <3> QED BY <3>1, FramesType
  <2>4. low \in 1..(last - first + 2) /\ first + low - 1 = from /\ n \in Nat
    BY <1>5, <2>2, <2>l
  <2>5. ASSUME NEW i \in 1..n
        PROVE (reached[i].seq >= from /\ reached[i].seq > m.trim) <=> i >= low
    <3>1. reached[i] = FrameAt(events, first + i - 1) BY <2>3
    <3>2. reached[i].seq = first + i - 1 BY <3>1 DEF FrameAt
    <3> QED BY <1>2, <1>5, <2>2, <3>2
  <2>6. DOMAIN reached = 1..n BY <2>3
  <2>7. wanted = {i \in 1..n : i >= low} BY <2>5, <2>6
  <2>8. {i \in 1..n : i >= low} = low..n BY <2>4
  <2>9. InOrder(FramesOf(events, first, last), low..n) = FramesOf(events, first + low - 1, last)
    <3>1. first <= last /\ last <= Len(events) BY <2>2, <2>l
    <3> HIDE DEF low
    <3> QED BY <2>4, <3>1, InOrderTail
  <2> QED BY <2>2, <2>4, <2>7, <2>8, <2>9, <2>l
<1>6. Len(events) < from => FramesOf(events, from, Len(events)) = <<>> BY <1>2, NoFrames
<1> HIDE DEF reached, wanted
<1>7. Len(events) < from \/ from <= Len(events) BY <1>2
<1> QED BY <1>3, <1>4, <1>5, <1>6, <1>7

\* CompactPlan: the segment holds what its chunks held.
LEMMA MergedTiles ==
  ASSUME NEW events \in Seq(Event), NEW chunks \in Seq(Piece), chunks # <<>>,
         Beside(chunks, events)
  PROVE  Merged(chunks) = [first  |-> chunks[1].first,
                           last   |-> chunks[Len(chunks)].last,
                           frames |-> FramesOf(events, chunks[1].first, chunks[Len(chunks)].last)]
<1> DEFINE n   == Len(chunks)
           all == Frames(chunks)
<1>1. n \in Nat \ {0} /\ DOMAIN chunks = 1..n OBVIOUS
<1>2. \A i \in 1..n : chunks[i].first \in Nat \ {0} /\ chunks[i].last \in Nat
                     /\ chunks[i].first <= chunks[i].last /\ chunks[i].last <= Len(events)
  <2> SUFFICES ASSUME NEW i \in 1..n PROVE chunks[i].first \in Nat /\ chunks[i].last \in Nat
    BY <1>1 DEF Beside
  <2>1. chunks[i] \in Piece BY <1>1
  <2> QED BY <2>1 DEF Piece
<1>3. all = Gathered(chunks, 0)
  <2>1. [i \in DOMAIN chunks |-> chunks[i].frames]
          = [i \in DOMAIN chunks |-> IF chunks[i].last < 0 THEN <<>> ELSE chunks[i].frames]
    BY <1>1, <1>2
  <2> QED BY <2>1 DEF Frames, Gathered
<1> HIDE DEF n, all
<1>4. 1 \in 1..n /\ n \in 1..n BY <1>1
<1> DEFINE first == chunks[1].first
           last  == chunks[n].last
<1>5. first \in Nat \ {0} /\ last \in Nat /\ last <= Len(events) BY <1>2, <1>4
<1>6. all = FramesOf(events, first, last) /\ first <= last
  <2>1. PICK b \in Nat \ {0} :
           /\ b <= chunks[Len(chunks)].last
           /\ b <= 0 \/ b = chunks[1].first
           /\ Gathered(chunks, 0) = FramesOf(events, b, chunks[Len(chunks)].last)
    <3>1. 0 \in Nat /\ 0 <= chunks[Len(chunks)].last BY <1>5 DEF n
    <3> QED BY <3>1, GatherTiles
  <2> QED BY <1>3, <2>1 DEF n
<1> HIDE DEF first, last
<1>7. /\ all \in Seq(Frame) /\ Len(all) = last - first + 1
      /\ \A i \in 1..(last - first + 1) : all[i] = FrameAt(events, first + i - 1)
  BY <1>5, <1>6, FramesType
<1>8. InOrder(all, DOMAIN all) = all
  <2>1. DOMAIN all = 1..(last - first + 1) /\ 1 \in 1..(last - first + 2) BY <1>5, <1>6, <1>7
  <2>2. InOrder(FramesOf(events, first, last), 1..(last - first + 1))
          = FramesOf(events, first + 1 - 1, last)
    BY <1>5, <1>6, <2>1, InOrderTail
  <2>3. first + 1 - 1 = first BY <1>5
  <2> QED BY <1>6, <2>1, <2>2, <2>3
<1>9. Head(all).seq = first /\ Last(all).seq = last
  <2>1. 1 \in 1..(last - first + 1) /\ last - first + 1 \in 1..(last - first + 1)
        /\ first + 1 - 1 = first /\ first + (last - first + 1) - 1 = last
    BY <1>5, <1>6
  <2>2. all[1] = FrameAt(events, first) /\ all[Len(all)] = FrameAt(events, last) BY <1>7, <2>1
  <2>3. Head(all) = all[1] /\ Last(all) = all[Len(all)] BY <1>7 DEF Last
  <2> QED BY <2>2, <2>3 DEF FrameAt
<1>10. Merged(chunks) = [first |-> Head(all).seq, last |-> Last(all).seq, frames |-> all]
  BY <1>8 DEF Merged, all
<1> QED BY <1>6, <1>9, <1>10 DEF first, last, n

-----------------------------------------------------------------------------
(* What the plans make of a ref.                                           *)

\* What the assumptions say of the absent option and of the jobs.
LEMMA Constants ==
  /\ TTL \in Nat /\ None \notin Lease /\ None \notin Key /\ None \notin Index
  /\ None \notin Manifest /\ Op \cap Key = {}
  /\ \A j \in Job :
       /\ j.kind \in {"append", "stable", "steal", "compact", "trim"}
       /\ j.kind = "append"  => j \in AppendJobs
       /\ j.kind = "stable"  => j \in StableJobs
       /\ j.kind = "steal"   => j \in StealJobs
       /\ j.kind = "compact" => j \in CompactJobs
       /\ j.kind = "trim"    => j \in TrimJobs
<1>1. /\ TTL \in Nat /\ None \notin Lease /\ None \notin Key /\ None \notin Index
      /\ None \notin Manifest /\ Op \cap Key = {}
  BY TTLAssumption, NoneAssumption, OpAssumption, AbsentAssumption
<1>2. ASSUME NEW j \in Job
      PROVE  /\ j.kind \in {"append", "stable", "steal", "compact", "trim"}
             /\ j.kind = "append"  => j \in AppendJobs
             /\ j.kind = "stable"  => j \in StableJobs
             /\ j.kind = "steal"   => j \in StealJobs
             /\ j.kind = "compact" => j \in CompactJobs
             /\ j.kind = "trim"    => j \in TrimJobs
  <2>1. j \in AppendJobs \cup StableJobs \cup StealJobs \cup CompactJobs \cup TrimJobs
    BY JobAssumption
  <2>2. /\ j \in AppendJobs => j.kind = "append"
        /\ j \in StableJobs => j.kind = "stable"
        /\ j \in StealJobs => j.kind = "steal"
        /\ j \in CompactJobs => j.kind = "compact"
        /\ j \in TrimJobs => j.kind = "trim"
    BY DEF AppendJobs, StableJobs, StealJobs, CompactJobs, TrimJobs
  <2> QED BY <2>1, <2>2
<1> QED BY <1>1, <1>2

\* load_domain.
LEMMA DomainFacts ==
  ASSUME NEW r \in RefType, NEW feed \in Modes
  PROVE  /\ Domain(r, feed) = IF r.target = None THEN EmptyDomain(feed) ELSE r.target
         /\ Domain(r, feed) \in Manifest
         /\ r.target # None => r.target \in Manifest
<1>1. r.target # None => r.target \in Manifest BY DEF RefType
<1>2. ASSUME r.target # None PROVE (CHOOSE m \in LoadManifest(r) : TRUE) = r.target
  BY <1>2 DEF LoadManifest
<1>3. EmptyDomain(feed) \in Manifest
  <2>1. <<>> \in Seq(Piece) /\ 0 \in Nat OBVIOUS
  <2> QED BY <2>1 DEF EmptyDomain, Manifest
<1> QED BY <1>1, <1>2, <1>3 DEF Domain

\* next_writer.
LEMMA WriterFacts ==
  ASSUME NEW r \in RefType, NEW writer \in Writer, NEW now \in Nat, NEW w \in NextWriter(r, writer, now)
  PROVE  /\ w.epoch \in Nat /\ w.lease \in Lease /\ w.lease.writer = writer
         /\ \/ w.epoch = r.epoch /\ r.lease # None /\ r.lease.writer = writer
            \/ w.epoch = r.epoch + 1
<1>1. r.epoch \in Nat BY DEF RefType
<1>2. now + TTL \in Nat BY Constants
<1>3. /\ ~(LeaseLive(r, now) /\ r.lease.writer # writer)
      /\ w = [epoch |-> IF LeaseLive(r, now) THEN r.epoch ELSE r.epoch + 1,
              lease |-> [writer |-> writer, until |-> now + TTL]]
  BY DEF NextWriter
<1>4. [writer |-> writer, until |-> now + TTL] \in Lease BY <1>2 DEF Lease
<1> QED BY <1>1, <1>3, <1>4 DEF LeaseLive

LEMMA ChunkFacts ==
  ASSUME NEW first \in Nat \ {0}, NEW payloads \in Seq(Payload), Len(payloads) >= 1
  PROVE  /\ Chunk(first, payloads) \in Piece
         /\ Chunk(first, payloads).first = first
         /\ Chunk(first, payloads).last = first + Len(payloads) - 1
         /\ Chunk(first, payloads).frames
              = [i \in 1..Len(payloads) |-> [seq |-> first + i - 1, payload |-> payloads[i]]]
<1> DEFINE n == Len(payloads)
           frames == [i \in 1..n |-> [seq |-> first + i - 1, payload |-> payloads[i]]]
<1>1. n \in Nat /\ DOMAIN payloads = 1..n OBVIOUS
<1>2. frames \in Seq(Frame)
  <2>1. \A i \in 1..n : [seq |-> first + i - 1, payload |-> payloads[i]] \in Frame BY DEF Frame
  <2> QED BY <1>1, <2>1
<1>3. Chunk(first, payloads) = [first |-> first, last |-> first + n - 1, frames |-> frames]
  BY <1>1 DEF Chunk
<1>4. first + n - 1 \in Nat OBVIOUS
<1> HIDE DEF frames, n
<1>5. Chunk(first, payloads) \in Piece BY <1>2, <1>3, <1>4 DEF Piece
<1> QED BY <1>3, <1>5 DEF frames, n

\* prepare_events: what a draft of an append is, which found m and leaves the
\* log in a mode.
Extended(r, op, writer, payloads, key, m, mode, d) ==
  /\ d = [op |-> op, next |-> d.next, result |-> d.result, events |-> d.events]
  /\ d.next \in RefType /\ d.next.generation = r.generation + 1
  /\ d.next.lease # None /\ d.next.lease.writer = writer
  /\ \/ d.next.epoch = r.epoch /\ r.lease # None /\ r.lease.writer = writer
     \/ d.next.epoch = r.epoch + 1
  /\ d.result = [first |-> m.head + 1, last |-> m.head + Len(payloads)]
  /\ d.events = EventsOf(payloads, key, d.next.epoch, writer)
  /\ r.target # None /\ mode = "complete" => m.index # None
  /\ d.next.target \in Manifest
  /\ d.next.target.head = m.head + Len(payloads)
  /\ d.next.target.segments = m.segments
  /\ d.next.target.chunks = Append(m.chunks, Chunk(m.head + 1, payloads))
  /\ d.next.target.trim = m.trim /\ d.next.target.retention = mode
  /\ mode = "trimmable" => d.next.target.index = None
  /\ mode = "complete" =>
       /\ d.next.target.index \in Index
       /\ d.next.target.index.entries =
            (IF m.index = None THEN {} ELSE m.index.entries)
              \cup (IF key = None THEN {}
                    ELSE {[key |-> key, payload |-> payloads[1], seq |-> m.head + 1,
                           generation |-> r.generation + 1]})

ModeOf(m, feed) == IF m.retention = "complete" THEN "complete" ELSE feed

LEMMA ExtendFacts ==
  ASSUME NEW r \in RefType, NEW op, NEW writer \in Writer, NEW feed \in Modes,
         NEW payloads \in Seq(Payload), Len(payloads) >= 1, NEW key \in Key \cup {None},
         NEW now \in Nat, NEW d \in Extend(r, op, writer, feed, payloads, key, now)
  PROVE  Extended(r, op, writer, payloads, key, Domain(r, feed), ModeOf(Domain(r, feed), feed), d)
<1>m. PICK m, mode : m = Domain(r, feed) /\ mode = ModeOf(m, feed) OBVIOUS
<1> DEFINE chunk   == Chunk(m.head + 1, payloads)
           entries == IF m.index = None THEN {} ELSE m.index.entries
           entry   == [key |-> key, payload |-> payloads[1], seq |-> chunk.first,
                       generation |-> r.generation + 1]
           index   == CASE mode = "trimmable" -> None
                        [] mode = "complete" /\ key # None -> [entries |-> entries \cup {entry}]
                        [] OTHER -> [entries |-> entries]
           manifest == [m EXCEPT !.head = chunk.last, !.chunks = Append(@, chunk),
                                 !.retention = mode, !.index = index]
<1>1. m \in Manifest /\ mode \in Modes BY <1>m, DomainFacts DEF Modes, Manifest, ModeOf
<1>2. /\ m.head \in Nat /\ m.chunks \in Seq(Piece) /\ m.segments \in Seq(Piece) /\ m.trim \in Nat
      /\ m.index \in Index \cup {None}
  BY <1>1 DEF Manifest
<1>3. /\ chunk \in Piece /\ chunk.first = m.head + 1 /\ chunk.last = m.head + Len(payloads)
      /\ chunk.last \in Nat
  <2>1. m.head + 1 \in Nat \ {0} /\ (m.head + 1) + Len(payloads) - 1 = m.head + Len(payloads)
        /\ m.head + Len(payloads) \in Nat
    BY <1>2
  <2> QED BY <2>1, ChunkFacts
<1>4. PICK w \in NextWriter(r, writer, now) :
        d = Draft(op, Advance(r, w.epoch, w.lease, manifest),
                  [first |-> chunk.first, last |-> chunk.last],
                  EventsOf(payloads, key, w.epoch, writer))
  <2> HIDE DEF chunk
  <2>1. ~(r.target # None /\ mode = "complete" /\ m.index = None)
    BY <1>m DEF Extend, ModeOf
  <2> QED BY <1>m, <2>1 DEF Extend, ModeOf, chunk
<1>5. r.target # None /\ mode = "complete" => m.index # None BY <1>m DEF Extend, ModeOf
<1>6. index \in Index \cup {None} /\ (mode = "complete" => index \in Index)
  <2>1. entries \in SUBSET Entry BY <1>2 DEF Index
  <2>2. ASSUME key # None PROVE entry \in Entry
    <3>1. payloads[1] \in Payload OBVIOUS
    <3>2. r.generation + 1 \in Nat /\ chunk.first \in Nat BY <1>2, <1>3 DEF RefType
    <3> HIDE DEF chunk
    <3> QED BY <2>2, <3>1, <3>2 DEF Entry
  <2> HIDE DEF entries, entry
  <2> QED BY <1>1, <2>1, <2>2 DEF Index, Modes
<1> HIDE DEF chunk, index
<1>7. /\ manifest \in Manifest /\ manifest.head = chunk.last /\ manifest.segments = m.segments
      /\ manifest.chunks = Append(m.chunks, chunk) /\ manifest.trim = m.trim
      /\ manifest.retention = mode /\ manifest.index = index
  <2>1. Append(m.chunks, chunk) \in Seq(Piece) BY <1>2, <1>3
  <2> QED BY <1>1, <1>2, <1>3, <1>6, <2>1 DEF Manifest
<1> HIDE DEF manifest
<1>8. /\ w.epoch \in Nat /\ w.lease \in Lease /\ w.lease.writer = writer
      /\ \/ w.epoch = r.epoch /\ r.lease # None /\ r.lease.writer = writer
         \/ w.epoch = r.epoch + 1
  BY WriterFacts
<1>9. /\ d.op = op /\ d.result = [first |-> chunk.first, last |-> chunk.last]
      /\ d.events = EventsOf(payloads, key, w.epoch, writer)
      /\ d.next = [generation |-> r.generation + 1, epoch |-> w.epoch, lease |-> w.lease,
                   target |-> manifest]
      /\ d = [op |-> op, next |-> d.next, result |-> d.result, events |-> d.events]
  BY <1>4 DEF Draft, Advance
<1>10. d.next \in RefType
  <2>1. r.generation + 1 \in Nat BY DEF RefType
  <2> QED BY <1>7, <1>8, <1>9, <2>1 DEF RefType
<1>11. mode = "trimmable" => index = None BY DEF index
<1>12. mode = "complete" =>
         index.entries = entries \cup (IF key = None THEN {} ELSE {entry})
  BY DEF index
<1>13. w.lease # None BY <1>8, Constants
<1>14. Extended(r, op, writer, payloads, key, m, mode, d)
  BY <1>3, <1>5, <1>6, <1>7, <1>8, <1>9, <1>10, <1>11, <1>12, <1>13 DEF chunk, Extended
<1> QED BY <1>m, <1>14

\* TakeoverPlan, CompactPlan and TrimPlan.
LEMMA TakeOverFacts ==
  ASSUME NEW r \in RefType, NEW op, NEW writer \in Writer, NEW now \in Nat,
         NEW d \in TakeOver(r, op, writer, now)
  PROVE  /\ d.op = op /\ d.next \in RefType /\ d.next.generation = r.generation + 1
         /\ d.next.epoch = r.epoch + 1 /\ d.next.target = r.target
         /\ d.result \in Nat /\ d.events = <<>>
<1>1. d = Draft(op, Advance(r, r.epoch + 1, [writer |-> writer, until |-> now + TTL], r.target),
                r.epoch + 1, <<>>)
  BY DEF TakeOver
<1>2. r.epoch + 1 \in Nat /\ r.generation + 1 \in Nat /\ now + TTL \in Nat /\ r.target \in Manifest \cup {None}
  BY Constants DEF RefType
<1>3. [writer |-> writer, until |-> now + TTL] \in Lease BY <1>2 DEF Lease
<1> QED BY <1>1, <1>2, <1>3 DEF Draft, Advance, RefType

\* CompactPlan: what a compaction makes of a manifest, through whatever handle.
MergedInto(m, n) ==
  /\ m # None /\ m \in Manifest /\ n \in Manifest /\ Len(m.chunks) >= 2
  /\ n.segments = Append(m.segments, Merged(m.chunks)) /\ n.chunks = <<>>
  /\ n.head = m.head /\ n.trim = m.trim /\ n.index = m.index
  /\ n.retention = m.retention \/ n.retention = "complete"

LEMMA CompactFacts ==
  ASSUME NEW r \in RefType, NEW op, NEW feed \in Modes, NEW d \in Compacted(r, op, feed),
         r.target # None => Beside(r.target.chunks, log), log \in Seq(Event)
  PROVE  /\ d.op = op /\ d.next \in RefType /\ d.next.generation = r.generation + 1
         /\ d.next.epoch = r.epoch /\ d.next.lease = r.lease
         /\ d.result \in Nat /\ d.events = <<>>
         /\ MergedInto(r.target, d.next.target)
<1> DEFINE m == r.target
           mode == IF feed = "complete" THEN feed ELSE m.retention
<1>1. /\ m # None /\ ~(Len(m.chunks) < 2)
      /\ d = Draft(op, Advance(r, r.epoch, r.lease,
                               [m EXCEPT !.segments = Append(@, Merged(m.chunks)), !.chunks = <<>>,
                                         !.retention = IF feed = "complete" THEN feed ELSE @]),
                   Len(m.chunks), <<>>)
  BY DEF Compacted
<1>2. m \in Manifest BY <1>1 DEF RefType
<1>3. /\ m.head \in Nat /\ m.chunks \in Seq(Piece) /\ m.segments \in Seq(Piece) /\ m.trim \in Nat
      /\ m.index \in Index \cup {None} /\ m.retention \in Modes
  BY <1>2 DEF Manifest
<1>4. Len(m.chunks) \in Nat /\ Len(m.chunks) >= 2 /\ m.chunks # <<>> BY <1>1, <1>3
<1>5. Merged(m.chunks) \in Piece
  <2>1. PICK chunks \in Seq(Piece) : chunks = m.chunks BY <1>3
  <2>2. Merged(chunks) = [first  |-> chunks[1].first, last |-> chunks[Len(chunks)].last,
                          frames |-> FramesOf(log, chunks[1].first, chunks[Len(chunks)].last)]
    <3>1. chunks # <<>> /\ Beside(chunks, log) BY <1>1, <1>4, <2>1
    <3> QED BY <3>1, MergedTiles
  <2>3. 1 \in 1..Len(chunks) /\ Len(chunks) \in 1..Len(chunks) BY <1>4, <2>1
  <2>4. chunks[1] \in Piece /\ chunks[Len(chunks)] \in Piece BY <2>3
  <2>5. chunks[1].first \in Nat \ {0} /\ chunks[Len(chunks)].last \in Nat
        /\ chunks[Len(chunks)].last <= Len(log)
    <3>1. chunks[1].first \in Nat /\ chunks[Len(chunks)].last \in Nat BY <2>4 DEF Piece
    <3>2. DOMAIN chunks = 1..Len(chunks) /\ Beside(chunks, log) BY <1>1, <2>1
    <3>3. 0 < chunks[1].first /\ chunks[Len(chunks)].last <= Len(log) BY <2>3, <3>2 DEF Beside
    <3> QED BY <3>1, <3>3
  <2>6. FramesOf(log, chunks[1].first, chunks[Len(chunks)].last) \in Seq(Frame)
    <3>1. PICK a \in Nat \ {0}, b \in Nat : a = chunks[1].first /\ b = chunks[Len(chunks)].last
      BY <2>5
    <3>2. FramesOf(log, a, b) \in Seq(Frame)
      <4>1. CASE a <= b BY <2>5, <3>1, <4>1, FramesType
      <4>2. CASE b < a
        <5>1. FramesOf(log, a, b) = <<>> BY <4>2, NoFrames
        <5> QED BY <5>1
      <4> QED BY <4>1, <4>2
    <3> QED BY <3>1, <3>2
  <2> QED BY <2>1, <2>2, <2>5, <2>6 DEF Piece
<1> DEFINE next == [m EXCEPT !.segments = Append(@, Merged(m.chunks)), !.chunks = <<>>,
                             !.retention = mode]
<1>6. mode \in Modes /\ (mode = m.retention \/ mode = "complete") BY <1>3
<1>7. next \in Manifest
  <2>1. Append(m.segments, Merged(m.chunks)) \in Seq(Piece) /\ <<>> \in Seq(Piece) BY <1>3, <1>5
  <2> HIDE DEF mode
  <2> QED BY <1>2, <1>3, <1>6, <2>1 DEF Manifest
<1>8. d = Draft(op, Advance(r, r.epoch, r.lease, next), Len(m.chunks), <<>>)
  <2>1. [m EXCEPT !.segments = Append(@, Merged(m.chunks)), !.chunks = <<>>,
                  !.retention = IF feed = "complete" THEN feed ELSE @] = next
    BY <1>2 DEF Manifest
  <2> HIDE DEF next
  <2> QED BY <1>1, <2>1
<1>9. MergedInto(m, next)
  <2> HIDE DEF mode
  <2>1. /\ next.segments = Append(m.segments, Merged(m.chunks)) /\ next.chunks = <<>>
        /\ next.head = m.head /\ next.trim = m.trim /\ next.index = m.index
        /\ next.retention = mode
    BY <1>2 DEF Manifest
  <2> HIDE DEF next
  <2> QED BY <1>1, <1>2, <1>4, <1>6, <1>7, <2>1 DEF MergedInto
<1> HIDE DEF next
<1>10. /\ d.op = op /\ d.result = Len(m.chunks) /\ d.events = <<>>
       /\ d.next = [generation |-> r.generation + 1, epoch |-> r.epoch, lease |-> r.lease,
                    target |-> next]
  BY <1>8 DEF Draft, Advance
<1>11. d.next \in RefType BY <1>7, <1>10 DEF RefType
<1> QED BY <1>4, <1>9, <1>10, <1>11

LEMMA TrimFacts ==
  ASSUME NEW r \in RefType, NEW op, NEW before \in Nat, NEW d \in Trimmed(r, op, before)
  PROVE  /\ d.op = op /\ d.next \in RefType /\ d.next.generation = r.generation + 1
         /\ d.next.epoch = r.epoch /\ d.next.lease = r.lease
         /\ d.result \in Nat /\ d.events = <<>>
         /\ r.target # None /\ r.target \in Manifest /\ r.target.retention # "complete"
         /\ \E floor \in Nat : d.next.target = [r.target EXCEPT !.trim = floor]
         /\ d.next.target \in Manifest
<1> DEFINE m == r.target
           floor == Larger(m.trim, Smaller(before, m.head))
<1>1. /\ m # None /\ m.retention # "complete"
      /\ d = Draft(op, Advance(r, r.epoch, r.lease, [m EXCEPT !.trim = floor]), floor, <<>>)
  BY DEF Trimmed
<1>2. m \in Manifest BY <1>1 DEF RefType
<1>3. floor \in Nat BY <1>2 DEF Manifest, Larger, Smaller
<1> HIDE DEF floor
<1> DEFINE next == [m EXCEPT !.trim = floor]
<1>4. next \in Manifest BY <1>2, <1>3 DEF Manifest
<1>5. /\ d.op = op /\ d.result = floor /\ d.events = <<>>
      /\ d.next = [generation |-> r.generation + 1, epoch |-> r.epoch, lease |-> r.lease,
                   target |-> next]
  BY <1>1 DEF Draft, Advance
<1> HIDE DEF next
<1>6. d.next \in RefType BY <1>4, <1>5 DEF RefType
<1> QED BY <1>1, <1>2, <1>3, <1>4, <1>5, <1>6 DEF next

-----------------------------------------------------------------------------
(* Pieces after a commit.                                                  *)

LEMMA PieceFields ==
  ASSUME NEW pieces \in Seq(Piece), NEW i \in 1..Len(pieces)
  PROVE  /\ pieces[i] \in Piece /\ pieces[i].first \in Nat /\ pieces[i].last \in Nat
         /\ pieces[i].frames \in Seq(Frame) /\ DOMAIN pieces = 1..Len(pieces)
         /\ Len(pieces) \in Nat
<1>1. pieces[i] \in Piece OBVIOUS
<1> QED BY <1>1 DEF Piece

LEMMA TilesGrow ==
  ASSUME NEW events \in Seq(Event), NEW more \in Seq(Event), NEW payloads \in Seq(Payload),
         NEW pieces \in Seq(Piece), Tiled(pieces, events),
         Len(payloads) >= 1, Len(more) = Len(payloads),
         \A i \in 1..Len(payloads) : more[i].payload = payloads[i]
  PROVE  Tiled(Append(pieces, Chunk(Len(events) + 1, payloads)), events \o more)
<1> DEFINE n    == Len(pieces)
           e    == Len(events)
           k    == Len(payloads)
           all  == events \o more
           last == Chunk(e + 1, payloads)
           new  == Append(pieces, last)
<1>1. n \in Nat /\ e \in Nat /\ k \in Nat /\ k >= 1 OBVIOUS
<1>2. /\ last \in Piece /\ last.first = e + 1 /\ last.last = e + k
      /\ last.frames = [i \in 1..k |-> [seq |-> e + 1 + i - 1, payload |-> payloads[i]]]
  <2>1. e + 1 \in Nat \ {0} /\ (e + 1) + k - 1 = e + k BY <1>1
  <2> HIDE DEF e
  <2> QED BY <2>1, ChunkFacts
<1>3. all \in Seq(Event) /\ Len(all) = e + k /\ \A i \in 1..k : all[e + i] = more[i]
  <2>1. all \in Seq(Event) /\ Len(all) = Len(events) + Len(more) BY ConcatProperties
  <2>2. \A i \in 1..k : all[e + i] = more[i] OBVIOUS
  <2> QED BY <2>1, <2>2
<1>4. new \in Seq(Piece) /\ Len(new) = n + 1 /\ new[n+1] = last
      /\ (\A i \in 1..n : new[i] = pieces[i]) /\ DOMAIN new = 1..(n+1)
  <2> HIDE DEF last
  <2> QED BY <1>1, <1>2
<1>5. last.frames = FramesOf(all, e + 1, e + k)
  <2>1. (e + k) - (e + 1) + 1 = k BY <1>1
  <2>2. ASSUME NEW i \in 1..k
        PROVE FrameAt(all, (e + 1) + i - 1) = [seq |-> e + 1 + i - 1, payload |-> payloads[i]]
    <3>1. (e + 1) + i - 1 = e + i BY <1>1
    <3>2. all[e + i].payload = payloads[i] BY <1>3
    <3> QED BY <3>1, <3>2 DEF FrameAt
  <2> HIDE DEF last, all, e, k
  <2> QED BY <1>2, <2>1, <2>2 DEF FramesOf
<1>6. \A i \in 1..n : /\ pieces[i].first \in Nat /\ pieces[i].last \in Nat
                      /\ 0 < pieces[i].first /\ pieces[i].first <= pieces[i].last
                      /\ pieces[i].last <= e
                      /\ i > 1 => pieces[i].first = pieces[i-1].last + 1
                      /\ pieces[i].frames = FramesOf(events, pieces[i].first, pieces[i].last)
  <2> HIDE DEF n, e, all, new, last
  <2> TAKE i \in 1..n
  <2>1. pieces[i].first \in Nat /\ pieces[i].last \in Nat /\ DOMAIN pieces = 1..n
    BY PieceFields DEF n
  <2>2. Beside(pieces, events) BY DEF Tiled
  <2> QED BY <2>1, <2>2 DEF Beside, e
<1>7. n > 0 => pieces[1].first = 1 /\ pieces[n].last = e
  <2>1. n > 0 => pieces # <<>> OBVIOUS
  <2> HIDE DEF n, e, all, new, last
  <2> QED BY <2>1 DEF Tiled, n, e
<1>8. n = 0 => e = 0
  <2>1. n = 0 => pieces = <<>> OBVIOUS
  <2>2. events = <<>> => e = 0 OBVIOUS
  <2> HIDE DEF n, e, all, new, last
  <2> QED BY <2>1, <2>2 DEF Tiled
<1> HIDE DEF n, e, k, last, new
<1>9. ASSUME NEW i \in 1..(n+1)
      PROVE /\ 0 < new[i].first /\ new[i].first <= new[i].last
            /\ new[i].last <= e + k
            /\ i > 1 => new[i].first = new[i-1].last + 1
            /\ new[i].frames = FramesOf(all, new[i].first, new[i].last)
  <2>1. CASE i \in 1..n
    <3>1. new[i] = pieces[i] /\ (i > 1 => new[i-1] = pieces[i-1]) BY <1>1, <1>4, <2>1
    <3>2. pieces[i].frames = FramesOf(all, pieces[i].first, pieces[i].last)
      <4>1. pieces[i].first \in Nat \ {0} /\ pieces[i].last \in Nat /\ pieces[i].last <= Len(events)
        BY <1>6, <2>1 DEF e
      <4>2. FramesOf(all, pieces[i].first, pieces[i].last)
              = FramesOf(events, pieces[i].first, pieces[i].last)
        BY <4>1, FramesGrow
      <4> QED BY <1>6, <2>1, <4>2
    <3>3. pieces[i].last <= e + k BY <1>1, <1>6, <2>1
    <3> QED BY <1>6, <2>1, <3>1, <3>2, <3>3
  <2>2. CASE i = n + 1
    <3>1. new[i] = last BY <1>4, <2>2
    <3>2. i > 1 => new[i-1].last = e
      <4>1. i > 1 => i - 1 = n /\ n > 0 /\ n \in 1..n BY <1>1, <2>2
      <4> QED BY <1>4, <1>7, <4>1
    <3> QED BY <1>1, <1>2, <1>5, <3>1, <3>2
  <2> QED BY <1>1, <2>1, <2>2
<1>10. Beside(new, all) BY <1>3, <1>4, <1>9 DEF Beside
<1>11. new # <<>> /\ new[Len(new)].last = Len(all)
  <2>1. Len(new) # 0 BY <1>1, <1>4
  <2> QED BY <1>2, <1>3, <1>4, <2>1
<1>12. new[1].first = 1
  <2>1. CASE n = 0 BY <1>2, <1>4, <1>8, <2>1
  <2>2. CASE n > 0
    <3>1. 1 \in 1..n BY <1>1, <2>2
    <3> QED BY <1>4, <1>7, <2>2, <3>1
  <2> QED BY <1>1, <2>1, <2>2
<1>13. Tiled(new, all) BY <1>10, <1>11, <1>12 DEF Tiled
<1> QED BY <1>13 DEF new, last, e

\* The chunks of a manifest, behind its segments.
LEMMA ChunksBeside ==
  ASSUME NEW events \in Seq(Event), NEW segments \in Seq(Piece), NEW chunks \in Seq(Piece),
         Beside(segments \o chunks, events)
  PROVE  Beside(chunks, events) /\ Beside(segments, events)
<1> DEFINE pieces == segments \o chunks
           a == Len(segments)
           b == Len(chunks)
<1>1. /\ a \in Nat /\ b \in Nat /\ DOMAIN pieces = 1..(a + b) /\ DOMAIN chunks = 1..b
      /\ DOMAIN segments = 1..a
      /\ \A i \in 1..(a+b) : pieces[i] = IF i <= a THEN segments[i] ELSE chunks[i - a]
  <2>1. /\ pieces \in Seq(Piece) /\ Len(pieces) = a + b
        /\ \A i \in 1..(a+b) : pieces[i] = IF i <= a THEN segments[i] ELSE chunks[i - a]
    BY ConcatProperties
  <2> QED BY <2>1
<1> HIDE DEF pieces, a, b
<1>2. Beside(pieces, events) BY DEF pieces
<1>3. Beside(chunks, events)
  <2>1. ASSUME NEW i \in 1..b
        PROVE  /\ 0 < chunks[i].first /\ chunks[i].first <= chunks[i].last
               /\ chunks[i].last <= Len(events)
               /\ i > 1 => chunks[i].first = chunks[i-1].last + 1
               /\ chunks[i].frames = FramesOf(events, chunks[i].first, chunks[i].last)
    <3>1. a + i \in 1..(a + b) /\ ~(a + i <= a) /\ (a + i) - a = i BY <1>1
    <3>2. pieces[a + i] = chunks[i] BY <1>1, <3>1
    <3>3. i > 1 => pieces[(a + i) - 1] = chunks[i - 1]
      <4>1. i > 1 => (a + i) - 1 \in 1..(a + b) /\ ~((a + i) - 1 <= a) /\ ((a + i) - 1) - a = i - 1
        BY <1>1
      <4> QED BY <1>1, <4>1
    <3>4. i > 1 => a + i > 1 BY <1>1
    <3> QED BY <1>1, <1>2, <3>1, <3>2, <3>3, <3>4 DEF Beside
  <2> QED BY <1>1, <2>1 DEF Beside
<1>4. Beside(segments, events)
  <2>1. ASSUME NEW i \in 1..a
        PROVE  /\ 0 < segments[i].first /\ segments[i].first <= segments[i].last
               /\ segments[i].last <= Len(events)
               /\ i > 1 => segments[i].first = segments[i-1].last + 1
               /\ segments[i].frames = FramesOf(events, segments[i].first, segments[i].last)
    <3>1. i \in 1..(a + b) /\ i <= a BY <1>1
    <3>2. pieces[i] = segments[i] BY <1>1, <3>1
    <3>3. i > 1 => pieces[i - 1] = segments[i - 1]
      <4>1. i > 1 => i - 1 \in 1..(a + b) /\ i - 1 <= a BY <1>1
      <4> QED BY <1>1, <4>1
    <3> QED BY <1>1, <1>2, <3>1, <3>2, <3>3 DEF Beside
  <2> QED BY <1>1, <2>1 DEF Beside
<1> QED BY <1>3, <1>4

LEMMA TilesMerge ==
  ASSUME NEW events \in Seq(Event), NEW segments \in Seq(Piece), NEW chunks \in Seq(Piece),
         Tiled(segments \o chunks, events), Len(chunks) >= 2,
         Merged(chunks) \in Piece
  PROVE  Tiled(Append(segments, Merged(chunks)) \o <<>>, events)
<1> DEFINE pieces == segments \o chunks
           a == Len(segments)
           b == Len(chunks)
           last == Merged(chunks)
           new == Append(segments, last)
<1>1. /\ a \in Nat /\ b \in Nat /\ b >= 2 /\ DOMAIN chunks = 1..b
      /\ DOMAIN segments = 1..a /\ Len(pieces) = a + b
      /\ \A i \in 1..(a+b) : pieces[i] = IF i <= a THEN segments[i] ELSE chunks[i - a]
  <2>1. /\ pieces \in Seq(Piece) /\ Len(pieces) = a + b
        /\ \A i \in 1..(a+b) : pieces[i] = IF i <= a THEN segments[i] ELSE chunks[i - a]
    BY ConcatProperties
  <2> QED BY <2>1
<1>2. /\ new \in Seq(Piece) /\ Len(new) = a + 1 /\ new[a + 1] = last /\ DOMAIN new = 1..(a + 1)
      /\ \A i \in 1..a : new[i] = segments[i]
  <2> HIDE DEF last
  <2>1. last \in Piece BY DEF last
  <2> QED BY <2>1
<1>3. new \o <<>> = new BY <1>2, ConcatEmptySeq
<1> HIDE DEF pieces, a, b, last, new
<1>4. Tiled(pieces, events) /\ Beside(pieces, events) BY DEF pieces, Tiled
<1>5. Beside(chunks, events) /\ Beside(segments, events) BY <1>4, ChunksBeside DEF pieces
<1>6. chunks # <<>> /\ pieces # <<>>
  <2>1. Len(chunks) # 0 BY <1>1 DEF b
  <2>2. Len(pieces) # 0 BY <1>1
  <2> QED BY <2>1, <2>2
<1>7. /\ last.first = chunks[1].first /\ last.last = chunks[b].last
      /\ last.frames = FramesOf(events, last.first, last.last)
  <2>1. Merged(chunks) = [first  |-> chunks[1].first,
                          last   |-> chunks[Len(chunks)].last,
                          frames |-> FramesOf(events, chunks[1].first, chunks[Len(chunks)].last)]
    BY <1>5, <1>6, MergedTiles
  <2> QED BY <2>1 DEF last, b
<1>8. chunks[b].last = Len(events) /\ pieces[1].first = 1
  <2>1. a + b \in 1..(a+b) /\ ~(a + b <= a) /\ (a + b) - a = b BY <1>1
  <2>2. pieces[a + b] = chunks[b] BY <1>1, <2>1
  <2> QED BY <1>1, <1>4, <1>6, <2>2 DEF Tiled
<1>9. 0 < chunks[1].first /\ chunks[1].first \in Nat /\ chunks[1].first <= Len(events)
  <2>1. 1 \in 1..b BY <1>1
  <2>2. chunks[1].first \in Nat /\ chunks[1].last \in Nat BY <2>1, PieceFields DEF b
  <2>3. 0 < chunks[1].first /\ chunks[1].first <= chunks[1].last /\ chunks[1].last <= Len(events)
    BY <1>1, <1>5, <2>1 DEF Beside
  <2> QED BY <2>2, <2>3
<1>10. IF a = 0 THEN chunks[1].first = 1
       ELSE segments[1].first = 1 /\ chunks[1].first = segments[a].last + 1
  <2>1. CASE a = 0
    <3>1. 1 \in 1..(a+b) /\ ~(1 <= a) /\ 1 - a = 1 BY <1>1, <2>1
    <3>2. pieces[1] = chunks[1] BY <1>1, <3>1
    <3> QED BY <1>8, <2>1, <3>2
  <2>2. CASE a # 0
    <3>1. 1 \in 1..(a+b) /\ 1 <= a /\ a \in 1..(a+b) /\ a + 1 \in 1..(a+b) /\ ~(a + 1 <= a)
          /\ (a + 1) - a = 1 /\ (a + 1) - 1 = a /\ a + 1 > 1
      BY <1>1, <2>2
    <3>2. pieces[1] = segments[1] /\ pieces[a] = segments[a] /\ pieces[a + 1] = chunks[1]
      BY <1>1, <3>1
    <3>3. DOMAIN pieces = 1..(a+b)
      <4>1. pieces \in Seq(Piece) BY ConcatProperties DEF pieces
      <4> QED BY <1>1, <4>1
    <3>4. pieces[a + 1].first = pieces[(a + 1) - 1].last + 1 BY <1>4, <3>1, <3>3 DEF Beside
    <3> QED BY <1>8, <2>2, <3>1, <3>2, <3>4
  <2> QED BY <2>1, <2>2
<1>11. ASSUME NEW i \in 1..(a + 1)
       PROVE  /\ 0 < new[i].first /\ new[i].first <= new[i].last
              /\ new[i].last <= Len(events)
              /\ i > 1 => new[i].first = new[i-1].last + 1
              /\ new[i].frames = FramesOf(events, new[i].first, new[i].last)
  <2>1. CASE i \in 1..a
    <3>1. new[i] = segments[i] /\ (i > 1 => new[i-1] = segments[i-1]) BY <1>1, <1>2, <2>1
    <3> QED BY <1>1, <1>5, <2>1, <3>1 DEF Beside
  <2>2. CASE i = a + 1
    <3>1. new[i] = last BY <1>2, <2>2
    <3>2. i > 1 => i - 1 = a /\ a # 0 /\ i - 1 \in 1..a BY <1>1, <2>2
    <3>3. i > 1 => new[i - 1] = segments[a] BY <1>2, <3>2
    <3> QED BY <1>7, <1>8, <1>9, <1>10, <3>1, <3>2, <3>3
  <2> QED BY <1>1, <2>1, <2>2
<1>12. Beside(new, events) BY <1>2, <1>11 DEF Beside
<1>13. new # <<>> /\ new[Len(new)].last = Len(events)
  <2>1. Len(new) # 0 BY <1>1, <1>2
  <2> QED BY <1>2, <1>7, <1>8, <2>1
<1>14. new[1].first = 1
  <2>1. CASE a = 0 BY <1>2, <1>7, <1>10, <2>1
  <2>2. CASE a # 0
    <3>1. 1 \in 1..a BY <1>1, <2>2
    <3> QED BY <1>2, <1>10, <2>2, <3>1
  <2> QED BY <2>1, <2>2
<1>15. Tiled(new, events) BY <1>12, <1>13, <1>14 DEF Tiled
<1> QED BY <1>3, <1>15 DEF new, last

-----------------------------------------------------------------------------
(* One commit.                                                             *)

\* Nobody has used the operation id, or the stable key.
Fresh(j) == IF j.kind = "stable" THEN \A i \in Keyed : log[i].key # j.op
            ELSE Recorded(j.op) = {}

KeyOf(j) == IF j.kind = "stable" THEN j.op ELSE None

Appending(j) == j.kind \in {"append", "stable"}

LEMMA AppendJob ==
  ASSUME NEW j \in Job, Sound(j), Appending(j)
  PROVE  /\ j.writer \in Writer /\ j.feed \in Modes /\ j.payloads \in Seq(Payload)
         /\ Len(j.payloads) \in Nat /\ Len(j.payloads) >= 1
         /\ KeyOf(j) \in Key \cup {None} /\ j.op \in Op \cup Key
         /\ j.kind = "append" => j.op \in Op /\ KeyOf(j) = None
         /\ j.kind = "stable" => /\ j.op \in Key /\ KeyOf(j) = j.op /\ KeyOf(j) # None
                                 /\ j.feed = "complete" /\ Len(j.payloads) = 1
<1>1. CASE j.kind = "append"
  <2>1. j \in AppendJobs BY <1>1, Constants
  <2>2. j.payloads \in Seq(Payload) BY <2>1 DEF AppendJobs
  <2>3. Len(j.payloads) \in Nat BY <2>2
  <2>4. Len(j.payloads) >= 1 BY <1>1, <2>3 DEF Sound
  <2>5. j.writer \in Writer /\ j.feed \in Modes /\ j.op \in Op BY <2>1 DEF AppendJobs
  <2> QED BY <1>1, <2>2, <2>3, <2>4, <2>5 DEF KeyOf
<1>2. CASE j.kind = "stable"
  <2>1. j \in StableJobs BY <1>2, Constants
  <2>2. j.payloads \in Seq(Payload) /\ j.writer \in Writer /\ j.feed \in Modes /\ j.op \in Key
    BY <2>1 DEF StableJobs
  <2>3. Len(j.payloads) \in Nat BY <2>2
  <2>4. Len(j.payloads) = 1 /\ j.feed = "complete" BY <1>2, <2>3 DEF Sound
  <2> QED BY <1>2, <2>2, <2>3, <2>4, Constants DEF KeyOf
<1> QED BY <1>1, <1>2 DEF Appending

LEMMA Extending ==
  ASSUME Types, NEW j \in Job, Sound(j), Appending(j), NEW now \in Nat,
         NEW d \in Prepared(ref, j, now), NEW m, m = Domain(ref, j.feed)
  PROVE  /\ Extended(ref, j.op, j.writer, j.payloads, KeyOf(j), m, ModeOf(m, j.feed), d)
         /\ d.events \in Seq(Event) /\ d.result \in Span
         /\ Len(d.events) = Len(j.payloads)
         /\ \A i \in 1..Len(j.payloads) :
              d.events[i] = [payload |-> j.payloads[i], key |-> KeyOf(j), epoch |-> d.next.epoch,
                             writer |-> j.writer]
<1>1. ref \in RefType BY DEF Types
<1>2. d \in Extend(ref, j.op, j.writer, j.feed, j.payloads, KeyOf(j), now)
  BY DEF Prepared, Appending, KeyOf
<1> DEFINE n == Len(j.payloads)
<1>3. /\ j.writer \in Writer /\ j.feed \in Modes /\ j.payloads \in Seq(Payload)
      /\ n \in Nat /\ n >= 1 /\ KeyOf(j) \in Key \cup {None}
  BY AppendJob
<1>4. Extended(ref, j.op, j.writer, j.payloads, KeyOf(j), m, ModeOf(m, j.feed), d)
  BY <1>1, <1>2, <1>3, ExtendFacts
<1>5. m.head \in Nat BY <1>1, <1>3, DomainFacts DEF Manifest
<1>6. d.result \in Span BY <1>3, <1>4, <1>5 DEF Span, Extended
<1> DEFINE E(i) == [payload |-> j.payloads[i], key |-> KeyOf(j), epoch |-> d.next.epoch,
                    writer |-> j.writer]
<1>7. d.events = [i \in 1..n |-> E(i)]
  <2>1. DOMAIN j.payloads = 1..n BY <1>3
  <2>2. d.events = EventsOf(j.payloads, KeyOf(j), d.next.epoch, j.writer) BY <1>4 DEF Extended
  <2> QED BY <2>1, <2>2 DEF EventsOf
<1>8. \A i \in 1..n : E(i) \in Event
  <2>1. d.next.epoch \in Nat BY <1>4 DEF RefType, Extended
  <2>2. \A i \in 1..n : j.payloads[i] \in Payload BY <1>3
  <2> HIDE DEF n
  <2> QED BY <1>3, <2>1, <2>2 DEF Event
<1>9. d.events \in Seq(Event) /\ Len(d.events) = n /\ \A i \in 1..n : d.events[i] = E(i)
  <2> HIDE DEF n, E
  <2> QED BY <1>3, <1>7, <1>8
<1> QED BY <1>4, <1>6, <1>9

\* A commit of what a job has prepared against the ref as it is.
Commits(j, now, d) ==
  /\ j \in Job /\ Sound(j) /\ now \in Nat /\ d \in Prepared(ref, j, now) /\ Fresh(j)
  /\ Commit(d)

LEMMA OtherKinds ==
  ASSUME NEW j \in Job, Sound(j), ~Appending(j)
  PROVE  /\ j.op \in Op
         /\ \/ j.kind = "steal" /\ j.writer \in Writer
            \/ j.kind = "compact" /\ j.feed \in Modes
            \/ j.kind = "trim" /\ j.before \in Nat
<1>1. j \in StealJobs \/ j \in CompactJobs \/ j \in TrimJobs
  BY Constants DEF Appending
<1> QED BY <1>1 DEF StealJobs, CompactJobs, TrimJobs

\* The other plans leave the events alone.
LEMMA Standing ==
  ASSUME Types, HeadInv, NEW j \in Job, Sound(j), ~Appending(j), NEW now \in Nat,
         NEW d \in Prepared(ref, j, now)
  PROVE  /\ d.op = j.op /\ d.next \in RefType /\ d.next.generation = ref.generation + 1
         /\ d.result \in Nat /\ d.events = <<>>
         /\ (d.next.epoch = ref.epoch /\ d.next.lease = ref.lease) \/ d.next.epoch = ref.epoch + 1
         /\ \/ d.next.target = ref.target
            \/ MergedInto(ref.target, d.next.target)
            \/ /\ ref.target # None /\ ref.target \in Manifest /\ d.next.target \in Manifest
               /\ ref.target.retention # "complete"
               /\ \E floor \in Nat : d.next.target = [ref.target EXCEPT !.trim = floor]
<1>1. ref \in RefType /\ log \in Seq(Event) BY DEF Types
<1>2. CASE j.kind = "steal" /\ j.writer \in Writer
  <2>1. d \in TakeOver(ref, j.op, j.writer, now) BY <1>2 DEF Prepared
  <2> QED BY <1>1, <1>2, <2>1, TakeOverFacts
<1>3. CASE j.kind = "compact" /\ j.feed \in Modes
  <2>1. d \in Compacted(ref, j.op, j.feed) BY <1>3 DEF Prepared
  <2>2. ref.target # None => Beside(ref.target.chunks, log)
    <3> SUFFICES ASSUME ref.target # None PROVE Beside(ref.target.chunks, log) OBVIOUS
    <3>1. ref.target \in Manifest BY <1>1 DEF RefType
    <3>2. ref.target.segments \in Seq(Piece) /\ ref.target.chunks \in Seq(Piece)
      BY <3>1 DEF Manifest
    <3>3. Beside(ref.target.segments \o ref.target.chunks, log) BY DEF HeadInv, Tiled
    <3> QED BY <1>1, <3>2, <3>3, ChunksBeside
  <2>3. /\ d.op = j.op /\ d.next \in RefType /\ d.next.generation = ref.generation + 1
        /\ d.next.epoch = ref.epoch /\ d.next.lease = ref.lease
        /\ d.result \in Nat /\ d.events = <<>>
        /\ MergedInto(ref.target, d.next.target)
    BY <1>1, <1>3, <2>1, <2>2, CompactFacts
  <2> QED BY <2>3
<1>4. CASE j.kind = "trim" /\ j.before \in Nat
  <2>1. d \in Trimmed(ref, j.op, j.before) BY <1>4 DEF Prepared
  <2>2. /\ d.op = j.op /\ d.next \in RefType /\ d.next.generation = ref.generation + 1
        /\ d.next.epoch = ref.epoch /\ d.next.lease = ref.lease
        /\ d.result \in Nat /\ d.events = <<>>
        /\ ref.target # None /\ ref.target \in Manifest /\ ref.target.retention # "complete"
        /\ \E floor \in Nat : d.next.target = [ref.target EXCEPT !.trim = floor]
        /\ d.next.target \in Manifest
    BY <1>1, <1>4, <2>1, TrimFacts
  <2> QED BY <2>2
<1> QED BY <1>2, <1>3, <1>4, OtherKinds

-----------------------------------------------------------------------------
(* What a commit does to the store.                                        *)

\* The histories only grow.
Grown(d) ==
  /\ d.next \in RefType /\ d.next.generation = ref.generation + 1
  /\ d.events \in Seq(Event) /\ d.result \in Nat \cup Span /\ d.op \in Op \cup Key
  /\ ref' = d.next /\ wire' = {}
  /\ log' = log \o d.events /\ log' \in Seq(Event) /\ Len(log') = Len(log) + Len(d.events)
  /\ \A i \in 1..Len(log) : log'[i] = log[i]
  /\ \A i \in 1..Len(d.events) : log'[Len(log) + i] = d.events[i]
  /\ commits' \in Seq(CommitType) /\ Len(commits') = Len(commits) + 1
  /\ \A g \in 1..Len(commits) : commits'[g] = commits[g]
  /\ commits'[Len(commits) + 1] = [op |-> d.op, result |-> d.result]

LEMMA CommitGrows ==
  ASSUME Types, HeadInv, NEW j, NEW now, NEW d, Commits(j, now, d)
  PROVE  Grown(d) /\ d.op = j.op
<1>1. /\ d.op = j.op /\ j.op \in Op \cup Key /\ d.next \in RefType
      /\ d.next.generation = ref.generation + 1
      /\ d.events \in Seq(Event) /\ d.result \in Nat \cup Span
  <2>0. j \in Job /\ Sound(j) /\ now \in Nat /\ d \in Prepared(ref, j, now) BY DEF Commits
  <2>1. CASE Appending(j)
    <3>1. PICK m : m = Domain(ref, j.feed) OBVIOUS
    <3>2. /\ Extended(ref, j.op, j.writer, j.payloads, KeyOf(j), m, ModeOf(m, j.feed), d)
          /\ d.events \in Seq(Event) /\ d.result \in Span
      BY <2>0, <2>1, <3>1, Extending
    <3>3. j.op \in Op \cup Key BY <2>0, <2>1, AppendJob
    <3>4. d = [op |-> j.op, next |-> d.next, result |-> d.result, events |-> d.events]
      BY <3>2 DEF Extended
    <3>5. d.op = j.op BY <3>4
    <3> QED BY <3>2, <3>3, <3>5 DEF Extended
  <2>2. CASE ~Appending(j)
    <3>1. j.op \in Op BY <2>0, <2>2, OtherKinds
    <3>2. /\ d.op = j.op /\ d.next \in RefType /\ d.next.generation = ref.generation + 1
          /\ d.result \in Nat /\ d.events = <<>>
      BY <2>0, <2>2, Standing
    <3> QED BY <3>1, <3>2
  <2> QED BY <2>1, <2>2
<1>2. /\ ref' = d.next /\ wire' = {} /\ log' = log \o d.events
      /\ commits' = Append(commits, [op |-> d.op, result |-> d.result])
  BY DEF Commits, Commit
<1>3. log \in Seq(Event) /\ commits \in Seq(CommitType) BY DEF Types
<1>4. [op |-> d.op, result |-> d.result] \in CommitType BY <1>1 DEF CommitType
<1>5. /\ log' \in Seq(Event) /\ Len(log') = Len(log) + Len(d.events)
      /\ \A i \in 1..Len(log) : log'[i] = log[i]
      /\ \A i \in 1..Len(d.events) : log'[Len(log) + i] = d.events[i]
  <2>1. PICK a, b : a = log /\ b = d.events OBVIOUS
  <2>2. a \in Seq(Event) /\ b \in Seq(Event) BY <1>1, <1>3, <2>1
  <2>3. /\ a \o b \in Seq(Event) /\ Len(a \o b) = Len(a) + Len(b)
        /\ \A i \in 1..Len(a) : (a \o b)[i] = a[i]
        /\ \A i \in 1..Len(b) : (a \o b)[Len(a) + i] = b[i]
    BY <2>2
  <2> QED BY <1>2, <2>1, <2>3
<1>6. /\ commits' \in Seq(CommitType) /\ Len(commits') = Len(commits) + 1
      /\ \A g \in 1..Len(commits) : commits'[g] = commits[g]
      /\ commits'[Len(commits) + 1] = [op |-> d.op, result |-> d.result]
  <2>1. PICK c, e : c = commits /\ e = [op |-> d.op, result |-> d.result] OBVIOUS
  <2>2. c \in Seq(CommitType) /\ e \in CommitType BY <1>3, <1>4, <2>1
  <2>3. /\ Append(c, e) \in Seq(CommitType) /\ Len(Append(c, e)) = Len(c) + 1
        /\ \A g \in 1..Len(c) : Append(c, e)[g] = c[g]
        /\ Append(c, e)[Len(c) + 1] = e
    BY <2>2
  <2> QED BY <1>2, <2>1, <2>3
<1> QED BY <1>1, <1>2, <1>5, <1>6 DEF Grown

LEMMA CommitHead ==
  ASSUME Types, HeadInv, NEW j, NEW now, NEW d, Commits(j, now, d)
  PROVE  HeadInv'
<1>0. j \in Job /\ Sound(j) /\ now \in Nat /\ d \in Prepared(ref, j, now) /\ Grown(d)
  BY CommitGrows DEF Commits
<1>1. ref \in RefType /\ log \in Seq(Event) BY DEF Types
<1>2. ref' = d.next /\ log' = log \o d.events BY <1>0 DEF Grown
<1>3. CASE Appending(j)
  <2>1. PICK m : m = Domain(ref, j.feed) OBVIOUS
  <2>2. /\ j.payloads \in Seq(Payload) /\ Len(j.payloads) >= 1 /\ j.feed \in Modes
    BY <1>0, <1>3, AppendJob
  <2>3. /\ m \in Manifest
        /\ m = IF ref.target = None THEN EmptyDomain(j.feed) ELSE ref.target
    BY <1>1, <2>1, <2>2, DomainFacts
  <2>4. /\ Extended(ref, j.op, j.writer, j.payloads, KeyOf(j), m, ModeOf(m, j.feed), d)
        /\ d.events \in Seq(Event) /\ Len(d.events) = Len(j.payloads)
        /\ \A i \in 1..Len(j.payloads) :
              d.events[i] = [payload |-> j.payloads[i], key |-> KeyOf(j), epoch |-> d.next.epoch,
                             writer |-> j.writer]
    BY <1>0, <1>3, <2>1, Extending
  <2>5. m.segments \in Seq(Piece) /\ m.chunks \in Seq(Piece) BY <2>3 DEF Manifest
  <2>6. m.head = Len(log) /\ Tiled(m.segments \o m.chunks, log)
    <3>1. CASE ref.target = None
      <4>1. m.head = 0 /\ m.segments = <<>> /\ m.chunks = <<>> /\ log = <<>>
        BY <2>3, <3>1 DEF EmptyDomain, HeadInv
      <4>2. m.segments \o m.chunks = <<>> BY <2>5, <4>1
      <4> QED BY <4>1, <4>2 DEF Tiled, Beside
    <3>2. CASE ref.target # None BY <2>3, <3>2 DEF HeadInv
    <3> QED BY <3>1, <3>2
  <2>7. PICK pieces \in Seq(Piece) : pieces = m.segments \o m.chunks
    <3>1. m.segments \o m.chunks \in Seq(Piece) BY <2>5, ConcatProperties
    <3> QED BY <3>1
  <2>8. PICK chunk \in Piece : chunk = Chunk(Len(log) + 1, j.payloads)
    <3>1. Len(log) + 1 \in Nat \ {0} BY <1>1
    <3> QED BY <2>2, <3>1, ChunkFacts
  <2>9. Tiled(Append(pieces, chunk), log \o d.events)
    <3>1. ASSUME NEW i \in 1..Len(j.payloads) PROVE d.events[i].payload = j.payloads[i]
      <4>1. d.events[i] = [payload |-> j.payloads[i], key |-> KeyOf(j), epoch |-> d.next.epoch,
                           writer |-> j.writer]
        BY <2>4
      <4> QED BY <4>1
    <3> QED BY <1>1, <2>2, <2>4, <2>6, <2>7, <2>8, <3>1, TilesGrow
  <2>10. /\ d.next.target \in Manifest /\ d.next.target.head = m.head + Len(j.payloads)
         /\ d.next.target.segments = m.segments
         /\ d.next.target.chunks = Append(m.chunks, chunk)
    BY <2>4, <2>6, <2>8 DEF Extended
  <2>11. m.segments \o Append(m.chunks, chunk) = Append(pieces, chunk)
    <3>1. PICK s, c : s = m.segments /\ c = m.chunks OBVIOUS
    <3>2. s \in Seq(Piece) /\ c \in Seq(Piece) /\ pieces = s \o c BY <2>5, <2>7, <3>1
    <3>3. Append(c, chunk) = c \o <<chunk>> /\ <<chunk>> \in Seq(Piece) BY <3>2
    <3>4. Append(pieces, chunk) = pieces \o <<chunk>> OBVIOUS
    <3>5. (s \o c) \o <<chunk>> = s \o (c \o <<chunk>>) BY <3>2, <3>3, ConcatAssociative
    <3> QED BY <3>1, <3>2, <3>3, <3>4, <3>5
  <2>12. Len(log \o d.events) = m.head + Len(j.payloads)
    BY <1>0, <1>2, <2>4, <2>6 DEF Grown
  <2>13. d.next.target # None BY <2>10, Constants
  <2> QED BY <1>2, <2>9, <2>10, <2>11, <2>12, <2>13 DEF HeadInv
<1>4. CASE ~Appending(j)
  <2>1. /\ d.events = <<>>
        /\ \/ d.next.target = ref.target
           \/ MergedInto(ref.target, d.next.target)
           \/ /\ ref.target # None /\ ref.target \in Manifest /\ d.next.target \in Manifest
              /\ ref.target.retention # "complete"
              /\ \E floor \in Nat : d.next.target = [ref.target EXCEPT !.trim = floor]
    BY ZenonT(40), <1>0, <1>4, Standing
  <2>2. log' = log BY <1>1, <1>2, <2>1
  <2>3. CASE d.next.target = ref.target BY <1>2, <2>2, <2>3 DEF HeadInv
  <2>4. CASE MergedInto(ref.target, d.next.target)
    <3>1. PICK s, c, x : s = ref.target.segments /\ c = ref.target.chunks /\ x = Merged(c) OBVIOUS
    <3>2. s \in Seq(Piece) /\ c \in Seq(Piece) BY <2>4, <3>1 DEF Manifest, MergedInto
    <3>3. /\ d.next.target.segments = Append(s, x) /\ d.next.target.chunks = <<>>
          /\ d.next.target.head = ref.target.head
      BY <2>4, <3>1 DEF MergedInto
    <3>4. x \in Piece
      <4>1. Append(s, x) \in Seq(Piece) BY <2>4, <3>3 DEF Manifest, MergedInto
      <4>2. Len(Append(s, x)) = Len(s) + 1 /\ Append(s, x)[Len(s) + 1] = x BY <3>2
      <4>3. Len(s) + 1 \in 1..Len(Append(s, x)) BY <3>2, <4>2
      <4> QED BY <4>1, <4>2, <4>3, ElementOfSeq
    <3>5. Tiled(Append(s, x) \o <<>>, log)
      <4>1. Tiled(s \o c, log) /\ Len(c) >= 2 BY <2>4, <3>1 DEF HeadInv, MergedInto
      <4> QED BY <1>1, <3>1, <3>2, <3>4, <4>1, TilesMerge
    <3>6. d.next.target # None /\ ref.target # None BY <2>4, Constants DEF MergedInto
    <3> QED BY <1>2, <2>2, <3>3, <3>5, <3>6 DEF HeadInv
  <2>5. CASE /\ ref.target # None /\ ref.target \in Manifest /\ d.next.target \in Manifest
             /\ \E floor \in Nat : d.next.target = [ref.target EXCEPT !.trim = floor]
    <3>1. /\ d.next.target.segments = ref.target.segments
          /\ d.next.target.chunks = ref.target.chunks
          /\ d.next.target.head = ref.target.head
      BY <2>5 DEF Manifest
    <3>2. d.next.target # None BY <2>5, Constants
    <3> QED BY <1>2, <2>2, <2>5, <3>1, <3>2 DEF HeadInv
  <2> QED BY <2>1, <2>3, <2>4, <2>5
<1> QED BY <1>3, <1>4

LEMMA CommitWriters ==
  ASSUME Types, HeadInv, WriterInv, NEW j, NEW now, NEW d, Commits(j, now, d)
  PROVE  WriterInv'
<1>0. j \in Job /\ Sound(j) /\ now \in Nat /\ d \in Prepared(ref, j, now) /\ Grown(d)
  BY CommitGrows DEF Commits
<1>1. /\ ref \in RefType /\ log \in Seq(Event) /\ Len(log) \in Nat /\ ref.epoch \in Nat
      /\ DOMAIN log = 1..Len(log)
  BY DEF Types, RefType
<1>2. /\ ref' = d.next /\ log' \in Seq(Event) /\ DOMAIN log' = 1..Len(log')
      /\ Len(log') = Len(log) + Len(d.events) /\ Len(d.events) \in Nat
      /\ \A i \in 1..Len(log) : log'[i] = log[i]
      /\ \A i \in 1..Len(d.events) : log'[Len(log) + i] = d.events[i]
  <2>1. d.events \in Seq(Event) /\ log' \in Seq(Event) BY <1>0 DEF Grown
  <2> QED BY <1>0, <2>1 DEF Grown
<1>3. \A i \in 1..Len(log) :
        /\ log[i].epoch \in Nat /\ log[i].epoch <= ref.epoch
        /\ log[i].epoch = ref.epoch => ref.lease # None /\ ref.lease.writer = log[i].writer
  <2> TAKE i \in 1..Len(log)
  <2>1. log[i] \in Event BY <1>1
  <2> QED BY <1>1, <2>1 DEF WriterInv, Event
<1>4. (d.next.epoch = ref.epoch /\ (d.next.lease = ref.lease \/ Appending(j)))
      \/ d.next.epoch = ref.epoch + 1
  <2>1. CASE Appending(j)
    <3>1. PICK m : m = Domain(ref, j.feed) OBVIOUS
    <3>2. Extended(ref, j.op, j.writer, j.payloads, KeyOf(j), m, ModeOf(m, j.feed), d)
      BY <1>0, <2>1, <3>1, Extending
    <3> QED BY <2>1, <3>2 DEF Extended
  <2>2. CASE ~Appending(j) BY <1>0, <2>2, Standing
  <2> QED BY <2>1, <2>2
<1>5. ASSUME Appending(j)
      PROVE  /\ d.next.lease # None
             /\ \A i \in 1..Len(d.events) : /\ d.events[i].epoch = d.next.epoch
                                            /\ d.events[i].writer = d.next.lease.writer
             /\ d.next.epoch = ref.epoch => ref.lease # None /\ ref.lease.writer = d.next.lease.writer
  <2>1. PICK m : m = Domain(ref, j.feed) OBVIOUS
  <2>2. /\ Extended(ref, j.op, j.writer, j.payloads, KeyOf(j), m, ModeOf(m, j.feed), d)
        /\ Len(d.events) = Len(j.payloads)
        /\ \A i \in 1..Len(j.payloads) :
              d.events[i] = [payload |-> j.payloads[i], key |-> KeyOf(j), epoch |-> d.next.epoch,
                             writer |-> j.writer]
    BY <1>0, <1>5, <2>1, Extending
  <2>3. /\ d.next.lease # None /\ d.next.lease.writer = j.writer
        /\ d.next.epoch = ref.epoch => ref.lease # None /\ ref.lease.writer = j.writer
    <3>1. ref.epoch # ref.epoch + 1 BY <1>1
    <3> QED BY <2>2, <3>1 DEF Extended
  <2>4. ASSUME NEW i \in 1..Len(d.events)
        PROVE d.events[i].epoch = d.next.epoch /\ d.events[i].writer = j.writer
    <3>1. d.events[i] = [payload |-> j.payloads[i], key |-> KeyOf(j), epoch |-> d.next.epoch,
                         writer |-> j.writer]
      BY <2>2
    <3> QED BY <3>1
  <2> QED BY <2>3, <2>4
<1>6. ~Appending(j) => d.events = <<>> BY <1>0, Standing
\* Every event, old or new.
<1>7. ASSUME NEW i \in 1..Len(log')
      PROVE  \/ i \in 1..Len(log) /\ log'[i] = log[i]
             \/ /\ Appending(j) /\ i > Len(log)
                /\ log'[i].epoch = d.next.epoch /\ log'[i].writer = d.next.lease.writer
  <2>1. CASE i <= Len(log) BY <1>1, <1>2, <2>1
  <2>2. CASE i > Len(log)
    <3>1. i - Len(log) \in 1..Len(d.events) /\ Len(log) + (i - Len(log)) = i BY <1>1, <1>2, <2>2
    <3>2. log'[i] = d.events[i - Len(log)] BY <1>2, <3>1
    <3>3. Appending(j)
      <4>1. Len(d.events) # 0 BY <1>2, <3>1
      <4> QED BY <1>6, <4>1
    <3> QED BY <1>5, <2>2, <3>1, <3>2, <3>3
  <2> QED BY <1>1, <1>2, <2>1, <2>2
<1>8. \A i \in 1..Len(log') :
        /\ log'[i].epoch \in Nat /\ log'[i].epoch <= d.next.epoch
        /\ log'[i].epoch = d.next.epoch =>
              d.next.lease # None /\ d.next.lease.writer = log'[i].writer
  <2> TAKE i \in 1..Len(log')
  <2>1. log'[i] \in Event BY <1>2
  <2>2. log'[i].epoch \in Nat BY <2>1 DEF Event
  <2>3. CASE i \in 1..Len(log) /\ log'[i] = log[i]
    <3>1. CASE d.next.epoch = ref.epoch /\ d.next.lease = ref.lease BY <1>1, <1>3, <2>2, <2>3, <3>1
    <3>2. CASE d.next.epoch = ref.epoch /\ Appending(j) BY <1>1, <1>3, <1>5, <2>2, <2>3, <3>2
    <3>3. CASE d.next.epoch = ref.epoch + 1 BY <1>1, <1>3, <2>2, <2>3, <3>3
    <3> QED BY <1>4, <3>1, <3>2, <3>3
  <2>4. CASE /\ Appending(j) /\ i > Len(log)
             /\ log'[i].epoch = d.next.epoch /\ log'[i].writer = d.next.lease.writer
    BY <1>5, <2>2, <2>4
  <2> QED BY <1>7, <2>3, <2>4
<1>9. ASSUME NEW i \in 1..Len(log'), NEW k \in 1..Len(log'), i < k
      PROVE  /\ log'[i].epoch <= log'[k].epoch
             /\ log'[i].epoch = log'[k].epoch => log'[i].writer = log'[k].writer
  <2>1. CASE k \in 1..Len(log) /\ log'[k] = log[k]
    <3>1. i \in 1..Len(log) /\ log'[i] = log[i] BY <1>1, <1>2, <1>9, <2>1
    <3> QED BY <1>1, <1>9, <2>1, <3>1 DEF WriterInv, EpochHasOneWriter
  <2>2. CASE /\ Appending(j) /\ k > Len(log)
             /\ log'[k].epoch = d.next.epoch /\ log'[k].writer = d.next.lease.writer
    BY <1>8, <2>2
  <2> QED BY <1>7, <2>1, <2>2
<1>10. EpochHasOneWriter' BY <1>2, <1>9 DEF EpochHasOneWriter
<1> QED BY <1>2, <1>8, <1>10 DEF WriterInv

LEMMA CommitOnce ==
  ASSUME Types, HeadInv, OnceInv, NEW j, NEW now, NEW d, Commits(j, now, d)
  PROVE  OnceInv'
<1>0. j \in Job /\ Sound(j) /\ Fresh(j) /\ Grown(d) /\ d.op = j.op BY CommitGrows DEF Commits
<1>1. commits \in Seq(CommitType) /\ Len(commits) \in Nat /\ DOMAIN commits = 1..Len(commits)
  BY DEF Types
<1>2. /\ DOMAIN commits' = 1..(Len(commits) + 1) /\ Len(commits') = Len(commits) + 1
      /\ \A g \in 1..Len(commits) : commits'[g] = commits[g]
      /\ commits'[Len(commits) + 1] = [op |-> j.op, result |-> d.result]
  BY <1>0 DEF Grown
<1>3. ref'.generation = ref.generation + 1 BY <1>0 DEF Grown
<1>4. ASSUME j.op \notin Key, NEW g \in 1..Len(commits) PROVE commits[g].op # j.op
  <2>1. j.kind # "stable"
    <3>1. j.kind = "stable" => Appending(j) BY DEF Appending
    <3> QED BY <1>0, <1>4, <3>1, AppendJob
  <2>2. Recorded(j.op) = {} BY <1>0, <2>1 DEF Fresh
  <2> QED BY <1>1, <1>4, <2>2 DEF Recorded
<1>5. ASSUME NEW g \in 1..(Len(commits) + 1), NEW h \in 1..(Len(commits) + 1),
             commits'[g].op = commits'[h].op, commits'[g].op \notin Key
      PROVE g = h
  <2>1. CASE g \in 1..Len(commits) /\ h \in 1..Len(commits)
    BY <1>1, <1>2, <1>5, <2>1 DEF OnceInv
  <2>2. CASE g = Len(commits) + 1 /\ h \in 1..Len(commits)
    BY <1>2, <1>4, <1>5, <2>2
  <2>3. CASE h = Len(commits) + 1 /\ g \in 1..Len(commits)
    BY <1>2, <1>4, <1>5, <2>3
  <2>4. g \in 1..Len(commits) \/ g = Len(commits) + 1 BY <1>1
  <2>5. h \in 1..Len(commits) \/ h = Len(commits) + 1 BY <1>1
  <2> QED BY <2>1, <2>2, <2>3, <2>4, <2>5
<1> QED BY <1>2, <1>3, <1>5 DEF OnceInv

LEMMA HoldsOn ==
  ASSUME Types, NEW d, Grown(d), NEW e, Holds(e)
  PROVE  Holds(e)'
<1>1. DOMAIN log = 1..Len(log) /\ DOMAIN commits = 1..Len(commits)
      /\ Len(log) \in Nat /\ Len(commits) \in Nat
  BY DEF Types
<1>2. Len(d.events) \in Nat /\ log' \in Seq(Event) /\ commits' \in Seq(CommitType) BY DEF Grown
<1>3. DOMAIN log' = 1..(Len(log) + Len(d.events)) /\ DOMAIN commits' = 1..(Len(commits) + 1)
  BY <1>2 DEF Grown
<1>4. e.seq \in 1..Len(log) /\ e.generation \in 1..Len(commits) BY <1>1 DEF Holds
<1>5. e.seq \in DOMAIN log' /\ e.generation \in DOMAIN commits' BY <1>1, <1>2, <1>3, <1>4
<1>6. log'[e.seq] = log[e.seq] /\ commits'[e.generation] = commits[e.generation]
  BY <1>4 DEF Grown
<1> QED BY <1>5, <1>6 DEF Holds

\* A commit that is no append keeps the index, and a complete log its mode and floor.
LEMMA Kept ==
  ASSUME Types, HeadInv, NEW j \in Job, Sound(j), ~Appending(j), NEW now \in Nat,
         NEW d \in Prepared(ref, j, now), Grown(d)
  PROVE  /\ Indexed(ref') <=> Indexed(ref)
         /\ IsComplete(ref) => IsComplete(ref') /\ d.next.target.trim = ref.target.trim
         /\ Indexed(ref) => d.next.target.index = ref.target.index
<1>1. ref' = d.next BY DEF Grown
<1>2. \/ d.next.target = ref.target
      \/ MergedInto(ref.target, d.next.target)
      \/ /\ ref.target # None /\ ref.target \in Manifest /\ d.next.target \in Manifest
         /\ ref.target.retention # "complete"
         /\ \E floor \in Nat : d.next.target = [ref.target EXCEPT !.trim = floor]
  BY ZenonT(40), Standing
<1>3. CASE d.next.target = ref.target BY <1>1, <1>3 DEF IsComplete, Indexed
<1>4. CASE MergedInto(ref.target, d.next.target)
  <2>1. /\ ref.target # None /\ d.next.target # None
        /\ d.next.target.index = ref.target.index /\ d.next.target.trim = ref.target.trim
        /\ ref.target.retention = "complete" => d.next.target.retention = "complete"
    BY <1>4, Constants DEF MergedInto
  <2> QED BY <1>1, <2>1 DEF IsComplete, Indexed
<1>5. CASE /\ ref.target # None /\ ref.target \in Manifest /\ d.next.target \in Manifest
           /\ ref.target.retention # "complete"
           /\ \E floor \in Nat : d.next.target = [ref.target EXCEPT !.trim = floor]
  <2>1. /\ d.next.target.retention = ref.target.retention
        /\ d.next.target.index = ref.target.index
    BY <1>5 DEF Manifest
  <2>2. d.next.target # None BY <1>5, Constants
  <2> QED BY <1>1, <1>5, <2>1, <2>2 DEF IsComplete, Indexed
<1> QED BY <1>2, <1>3, <1>4, <1>5

LEMMA CommitIndex ==
  ASSUME Types, HeadInv, OnceInv, IndexInv, NEW j, NEW now, NEW d, Commits(j, now, d)
  PROVE  IndexInv'
<1>0. /\ j \in Job /\ Sound(j) /\ now \in Nat /\ d \in Prepared(ref, j, now) /\ Grown(d)
      /\ d.op = j.op /\ Fresh(j)
  BY CommitGrows DEF Commits
<1>1. /\ ref \in RefType /\ log \in Seq(Event) /\ Len(log) \in Nat /\ DOMAIN log = 1..Len(log)
      /\ Len(commits) = ref.generation /\ Len(commits) \in Nat
  BY DEF Types, OnceInv
<1>2. /\ ref' = d.next /\ DOMAIN log' = 1..(Len(log) + Len(d.events)) /\ Len(d.events) \in Nat
      /\ \A i \in 1..Len(log) : log'[i] = log[i]
      /\ \A i \in 1..Len(d.events) : log'[Len(log) + i] = d.events[i]
  <2>1. d.events \in Seq(Event) /\ log' \in Seq(Event) BY <1>0 DEF Grown
  <2> QED BY <1>0, <2>1 DEF Grown
<1>3. Keyed \subseteq 1..Len(log) /\ \A i \in Keyed : log[i].key # None BY <1>1 DEF Keyed
<1>4. \A e : Holds(e) => Holds(e)' BY <1>0, HoldsOn
<1>5. CASE ~Appending(j)
  <2>1. /\ d.events = <<>>
        /\ \/ d.next.target = ref.target
           \/ MergedInto(ref.target, d.next.target)
           \/ /\ ref.target # None /\ ref.target \in Manifest /\ d.next.target \in Manifest
              /\ ref.target.retention # "complete"
              /\ \E floor \in Nat : d.next.target = [ref.target EXCEPT !.trim = floor]
    BY ZenonT(40), <1>0, <1>5, Standing
  <2>2. log' = log
    <3>1. log' = log \o d.events BY <1>0 DEF Grown
    <3> QED BY <1>1, <2>1, <3>1
  <2>3. Keyed' = Keyed BY <2>2 DEF Keyed
  <2>4. /\ Indexed(ref') <=> Indexed(ref)
        /\ IsComplete(ref) => IsComplete(ref') /\ d.next.target.trim = ref.target.trim
        /\ Indexed(ref) => d.next.target.index = ref.target.index
    BY <1>0, <1>5, Kept
  <2>5. CASE Indexed(ref)
    <3>1. /\ ref.target.trim = 0 /\ ref.target.index \in Index /\ IsComplete(ref)
          /\ \A e \in ref.target.index.entries : Holds(e)
          /\ \A i \in Keyed : \E e \in ref.target.index.entries : e.seq = i
      BY <2>5 DEF IndexInv
    <3>2. /\ d.next.target.index = ref.target.index /\ d.next.target.trim = 0
          /\ IsComplete(ref') /\ Indexed(ref')
      BY <2>4, <2>5, <3>1
    <3> QED BY <1>2, <1>4, <2>2, <2>3, <3>1, <3>2 DEF IndexInv
  <2>6. CASE ~Indexed(ref) BY <1>2, <2>2, <2>3, <2>4, <2>6 DEF IndexInv
  <2> QED BY <2>5, <2>6
<1>6. CASE Appending(j)
  <2>1. PICK m, mode : m = Domain(ref, j.feed) /\ mode = ModeOf(m, j.feed) OBVIOUS
  <2>2. /\ j.payloads \in Seq(Payload) /\ Len(j.payloads) >= 1 /\ j.feed \in Modes
        /\ KeyOf(j) \in Key \cup {None} /\ Len(j.payloads) \in Nat
        /\ KeyOf(j) # None => /\ j.kind = "stable" /\ KeyOf(j) = j.op /\ j.feed = "complete"
                              /\ Len(j.payloads) = 1
    BY <1>0, <1>6, AppendJob DEF Appending
  <2>3. /\ m \in Manifest
        /\ m = IF ref.target = None THEN EmptyDomain(j.feed) ELSE ref.target
    BY <1>1, <2>1, <2>2, DomainFacts
  <2>4. /\ Extended(ref, j.op, j.writer, j.payloads, KeyOf(j), m, mode, d)
        /\ Len(d.events) = Len(j.payloads)
    BY <1>0, <1>6, <2>1, Extending
  <2>5. ASSUME NEW i \in 1..Len(j.payloads)
        PROVE d.events[i].key = KeyOf(j) /\ d.events[i].payload = j.payloads[i]
    <3>1. d.events[i] = [payload |-> j.payloads[i], key |-> KeyOf(j), epoch |-> d.next.epoch,
                         writer |-> j.writer]
      BY <1>0, <1>6, <2>1, Extending
    <3> QED BY <3>1
  <2>6. ASSUME NEW i \in Keyed'
        PROVE  \/ i \in Keyed /\ log'[i].key = log[i].key
               \/ i = Len(log) + 1 /\ KeyOf(j) # None /\ log'[i].key = KeyOf(j)
    <3>1. i \in 1..(Len(log) + Len(d.events)) /\ log'[i].key # None BY <1>2 DEF Keyed
    <3>2. CASE i <= Len(log) BY <1>1, <1>2, <3>1, <3>2 DEF Keyed
    <3>3. CASE i > Len(log)
      <4>1. i - Len(log) \in 1..Len(d.events) /\ Len(log) + (i - Len(log)) = i
        BY <1>1, <1>2, <3>1, <3>3
      <4>2. log'[i].key = KeyOf(j) BY SMTT(30), <1>2, <2>4, <2>5, <4>1
      <4>3. Len(d.events) = 1 BY <2>2, <2>4, <3>1, <4>2
      <4>4. i = Len(log) + 1 BY <1>1, <4>1, <4>3
      <4> QED BY <3>1, <4>2, <4>4
    <3> QED BY <1>1, <1>2, <3>1, <3>2, <3>3
  <2>7. \A i, k \in Keyed' : log'[i].key = log'[k].key => i = k
    <3> SUFFICES ASSUME NEW i \in Keyed', NEW k \in Keyed', log'[i].key = log'[k].key
                 PROVE i = k
      OBVIOUS
    <3>1. ASSUME NEW g \in Keyed, KeyOf(j) # None PROVE log[g].key # KeyOf(j)
      BY <1>0, <2>2, <3>1 DEF Fresh
    <3>2. CASE i \in Keyed /\ k \in Keyed BY <2>6, <3>2, <1>2, <1>3 DEF IndexInv
    <3>3. CASE ~(i \in Keyed /\ k \in Keyed)
      <4>1. i \in Keyed => log'[i].key = log[i].key BY <1>2, <1>3
      <4>2. k \in Keyed => log'[k].key = log[k].key BY <1>2, <1>3
      <4> QED BY <2>6, <3>1, <3>3, <4>1, <4>2
    <3> QED BY <3>2, <3>3
  <2>8. m.head = Len(log)
    <3>1. CASE ref.target = None BY <2>3, <3>1 DEF EmptyDomain, HeadInv
    <3>2. CASE ref.target # None BY <2>3, <3>2 DEF HeadInv
    <3> QED BY <3>1, <3>2
  <2>9. d.next.target # None BY <2>4, Constants DEF Extended
  <2>10. d.next.target.retention = mode /\ mode \in Modes /\ d.next.target.trim = m.trim
    BY <2>1, <2>2, <2>4 DEF Extended, ModeOf, Modes
  <2>11. CASE mode = "complete"
    <3>1. d.next.target.index \in Index BY <2>4, <2>11 DEF Extended
    <3>2. PICK old : old = IF m.index = None THEN {} ELSE m.index.entries OBVIOUS
    <3>3. /\ m.trim = 0 /\ \A e \in old : Holds(e)
          /\ \A i \in Keyed : \E e \in old : e.seq = i
      <4>1. CASE ref.target = None
        <5>1. m.trim = 0 /\ m.index = None /\ log = <<>> BY <2>3, <4>1 DEF EmptyDomain, HeadInv
        <5>2. Keyed = {} BY <1>3, <5>1
        <5> QED BY <3>2, <5>1, <5>2
      <4>2. CASE ref.target # None
        <5>1. m = ref.target /\ m.index # None BY <2>3, <2>4, <2>11, <4>2 DEF Extended
        <5>2. Indexed(ref) BY <4>2, <5>1 DEF Indexed
        <5> QED BY <3>2, <5>1, <5>2 DEF IndexInv
      <4> QED BY <4>1, <4>2
    <3>4. d.next.target.index.entries =
            old \cup (IF KeyOf(j) = None THEN {}
                      ELSE {[key |-> KeyOf(j), payload |-> j.payloads[1], seq |-> m.head + 1,
                             generation |-> ref.generation + 1]})
      BY <2>4, <2>11, <3>2 DEF Extended
    <3>5. PICK new : new = [key |-> KeyOf(j), payload |-> j.payloads[1], seq |-> m.head + 1,
                            generation |-> ref.generation + 1]
      OBVIOUS
    <3>6. ASSUME KeyOf(j) # None PROVE Holds(new)'
      <4>1. 1 \in 1..Len(j.payloads) /\ 1 \in 1..Len(d.events) BY <2>2, <2>4, <3>6
      <4>2. /\ new.key = KeyOf(j) /\ new.payload = j.payloads[1] /\ new.seq = Len(log) + 1
            /\ new.generation = Len(commits) + 1
        BY <1>1, <2>8, <3>5
      <4>3. log'[Len(log) + 1] = d.events[1] BY <1>2, <4>1
      <4>4. log'[new.seq].key = new.key /\ log'[new.seq].payload = new.payload
        BY <2>5, <4>1, <4>2, <4>3
      <4>5. new.seq \in DOMAIN log' BY <1>1, <1>2, <4>1, <4>2
      <4>6. commits'[new.generation].op = new.key
        BY <1>0, <2>2, <3>6, <4>2 DEF Grown
      <4>7. new.generation \in DOMAIN commits'
        <5>1. commits' \in Seq(CommitType) /\ Len(commits') = Len(commits) + 1 BY <1>0 DEF Grown
        <5> QED BY <1>1, <4>2, <5>1
      <4> QED BY <4>4, <4>5, <4>6, <4>7 DEF Holds
    <3>7. ASSUME NEW e \in d.next.target.index.entries PROVE Holds(e)'
      <4>1. CASE e \in old BY <1>4, <3>3, <4>1
      <4>2. CASE e \notin old BY <3>4, <3>5, <3>6, <4>2
      <4> QED BY <4>1, <4>2
    <3>8. ASSUME NEW i \in Keyed' PROVE \E e \in d.next.target.index.entries : e.seq = i
      <4>1. CASE i \in Keyed BY <3>3, <3>4, <4>1
      <4>2. CASE i \notin Keyed
        <5>1. i = Len(log) + 1 /\ KeyOf(j) # None BY <2>6, <4>2
        <5>2. new \in d.next.target.index.entries BY <3>4, <3>5, <5>1
        <5>3. new.seq = i BY <2>8, <3>5, <5>1
        <5> QED BY <5>2, <5>3
      <4> QED BY <4>1, <4>2
    <3>9. IsComplete(ref') /\ Indexed(ref')
      <4>1. d.next.target.index # None BY <3>1, Constants
      <4> QED BY <1>2, <2>9, <2>10, <2>11, <4>1 DEF IsComplete, Indexed
    <3> QED BY <1>2, <2>7, <2>10, <3>1, <3>3, <3>7, <3>8, <3>9 DEF IndexInv
  <2>12. CASE mode = "trimmable"
    <3>1. m.retention # "complete" /\ KeyOf(j) = None BY <2>1, <2>2, <2>12 DEF ModeOf
    <3>2. ~Indexed(ref)
      <4>1. Indexed(ref) => IsComplete(ref) BY DEF IndexInv
      <4>2. ~IsComplete(ref) BY <2>3, <3>1 DEF IsComplete
      <4> QED BY <4>1, <4>2
    <3>3. Keyed = {} BY <3>2 DEF IndexInv
    <3>4. Keyed' = {} BY <2>6, <3>1, <3>3
    <3>5. d.next.target.index = None BY <2>4, <2>12 DEF Extended
    <3>6. ~Indexed(ref') BY <1>2, <3>5 DEF Indexed
    <3> QED BY <2>7, <3>4, <3>6 DEF IndexInv
  <2> QED BY <2>10, <2>11, <2>12 DEF Modes
<1> QED BY <1>5, <1>6

\* What one commit leaves of drafts, answers and followers.
LEMMA CommitStore ==
  ASSUME LogInductive, NEW j, NEW now, NEW d, Commits(j, now, d)
  PROVE  /\ Grown(d) /\ d.op = j.op /\ HeadInv' /\ IndexInv' /\ WriterInv' /\ OnceInv'
         /\ ref' \in RefType /\ commits' \in Seq(CommitType) /\ log' \in Seq(Event) /\ wire' = {}
<1>1. Types /\ HeadInv /\ IndexInv /\ WriterInv /\ OnceInv BY DEF LogInductive
<1>2. Grown(d) /\ d.op = j.op BY <1>1, CommitGrows
<1>3. HeadInv' BY <1>1, CommitHead
<1>4. IndexInv' BY <1>1, CommitIndex
<1>5. WriterInv' BY <1>1, CommitWriters
<1>6. OnceInv' BY <1>1, CommitOnce
<1>7. ref' \in RefType /\ commits' \in Seq(CommitType) /\ log' \in Seq(Event) /\ wire' = {}
  BY <1>2 DEF Grown
<1> QED BY <1>2, <1>3, <1>4, <1>5, <1>6, <1>7

\* What is in preparation has been overtaken.
LEMMA CommitHolding ==
  ASSUME Types, NEW d, Grown(d), NEW k, InTask(k), Holding(k)
  PROVE  Holding(k)'
<1>1. ref.generation \in Nat /\ ref'.generation = ref.generation + 1
  BY DEF Types, RefType, Grown
<1> SUFFICES ASSUME k.pc = "put"
             PROVE  /\ k.draft.op = k.job.op
                    /\ k.draft.next.generation <= ref'.generation + 1
                    /\ k.draft.next.generation # ref'.generation + 1
  BY DEF Holding
<1>2. k.draft.next.generation \in Nat BY DEF InTask, DraftType, RefType
<1> QED BY <1>1, <1>2 DEF Holding

LEMMA CommitAcked ==
  ASSUME Types, NEW d, Grown(d), NEW a, Acked(a)
  PROVE  Acked(a)'
<1>1. Len(commits) \in Nat /\ Len(commits') = Len(commits) + 1
      /\ \A g \in 1..Len(commits) : commits'[g] = commits[g]
  BY DEF Types, Grown
<1>2. a.at \in 0..Len(commits) BY DEF Acked
<1>3. a.at \in 0..Len(commits') BY <1>1, <1>2
<1>4. \A g \in 1..a.at : commits'[g] = commits[g] BY <1>1, <1>2
<1> QED BY <1>3, <1>4 DEF Acked

LEMMA CommitFollows ==
  ASSUME Types, NEW d, Grown(d), NEW f \in Follower, Follows(follower[f]), UNCHANGED follower
  PROVE  Follows(follower[f])'
<1>1. PICK k : k = follower[f] OBVIOUS
<1>2. /\ k.start \in Nat \ {0} /\ k.cursor \in Nat \ {0} /\ k.last \in Nat
  BY <1>1 DEF Types, FollowType
<1>3. /\ log \in Seq(Event) /\ Len(log) \in Nat /\ d.events \in Seq(Event) /\ Len(d.events) \in Nat
      /\ log' = log \o d.events /\ Len(log') = Len(log) + Len(d.events)
  BY DEF Types, Grown
<1>4. FramesOf(log', k.start, k.cursor - 1) = FramesOf(log, k.start, k.cursor - 1)
  <2>1. PICK events, more : events = log /\ more = d.events OBVIOUS
  <2>2. CASE k.cursor - 1 <= Len(log)
    <3>1. PICK first \in Nat \ {0}, last \in Nat : first = k.start /\ last = k.cursor - 1
      BY <1>2
    <3>2. last <= Len(events) /\ events \in Seq(Event) /\ more \in Seq(Event)
      BY <1>3, <2>1, <2>2, <3>1
    <3>3. FramesOf(events \o more, first, last) = FramesOf(events, first, last)
      BY <3>2, FramesGrow
    <3> QED BY <1>3, <2>1, <3>1, <3>3
  <2>3. CASE ~(k.cursor - 1 <= Len(log))
    <3>1. k.cursor - 1 < k.start BY <1>1, <1>2, <1>3, <2>3 DEF Follows
    <3>2. PICK first \in Nat, last \in Int : first = k.start /\ last = k.cursor - 1 BY <1>2
    <3>3. FramesOf(events \o more, first, last) = <<>> /\ FramesOf(events, first, last) = <<>>
      BY <3>1, <3>2, NoFrames
    <3> QED BY <1>3, <2>1, <3>2, <3>3
  <2> QED BY <2>2, <2>3
<1>5. follower'[f] = k BY <1>1
<1>6. /\ k.last <= Len(log')
      /\ k.got = FramesOf(log', k.start, k.cursor - 1)
      /\ k.start <= k.cursor
      /\ k.start < k.cursor => k.cursor <= Len(log') + 1
      /\ k.pc = "poll" => k.last < k.cursor
      /\ k.pc = "read" => k.cursor <= k.last
  BY <1>1, <1>2, <1>3, <1>4 DEF Follows
<1> QED BY <1>5, <1>6 DEF Follows

\* Everything but the task that commits.
LEMMA CommitRest ==
  ASSUME LogInductive, NEW j, NEW now, NEW d, Commits(j, now, d),
         UNCHANGED <<clock, follower>>,
         DOMAIN task' = Task,
         \A t \in Task : task'[t] = task[t] \/ (task'[t].pc # "put" /\ InTask(task'[t])),
         \A a \in acks' : a \in acks \/ Acked(a)',
         \A r \in receipts' : r \in receipts \/ (r \in Entry /\ Holds(r)')
  PROVE  LogInductive'
<1>1. Types /\ DraftInv /\ AnswerInv /\ FollowerInv BY DEF LogInductive
<1>2. /\ Grown(d) /\ HeadInv' /\ IndexInv' /\ WriterInv' /\ OnceInv'
      /\ ref' \in RefType /\ commits' \in Seq(CommitType) /\ log' \in Seq(Event) /\ wire' = {}
  BY CommitStore
<1>3. Types'
  <2>1. clock \in Nat /\ TaskType /\ follower \in [Follower -> FollowType] BY <1>1 DEF Types
  <2>2. TaskType' BY <2>1 DEF TaskType, InTask
  <2> QED BY <1>2, <2>1, <2>2 DEF Types
<1>4. DraftInv'
  <2>1. ASSUME NEW t \in Task PROVE Holding(task[t])'
    <3>1. PICK k : k = task'[t] OBVIOUS
    <3>2. Holding(k)'
      <4>1. CASE k = task[t]
        <5>1. InTask(k) /\ Holding(k) BY <1>1, <4>1 DEF Types, TaskType, DraftInv
        <5> QED BY <1>1, <1>2, <5>1, CommitHolding
      <4>2. CASE k.pc # "put" BY <4>2 DEF Holding
      <4> QED BY <3>1, <4>1, <4>2
    <3> QED BY <3>1, <3>2 DEF Holding, Fits
  <2> QED BY <1>2, <2>1 DEF DraftInv
<1>5. AnswerInv'
  <2>1. ASSUME NEW a \in acks' PROVE Acked(a)'
    BY <1>1, <1>2, CommitAcked DEF AnswerInv
  <2>2. ASSUME NEW r \in receipts' PROVE r \in Entry /\ Holds(r)'
    BY <1>1, <1>2, HoldsOn DEF AnswerInv
  <2> QED BY <2>1, <2>2 DEF AnswerInv
<1>6. FollowerInv'
  <2>1. ASSUME NEW f \in Follower PROVE Follows(follower[f])'
    BY <1>1, <1>2, CommitFollows DEF FollowerInv
  <2> QED BY <2>1 DEF FollowerInv
<1> QED BY <1>2, <1>3, <1>4, <1>5, <1>6 DEF LogInductive

\* A step that publishes nothing.
LEMMA Standstill ==
  ASSUME LogInductive, UNCHANGED store, clock' \in Nat, clock <= clock',
         DOMAIN task' = Task,
         \A t \in Task : task'[t] = task[t] \/ (InTask(task'[t]) /\ Holding(task'[t])),
         \A d \in wire' : \/ d \in wire
                          \/ d \in DraftType /\ d.next.generation = ref.generation + 1 /\ Fits(d),
         \A a \in acks' : a \in acks \/ Acked(a),
         \A r \in receipts' : r \in receipts \/ (r \in Entry /\ Holds(r)),
         follower' \in [Follower -> FollowType],
         \A f \in Follower : follower'[f] = follower[f] \/ Follows(follower'[f])
  PROVE  LogInductive'
<1>1. Types /\ DraftInv /\ AnswerInv /\ FollowerInv /\ HeadInv /\ IndexInv /\ WriterInv /\ OnceInv
  BY DEF LogInductive
<1>2. ref' = ref /\ commits' = commits /\ log' = log BY DEF store
<1>3. Keyed' = Keyed /\ clock \in Nat BY <1>1, <1>2 DEF Keyed, Types
<1>4. HeadInv' /\ OnceInv' /\ WriterInv'
  <2>1. HeadInv' BY <1>1, <1>2 DEF HeadInv
  <2>2. OnceInv' BY <1>1, <1>2 DEF OnceInv
  <2>3. WriterInv' BY <1>1, <1>2 DEF WriterInv, EpochHasOneWriter
  <2> QED BY <2>1, <2>2, <2>3
<1>5. \A e : Holds(e)' <=> Holds(e) BY <1>2 DEF Holds
<1>6. IndexInv' BY <1>1, <1>2, <1>3, <1>5 DEF IndexInv
<1>7. ASSUME NEW d, Fits(d) PROVE Fits(d)'
  <2>1. PICK j \in Job, now \in 0..clock :
          /\ j.kind = "stable" /\ Sound(j) /\ d \in Prepared(ref, j, now)
          /\ \A i \in Keyed : log[i].key # j.op
    BY <1>7 DEF Fits
  <2>2. now \in 0..clock' BY <1>3
  <2>3. d \in Prepared(ref', j, now) BY <1>2, <2>1
  <2>4. \A i \in Keyed' : log'[i].key # j.op BY <1>2, <1>3, <2>1
  <2> QED BY <2>1, <2>2, <2>3, <2>4 DEF Fits
<1>8. Types'
  <2>1. TaskType'
    <3>1. ASSUME NEW t \in Task PROVE InTask(task'[t])
      BY <1>1 DEF Types, TaskType
    <3> QED BY <3>1 DEF TaskType, InTask
  <2>2. wire' \subseteq DraftType BY <1>1 DEF Types
  <2> QED BY <1>1, <1>2, <2>1, <2>2 DEF Types
<1>9. DraftInv'
  <2>1. ASSUME NEW t \in Task PROVE Holding(task[t])'
    <3>1. PICK k : k = task'[t] OBVIOUS
    <3>2. Holding(k) BY <1>1, <3>1 DEF DraftInv
    <3>3. Holding(k)' BY <1>2, <1>7, <3>2 DEF Holding
    <3> QED BY <3>1, <3>3 DEF Holding, Fits
  <2>2. ASSUME NEW d \in wire' PROVE d.next.generation = ref'.generation + 1 /\ Fits(d)'
    BY <1>1, <1>2, <1>7 DEF DraftInv
  <2> QED BY <2>1, <2>2 DEF DraftInv
<1>10. AnswerInv'
  <2>1. \A a : Acked(a)' <=> Acked(a) BY <1>2 DEF Acked
  <2> QED BY <1>1, <1>5, <2>1 DEF AnswerInv
<1>11. FollowerInv'
  <2>1. ASSUME NEW f \in Follower PROVE Follows(follower[f])'
    <3>1. PICK k : k = follower'[f] OBVIOUS
    <3>2. Follows(k) BY <1>1, <3>1 DEF FollowerInv
    <3>3. Follows(k)' BY <1>2, <3>2 DEF Follows
    <3> QED BY <3>1, <3>3 DEF Follows
  <2> QED BY <2>1 DEF FollowerInv
<1> QED BY <1>4, <1>6, <1>8, <1>9, <1>10, <1>11 DEF LogInductive

LEMMA LogStarts ==
  ASSUME Init PROVE LogInductive
<1>1. ref.generation = 0 /\ ref.target = None /\ log = <<>> /\ commits = <<>> /\ wire = {}
      /\ acks = {} /\ receipts = {}
  BY DEF Init
<1>2. Types
  <2>1. ref \in RefType BY DEF Init, RefType
  <2>2. commits \in Seq(CommitType) /\ log \in Seq(Event) /\ clock \in Nat BY DEF Init
  <2>3. TaskType BY DEF Init, TaskType, InTask, Idle
  <2>4. follower \in [Follower -> FollowType]
    <3>1. ASSUME NEW n \in Start
          PROVE  [start |-> n, cursor |-> n, last |-> 0, got |-> <<>>, pc |-> "poll"] \in FollowType
      <4>1. n \in Nat \ {0} /\ <<>> \in Seq(Frame) BY StartAssumption
      <4> QED BY <4>1 DEF FollowType
    <3> QED BY <3>1 DEF Init
  <2> QED BY <1>1, <2>1, <2>2, <2>3, <2>4 DEF Types
<1>3. HeadInv BY <1>1 DEF HeadInv
<1>4. DOMAIN log = {} /\ DOMAIN commits = {} /\ Len(log) = 0 /\ Len(commits) = 0 BY <1>1
<1>5. IndexInv BY <1>1, <1>4 DEF IndexInv, Keyed, Indexed
<1>6. WriterInv BY <1>4 DEF WriterInv, EpochHasOneWriter
<1>7. OnceInv BY <1>1, <1>4 DEF OnceInv
<1>8. DraftInv BY <1>1 DEF DraftInv, Holding, Init, Idle
<1>9. AnswerInv BY <1>1 DEF AnswerInv
<1>10. FollowerInv
  <2>1. ASSUME NEW f \in Follower PROVE Follows(follower[f])
    <3>1. PICK n \in Start :
            follower[f] = [start |-> n, cursor |-> n, last |-> 0, got |-> <<>>, pc |-> "poll"]
      BY DEF Init
    <3>2. n \in Nat \ {0} BY StartAssumption
    <3>3. FramesOf(log, n, n - 1) = <<>> BY <3>2, NoFrames
    <3> QED BY <1>4, <3>1, <3>2, <3>3 DEF Follows
  <2> QED BY <2>1 DEF FollowerInv
<1> QED BY <1>2, <1>3, <1>5, <1>6, <1>7, <1>8, <1>9, <1>10 DEF LogInductive

-----------------------------------------------------------------------------
(* The steps.                                                              *)

LEMMA TaskFacts ==
  ASSUME LogInductive, NEW t \in Task
  PROVE  /\ Types /\ DOMAIN task = Task /\ InTask(task[t]) /\ Holding(task[t])
         /\ clock \in Nat /\ follower \in [Follower -> FollowType]
         /\ \A k : LET new == [task EXCEPT ![t] = k] IN
                   /\ DOMAIN new = Task /\ new[t] = k
                   /\ \A u \in Task : new[u] = task[u] \/ new[u] = k
         /\ InTask(Idle) /\ Holding(Idle)
<1>1. Types /\ DraftInv BY DEF LogInductive
<1>2. TaskType /\ clock \in Nat /\ follower \in [Follower -> FollowType] BY <1>1 DEF Types
<1>3. DOMAIN task = Task /\ InTask(task[t]) /\ Holding(task[t]) BY <1>1, <1>2 DEF TaskType, DraftInv
<1>4. InTask(Idle) /\ Holding(Idle) BY DEF InTask, Idle, Holding
<1>5. ASSUME NEW k
      PROVE  /\ DOMAIN [task EXCEPT ![t] = k] = Task /\ [task EXCEPT ![t] = k][t] = k
             /\ \A u \in Task : [task EXCEPT ![t] = k][u] = task[u] \/ [task EXCEPT ![t] = k][u] = k
  BY <1>3
<1> QED BY <1>1, <1>2, <1>3, <1>4, <1>5

LEMMA BeginStep ==
  ASSUME LogInductive, NEW t \in Task, NEW j \in Job, Begin(t, j) PROVE LogInductive'
<1>1. PICK k : k = [pc |-> FirstStep(j), job |-> j, draft |-> None] OBVIOUS
<1>2. InTask(k) /\ Holding(k)
  <2>1. j.kind \in {"append", "stable", "steal", "compact", "trim"} BY Constants
  <2>2. \/ FirstStep(j) = "look" /\ j.kind = "stable"
        \/ FirstStep(j) = "inspect" /\ j.kind = "compact"
        \/ FirstStep(j) = "publish" /\ j.kind \in {"append", "steal", "trim"}
    BY <2>1 DEF FirstStep
  <2>3. j.kind \in Steps(FirstStep(j)) BY <2>2 DEF Steps
  <2>4. Sound(j) BY DEF Begin
  <2> QED BY <1>1, <2>2, <2>3, <2>4 DEF InTask, Holding
<1>3. /\ task' = [task EXCEPT ![t] = k] /\ UNCHANGED <<store, wire, clock, follower, acks, receipts>>
  BY <1>1 DEF Begin
<1>4. DOMAIN task' = Task /\ \A u \in Task : task'[u] = task[u] \/ task'[u] = k BY <1>3, TaskFacts
<1>5. clock \in Nat /\ follower \in [Follower -> FollowType] BY TaskFacts
<1> QED BY <1>2, <1>3, <1>4, <1>5, Standstill

LEMMA LandStep ==
  ASSUME LogInductive, NEW d \in wire, Land(d) PROVE LogInductive'
<1>1. Types /\ DraftInv BY DEF LogInductive
<1>2. Fits(d) BY <1>1 DEF DraftInv
<1>3. PICK j \in Job, now \in 0..clock :
        /\ j.kind = "stable" /\ Sound(j) /\ d \in Prepared(ref, j, now)
        /\ \A i \in Keyed : log[i].key # j.op
  BY <1>2 DEF Fits
<1>4. now \in Nat BY <1>1 DEF Types
<1>5. Commits(j, now, d) BY <1>3, <1>4 DEF Commits, Fresh, Land
<1>6. UNCHANGED <<clock, task, follower, acks, receipts>> BY DEF Land
<1>7. DOMAIN task = Task BY <1>1 DEF Types, TaskType
<1> QED BY <1>5, <1>6, <1>7, CommitRest

LEMMA CrashStep ==
  ASSUME LogInductive, NEW t \in Task, Crash(t) PROVE LogInductive'
<1>1. /\ task' = [task EXCEPT ![t] = Idle]
      /\ wire' = wire \cup {d \in {task[t].draft} : Current(d)}
      /\ UNCHANGED <<store, clock, follower, acks, receipts>>
  BY DEF Crash, Return
<1>2. DOMAIN task' = Task /\ \A u \in Task : task'[u] = task[u] \/ task'[u] = Idle
  BY <1>1, TaskFacts
<1>3. ASSUME NEW d \in wire'
      PROVE \/ d \in wire
            \/ d \in DraftType /\ d.next.generation = ref.generation + 1 /\ Fits(d)
  <2>1. SUFFICES ASSUME d = task[t].draft, Current(d)
                 PROVE d \in DraftType /\ d.next.generation = ref.generation + 1 /\ Fits(d)
    BY <1>1
  <2>2. d # None /\ d.next.generation = ref.generation + 1 BY <2>1 DEF Current
  <2>3. InTask(task[t]) /\ Holding(task[t]) BY TaskFacts
  <2>4. task[t].pc = "put" /\ d \in DraftType BY <2>1, <2>2, <2>3 DEF InTask
  <2> QED BY <2>1, <2>2, <2>3, <2>4 DEF Holding
<1>4. clock \in Nat /\ follower \in [Follower -> FollowType] /\ InTask(Idle) /\ Holding(Idle)
  BY TaskFacts
<1> QED BY <1>1, <1>2, <1>3, <1>4, Standstill

LEMMA TickStep ==
  ASSUME LogInductive, Tick PROVE LogInductive'
<1>1. Types BY DEF LogInductive
<1>2. /\ clock' = clock + 1 /\ UNCHANGED <<store, wire, task, follower, acks, receipts>> BY DEF Tick
<1>3. clock \in Nat /\ DOMAIN task = Task /\ follower \in [Follower -> FollowType]
  BY <1>1 DEF Types, TaskType
<1> QED BY <1>2, <1>3, Standstill

\* An operation's one recorded result answers it, and no result means it was not
\* published.
LEMMA AnswerFacts ==
  ASSUME LogInductive, NEW op \in Op, NEW kind,
         NEW answer, NEW a, a = [kind |-> kind, op |-> op, answer |-> answer, at |-> Len(commits)],
         \/ answer \in Recorded(op)
         \/ Recorded(op) = {} /\ kind = "compact" /\ answer = 0
  PROVE  Acked(a)
<1>1. Types /\ OnceInv BY DEF LogInductive
<1>2. commits \in Seq(CommitType) /\ Len(commits) \in Nat /\ DOMAIN commits = 1..Len(commits)
  BY <1>1 DEF Types
<1>3. op \notin Key BY Constants
<1>4. a.at \in 0..Len(commits) /\ a.op = op /\ a.answer = answer /\ a.at = Len(commits) /\ a.kind = kind
  BY <1>2
<1>5. CASE answer \in Recorded(op)
  <2>1. PICK g \in 1..Len(commits) : commits[g].op = op /\ commits[g].result = answer
    BY <1>2, <1>5 DEF Recorded
  <2>2. \A h \in 1..Len(commits) : commits[h].op = op => h = g
    BY <1>1, <1>2, <1>3, <2>1 DEF OnceInv
  <2> QED BY <1>4, <2>1, <2>2 DEF Acked
<1>6. CASE Recorded(op) = {} /\ kind = "compact" /\ answer = 0
  <2>1. \A g \in 1..Len(commits) : commits[g].op # op BY <1>2, <1>6 DEF Recorded
  <2> QED BY <1>4, <1>6, <2>1 DEF Acked
<1> QED BY <1>5, <1>6

\* A generic operation has an operation id.
LEMMA GenericJob ==
  ASSUME LogInductive, NEW t \in Task, task[t].pc \in {"publish", "inspect", "recover"}
  PROVE  /\ task[t].job \in Job /\ Sound(task[t].job) /\ task[t].job.kind # "stable"
         /\ task[t].job.op \in Op /\ task[t].draft = None
         /\ task[t].job.kind \in Steps(task[t].pc)
<1>1. PICK j : j = task[t].job OBVIOUS
<1>2. InTask(task[t]) BY TaskFacts
<1>3. j \in Job /\ Sound(j) /\ j.kind \in Steps(task[t].pc) /\ task[t].draft = None
  BY <1>1, <1>2 DEF InTask
<1>4. j.kind # "stable" BY <1>3 DEF Steps
<1>5. j.op \in Op
  <2>1. CASE Appending(j)
    <3>1. j.kind = "append" BY <1>4, <2>1 DEF Appending
    <3> QED BY <1>3, <2>1, <3>1, AppendJob
  <2>2. CASE ~Appending(j) BY <1>3, <2>2, OtherKinds
  <2> QED BY <2>1, <2>2
<1> QED BY <1>1, <1>3, <1>4, <1>5

LEMMA InspectStep ==
  ASSUME LogInductive, NEW t \in Task, Inspect(t) PROVE LogInductive'
<1>1. /\ task[t].pc = "inspect"
      /\ UNCHANGED <<store, wire, clock, follower, receipts>>
  BY DEF Inspect
<1>2. /\ task[t].job \in Job /\ Sound(task[t].job) /\ task[t].job.op \in Op /\ task[t].draft = None
      /\ task[t].job.kind = "compact"
  BY <1>1, GenericJob DEF Steps
<1>3. clock \in Nat /\ follower \in [Follower -> FollowType] /\ InTask(Idle) /\ Holding(Idle)
      /\ InTask(task[t]) /\ DOMAIN task = Task
  BY TaskFacts
<1>4. CASE ref.generation = 0 /\ Answer(t, 0) /\ Return(t)
  <2>1. task' = [task EXCEPT ![t] = Idle] BY <1>4 DEF Return
  <2>2. DOMAIN task' = Task /\ \A u \in Task : task'[u] = task[u] \/ task'[u] = Idle
    BY <2>1, TaskFacts
  <2>3. PICK a : a = [kind |-> task[t].job.kind, op |-> task[t].job.op, answer |-> 0,
                      at |-> Len(commits)]
    OBVIOUS
  <2>4. acks' = acks \cup {a} BY <1>1, <1>4, <2>3 DEF Answer, store
  <2>5. Recorded(task[t].job.op) = {}
    <3>1. Len(commits) = 0 /\ commits \in Seq(CommitType) BY <1>4 DEF LogInductive, OnceInv, Types
    <3>2. DOMAIN commits = {} BY <3>1
    <3> QED BY <3>2 DEF Recorded
  <2>6. Acked(a) BY <1>2, <2>3, <2>5, AnswerFacts
  <2> QED BY <1>1, <1>3, <2>2, <2>4, <2>6, Standstill
<1>5. CASE ~Openable(ref, task[t].job.feed) /\ Return(t) /\ UNCHANGED acks
  <2>1. task' = [task EXCEPT ![t] = Idle] BY <1>5 DEF Return
  <2>2. DOMAIN task' = Task /\ \A u \in Task : task'[u] = task[u] \/ task'[u] = Idle
    BY <2>1, TaskFacts
  <2> QED BY <1>1, <1>3, <1>5, <2>2, Standstill
<1>6. ASSUME NEW pc \in {"recover", "publish"}, Goto(t, pc), UNCHANGED acks PROVE LogInductive'
  <2>1. task' = [task EXCEPT ![t].pc = pc] BY <1>6 DEF Goto
  <2>2. PICK k : k = [pc |-> pc, job |-> task[t].job, draft |-> None] OBVIOUS
  <2>3. /\ DOMAIN task' = Task /\ \A u \in Task : task'[u] = task[u] \/ task'[u] = k
    BY <1>2, <1>3, <2>1, <2>2 DEF InTask
  <2>4. InTask(k) /\ Holding(k) BY <1>2, <1>6, <2>2 DEF InTask, Holding, Steps
  <2> QED BY <1>1, <1>3, <1>6, <2>3, <2>4, Standstill
<1> QED BY <1>4, <1>5, <1>6 DEF Inspect

LEMMA RecoverStep ==
  ASSUME LogInductive, NEW t \in Task, Recover(t) PROVE LogInductive'
<1>1. /\ task[t].pc = "recover"
      /\ UNCHANGED <<store, wire, clock, follower, receipts>>
      /\ Answer(t, Recovered(task[t].job.op)) /\ Return(t)
  BY DEF Recover
<1>2. task[t].job.op \in Op /\ task[t].job.kind = "compact"
  BY <1>1, GenericJob DEF Steps
<1>3. clock \in Nat /\ follower \in [Follower -> FollowType] /\ InTask(Idle) /\ Holding(Idle)
  BY TaskFacts
<1>4. task' = [task EXCEPT ![t] = Idle] BY <1>1 DEF Return
<1>5. DOMAIN task' = Task /\ \A u \in Task : task'[u] = task[u] \/ task'[u] = Idle
  BY <1>4, TaskFacts
<1>6. PICK op, answer : op = task[t].job.op /\ answer = Recovered(op) OBVIOUS
<1>7. PICK a : a = [kind |-> "compact", op |-> op, answer |-> answer, at |-> Len(commits)]
  OBVIOUS
<1>8. acks' = acks \cup {a} BY <1>1, <1>2, <1>6, <1>7 DEF Answer, store
<1>9. \/ answer \in Recorded(op)
      \/ Recorded(op) = {} /\ answer = 0
  BY <1>6 DEF Recovered
<1>10. Acked(a) BY <1>2, <1>6, <1>7, <1>9, AnswerFacts
<1> QED BY <1>1, <1>3, <1>5, <1>8, <1>10, Standstill

LEMMA PublishStep ==
  ASSUME LogInductive, NEW t \in Task, Publish(t) PROVE LogInductive'
<1>1. PICK j : j = task[t].job OBVIOUS
<1>2. task[t].pc = "publish" /\ UNCHANGED <<clock, follower, receipts>> BY DEF Publish
<1>3. j \in Job /\ Sound(j) /\ j.kind # "stable" /\ j.op \in Op BY <1>1, <1>2, GenericJob
<1>4. clock \in Nat /\ follower \in [Follower -> FollowType] /\ InTask(Idle) /\ Holding(Idle)
      /\ Idle.pc # "put" /\ Types
  BY TaskFacts DEF Idle
<1>5. ASSUME Return(t)
      PROVE  DOMAIN task' = Task /\ \A u \in Task : task'[u] = task[u] \/ task'[u] = Idle
  <2>1. task' = [task EXCEPT ![t] = Idle] BY <1>5 DEF Return
  <2> QED BY <2>1, TaskFacts
<1>6. ASSUME NEW result \in Recorded(j.op), UNCHANGED <<store, wire>>, Tell(t, result)
      PROVE  LogInductive'
  <2>1. DOMAIN task' = Task /\ \A u \in Task : task'[u] = task[u] \/ task'[u] = Idle
    BY <1>5, <1>6 DEF Tell
  <2>2. PICK a : a = [kind |-> j.kind, op |-> j.op, answer |-> result, at |-> Len(commits)]
    OBVIOUS
  <2>3. acks' \subseteq acks \cup {a}
    <3>1. commits' = commits BY <1>6 DEF store
    <3> QED BY <1>1, <1>6, <2>2, <3>1 DEF Tell, Answer
  <2>4. Acked(a) BY <1>3, <1>6, <2>2, AnswerFacts
  <2> QED BY <1>2, <1>4, <1>6, <2>1, <2>3, <2>4, Standstill
<1>7. ASSUME Recorded(j.op) = {}, NEW d \in Prepared(ref, j, clock), Commit(d), Tell(t, d.result)
      PROVE  LogInductive'
  <2>1. Commits(j, clock, d) BY <1>3, <1>4, <1>7 DEF Commits, Fresh
  <2>2. Grown(d) /\ d.op = j.op BY <2>1, CommitStore
  <2>3. DOMAIN task' = Task /\ \A u \in Task : task'[u] = task[u] \/ task'[u] = Idle
    BY <1>5, <1>7 DEF Tell
  <2>4. PICK a : a = [kind |-> j.kind, op |-> j.op, answer |-> d.result, at |-> Len(commits')]
    OBVIOUS
  <2>5. acks' \subseteq acks \cup {a} BY <1>1, <1>7, <2>4 DEF Tell, Answer
  <2>6. Acked(a)'
    <3>1. /\ commits \in Seq(CommitType) /\ Len(commits) \in Nat /\ DOMAIN commits = 1..Len(commits)
          /\ Len(commits') = Len(commits) + 1
          /\ \A g \in 1..Len(commits) : commits'[g] = commits[g]
          /\ commits'[Len(commits) + 1] = [op |-> d.op, result |-> d.result]
      BY <1>4, <2>2 DEF Types, Grown
    <3>2. \A g \in 1..Len(commits) : commits'[g].op # j.op BY <1>7, <3>1 DEF Recorded
    <3>3. a.op = j.op /\ a.answer = d.result /\ a.at = Len(commits) + 1 BY <2>4, <3>1
    <3>4. commits'[Len(commits) + 1].op = a.op /\ commits'[Len(commits) + 1].result = a.answer
      BY <2>2, <3>1, <3>3
    <3>5. Len(commits) + 1 \in 1..a.at /\ a.at \in 0..Len(commits') BY <3>1, <3>3
    <3>6. \A g \in 1..a.at : commits'[g].op = a.op => commits'[g].result = a.answer
      <4> TAKE g \in 1..a.at
      <4>1. g \in 1..Len(commits) \/ g = Len(commits) + 1 BY <3>1, <3>3
      <4> QED BY <3>2, <3>3, <3>4, <4>1
    <3> QED BY <1>3, <3>3, <3>4, <3>5, <3>6 DEF Acked
  <2> QED BY <1>2, <1>4, <2>1, <2>3, <2>5, <2>6, CommitRest
<1>8. ASSUME Return(t), UNCHANGED <<store, wire, acks, spent>> PROVE LogInductive'
  <2>1. DOMAIN task' = Task /\ \A u \in Task : task'[u] = task[u] \/ task'[u] = Idle
    BY <1>5, <1>8
  <2> QED BY <1>2, <1>4, <1>8, <2>1, Standstill
<1> QED BY <1>1, <1>6, <1>7, <1>8 DEF Publish

\* What a stable append prepares.
LEMMA StableDraft ==
  ASSUME LogInductive, NEW j \in Job, Sound(j), j.kind = "stable", NEW now \in Nat,
         NEW d \in Prepared(ref, j, now)
  PROVE  /\ d \in DraftType /\ d.op = j.op /\ d.next.generation = ref.generation + 1
         /\ Len(d.events) = 1 /\ d.events[1].key = j.op /\ d.events[1].payload \in Payload
         /\ d.result.first = Len(log) + 1
<1>1. Types /\ HeadInv /\ Appending(j) BY DEF LogInductive, Appending
<1>2. PICK m : m = Domain(ref, j.feed) OBVIOUS
<1>3. /\ Extended(ref, j.op, j.writer, j.payloads, KeyOf(j), m, ModeOf(m, j.feed), d)
      /\ d.events \in Seq(Event) /\ d.result \in Span
      /\ Len(d.events) = Len(j.payloads)
  BY <1>1, <1>2, Extending
<1>4. j.op \in Key /\ KeyOf(j) = j.op /\ Len(j.payloads) = 1 /\ j.feed \in Modes
      /\ j.payloads \in Seq(Payload)
  BY <1>1, AppendJob
<1>5. /\ d = [op |-> j.op, next |-> d.next, result |-> d.result, events |-> d.events]
      /\ d.next \in RefType /\ d.next.generation = ref.generation + 1
      /\ d.result = [first |-> m.head + 1, last |-> m.head + Len(j.payloads)]
  BY <1>3 DEF Extended
<1>6. d \in DraftType /\ d.op = j.op BY <1>3, <1>4, <1>5 DEF DraftType
<1>7. m.head = Len(log)
  <2>1. ref \in RefType BY <1>1 DEF Types
  <2>2. m = IF ref.target = None THEN EmptyDomain(j.feed) ELSE ref.target
    BY <1>2, <1>4, <2>1, DomainFacts
  <2>3. CASE ref.target = None BY <1>1, <2>2, <2>3 DEF EmptyDomain, HeadInv
  <2>4. CASE ref.target # None BY <1>1, <2>2, <2>4 DEF HeadInv
  <2> QED BY <2>3, <2>4
<1>8. d.events[1].key = j.op /\ d.events[1].payload = j.payloads[1]
  <2>1. 1 \in 1..Len(j.payloads) BY <1>4
  <2>2. d.events[1] = [payload |-> j.payloads[1], key |-> KeyOf(j), epoch |-> d.next.epoch,
                       writer |-> j.writer]
    BY <1>1, <1>2, <2>1, Extending
  <2> QED BY <1>4, <2>2
<1>9. j.payloads[1] \in Payload BY <1>4
<1> QED BY <1>3, <1>4, <1>5, <1>6, <1>7, <1>8, <1>9

LEMMA StableJob ==
  ASSUME LogInductive, NEW t \in Task, task[t].pc \in {"look", "put"}
  PROVE  task[t].job \in Job /\ Sound(task[t].job) /\ task[t].job.kind = "stable"
<1>1. InTask(task[t]) BY TaskFacts
<1> QED BY <1>1 DEF InTask, Steps

LEMMA LookStep ==
  ASSUME LogInductive, NEW t \in Task, Look(t) PROVE LogInductive'
<1>1. PICK j : j = task[t].job OBVIOUS
<1>2. task[t].pc = "look" /\ UNCHANGED <<store, wire, clock, follower, acks, spent>> BY DEF Look
<1>3. j \in Job /\ Sound(j) /\ j.kind = "stable" BY <1>1, <1>2, StableJob
<1>4. clock \in Nat /\ follower \in [Follower -> FollowType] /\ InTask(Idle) /\ Holding(Idle)
      /\ Types /\ InTask(task[t]) /\ DOMAIN task = Task
  BY TaskFacts
<1>5. ASSUME Return(t)
      PROVE  DOMAIN task' = Task /\ \A u \in Task : task'[u] = task[u] \/ task'[u] = Idle
  <2>1. task' = [task EXCEPT ![t] = Idle] BY <1>5 DEF Return
  <2> QED BY <2>1, TaskFacts
<1>6. ASSUME NEW e \in Found(t), receipts' \subseteq receipts \cup {e}, Return(t)
      PROVE  LogInductive'
  <2>1. ref.target # None /\ ref.target.index # None /\ e \in ref.target.index.entries
    BY <1>6 DEF Found
  <2>2. IndexInv BY DEF LogInductive
  <2>3. Holds(e) /\ ref.target.index \in Index BY <2>1, <2>2 DEF IndexInv, Indexed
  <2>4. e \in Entry BY <2>1, <2>3 DEF Index
  <2>5. DOMAIN task' = Task /\ \A u \in Task : task'[u] = task[u] \/ task'[u] = Idle
    BY <1>5, <1>6
  <2> QED BY <1>2, <1>4, <1>6, <2>3, <2>4, <2>5, Standstill
<1>7. ASSUME Found(t) = {}, UNCHANGED receipts, NEW d \in Prepared(ref, j, clock),
             task' = [task EXCEPT ![t].pc = "put", ![t].draft = d]
      PROVE  LogInductive'
  <2>1. d \in DraftType /\ d.op = j.op /\ d.next.generation = ref.generation + 1
    BY <1>3, <1>4, <1>7, StableDraft
  <2>2. ref.generation \in Nat BY <1>4 DEF Types, RefType
  <2>3. ASSUME NEW i \in Keyed PROVE log[i].key # j.op
    <3>1. IndexInv BY DEF LogInductive
    <3>2. PICK e \in ref.target.index.entries : e.seq = i /\ Indexed(ref) /\ Holds(e)
          /\ ref.target.index \in Index
      BY <2>3, <3>1 DEF IndexInv
    <3>3. ref.target # None /\ ref.target.index # None BY <3>2 DEF Indexed
    <3>4. e.key # j.op BY <1>1, <1>7, <3>2, <3>3 DEF Found
    <3> QED BY <3>2, <3>4 DEF Holds
  <2>4. clock \in 0..clock BY <1>4
  <2>5. Fits(d) BY <1>3, <1>7, <2>3, <2>4 DEF Fits
  <2>6. PICK k : k = [pc |-> "put", job |-> j, draft |-> d] OBVIOUS
  <2>7. DOMAIN task' = Task /\ \A u \in Task : task'[u] = task[u] \/ task'[u] = k
    BY <1>1, <1>4, <1>7, <2>6 DEF InTask
  <2>8. InTask(k) /\ Holding(k)
    BY <1>3, <2>1, <2>2, <2>5, <2>6 DEF InTask, Holding, Steps
  <2>9. /\ UNCHANGED store /\ clock' \in Nat /\ clock <= clock'
        /\ wire' = wire /\ acks' = acks /\ receipts' = receipts /\ follower' = follower
    BY <1>2, <1>4, <1>7
  <2>10. \A u \in Task : task'[u] = task[u] \/ (InTask(task'[u]) /\ Holding(task'[u]))
    BY <2>7, <2>8
  <2> QED BY <1>4, <2>7, <2>9, <2>10, Standstill
<1>8. ASSUME Return(t), UNCHANGED receipts PROVE LogInductive'
  <2>1. DOMAIN task' = Task /\ \A u \in Task : task'[u] = task[u] \/ task'[u] = Idle
    BY <1>5, <1>8
  <2> QED BY <1>2, <1>4, <1>8, <2>1, Standstill
<1>9. receipts \subseteq receipts \cup {} OBVIOUS
<1> QED BY <1>1, <1>6, <1>7, <1>8 DEF Look

LEMMA PutStep ==
  ASSUME LogInductive, NEW t \in Task, Put(t) PROVE LogInductive'
<1>1. PICK d, j : d = task[t].draft /\ j = task[t].job OBVIOUS
<1>2. task[t].pc = "put" /\ UNCHANGED <<clock, follower, acks>> BY DEF Put
<1>3. clock \in Nat /\ follower \in [Follower -> FollowType] /\ InTask(Idle) /\ Holding(Idle)
      /\ Idle.pc # "put" /\ Types /\ InTask(task[t]) /\ Holding(task[t]) /\ DOMAIN task = Task
  BY TaskFacts DEF Idle
<1>4. d \in DraftType BY <1>1, <1>2, <1>3 DEF InTask
<1>5. ASSUME PutFresh(t)
      PROVE  d.next.generation = ref.generation + 1 /\ Fits(d)
  BY <1>1, <1>2, <1>3, <1>5 DEF PutFresh, Current, Holding
<1>6. ASSUME PutFresh(t), Commit(d)
      PROVE  \E other \in Job, now \in Nat :
               /\ Commits(other, now, d) /\ other.kind = "stable" /\ Sound(other)
               /\ d \in Prepared(ref, other, now)
  <2>1. PICK other \in Job, now \in 0..clock :
          /\ other.kind = "stable" /\ Sound(other) /\ d \in Prepared(ref, other, now)
          /\ \A i \in Keyed : log[i].key # other.op
    BY <1>5, <1>6 DEF Fits
  <2>2. now \in Nat BY <1>3
  <2>3. Commits(other, now, d) BY <1>6, <2>1, <2>2 DEF Commits, Fresh
  <2> QED BY <2>1, <2>2, <2>3
<1>7. PICK k : k = [pc |-> "look", job |-> j, draft |-> None] OBVIOUS
<1>8. InTask(k) /\ Holding(k) /\ k.pc # "put"
  <2>1. j \in Job /\ Sound(j) /\ j.kind = "stable" BY <1>1, <1>2, StableJob
  <2> QED BY <1>7, <2>1 DEF InTask, Holding, Steps
<1>9. ASSUME task' = [task EXCEPT ![t].pc = "look", ![t].draft = None]
      PROVE  DOMAIN task' = Task /\ \A u \in Task : task'[u] = task[u] \/ task'[u] = k
  BY <1>1, <1>3, <1>7, <1>9 DEF InTask
<1>10. ASSUME PutFresh(t), Commit(d), Return(t),
              receipts' = receipts \cup {[key |-> d.op, payload |-> d.events[1].payload,
                                          seq |-> d.result.first,
                                          generation |-> d.next.generation]}
       PROVE  LogInductive'
  <2>1. task' = [task EXCEPT ![t] = Idle] BY <1>10 DEF Return
  <2>2. DOMAIN task' = Task /\ \A u \in Task : task'[u] = task[u] \/ task'[u] = Idle
    BY <2>1, TaskFacts
  <2>3. PICK other \in Job, now \in Nat :
          /\ Commits(other, now, d) /\ other.kind = "stable" /\ Sound(other)
          /\ d \in Prepared(ref, other, now)
    BY <1>6, <1>10
  <2>4. /\ d.op = other.op /\ d.next.generation = ref.generation + 1
        /\ Len(d.events) = 1 /\ d.events[1].key = other.op /\ d.events[1].payload \in Payload
        /\ d.result.first = Len(log) + 1
    BY <2>3, StableDraft
  <2>5. Grown(d) BY <2>3, CommitStore
  <2>6. PICK e : e = [key |-> d.op, payload |-> d.events[1].payload, seq |-> d.result.first,
                      generation |-> d.next.generation]
    OBVIOUS
  <2>7. /\ log \in Seq(Event) /\ Len(log) \in Nat /\ log' \in Seq(Event)
        /\ Len(log') = Len(log) + 1 /\ log'[Len(log) + 1] = d.events[1]
        /\ Len(commits) = ref.generation /\ Len(commits) \in Nat /\ commits' \in Seq(CommitType)
        /\ Len(commits') = Len(commits) + 1
        /\ commits'[Len(commits) + 1] = [op |-> d.op, result |-> d.result]
    <3>1. OnceInv BY DEF LogInductive
    <3>2. 1 \in 1..Len(d.events) BY <2>4
    <3>3. log \in Seq(Event) /\ commits \in Seq(CommitType) BY <1>3 DEF Types
    <3> QED BY <2>4, <2>5, <3>1, <3>2, <3>3 DEF Grown, OnceInv
  <2>8. e.seq \in Nat /\ e.generation \in Nat /\ e.key \in Key /\ e.payload \in Payload
    BY <1>4, <2>4, <2>6, <2>7 DEF DraftType
  <2>9. e \in Entry BY <2>6, <2>8 DEF Entry
  <2>10. /\ e.key = other.op /\ e.payload = d.events[1].payload /\ e.seq = Len(log) + 1
         /\ e.generation = Len(commits) + 1 /\ d.op = e.key
    BY <2>4, <2>6, <2>7
  <2>11. Holds(e)'
    <3>1. e.seq \in DOMAIN log' /\ e.generation \in DOMAIN commits' BY <2>7, <2>10
    <3> QED BY <2>4, <2>7, <2>10, <3>1 DEF Holds
  <2> QED BY <1>2, <1>3, <1>10, <2>2, <2>3, <2>6, <2>9, <2>11, CommitRest
<1>11. ASSUME PutFresh(t), Commit(d), UNCHANGED receipts,
              task' = [task EXCEPT ![t].pc = "look", ![t].draft = None]
       PROVE  LogInductive'
  <2>1. PICK other \in Job, now \in Nat : Commits(other, now, d) BY <1>6, <1>11
  <2> QED BY <1>2, <1>3, <1>8, <1>9, <1>11, <2>1, CommitRest
<1>12. ASSUME wire' = wire \/ (PutFresh(t) /\ wire' = wire \cup {d}),
              UNCHANGED store, UNCHANGED receipts,
              task' = [task EXCEPT ![t].pc = "look", ![t].draft = None]
       PROVE  LogInductive'
  <2>1. \A c \in wire' : \/ c \in wire
                         \/ c \in DraftType /\ c.next.generation = ref.generation + 1 /\ Fits(c)
    BY <1>4, <1>5, <1>12
  <2>2. /\ UNCHANGED store /\ clock' \in Nat /\ clock <= clock'
        /\ acks' = acks /\ receipts' = receipts /\ follower' = follower
    BY <1>2, <1>3, <1>12
  <2>3. \A u \in Task : task'[u] = task[u] \/ (InTask(task'[u]) /\ Holding(task'[u]))
    BY <1>8, <1>9, <1>12
  <2>4. DOMAIN task' = Task BY <1>9, <1>12
  <2> QED BY <1>3, <2>1, <2>2, <2>3, <2>4, Standstill
<1>13. \/ /\ PutFresh(t) /\ Commit(d) /\ Return(t)
          /\ receipts' = receipts \cup {[key |-> d.op, payload |-> d.events[1].payload,
                                         seq |-> d.result.first,
                                         generation |-> d.next.generation]}
       \/ /\ task' = [task EXCEPT ![t].pc = "look", ![t].draft = None] /\ UNCHANGED receipts
          /\ \/ PutFresh(t) /\ Commit(d)
             \/ PutFresh(t) /\ wire' = wire \cup {d} /\ UNCHANGED store
             \/ UNCHANGED <<store, wire>>
  BY <1>1 DEF Put
<1>14. ASSUME UNCHANGED <<store, wire>>, UNCHANGED receipts,
              task' = [task EXCEPT ![t].pc = "look", ![t].draft = None]
       PROVE  LogInductive'
  <2>1. UNCHANGED store /\ wire' = wire BY <1>14
  <2> QED BY <1>12, <1>14, <2>1
<1>15. ASSUME PutFresh(t), wire' = wire \cup {d}, UNCHANGED store, UNCHANGED receipts,
              task' = [task EXCEPT ![t].pc = "look", ![t].draft = None]
       PROVE  LogInductive'
  BY <1>12, <1>15
<1> QED BY <1>10, <1>11, <1>13, <1>14, <1>15

LEMMA PollStep ==
  ASSUME LogInductive, NEW f \in Follower, Poll(f) PROVE LogInductive'
<1>1. PICK k : k = follower[f] OBVIOUS
<1>2. k.pc = "poll" /\ UNCHANGED <<store, wire, clock, task, acks, receipts, spent>>
  BY <1>1 DEF Poll
<1>3. Types /\ HeadInv /\ FollowerInv BY DEF LogInductive
<1>4. clock \in Nat /\ follower \in [Follower -> FollowType] /\ DOMAIN task = Task
      /\ ref \in RefType
  BY <1>3 DEF Types, TaskType
<1>5. /\ k \in FollowType /\ k.start \in Nat \ {0} /\ k.cursor \in Nat \ {0} /\ k.last \in Nat
      /\ Follows(k)
  BY <1>1, <1>3, <1>4 DEF FollowType, FollowerInv
<1>6. CASE follower' = [follower EXCEPT ![f].pc = "ended"]
  <2>1. PICK new : new = [k EXCEPT !.pc = "ended"] OBVIOUS
  <2>2. new \in FollowType /\ Follows(new) BY <1>5, <2>1 DEF FollowType, Follows
  <2>3. follower' = [follower EXCEPT ![f] = new] BY <1>1, <1>6, <2>1
  <2>4. /\ follower' \in [Follower -> FollowType]
        /\ \A g \in Follower : follower'[g] = follower[g] \/ follower'[g] = new
    BY <1>4, <2>2, <2>3
  <2> QED BY <1>2, <1>4, <2>2, <2>4, Standstill
<1>7. ASSUME NEW m \in LoadManifest(ref), m.head > k.last,
             follower' = [follower EXCEPT ![f].last = m.head,
                            ![f].pc = IF m.head >= follower[f].cursor THEN "read" ELSE "poll"]
      PROVE  LogInductive'
  <2>1. m = ref.target /\ m # None BY <1>7 DEF LoadManifest
  <2>2. m \in Manifest BY <1>4, <2>1 DEF RefType
  <2>3. m.head \in Nat /\ m.head <= Len(log) BY <1>3, <2>1, <2>2 DEF Manifest, HeadInv
  <2>4. PICK new : new = [k EXCEPT !.last = m.head,
                                   !.pc = IF m.head >= k.cursor THEN "read" ELSE "poll"]
    OBVIOUS
  <2>5. new \in FollowType BY <1>5, <2>3, <2>4 DEF FollowType
  <2>6. /\ new.last = m.head /\ new.pc = (IF m.head >= k.cursor THEN "read" ELSE "poll")
        /\ new.start = k.start /\ new.cursor = k.cursor /\ new.got = k.got
    BY <1>5, <2>4 DEF FollowType
  <2>7. Follows(new) BY <1>5, <2>3, <2>6 DEF Follows
  <2>8. follower' = [follower EXCEPT ![f] = new] BY <1>1, <1>4, <1>7, <2>4
  <2>9. /\ follower' \in [Follower -> FollowType]
        /\ \A g \in Follower : follower'[g] = follower[g] \/ follower'[g] = new
    BY <1>4, <2>5, <2>8
  <2> QED BY <1>2, <1>4, <2>5, <2>7, <2>9, Standstill
<1> QED BY <1>1, <1>6, <1>7 DEF Poll

\* What is read is the log from the cursor to its end.
LEMMA FollowReadStep ==
  ASSUME LogInductive, NEW f \in Follower, FollowRead(f) PROVE LogInductive'
<1>1. PICK k : k = follower[f] OBVIOUS
<1>2. k.pc = "read" /\ UNCHANGED <<store, wire, clock, task, acks, receipts, spent>>
  BY <1>1 DEF FollowRead
<1>3. Types /\ HeadInv /\ FollowerInv BY DEF LogInductive
<1>4. clock \in Nat /\ follower \in [Follower -> FollowType] /\ DOMAIN task = Task
      /\ ref \in RefType /\ log \in Seq(Event)
  BY <1>3 DEF Types, TaskType
<1>5. /\ k \in FollowType /\ k.start \in Nat \ {0} /\ k.cursor \in Nat \ {0} /\ k.last \in Nat
      /\ Follows(k)
  BY <1>1, <1>3, <1>4 DEF FollowType, FollowerInv
<1>6. CASE follower' = [follower EXCEPT ![f].pc = "ended"]
  <2>1. PICK new : new = [k EXCEPT !.pc = "ended"] OBVIOUS
  <2>2. new \in FollowType /\ Follows(new) BY <1>5, <2>1 DEF FollowType, Follows
  <2>3. follower' = [follower EXCEPT ![f] = new] BY <1>1, <1>6, <2>1
  <2>4. /\ follower' \in [Follower -> FollowType]
        /\ \A g \in Follower : follower'[g] = follower[g] \/ follower'[g] = new
    BY <1>4, <2>2, <2>3
  <2> QED BY <1>2, <1>4, <2>2, <2>4, Standstill
<1>7. ASSUME NEW frames \in Read(ref.target, k.cursor),
             follower' = [follower EXCEPT ![f] = Pass(@, frames)]
      PROVE  LogInductive'
  <2>1. PICK n \in Nat, c \in Nat \ {0}, s \in Nat \ {0} :
          n = Len(log) /\ c = k.cursor /\ s = k.start
    BY <1>4, <1>5
  <2>2. c <= n /\ s <= c /\ k.got = FramesOf(log, s, c - 1)
    BY <1>2, <1>5, <2>1 DEF Follows
  <2>3. ref.target # None /\ ref.target \in Manifest
    <3>1. n # 0 BY <2>1, <2>2
    <3>2. log # <<>> BY <2>1, <3>1
    <3> QED BY <1>3, <1>4, <3>2 DEF HeadInv, RefType
  <2>4. Tiled(ref.target.segments \o ref.target.chunks, log) BY <1>3, <2>3 DEF HeadInv
  <2>5. frames = FramesOf(log, c, n)
    <3>1. Read(ref.target, c) = IF ref.target.trim > 0 /\ c <= ref.target.trim THEN {}
                                ELSE {FramesOf(log, c, Len(log))}
      BY <1>4, <2>3, <2>4, ReadTiles
    <3> QED BY <1>7, <2>1, <3>1
  <2>6. /\ frames \in Seq(Frame) /\ Len(frames) = n - c + 1
        /\ \A i \in 1..(n - c + 1) : frames[i] = FrameAt(log, c + i - 1)
    <3>1. PICK events : events = log OBVIOUS
    <3>2. events \in Seq(Event) /\ c <= n /\ n <= Len(events) BY <1>4, <2>1, <2>2, <3>1
    <3>3. /\ FramesOf(events, c, n) \in Seq(Frame) /\ Len(FramesOf(events, c, n)) = n - c + 1
          /\ \A i \in 1..(n - c + 1) : FramesOf(events, c, n)[i] = FrameAt(events, c + i - 1)
      BY <3>2, FramesType
    <3> QED BY <2>5, <3>1, <3>3
  <2>7. frames # <<>> /\ Last(frames).seq + 1 = n + 1
    <3>1. Len(frames) \in 1..(n - c + 1) BY <2>2, <2>6
    <3>2. frames # <<>> BY <3>1
    <3>3. frames[Len(frames)] = FrameAt(log, c + Len(frames) - 1) BY <2>6, <3>1
    <3>4. c + Len(frames) - 1 = n BY <2>1, <2>6
    <3>5. Last(frames) = frames[Len(frames)] BY DEF Last
    <3> QED BY <3>2, <3>3, <3>4, <3>5 DEF FrameAt
  <2>8. k.got \o frames = FramesOf(log, s, n)
    <3>1. CASE s = c
      <4>1. FramesOf(log, s, c - 1) = <<>> BY <2>1, <3>1, NoFrames
      <4> QED BY <2>2, <2>5, <2>6, <3>1, <4>1, ConcatEmptySeq
    <3>2. CASE s < c
      <4>1. PICK mid \in Nat : mid = c - 1 BY <2>1
      <4>2. s <= mid /\ mid < n /\ mid + 1 = c BY <2>2, <3>2, <4>1
      <4>3. FramesOf(log, s, mid) \o FramesOf(log, mid + 1, n) = FramesOf(log, s, n)
        <5>1. PICK events : events = log OBVIOUS
        <5>2. events \in Seq(Event) /\ n <= Len(events) BY <1>4, <2>1, <5>1
        <5>3. FramesOf(events, s, mid) \o FramesOf(events, mid + 1, n) = FramesOf(events, s, n)
          BY <4>2, <5>2, FramesJoin
        <5> QED BY <5>1, <5>3
      <4> QED BY <2>2, <2>5, <4>1, <4>2, <4>3
    <3> QED BY <2>2, <3>1, <3>2
  <2>9. k.got \o frames \in Seq(Frame)
    BY <1>5, <2>6, ConcatProperties DEF FollowType
  <2>10. PICK new : new = [k EXCEPT !.got = k.got \o frames, !.cursor = n + 1, !.pc = "poll"]
    OBVIOUS
  <2>11. new = Pass(k, frames) BY <1>5, <2>7, <2>10 DEF Pass, FollowType
  <2>12. new \in FollowType
    <3>1. PICK got : got = k.got \o frames OBVIOUS
    <3>2. got \in Seq(Frame) /\ n + 1 \in Nat \ {0} BY <2>1, <2>9, <3>1
    <3>3. new = [k EXCEPT !.got = got, !.cursor = n + 1, !.pc = "poll"] BY <2>10, <3>1
    <3> QED BY <1>5, <3>2, <3>3 DEF FollowType
  <2>13. /\ new.last = k.last /\ new.pc = "poll" /\ new.start = s /\ new.cursor = n + 1
         /\ new.got = FramesOf(log, s, n)
    BY <1>5, <2>1, <2>8, <2>10 DEF FollowType
  <2>14. Follows(new)
    <3>1. k.last <= n BY <1>5, <2>1 DEF Follows
    <3>2. new.cursor - 1 = n /\ Len(log) = n BY <2>1, <2>13
    <3> QED BY <1>5, <2>1, <2>2, <2>13, <3>1, <3>2 DEF Follows
  <2>15. follower' = [follower EXCEPT ![f] = new] BY <1>1, <1>4, <1>7, <2>11
  <2>16. /\ follower' \in [Follower -> FollowType]
         /\ \A g \in Follower : follower'[g] = follower[g] \/ follower'[g] = new
    BY <1>4, <2>12, <2>15
  <2> QED BY <1>2, <1>4, <2>12, <2>14, <2>16, Standstill
<1> QED BY <1>1, <1>6, <1>7 DEF FollowRead

LEMMA LogSteps ==
  ASSUME LogInductive, [Next]_vars PROVE LogInductive'
<1>1. ASSUME NEW t \in Task, NEW j \in Job, Begin(t, j) PROVE LogInductive' BY <1>1, BeginStep
<1>2. ASSUME NEW t \in Task, Publish(t) PROVE LogInductive' BY <1>2, PublishStep
<1>3. ASSUME NEW t \in Task, Inspect(t) PROVE LogInductive' BY <1>3, InspectStep
<1>4. ASSUME NEW t \in Task, Recover(t) PROVE LogInductive' BY <1>4, RecoverStep
<1>5. ASSUME NEW t \in Task, Look(t) PROVE LogInductive' BY <1>5, LookStep
<1>6. ASSUME NEW t \in Task, Put(t) PROVE LogInductive' BY <1>6, PutStep
<1>7. ASSUME NEW t \in Task, Crash(t) PROVE LogInductive' BY <1>7, CrashStep
<1>8. ASSUME NEW d \in wire, Land(d) PROVE LogInductive' BY <1>8, LandStep
<1>9. ASSUME NEW f \in Follower, Poll(f) PROVE LogInductive' BY <1>9, PollStep
<1>10. ASSUME NEW f \in Follower, FollowRead(f) PROVE LogInductive' BY <1>10, FollowReadStep
<1>11. ASSUME Tick PROVE LogInductive' BY <1>11, TickStep
<1>12. ASSUME UNCHANGED vars PROVE LogInductive'
  <2>1. Types BY DEF LogInductive
  <2>2. clock \in Nat /\ DOMAIN task = Task /\ follower \in [Follower -> FollowType]
    BY <2>1 DEF Types, TaskType
  <2>3. /\ UNCHANGED store /\ wire' = wire /\ clock' = clock /\ task' = task
        /\ follower' = follower /\ acks' = acks /\ receipts' = receipts
    BY <1>12 DEF vars
  <2> QED BY <2>2, <2>3, Standstill
<1> QED
  BY <1>1, <1>2, <1>3, <1>4, <1>5, <1>6, <1>7, <1>8, <1>9, <1>10, <1>11, <1>12 DEF Next

-----------------------------------------------------------------------------
(* Theorems.                                                               *)

\* The inductive invariant: the manifest of the head tiles the whole log, the
\* index and every receipt point at an event and the commit that wrote it, and a
\* stable append that is still in flight was prepared against this very ref.
THEOREM LogInvariant == Spec => []LogInductive
<1>1. Init => LogInductive BY LogStarts
<1>2. LogInductive /\ [Next]_vars => LogInductive' BY LogSteps
<1> QED BY <1>1, <1>2, PTL DEF Spec

\* log.rs next_writer, TakeoverPlan: fencing epochs and their writers.
THEOREM WritersAreFenced == Spec => []EpochHasOneWriter
<1>1. LogInductive => EpochHasOneWriter BY DEF LogInductive, WriterInv
<1> QED BY <1>1, LogInvariant, PTL

\* FramesFrom is FramesOf, of the log.
LEMMA SameFrames ==
  \A first, last : FramesFrom(first, last) = FramesOf(log, first, last)
BY DEF FramesFrom, FramesOf, FrameOf, FrameAt

\* log.rs read, CompactPlan, TrimPlan: a read from any position returns exactly the
\* published events from there on, whatever was compacted and trimmed.
THEOREM ReadsAreTheLog == Spec => []ReadsAgree
<1>1. ASSUME LogInductive PROVE ReadsAgree
  <2> SUFFICES ASSUME ref.target # None
               PROVE  /\ ref.target.head = Len(log)
                      /\ \A from \in 1..(Len(log) + 1) :
                           Read(ref.target, from) =
                             IF ref.target.trim > 0 /\ from <= ref.target.trim THEN {}
                             ELSE {FramesFrom(from, Len(log))}
    BY DEF ReadsAgree
  <2>1. HeadInv /\ Types BY <1>1 DEF LogInductive
  <2>2. /\ ref.target.head = Len(log)
        /\ Tiled(ref.target.segments \o ref.target.chunks, log)
    BY <2>1 DEF HeadInv
  <2>3. ref.target \in Manifest /\ log \in Seq(Event) BY <2>1 DEF Types, RefType
  <2>4. ASSUME NEW from \in 1..(Len(log) + 1)
        PROVE  Read(ref.target, from) =
                 IF ref.target.trim > 0 /\ from <= ref.target.trim THEN {}
                 ELSE {FramesFrom(from, Len(log))}
    <3>1. from \in Nat \ {0} OBVIOUS
    <3>2. Read(ref.target, from) =
                 IF ref.target.trim > 0 /\ from <= ref.target.trim THEN {}
                 ELSE {FramesOf(log, from, Len(log))}
      BY <2>2, <2>3, <3>1, ReadTiles
    <3> QED BY <3>2, SameFrames
  <2> QED BY <2>2, <2>4
<1> QED BY <1>1, LogInvariant, PTL

\* log.rs follow: what a follower is given is the log from its starting point, with
\* no gap and nothing twice, and it waits only when it has been given all it polled.
THEOREM FollowersAreGivenTheLog == Spec => []FollowerTiles
<1>1. ASSUME LogInductive PROVE FollowerTiles
  <2>1. ASSUME NEW f \in Follower
        PROVE  /\ follower[f].got = FramesFrom(follower[f].start, follower[f].cursor - 1)
               /\ follower[f].pc = "poll" => follower[f].last < follower[f].cursor
    BY <1>1, SameFrames DEF LogInductive, FollowerInv, Follows
  <2> QED BY <2>1 DEF FollowerTiles
<1> QED BY <1>1, LogInvariant, PTL

\* log.rs recover_completed, compact: an answer is what the one publication of its
\* operation recorded; a compaction that was published is not answered with zero.
THEOREM AnswersAreRecorded == Spec => []AnswersStand
<1>1. ASSUME LogInductive PROVE AnswersStand
  <2>1. ASSUME NEW a \in acks
        PROVE  LET before == {g \in 1..a.at : commits[g].op = a.op} IN
               IF before = {} THEN a.kind = "compact" /\ a.answer = 0
               ELSE \A g \in before : commits[g].result = a.answer
    <3>1. Acked(a) BY <1>1, <2>1 DEF LogInductive, AnswerInv
    <3> QED BY <3>1 DEF Acked
  <2> QED BY <2>1 DEF AnswersStand
<1> QED BY <1>1, LogInvariant, PTL

\* log.rs append_stable: a key is in the log at most once, receipts are true, and the
\* index of a complete log holds just the stable appends.
THEOREM StableAppendsOnce == Spec => []StableOnce
<1>1. ASSUME LogInductive PROVE StableOnce
  <2>1. IndexInv /\ AnswerInv /\ Types BY <1>1 DEF LogInductive
  <2>2. \A i, j \in Keyed : log[i].key = log[j].key => i = j BY <2>1 DEF IndexInv
  <2>3. ASSUME NEW e, Holds(e), e.key \in Key PROVE e.seq \in Keyed
    BY <2>3, Constants DEF Holds, Keyed
  <2>4. ASSUME NEW r \in receipts
        PROVE  /\ r.seq \in Keyed /\ log[r.seq].key = r.key /\ log[r.seq].payload = r.payload
               /\ commits[r.generation].op = r.key
    <3>1. r \in Entry /\ Holds(r) BY <2>1 DEF AnswerInv
    <3>2. r.key \in Key BY <3>1 DEF Entry
    <3> QED BY <2>3, <3>1, <3>2 DEF Holds
  <2>5. {[key |-> e.key, seq |-> e.seq] : e \in EntriesOf(ref)}
          = {[key |-> log[i].key, seq |-> i] : i \in Keyed}
    <3>1. PICK entries : entries = EntriesOf(ref) OBVIOUS
    <3>2. /\ entries \subseteq Entry /\ \A e \in entries : Holds(e)
          /\ \A i \in Keyed : \E e \in entries : e.seq = i
      <4>1. CASE Indexed(ref)
        <5>1. entries = ref.target.index.entries BY <3>1, <4>1 DEF EntriesOf
        <5>2. /\ ref.target.index \in Index /\ \A e \in entries : Holds(e)
              /\ \A i \in Keyed : \E e \in entries : e.seq = i
          BY <2>1, <4>1, <5>1 DEF IndexInv
        <5> QED BY <5>1, <5>2 DEF Index
      <4>2. CASE ~Indexed(ref)
        <5>1. entries = {} BY <3>1, <4>2 DEF EntriesOf
        <5>2. Keyed = {} BY <2>1, <4>2 DEF IndexInv
        <5> QED BY <5>1, <5>2
      <4> QED BY <4>1, <4>2
    <3>3. \A e \in entries : e \in Entry /\ e.key \in Key BY <3>2 DEF Entry
    <3>4. \A e \in entries : e.seq \in Keyed /\ log[e.seq].key = e.key
      BY <2>3, <3>2, <3>3 DEF Holds
    <3>5. \A i \in Keyed : \E e \in entries : e.seq = i /\ e.key = log[i].key BY <3>2, <3>4
    <3> HIDE DEF Keyed
    <3> QED BY <3>1, <3>4, <3>5
  <2> QED BY <2>2, <2>4, <2>5 DEF StableOnce, Keyed
<1> QED BY <1>1, LogInvariant, PTL

\* The store is only written by commits of what was prepared against the ref.
LEMMA OnlyCommits ==
  ASSUME LogInductive, [Next]_vars, ~UNCHANGED store
  PROVE  \E j, now, d : Commits(j, now, d)
<1>2. Types /\ DraftInv /\ clock \in Nat BY DEF LogInductive, Types
<1>3. ASSUME NEW d, Commit(d), Fits(d) PROVE \E j, now : Commits(j, now, d)
  <2>1. PICK j \in Job, now \in 0..clock :
          /\ j.kind = "stable" /\ Sound(j) /\ d \in Prepared(ref, j, now)
          /\ \A i \in Keyed : log[i].key # j.op
    BY <1>3 DEF Fits
  <2>2. now \in Nat BY <1>2
  <2>3. Commits(j, now, d) BY <1>3, <2>1, <2>2 DEF Commits, Fresh
  <2> QED BY <2>3
<1>4. ASSUME NEW t \in Task, Publish(t) PROVE \E j, now, d : Commits(j, now, d)
  <2>1. PICK j : j = task[t].job OBVIOUS
  <2>2. task[t].pc = "publish" BY <1>4 DEF Publish
  <2>3. j \in Job /\ Sound(j) /\ j.kind # "stable" BY <2>1, <2>2, GenericJob
  <2>4. PICK d \in Prepared(ref, j, clock) : Recorded(j.op) = {} /\ Commit(d)
    <3>1. \/ UNCHANGED <<store, wire>>
          \/ \E d \in Prepared(ref, j, clock) : Recorded(j.op) = {} /\ Commit(d)
      BY <1>4, <2>1 DEF Publish
    <3> QED BY <3>1
  <2>5. Commits(j, clock, d) BY <1>2, <2>3, <2>4 DEF Commits, Fresh
  <2> QED BY <2>5
<1>5. ASSUME NEW t \in Task, Put(t) PROVE \E j, now, d : Commits(j, now, d)
  <2>1. PICK d : d = task[t].draft OBVIOUS
  <2>3. PutFresh(t) /\ Commit(d) /\ task[t].pc = "put" BY <1>5, <2>1 DEF Put
  <2>4. Holding(task[t]) BY TaskFacts
  <2>5. Fits(d) BY <2>1, <2>3, <2>4 DEF Holding, PutFresh, Current
  <2> QED BY <1>3, <2>3, <2>5
<1>6. ASSUME NEW d \in wire, Land(d) PROVE \E j, now, c : Commits(j, now, c)
  <2>1. Commit(d) /\ Fits(d) BY <1>2, <1>6 DEF Land, DraftInv
  <2> QED BY <1>3, <2>1
<1>7. ASSUME \/ \E t \in Task : \/ \E j \in Job : Begin(t, j)
                                \/ Inspect(t) \/ Recover(t) \/ Look(t) \/ Crash(t)
             \/ \E f \in Follower : Poll(f) \/ FollowRead(f)
             \/ Tick \/ UNCHANGED vars
      PROVE  FALSE
  <2>1. UNCHANGED store
    <3>1. ASSUME NEW t \in Task, NEW j \in Job, Begin(t, j) PROVE UNCHANGED store BY <3>1 DEF Begin
    <3>2. ASSUME NEW t \in Task, Inspect(t) PROVE UNCHANGED store BY <3>2 DEF Inspect
    <3>3. ASSUME NEW t \in Task, Recover(t) PROVE UNCHANGED store BY <3>3 DEF Recover
    <3>4. ASSUME NEW t \in Task, Look(t) PROVE UNCHANGED store BY <3>4 DEF Look
    <3>5. ASSUME NEW t \in Task, Crash(t) PROVE UNCHANGED store BY <3>5 DEF Crash
    <3>6. ASSUME NEW f \in Follower, Poll(f) PROVE UNCHANGED store BY <3>6 DEF Poll
    <3>7. ASSUME NEW f \in Follower, FollowRead(f) PROVE UNCHANGED store BY <3>7 DEF FollowRead
    <3>8. ASSUME Tick PROVE UNCHANGED store BY <3>8 DEF Tick
    <3>9. ASSUME UNCHANGED vars PROVE UNCHANGED store BY <3>9 DEF vars
    <3> QED BY <1>7, <3>1, <3>2, <3>3, <3>4, <3>5, <3>6, <3>7, <3>8, <3>9
  <2> QED BY <2>1
<1> QED BY <1>4, <1>5, <1>6, <1>7 DEF Next

\* What an append leaves of a complete log; to one without an index there is none.
LEMMA AppendsComplete ==
  ASSUME LogInductive, IsComplete(ref), NEW j, NEW now, NEW d, Commits(j, now, d), Appending(j)
  PROVE  /\ IsComplete(ref') /\ ref'.target.trim = ref.target.trim
         /\ Indexed(ref) /\ Indexed(ref') /\ EntriesOf(ref) \subseteq EntriesOf(ref')
<1>1. /\ j \in Job /\ Sound(j) /\ now \in Nat /\ d \in Prepared(ref, j, now) /\ ref' = d.next
      /\ Types /\ HeadInv
  BY DEF Commits, Commit, LogInductive
<1>2. ref.target # None /\ ref.target.retention = "complete" /\ ref \in RefType
  BY <1>1 DEF IsComplete, Types
<1>3. Extended(ref, j.op, j.writer, j.payloads, KeyOf(j), ref.target, "complete", d)
  <2>1. j.feed \in Modes BY <1>1, AppendJob
  <2>2. Domain(ref, j.feed) = ref.target BY <1>2, <2>1, DomainFacts
  <2>3. ModeOf(ref.target, j.feed) = "complete" BY <1>2 DEF ModeOf
  <2> QED BY <1>1, <2>2, <2>3, Extending
<1>4. /\ ref.target.index # None /\ d.next.target # None
      /\ d.next.target.retention = "complete" /\ d.next.target.trim = ref.target.trim
      /\ d.next.target.index # None
      /\ ref.target.index.entries \subseteq d.next.target.index.entries
  BY <1>2, <1>3, Constants DEF Extended
<1> QED BY <1>1, <1>2, <1>4 DEF IsComplete, Indexed, EntriesOf

\* log.rs prepare_events, CompactPlan, TrimPlan, load_domain: a complete log stays
\* complete through whatever handles; it keeps the entries of its index, or is never
\* written to again.
THEOREM CompleteStaysComplete == Spec => StaysComplete
<1>1. ASSUME LogInductive, [Next]_vars, IsComplete(ref)
      PROVE  /\ IsComplete(ref') /\ ref'.target.trim = ref.target.trim
             /\ IF Indexed(ref)
                THEN /\ Indexed(ref') /\ ref'.target.trim = 0
                     /\ EntriesOf(ref) \subseteq EntriesOf(ref')
                ELSE ~Indexed(ref') /\ log' = log
  <2>1. IndexInv /\ Types /\ HeadInv /\ log \in Seq(Event) BY <1>1 DEF LogInductive, Types
  <2>2. CASE UNCHANGED store
    <3>1. Indexed(ref) => ref.target.trim = 0 BY <2>1 DEF IndexInv
    <3>2. ref' = ref /\ log' = log BY <2>2 DEF store
    <3> QED BY <1>1, <3>1, <3>2
  <2>3. CASE ~UNCHANGED store
    <3>1. PICK j, now, d : Commits(j, now, d) BY <1>1, <2>3, OnlyCommits
    <3>2. CASE Appending(j)
      <4>1. /\ IsComplete(ref') /\ ref'.target.trim = ref.target.trim
            /\ Indexed(ref) /\ Indexed(ref') /\ EntriesOf(ref) \subseteq EntriesOf(ref')
        BY <1>1, <3>1, <3>2, AppendsComplete
      <4>2. ref.target.trim = 0 BY <2>1, <4>1 DEF IndexInv
      <4> QED BY <4>1, <4>2
    <3>3. CASE ~Appending(j)
      <4>1. /\ j \in Job /\ Sound(j) /\ now \in Nat /\ d \in Prepared(ref, j, now) /\ Grown(d)
            /\ ref' = d.next
        BY <2>1, <3>1, CommitGrows DEF Commits, Commit
      <4>2. /\ Indexed(ref') <=> Indexed(ref)
            /\ IsComplete(ref') /\ ref'.target.trim = ref.target.trim
            /\ Indexed(ref) => ref'.target.index = ref.target.index
        BY <1>1, <2>1, <3>3, <4>1, Kept
      <4>3. log' = log
        <5>1. d.events = <<>> BY <2>1, <3>3, <4>1, Standing
        <5> QED BY <2>1, <4>1, <5>1 DEF Grown
      <4>4. Indexed(ref) => ref.target.trim = 0 BY <2>1 DEF IndexInv
      <4>5. Indexed(ref) => EntriesOf(ref) \subseteq EntriesOf(ref') BY <4>2 DEF EntriesOf
      <4> QED BY <4>2, <4>3, <4>4, <4>5
    <3> QED BY <3>2, <3>3
  <2> QED BY <2>2, <2>3
<1>2. LogInductive /\ [Next]_vars =>
        [IsComplete(ref) =>
           /\ IsComplete(ref') /\ ref'.target.trim = ref.target.trim
           /\ IF Indexed(ref)
              THEN /\ Indexed(ref') /\ ref'.target.trim = 0
                   /\ EntriesOf(ref) \subseteq EntriesOf(ref')
              ELSE ~Indexed(ref') /\ log' = log]_vars
  BY <1>1
<1> QED BY <1>2, LogInvariant, PTL DEF Spec, StaysComplete
=============================================================================
