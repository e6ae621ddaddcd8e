----------------------------- MODULE PublishInv -----------------------------
(***************************************************************************)
(* The inductive invariant behind "at most once".                          *)
(*                                                                         *)
(* Two optimistic protocols are nested: the ref CAS and the CAS of the     *)
(* intent row.  A ref CAS that can still succeed is matched by a pending   *)
(* row naming the very generation it builds on (LiveCas); a row write that *)
(* can still succeed names a base from which the operation's commit, if it *)
(* has one, will be found (MayWrite).                                      *)
(***************************************************************************)
EXTENDS PublishProps

History == ref.head_commit

Committed(o) == \E g \in DOMAIN History : History[g].identity = o

\* From base b the operation is found where it is: at generation b + 1.
Covers(o, b) == \A g \in DOMAIN History : History[g].identity = o => g = b + 1

PendingIn(o) == rows[o] # None /\ rows[o].state = "Pending"

\* What each label knows about the locals of its caller.
LocalsOK ==
  \A c \in Client :
    /\ pc[c] # "idle" => call[c] \in Call
    /\ pc[c] \in {"idle", "load"} => seen[c] = NoRead /\ base[c] = 0
    /\ pc[c] \in {"resolve", "attempt", "write"} => seen[c].row # None
    /\ pc[c] = "cached" => seen[c].row # None /\ seen[c].row.state = "Applied"
    /\ pc[c] \in {"readbase", "scan"} =>
         seen[c] = NoRead \/ (seen[c].row # None /\ seen[c].row.state = "Applied")
    /\ pc[c] = "create" => seen[c] = NoRead
    /\ pc[c] \in {"write", "upload", "cas"} => draft[c] # None
    /\ pc[c] = "finalize" => result[c] # None

Counted(v) == v.generation = Len(v.head_commit)
CountedNext(v) == Counted(v) /\ v.generation > 0

CountsOK ==
  /\ Counted(ref)
  /\ \A c \in Client : draft[c] # None => CountedNext(draft[c].value)
  /\ \A m \in wire : m.key = "ref" => Counted(m.value)

RowsOK ==
  \A o \in Op : rows[o] # None =>
    /\ rowVersion[o] > 0
    /\ PendingIn(o) => rows[o].base <= Len(History) /\ Covers(o, rows[o].base)

\* A row write with base b keeps RowsOK.
MayWrite(o, b) ==
  IF PendingIn(o) THEN rows[o].base <= b /\ Covers(o, b) ELSE ~Committed(o)

\* v extends the head by one commit of o.
Extends(v, o) ==
  /\ Len(v.head_commit) = Len(History) + 1
  /\ v.head_commit[Len(History) + 1].identity = o
  /\ \A g \in 1..Len(History) : v.head_commit[g] = History[g]

\* A ref CAS to v that can still succeed is covered by the intent row of o.
LiveCas(o, version, v) ==
  /\ version <= refVersion
  /\ version = refVersion =>
       /\ Extends(v, o)
       /\ ~Committed(o)
       /\ PendingIn(o) /\ rows[o].base = Len(History)

\* The labels between loading the row and writing it.
Deciding == {"cached", "scan", "readbase", "create", "resolve", "attempt", "write"}

\* What the row still being the one that was loaded tells its reader.
RowUnchanged(c) ==
  seen[c].version = RowVersionOf(call[c].op) =>
    /\ seen[c].row = rows[call[c].op]
    /\ pc[c] = "readbase" => ~Committed(call[c].op)
    /\ pc[c] \in {"create", "resolve", "attempt", "write"} => MayWrite(call[c].op, base[c])

CallerOK(c) ==
  /\ pc[c] # "idle" => seen[c].version <= rowVersion[call[c].op]
  /\ pc[c] \in Deciding => base[c] <= Len(History) /\ RowUnchanged(c)
  /\ pc[c] = "write" =>
       /\ draft[c].version <= refVersion
       /\ draft[c].version = refVersion =>
            Extends(draft[c].value, call[c].op) /\ base[c] = Len(History)
  /\ pc[c] \in {"upload", "cas"} => LiveCas(call[c].op, draft[c].version, draft[c].value)
  /\ pc[c] = "finalize" => Committed(call[c].op)
  /\ reply[c] # "RecoveryFailed"

\* A row write that can still succeed keeps RowsOK; a ref write is a live CAS.
PutOK(m) ==
  IF m.key = "ref" THEN LiveCas(m.op, m.version, m.value)
  ELSE /\ m.version <= rowVersion[m.op]
       /\ m.value.state = "Applied" => Committed(m.op)
       /\ m.value.state = "Pending" =>
            /\ m.value.base <= Len(History)
            /\ m.version = RowVersionOf(m.op) => MayWrite(m.op, m.value.base)

TypesInv == TypeOK /\ LocalsOK /\ CountsOK

Inductive ==
  /\ TypesInv
  /\ RowsOK
  /\ \A c \in Client : CallerOK(c)
  /\ \A m \in wire : PutOK(m)
  /\ AtMostOnce
-----------------------------------------------------------------------------
(* The inductive invariant behind receipts, durability and the register.   *)
(*                                                                         *)
(* A commit is uploaded before anything can point at it (Durable), a       *)
(* receipt is a copy of a commit and the first one belongs to the caller   *)
(* that built it (IsReceipt), and a ref CAS that can still succeed writes  *)
(* what its mutation makes of the ref as it is now (Effect).               *)

\* Every commit on the chain that ends in d has been uploaded.
Durable(d) == \A g \in 1..Len(d) : SubSeq(d, 1, g) \in objects

\* So has every commit before the last one.
DurableBefore(d) == \A g \in 1..(Len(d) - 1) : SubSeq(d, 1, g) \in objects

\* r records a commit of the live history; only its builder c was first.
IsReceipt(r, c) ==
  /\ r.generation \in DOMAIN History
  /\ r = ReceiptAt(History, r.generation, r.first)
  /\ r.first => History[r.generation].by = c

\* What request k of caller c makes of the ref when its clock shows t.
Header(c, k, e) == [identity |-> k.op, request |-> Material(k.mutation), epoch |-> e, by |-> c]

Made(c, k, t) ==
  LET next == Apply(k.mutation, ref, t)
  IN [next EXCEPT !.generation = @ + 1, !.head_commit = Append(@, Header(c, k, next.epoch))]

\* v is that, for an instant at which k was admissible.
Effect(c, k, v) == \E t \in 0..clock : Admitted(k.mutation, ref, t) /\ v = Made(c, k, t)

\* What a caller holds while it prepares, publishes and answers.
CallerRecorded(c) ==
  /\ pc[c] \in {"write", "upload"} => DurableBefore(draft[c].value.head_commit)
  /\ pc[c] = "cas" => Durable(draft[c].value.head_commit)
  /\ pc[c] \in {"write", "upload", "cas"} /\ draft[c].version = refVersion =>
       Effect(c, call[c], draft[c].value)
  /\ pc[c] = "finalize" => IsReceipt(result[c], c)

\* What an abandoned ref CAS writes if it lands.
PutRecorded(m) ==
  m.key = "ref" =>
    /\ Durable(m.value.head_commit)
    /\ m.version = refVersion =>
         \E c \in Client, k \in Call : k.op = m.op /\ Effect(c, k, m.value)

Recorded ==
  /\ Inductive
  /\ Durable(History)
  /\ \A c \in Client : CallerRecorded(c)
  /\ \A m \in wire : PutRecorded(m)
  /\ \A a \in receipts : IsReceipt(a.receipt, a.to)
=============================================================================
