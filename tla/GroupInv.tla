------------------------------ MODULE GroupInv ------------------------------
(***************************************************************************)
(* The inductive invariant of group commit.                                *)
(***************************************************************************)
EXTENDS GroupProps

-----------------------------------------------------------------------------
(* Types.                                                                  *)

Done    == [generation : Nat \ {0}, first : BOOLEAN]
JobType == [items : Seq(Submission), at : Nat \ {0}, start : Nat, pending : Seq(Submission),
            seen : [row : Row \cup {None}, version : Nat], base : Nat, draft : Commit,
            todo : Seq(Op), done : Done \cup {None}, rounds : Nat]
RowMsg  == [key : {"row"}, op : Op, version : Nat, value : Row]
LogMsg  == [key : {"log"}, op : Op, version : Nat, value : Commit \ {<<>>}]

Types ==
  /\ log \in Seq(Commit \ {<<>>})
  /\ rows \in [Op -> Row \cup {None}] /\ rowVersion \in [Op -> Nat]
  /\ wire \subseteq RowMsg \cup LogMsg
  /\ pc \in [Task -> Labels] /\ job \in [Task -> JobType]
  /\ acks \subseteq Ack /\ errors \subseteq [op : Op, error : Error]
  /\ spent \in [batches : Nat, appends : Nat, faults : Nat, losses : Nat]

-----------------------------------------------------------------------------
(* The log and the rows.                                                   *)

\* What a commit admits, as it was submitted.
Submitted(commit) ==
  [i \in DOMAIN commit |-> [op |-> commit[i].identity, payload |-> commit[i].request]]

\* What is committed together was submitted in one batch, or alone.
OneSource(items) ==
  \/ Len(items) = 1
  \/ \E batch \in Batch : Range(items) \subseteq Range(Unique(batch))

\* An admitted range holds the payload it was admitted for.
Written(a, events) ==
  /\ 0 < a.first /\ a.first <= a.last + 1 /\ a.last <= Len(events)
  /\ SubSeq(events, a.first, a.last) = a.request

LogOK ==
  /\ AdmittedOnce
  /\ HeadSeq = Len(Events)
  /\ \A g \in DOMAIN log :
       /\ OneSource(Submitted(log[g]))
       /\ \A i \in DOMAIN log[g] : Written(log[g][i], Events)

\* Whatever admitted o admitted it for the request of this row.
Agrees(o, row) ==
  \A g \in DOMAIN log : \A i \in DOMAIN log[g] :
    log[g][i].identity = o => log[g][i].request = row.request

\* A pending row says where its operation is committed if it is.
RowOK(o) ==
  rows[o] # None =>
    /\ rowVersion[o] # 0 /\ rows[o].base <= Len(log) /\ Agrees(o, rows[o])
    /\ rows[o].state = "Pending" => CommittedAt(o) \subseteq {rows[o].base + 1}
    /\ rows[o].state = "Applied" => CommittedAt(o) # {}

\* A row write that may reach the store at any time.  Against version 0 it
\* makes a row where there is none; otherwise it replaces the row it has seen.
MayPut(o, version, row) ==
  /\ version <= rowVersion[o] /\ row.base <= Len(log)
  /\ row.state = "Applied" => version # 0 /\ CommittedAt(o) # {}
  /\ version = 0 /\ rows[o] = None => CommittedAt(o) = {}
  /\ version # 0 /\ version = rowVersion[o] =>
       /\ rows[o] # None /\ rows[o].request = row.request
       /\ row.state = "Pending" =>
            /\ rows[o].state = "Pending" /\ rows[o].base <= row.base
            /\ rows[o].base = row.base \/ CommittedAt(o) = {}

\* There is a row for s, and while the head is base it is pending there.
Held(s) == rows[s.op] # None /\ rows[s.op].request = s.payload

Synced(s, base) ==
  Len(log) = base => Held(s) /\ rows[s.op].state = "Pending" /\ rows[s.op].base = base

Distinct(items) == \A i, k \in DOMAIN items : items[i].op = items[k].op => i = k

\* A commit that may be put on base at any time.
MayCommit(commit, base) ==
  /\ base <= Len(log)
  /\ Len(log) = base =>
       /\ Distinct(Submitted(commit)) /\ OneSource(Submitted(commit))
       /\ commit = Prepared(Submitted(commit))
       /\ \A s \in Range(Submitted(commit)) : Synced(s, base)

-----------------------------------------------------------------------------
(* Tasks.                                                                  *)

Admits(j) == j.at <= Len(j.items)

Now(j) == IF Admits(j) THEN j.items[j.at] ELSE j.pending[1]

Wanted(j) == [state |-> "Pending", request |-> Now(j).payload, base |-> j.base, generation |-> 0]

\* A batch, of which the pending items have been admitted, or one append.
Shape(j) ==
  /\ Distinct(j.items) /\ Distinct(j.pending)
  /\ IF j.items = <<>> THEN Len(j.pending) = 1 /\ Range(j.pending) \subseteq Lone
     ELSE /\ \E batch \in Batch : j.items = Unique(batch)
          /\ \A s \in Range(j.pending) :
               Held(s) /\ \E i \in DOMAIN j.items : i < j.at /\ j.items[i] = s
  /\ Admits(j) \/ j.pending # <<>>
  /\ j.start <= Len(log) /\ j.base <= Len(log) /\ j.rounds < MaxAttempts

\* The row just seen may be replaced by one that is pending at the job's base.
Claiming(j) == j.seen.version # 0 /\ MayPut(Now(j).op, j.seen.version, Wanted(j))

Drafted(j) ==
  /\ ~Admits(j) /\ j.draft # <<>>
  /\ Len(log) = j.base => j.draft = Prepared(j.pending)

Syncing(j) ==
  /\ Drafted(j)
  /\ j.todo # <<>> => j.items # <<>>
  /\ \A s \in Range(j.pending) : s.op \in Range(j.todo) \/ Synced(s, j.base)
  /\ \A o \in Range(j.todo) : \E s \in Range(j.pending) : s.op = o

Phase(k, j) ==
  CASE k = "cached"   -> j.seen.row # None /\ CommittedAt(Now(j).op) # {}
    [] k = "scan"     -> j.seen.row # None => CommittedAt(Now(j).op) # {}
    [] k = "readbase" -> j.seen.row = None /\ MayPut(Now(j).op, 0, Wanted(j))
    [] k = "create"   -> MayPut(Now(j).op, 0, Wanted(j))
    [] k = "resolve"  -> Held(Now(j)) /\ Claiming(j)
    [] k = "rebase"   -> Admits(j) /\ Claiming(j)
    [] k = "attempt"  -> ~Admits(j) /\ Claiming(j)
    [] k = "write"    -> Drafted(j) /\ Claiming(j)
    [] k = "syncload" -> Syncing(j) /\ j.todo # <<>>
    [] k = "syncput"  -> /\ Syncing(j) /\ j.todo # <<>>
                         /\ j.seen.version # 0 /\ j.seen.row # None
                         /\ j.seen.row.state = "Pending" /\ j.seen.row.base = j.base
                         /\ MayPut(Head(j.todo), j.seen.version, j.seen.row)
    [] k = "cas"      -> Syncing(j) /\ j.todo = <<>>
    [] k = "finalize" -> /\ j.todo # <<>> /\ j.done # None /\ j.done.generation \in DOMAIN log
                         /\ Range(j.todo) \subseteq Identities(log[j.done.generation])
                         /\ Held(Now(j))
    [] OTHER          -> TRUE

TaskOK(k, j) == IF k = "idle" THEN j = Fresh ELSE Shape(j) /\ Phase(k, j)

MessageOK(m) == IF m.key = "row" THEN MayPut(m.op, m.version, m.value)
                ELSE MayCommit(m.value, m.version) /\ m.op = m.value[1].identity

\* A receipt is the range of the admission it is for.
Admitted(a) ==
  /\ a.generation \in DOMAIN log
  /\ \E i \in DOMAIN log[a.generation] :
       LET b == log[a.generation][i] IN
       b.identity = a.op /\ b.first = a.first /\ b.last = a.last

GroupInductive ==
  /\ Types /\ LogOK
  /\ \A o \in Op : RowOK(o)
  /\ \A l \in Task : TaskOK(pc[l], job[l])
  /\ \A m \in wire : MessageOK(m)
  /\ \A a \in acks : Admitted(a)
  /\ NeverFailsClosed
-----------------------------------------------------------------------------
(* Receipts.  Recovery takes a commit for a submission's if its leader was  *)
(* submitted with the same payload (SameRequest), so receipts are true only *)
(* as far as no id of a batch is also presented with the payload of another *)
(* submission of that batch.                                               *)

Presented == Lone \cup UNION {Range(batch) : batch \in Batch}

NotTheLeaders ==
  \A batch \in Batch : \A t, u \in Range(Unique(batch)) : \A s \in Presented :
    u.op = s.op /\ t.payload = s.payload => u.payload = s.payload

\* A receipt is the range of an admission of the payload it was asked for.
Matched(a) ==
  /\ a.generation \in DOMAIN log
  /\ \E i \in DOMAIN log[a.generation] :
       LET b == log[a.generation][i] IN
       b.identity = a.op /\ b.first = a.first /\ b.last = a.last /\ b.request = a.payload

GroupReceipts == GroupInductive /\ \A a \in acks : Matched(a)
=============================================================================
