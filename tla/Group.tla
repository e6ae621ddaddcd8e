------------------------------- MODULE Group -------------------------------
(***************************************************************************)
(* Group commit of the v2 log: GroupWriter and commit_group of             *)
(* crates/combctl/src/log.rs over ensure_pending_intent, publish and       *)
(* sync_companions of crates/combctl/src/publish.rs.                       *)
(*                                                                         *)
(* A group task takes a batch of submissions, each with its own operation  *)
(* id, admits them one by one, and publishes those still pending in one    *)
(* commit: the first is the leader, whose intent row drives the publish    *)
(* loop, the others are companions, whose rows must name the same base     *)
(* before the ref CAS.  A plain append is a publication with no companion. *)
(*                                                                         *)
(* One action per awaited backend call, as in Publish.  Abstractions:      *)
(*  - the log is its commits; the ref moves only by appending one, so its  *)
(*    version is its generation (no lease is renewed, and every writer     *)
(*    presents the same writer name);                                      *)
(*  - all calls are made inside the window of their operation ids, and     *)
(*    Applied rows are never forged: module Publish has both;              *)
(*  - a payload list is a sequence of events, and a request hash is the    *)
(*    payload list it hashes;                                              *)
(*  - cached acknowledgements, which the code holds back until the whole   *)
(*    batch is admitted, are handed out at once;                           *)
(*  - MaxAttempts stands for the 128 rounds of the publish loop.           *)
(***************************************************************************)
EXTENDS Integers, Sequences, SequencesExt

CONSTANTS GroupTask,    \* group writers, each serving one batch at a time
          Appender,     \* callers of a plain append
          Op,           \* operation ids
          Event,        \* what a log is a sequence of
          Payloads,     \* non-empty sequences of events
          Batch,        \* the batches a group task may collect
          Lone,         \* the submissions a plain append may make
          None,
          MaxAttempts,  \* rounds of a loop before it does not converge
          MaxBatches,   \* bound on the batches collected
          MaxAppends,   \* bound on the plain appends
          MaxFaults,    \* bound on lost replies, crashes and backend errors
          MaxLosses     \* bound on the intent rows deleted from outside

Task == GroupTask \cup Appender

Submission == [op : Op, payload : Payloads]

ASSUME PayloadAssumption == Payloads \subseteq Seq(Event) \ {<<>>}
ASSUME BatchAssumption == Batch \subseteq Seq(Submission) \ {<<>>} /\ Lone \subseteq Submission
ASSUME BoundAssumption == /\ MaxAttempts \in Nat \ {0} /\ MaxBatches \in Nat /\ MaxAppends \in Nat
                          /\ MaxFaults \in Nat /\ MaxLosses \in Nat

VARIABLES log,         \* the commits, each the sequence of its admissions
          rows,        \* the intent row of each operation id, or None
          rowVersion,  \* how often each intent row has been written
          wire,        \* conditional writes nobody waits for any more
          pc,          \* where each task is
          job,         \* its local variables
          acks,        \* the receipts handed to producers
          errors,      \* the errors handed to producers
          spent        \* how much of each bound is used up

store == <<log, rows, rowVersion>>
vars  == <<store, wire, pc, job, acks, errors, spent>>

Admission == [identity : Op, request : Payloads, first : Nat, last : Nat]
Commit    == Seq(Admission)
Row       == [state : {"Pending", "Applied"}, request : Payloads, base : Nat, generation : Nat]

ASSUME AbsentAssumption == None \notin Row \cup [generation : Nat, first : BOOLEAN]

Labels == {"idle", "load", "cached", "scan", "readbase", "create", "resolve", "rebase",
           "attempt", "write", "syncload", "syncput", "cas", "finalize"}

NoRead == [row |-> None, version |-> 0]

Fresh == [items   |-> <<>>,    \* the batch, one submission per operation id
          at      |-> 1,       \* the item being admitted
          start   |-> 0,       \* the head generation when the batch was taken
          pending |-> <<>>,    \* the items to be published, the leader first
          seen    |-> NoRead,  \* the intent row last loaded, and its version
          base    |-> 0,       \* the generation to publish on
          draft   |-> <<>>,    \* the prepared commit
          todo    |-> <<>>,    \* ids whose rows are still to be synced or finalized
          done    |-> None,    \* the commit to acknowledge, once they are finalized
          rounds  |-> 0]       \* rounds of the loop already lost
-----------------------------------------------------------------------------
(* The log and its commits.                                                *)

HeadSeq == IF log = <<>> THEN 0 ELSE Last(Last(log)).last

Identities(commit) == {commit[i].identity : i \in DOMAIN commit}

AdmissionOf(o, commit) == CHOOSE a \in Range(commit) : a.identity = o

CommittedAt(o) == {g \in DOMAIN log : o \in Identities(log[g])}

\* Whether a commit that names s.op was made for s's request: the header's
\* request is the leader's, and is compared first.
SameRequest(commit, s) ==
  \/ commit[1].request = s.payload
  \/ \E i \in DOMAIN commit : commit[i].identity = s.op /\ commit[i].request = s.payload

\* Mutant: every item's range starts at the head.
PreparedAtHead(items) ==
  [i \in DOMAIN items |->
     [identity |-> items[i].op, request |-> items[i].payload,
      first |-> HeadSeq + 1, last |-> HeadSeq + Len(items[i].payload)]]

\* How many events the first n items hold.
Extent(items, n) == Len(FlattenSeq([i \in 1..n |-> items[i].payload]))

\* Consecutive ranges for the items of a publication (prepare_events).
Prepared(items) ==
  [i \in DOMAIN items |->
     [identity |-> items[i].op, request |-> items[i].payload,
      first |-> HeadSeq + Extent(items, i - 1) + 1, last |-> HeadSeq + Extent(items, i)]]

\* The first submission of each operation id; an equal one shares its
\* acknowledgement, a different one is refused as a conflict.
Unique(batch) ==
  FlattenSeq([i \in DOMAIN batch |->
    IF \E k \in 1..(i-1) : batch[k].op = batch[i].op THEN <<>> ELSE <<batch[i]>>])

\* The submissions of a batch that give one id two different payloads.
Misused(batch) ==
  {s \in Range(batch) : \E t \in Range(Unique(batch)) : t.op = s.op /\ t.payload # s.payload}

\* Mutant: ranges are counted on from the leader's, whatever the commit admitted.
ReceiptsCounted(items, g, first) ==
  LET start == AdmissionOf(items[1].op, log[g]).first
      before(i) == start + Extent(items, i - 1) IN
  {[op |-> items[i].op, payload |-> items[i].payload, generation |-> g, first |-> before(i),
    last |-> before(i) + Len(items[i].payload) - 1, first_delivery |-> first] : i \in DOMAIN items}

\* What the commit of generation g tells the producers of items: an item it
\* did not admit gets an error instead.
Receipts(items, g, first) ==
  {LET a == AdmissionOf(s.op, log[g]) IN
   [op |-> s.op, payload |-> s.payload, generation |-> g, first |-> a.first, last |-> a.last,
    first_delivery |-> first] : s \in {t \in Range(items) : t.op \in Identities(log[g])}}

Refusals(submissions, error) == {[op |-> s.op, error |-> error] : s \in submissions}
-----------------------------------------------------------------------------
(* Conditional writes.                                                     *)

RowVersionOf(o) == IF rows[o] = None THEN 0 ELSE rowVersion[o]

RowPut(o, version, row) == [key |-> "row", op |-> o, version |-> version, value |-> row]
LogPut(commit, base)    == [key |-> "log", op |-> commit[1].identity, version |-> base, value |-> commit]

PutMatches(m) ==
  IF m.key = "row" THEN m.version = RowVersionOf(m.op) ELSE m.version = Len(log)

ApplyPut(m) ==
  IF m.key = "row"
  THEN /\ rows' = [rows EXCEPT ![m.op] = m.value]
       /\ rowVersion' = [rowVersion EXCEPT ![m.op] = @ + 1]
       /\ UNCHANGED log
  ELSE /\ log' = Append(log, m.value)
       /\ UNCHANGED <<rows, rowVersion>>

\* A task admits the items of its batch, then publishes the pending ones.
Admitting(l) == job[l].at <= Len(job[l].items)

Current(l) == IF Admitting(l) THEN job[l].items[job[l].at] ELSE job[l].pending[1]

\* Mutant: the row claims the generation it is about to write.
PendingAhead(l) ==
  [state |-> "Pending", request |-> Current(l).payload, base |-> job[l].base + 1, generation |-> 0]

Pending(l) == [state |-> "Pending", request |-> Current(l).payload, base |-> job[l].base, generation |-> 0]

\* The write a task issues from where it stands.
Outgoing(l) ==
  LET j == job[l]
      o == Current(l).op IN
  CASE pc[l] = "create"           -> RowPut(o, 0, Pending(l))
    [] pc[l] \in {"rebase", "write"} -> RowPut(o, j.seen.version, Pending(l))
    [] pc[l] = "syncput"          -> RowPut(Head(j.todo), j.seen.version, j.seen.row)
    [] pc[l] = "cas"              -> LogPut(j.draft, j.base)
    [] pc[l] = "finalize"         ->
         RowPut(Head(j.todo), RowVersionOf(Head(j.todo)),
                [rows[Head(j.todo)] EXCEPT !.state = "Applied", !.generation = j.done.generation])

Writing(l) == \/ pc[l] \in {"create", "rebase", "write", "syncput", "cas"}
              \/ pc[l] = "finalize" /\ rows[Head(job[l].todo)] # None

\* One unit of fault budget; the write in flight is lost, or stays on the wire.
Fault(l) ==
  /\ spent.faults < MaxFaults
  /\ spent' = [spent EXCEPT !.faults = @ + 1]
  /\ \/ wire' = wire
     \/ Writing(l) /\ wire' = wire \cup {Outgoing(l)}

NoFault == UNCHANGED <<wire, spent>>
-----------------------------------------------------------------------------
(* Control flow of one task.                                               *)

Continue(l, label, j) ==
  /\ pc' = [pc EXCEPT ![l] = label]
  /\ job' = [job EXCEPT ![l] = j]

Goto(l, label) == Continue(l, label, job[l])

Return(l) == Continue(l, "idle", Fresh)

\* The current item is dealt with; the ones still pending are published last.
Advance(l, pending) ==
  LET j == [job[l] EXCEPT !.at = @ + 1, !.pending = pending, !.seen = NoRead, !.base = 0, !.rounds = 0] IN
  IF j.at > Len(j.items) /\ pending = <<>> THEN Return(l) ELSE Continue(l, "load", j)

Join(l) == Advance(l, Append(job[l].pending, Current(l)))

Skip(l) == Advance(l, job[l].pending)

\* An error ends the admission of one item, or the publication of them all.
Fail(l, error) ==
  /\ UNCHANGED acks
  /\ IF Admitting(l)
     THEN Skip(l) /\ errors' = errors \cup Refusals({Current(l)}, error)
     ELSE Return(l) /\ errors' = errors \cup Refusals(Range(job[l].pending), error)

\* Mutant: the loop never gives up.
AgainForever(l) ==
  /\ Continue(l, "load", [job[l] EXCEPT !.rounds = @ + 1, !.seen = NoRead, !.base = 0])
  /\ UNCHANGED <<acks, errors>>

\* The next round of the loop, if there is one.
Again(l) ==
  LET j == [job[l] EXCEPT !.rounds = @ + 1, !.seen = NoRead, !.base = 0, !.draft = <<>>, !.todo = <<>>] IN
  IF j.rounds < MaxAttempts
  THEN Continue(l, "load", j) /\ UNCHANGED <<acks, errors>>
  ELSE Fail(l, "NotConverged")

\* The commit of generation g answers the current item, or the publication.
Found(l, g, first) ==
  IF Admitting(l)
  THEN /\ acks' = acks \cup Receipts(<<Current(l)>>, g, first)
       /\ Skip(l)
       /\ UNCHANGED errors
  ELSE LET items == job[l].pending IN
       /\ acks' = acks \cup Receipts(items, g, first)
       /\ errors' = errors \cup
            Refusals({s \in Range(items) : s.op \notin Identities(log[g])}, "NotAdmitted")
       /\ Return(l)

Quietly == UNCHANGED <<acks, errors>>

\* A batch is taken from the channel, and the head is read.
StartGroup(l) ==
  /\ l \in GroupTask
  /\ pc[l] = "idle"
  /\ spent.batches < MaxBatches
  /\ \E batch \in Batch :
       /\ Continue(l, "load", [Fresh EXCEPT !.items = Unique(batch), !.start = Len(log)])
       /\ errors' = errors \cup Refusals(Misused(batch), "IdempotencyConflict")
  /\ spent' = [spent EXCEPT !.batches = @ + 1]
  /\ UNCHANGED <<store, wire, acks>>

StartAppend(l) ==
  /\ l \in Appender
  /\ pc[l] = "idle"
  /\ spent.appends < MaxAppends
  /\ \E s \in Lone : Continue(l, "load", [Fresh EXCEPT !.pending = <<s>>])
  /\ spent' = [spent EXCEPT !.appends = @ + 1]
  /\ UNCHANGED <<store, wire, acks, errors>>

LoadIntent(l) ==
  LET o   == Current(l).op
      row == rows[o]
      j   == [job[l] EXCEPT !.seen = [row |-> row, version |-> RowVersionOf(o)]] IN
  /\ pc[l] = "load"
  /\ \/ row = None /\ Continue(l, "scan", j) /\ Quietly
     \/ /\ row # None /\ row.request # Current(l).payload
        /\ Fail(l, "IdempotencyConflict")
     \/ /\ row # None /\ row.request = Current(l).payload /\ row.state = "Applied"
        /\ Continue(l, "cached", j) /\ Quietly
     \/ /\ row # None /\ row.request = Current(l).payload /\ row.state = "Pending"
        /\ Continue(l, "resolve", [j EXCEPT !.base = row.base]) /\ Quietly
  /\ NoFault /\ UNCHANGED store

TryCachedApplied(l) ==
  LET g == job[l].seen.row.generation
      hit == g \in CommittedAt(Current(l).op) /\ SameRequest(log[g], Current(l)) IN
  /\ pc[l] = "cached"
  /\ \/ hit /\ Found(l, g, FALSE)
     \/ ~hit /\ Goto(l, "scan") /\ Quietly
  /\ NoFault /\ UNCHANGED store

\* A new row of an item names the head its batch started from, however stale.
RecoverWithoutIntent(l) ==
  LET found == CommittedAt(Current(l).op) IN
  /\ pc[l] = "scan"
  /\ \/ \E g \in found :
          /\ \A i \in found : i <= g
          /\ IF SameRequest(log[g], Current(l)) THEN Found(l, g, FALSE)
                                                ELSE Fail(l, "IdempotencyConflict")
     \/ /\ found = {} /\ Quietly
        /\ IF Admitting(l) /\ job[l].seen.row = None
           THEN Continue(l, "create", [job[l] EXCEPT !.base = job[l].start])
           ELSE Goto(l, "readbase")
  /\ NoFault /\ UNCHANGED store

ReadBase(l) ==
  /\ pc[l] = "readbase"
  /\ Continue(l, CASE job[l].seen.row = None                   -> "create"
                   [] job[l].seen.row # None /\ Admitting(l)   -> "rebase"
                   [] job[l].seen.row # None /\ ~Admitting(l)  -> "resolve",
              [job[l] EXCEPT !.base = Len(log)])
  /\ Quietly /\ NoFault /\ UNCHANGED store

\* publish reloads the row it created; admission is content with it.
CreateIntent(l) ==
  /\ pc[l] = "create"
  /\ \/ /\ PutMatches(Outgoing(l))
        /\ ApplyPut(Outgoing(l))
        /\ IF Admitting(l) THEN Join(l) /\ Quietly ELSE Again(l)
        /\ NoFault
     \/ ~PutMatches(Outgoing(l)) /\ Again(l) /\ NoFault /\ UNCHANGED store
     \/ Fault(l) /\ Again(l) /\ UNCHANGED store

\* Mutant: admission takes a pending row as it is.
AdmitStale(l) == Join(l)

\* A row behind the head whose next commit is not this item's is moved up first.
AdmitPending(l) ==
  IF job[l].base = Len(log) THEN Join(l)
  ELSE Continue(l, "rebase", [job[l] EXCEPT !.base = Len(log)])

Settle(l, g) == Continue(l, "finalize",
  [job[l] EXCEPT !.todo = <<Current(l).op>>, !.done = [generation |-> g, first |-> FALSE]])

ResolvePending(l) ==
  LET base == job[l].base
      mine == base < Len(log) /\ Current(l).op \in Identities(log[base + 1]) IN
  /\ pc[l] = "resolve"
  /\ \/ base > Len(log) /\ Fail(l, "RecoveryFailed")
     \/ /\ mine /\ (Admitting(l) \/ SameRequest(log[base + 1], Current(l)))
        /\ Settle(l, base + 1) /\ Quietly
     \/ /\ mine /\ ~Admitting(l) /\ ~SameRequest(log[base + 1], Current(l))
        /\ Fail(l, "IdempotencyConflict")
     \/ /\ base <= Len(log) /\ ~mine /\ Quietly
        /\ IF Admitting(l) THEN AdmitPending(l)
                           ELSE Continue(l, "attempt", [job[l] EXCEPT !.base = Len(log)])
  /\ NoFault /\ UNCHANGED store

Rebase(l) ==
  /\ pc[l] = "rebase"
  /\ \/ PutMatches(Outgoing(l)) /\ ApplyPut(Outgoing(l)) /\ Join(l) /\ Quietly
     \/ ~PutMatches(Outgoing(l)) /\ Again(l) /\ UNCHANGED store
  /\ NoFault

BeginAttempt(l) ==
  /\ pc[l] = "attempt"
  /\ \/ /\ job[l].base = Len(log)
        /\ Continue(l, "write", [job[l] EXCEPT !.draft = Prepared(job[l].pending)])
        /\ Quietly
     \/ job[l].base # Len(log) /\ Again(l)
  /\ NoFault /\ UNCHANGED store

Ids(items) == [i \in DOMAIN items |-> items[i].op]

\* The leader's row, then the uploads, which nothing here depends on.
WriteIntent(l) ==
  LET others == Tail(Ids(job[l].pending)) IN
  /\ pc[l] = "write"
  /\ \/ /\ PutMatches(Outgoing(l))
        /\ ApplyPut(Outgoing(l))
        /\ Continue(l, IF others = <<>> THEN "cas" ELSE "syncload", [job[l] EXCEPT !.todo = others])
        /\ Quietly
     \/ ~PutMatches(Outgoing(l)) /\ Again(l) /\ UNCHANGED store
  /\ NoFault

\* Mutants: a companion already applied is passed over; its base is overwritten.
InStepApplied(row, base) == row.state = "Applied" \/ row.base = base
InStepPending(row, base) == row.state = "Pending"

\* A companion may be committed on base only if its row is pending there.
InStep(row, base) == row.state = "Pending" /\ row.base = base

SyncLoad(l) ==
  LET o == Head(job[l].todo)
      row == rows[o] IN
  /\ pc[l] = "syncload"
  /\ \/ row = None /\ Fail(l, "RecoveryFailed")
     \/ /\ row # None /\ InStep(row, job[l].base)
        /\ Continue(l, "syncput", [job[l] EXCEPT !.seen = [row |-> row, version |-> RowVersionOf(o)]])
        /\ Quietly
     \/ row # None /\ ~InStep(row, job[l].base) /\ Again(l)
  /\ NoFault /\ UNCHANGED store

SyncPut(l) ==
  LET others == Tail(job[l].todo) IN
  /\ pc[l] = "syncput"
  /\ \/ /\ PutMatches(Outgoing(l))
        /\ ApplyPut(Outgoing(l))
        /\ Continue(l, IF others = <<>> THEN "cas" ELSE "syncload",
                    [job[l] EXCEPT !.todo = others, !.seen = NoRead])
        /\ Quietly
     \/ ~PutMatches(Outgoing(l)) /\ Again(l) /\ UNCHANGED store
  /\ NoFault

\* The linearization point of every item at once.
CasLog(l) ==
  /\ pc[l] = "cas"
  /\ \/ /\ PutMatches(Outgoing(l))
        /\ ApplyPut(Outgoing(l))
        /\ Continue(l, "finalize", [job[l] EXCEPT !.todo = Ids(job[l].pending),
                                      !.done = [generation |-> Len(log) + 1, first |-> TRUE]])
        /\ Quietly
     \/ ~PutMatches(Outgoing(l)) /\ Again(l) /\ UNCHANGED store
  /\ NoFault

\* Best effort, row by row; the acknowledgements follow the last one.
FinalizeIntent(l) ==
  LET others == Tail(job[l].todo) IN
  /\ pc[l] = "finalize"
  /\ IF others = <<>> THEN Found(l, job[l].done.generation, job[l].done.first)
     ELSE Continue(l, "finalize", [job[l] EXCEPT !.todo = others]) /\ Quietly
  /\ \/ rows[Head(job[l].todo)] # None /\ ApplyPut(Outgoing(l)) /\ NoFault
     \/ UNCHANGED store /\ NoFault
     \/ Fault(l) /\ UNCHANGED store

\* A backend error ends what the task is doing for now; a crash ends the task.
Abandon(l) ==
  /\ pc[l] # "idle"
  /\ Fault(l)
  /\ \/ Fail(l, "BackendUnavailable")
     \/ Return(l) /\ Quietly
  /\ UNCHANGED store
-----------------------------------------------------------------------------
(* The environment.                                                        *)

\* An abandoned write reaches the store.
Land(m) ==
  /\ wire' = wire \ {m}
  /\ \/ PutMatches(m) /\ ApplyPut(m)
     \/ ~PutMatches(m) /\ UNCHANGED store
  /\ UNCHANGED <<pc, job, acks, errors, spent>>

Carries(m, o) == IF m.key = "row" THEN m.op = o ELSE o \in Identities(m.value)

InUse(l, o) == pc[l] # "idle" /\ \E s \in Range(job[l].items \o job[l].pending) : s.op = o

\* An intent row is deleted while nobody is working on its operation.
Lose(o) ==
  /\ spent.losses < MaxLosses
  /\ rows[o] # None
  /\ \A l \in Task : ~InUse(l, o)
  /\ \A m \in wire : ~Carries(m, o)
  /\ rows' = [rows EXCEPT ![o] = None]
  /\ rowVersion' = [rowVersion EXCEPT ![o] = @ + 1]
  /\ spent' = [spent EXCEPT !.losses = @ + 1]
  /\ UNCHANGED <<log, wire, pc, job, acks, errors>>
-----------------------------------------------------------------------------
Init ==
  /\ log = <<>> /\ wire = {} /\ acks = {} /\ errors = {}
  /\ rows = [o \in Op |-> None] /\ rowVersion = [o \in Op |-> 0]
  /\ pc = [l \in Task |-> "idle"]
  /\ job = [l \in Task |-> Fresh]
  /\ spent = [batches |-> 0, appends |-> 0, faults |-> 0, losses |-> 0]

Step(l) ==
  \/ LoadIntent(l) \/ TryCachedApplied(l) \/ RecoverWithoutIntent(l) \/ ReadBase(l)
  \/ CreateIntent(l) \/ ResolvePending(l) \/ Rebase(l) \/ BeginAttempt(l) \/ WriteIntent(l)
  \/ SyncLoad(l) \/ SyncPut(l) \/ CasLog(l) \/ FinalizeIntent(l)

Next ==
  \/ \E l \in Task : StartGroup(l) \/ StartAppend(l) \/ Step(l) \/ Abandon(l)
  \/ \E m \in wire : Land(m)
  \/ \E o \in Op : Lose(o)

Spec == Init /\ [][Next]_vars
=============================================================================
