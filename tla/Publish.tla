------------------------------ MODULE Publish ------------------------------
(***************************************************************************)
(* The publication engine of combctl (crates/combctl/src/publish.rs).      *)
(*                                                                         *)
(* Callers publish mutations of one named ref through an object store that *)
(* offers put-if-absent and put-if-version-matches and nothing else.  A    *)
(* mutation is visible from the instant of one conditional write, the ref  *)
(* CAS.  What makes a retry safe is the intent row kept per operation id:  *)
(* an attempt first records the base generation it will publish on, so a   *)
(* later caller need only look at the commit of generation base + 1.       *)
(*                                                                         *)
(* One action per awaited backend call; the code between two awaits runs   *)
(* in one step.  Abstractions:                                             *)
(*  - a commit digest is the sequence of commits from the root to itself:  *)
(*    commits are content-addressed and name their parent's digest.  The   *)
(*    caller that built a commit stands for its timestamp;                 *)
(*  - a version of a ref or of an intent row is a counter; 0 is "absent";  *)
(*  - the seven-day window and the five-minute first use are the clock     *)
(*    values Window and FirstUse, all operation ids being minted at 0;     *)
(*  - a write whose reply is lost, whose caller dies, or whose future is   *)
(*    dropped stays in wire and may reach the store at any later time;     *)
(*  - running out of the 128 attempts is one way to become unavailable.    *)
(***************************************************************************)
EXTENDS Mutations, Sequences, FiniteSets

CONSTANTS Client,       \* concurrent callers of publish, in any process
          Op,           \* operation ids
          Call,         \* the requests a caller may make: an id and a mutation
          FirstUse,     \* last clock value at which an unknown id is admitted
          Window,       \* clock value from which an id is no longer admitted
          MaxClock,     \* bound on the clock
          MaxCalls,     \* bound on the calls made
          MaxFaults,    \* bound on lost replies, crashes and backend errors
          MaxTampers,   \* bound on intent rows deleted or forged from outside
          MaxRenewals   \* bound on lease renewals

ASSUME CallAssumption == Call \subseteq [op : Op, mutation : Mutation]
ASSUME BoundAssumption == /\ FirstUse \in Nat /\ Window \in Nat /\ MaxClock \in Nat
                          /\ MaxCalls \in Nat /\ MaxFaults \in Nat
                          /\ MaxTampers \in Nat /\ MaxRenewals \in Nat

VARIABLES ref,        \* the ref value: content, generation, digest of its head commit
          refVersion, \* the backend's version of the ref object
          rows,       \* the intent row of each operation id, or None
          rowVersion, \* how often each intent row has been written
          objects,    \* the digests of the commit objects uploaded so far
          wire,       \* conditional writes nobody waits for any more
          clock,
          pc,         \* where each caller is in publish
          call,       \* the request it is publishing
          seen,       \* the intent row it loaded, and the version of it
          base,       \* the generation it intends to publish on
          draft,      \* the ref value it prepared, and the ref version that must still hold
          result,     \* the receipt it will return once its cache write is over
          reply,      \* the last answer each caller got
          receipts,   \* every acknowledgement, and the caller it was handed to
          spent       \* how much of each bound is used up

store == <<ref, refVersion, rows, rowVersion, objects>>
frame == <<call, seen, base, draft, result>>
vars  == <<store, frame, wire, clock, pc, reply, receipts, spent>>

Commit  == [identity : Op, request : Materials, epoch : Nat, by : Client]
Digest  == Seq(Commit)
RefValue == [epoch : Nat, lease : Lease \cup {None}, target : Target \cup {None},
             generation : Nat, head_commit : Digest]
Row == [state : {"Pending", "Applied"}, request : Materials, base : Nat, commit : Digest]
Receipt == [identity : Op, request : Materials, generation : Nat, epoch : Nat,
            commit : Digest, first : BOOLEAN]
Put == [key : {"row"}, op : Op, version : Nat, value : Row]
       \cup [key : {"ref"}, op : Op, version : Nat, value : RefValue]
Draft == [value : RefValue, version : Nat]

ASSUME AbsentAssumption == None \notin Row \cup Receipt \cup Draft

NewRef == [epoch |-> 0, lease |-> None, target |-> None, generation |-> 0, head_commit |-> <<>>]
\* Mutant: the row of a new operation claims the generation it is about to write.
PendingRowAhead(request, b) == [state |-> "Pending", request |-> request, base |-> b + 1, commit |-> <<>>]

PendingRow(request, b) == [state |-> "Pending", request |-> request, base |-> b, commit |-> <<>>]

Labels == {"idle", "load", "cached", "scan", "readbase", "create", "resolve",
           "attempt", "write", "upload", "cas", "finalize"}
Errors == {"IdempotencyConflict", "UnknownOperation", "RecoveryFailed", "BackendUnavailable",
           "Fenced", "LeaseHeld", "Rejected"}
-----------------------------------------------------------------------------
(* History: the chain of commits behind a head.                            *)

\* Commit d is on the parent chain that starts at h: the commit that
\* seek_generation finds for generation Len(d) has digest d.
InHistory(d, h) == Len(d) \in 1..Len(h) /\ \A i \in 1..Len(d) : d[i] = h[i]

CommittedAt(o, h) == {g \in DOMAIN h : h[g].identity = o}

\* Mutant: every recovered receipt claims to be the first delivery.
ReceiptAtFirst(h, g, first) ==
  [identity |-> h[g].identity, request |-> h[g].request, generation |-> g,
   epoch |-> h[g].epoch, commit |-> SubSeq(h, 1, g), first |-> TRUE]

\* The receipt that the commit of generation g yields (published_from_view).
ReceiptAt(h, g, first) ==
  [identity |-> h[g].identity, request |-> h[g].request, generation |-> g,
   epoch |-> h[g].epoch, commit |-> SubSeq(h, 1, g), first |-> first]
-----------------------------------------------------------------------------
(* The conditional writes of the object store.                             *)

RowVersionOf(o) == IF rows[o] = None THEN 0 ELSE rowVersion[o]

\* Mutant: every row write is a put-if-absent.
RowCreate(o, version, row) == [key |-> "row", op |-> o, version |-> 0, value |-> row]

RowPut(o, version, row) == [key |-> "row", op |-> o, version |-> version, value |-> row]
RefPut(o, version, value) == [key |-> "ref", op |-> o, version |-> version, value |-> value]

\* Mutants: the ref is written unconditionally, or if its generation is unchanged;
\* the intent row is written unconditionally.
PutMatchesRows(m) == m.key = "row" => m.version = RowVersionOf(m.op)
PutMatchesGeneration(m) ==
  IF m.key = "row" THEN m.version = RowVersionOf(m.op) ELSE m.value.generation = ref.generation + 1
PutMatchesRef(m) == m.key = "ref" => m.version = refVersion

PutMatches(m) ==
  IF m.key = "row" THEN m.version = RowVersionOf(m.op) ELSE m.version = refVersion

ApplyPut(m) ==
  IF m.key = "row"
  THEN /\ rows' = [rows EXCEPT ![m.op] = m.value]
       /\ rowVersion' = [rowVersion EXCEPT ![m.op] = @ + 1]
       /\ UNCHANGED <<ref, refVersion>>
  ELSE /\ ref' = m.value
       /\ refVersion' = refVersion + 1
       /\ UNCHANGED <<rows, rowVersion>>

\* Mutants: the rebased row keeps its old base, or names the generation before.
RebasedNowhere(c) == [seen[c].row EXCEPT !.state = "Pending", !.commit = <<>>]
RebasedBefore(c) == [seen[c].row EXCEPT !.state = "Pending", !.base = base[c] - 1, !.commit = <<>>]

Rebased(c) == [seen[c].row EXCEPT !.state = "Pending", !.base = base[c], !.commit = <<>>]

AppliedRow(c) == [rows[call[c].op] EXCEPT !.state = "Applied", !.commit = result[c].commit]

\* The write a caller issues from where it stands.
Outgoing(c) ==
  LET o == call[c].op IN
  CASE pc[c] = "create"   -> RowPut(o, 0, PendingRow(Material(call[c].mutation), base[c]))
    [] pc[c] = "write"    -> RowPut(o, seen[c].version, Rebased(c))
    [] pc[c] = "cas"      -> RefPut(o, draft[c].version, draft[c].value)
    [] pc[c] = "finalize" -> RowPut(o, RowVersionOf(o), AppliedRow(c))

Writing(c) == \/ pc[c] \in {"create", "write", "cas"}
              \/ pc[c] = "finalize" /\ rows[call[c].op] # None

\* One unit of fault budget; the write in flight is lost, or stays on the wire.
Fault(c) ==
  /\ spent.faults < MaxFaults
  /\ spent' = [spent EXCEPT !.faults = @ + 1]
  /\ \/ wire' = wire
     \/ Writing(c) /\ wire' = wire \cup {Outgoing(c)}
-----------------------------------------------------------------------------
(* Control flow of one caller.                                             *)

Goto(c, label) == pc' = [pc EXCEPT ![c] = label]

NoRead == [row |-> None, version |-> 0]

Forget(c) ==
  /\ seen' = [seen EXCEPT ![c] = NoRead]
  /\ base' = [base EXCEPT ![c] = 0]
  /\ draft' = [draft EXCEPT ![c] = None]
  /\ result' = [result EXCEPT ![c] = None]
  /\ UNCHANGED call

\* The next round of the loop starts from nothing.
Retry(c) == Goto(c, "load") /\ Forget(c)

Leave(c, answer) ==
  /\ Goto(c, "idle")
  /\ reply' = [reply EXCEPT ![c] = answer]
  /\ Forget(c)

Acknowledge(c, receipt) ==
  /\ Leave(c, "Published")
  /\ receipts' = receipts \cup {[receipt |-> receipt, to |-> c]}

Fail(c, error) == Leave(c, error) /\ UNCHANGED receipts

Start(c) ==
  /\ pc[c] = "idle"
  /\ spent.calls < MaxCalls
  /\ \E k \in Call : call' = [call EXCEPT ![c] = k]
  /\ Goto(c, "load")
  /\ reply' = [reply EXCEPT ![c] = "none"]
  /\ spent' = [spent EXCEPT !.calls = @ + 1]
  /\ UNCHANGED <<store, wire, clock, seen, base, draft, result, receipts>>

\* The time gate of an operation id (OperationId::check_time).
InTime(known) == clock < Window /\ (known \/ clock <= FirstUse)

\* Mutant: any use of a known id counts as a conflict.
ClashAlways(row, c) == row # None

\* The id was already used for another request (check_intent).
Clash(row, c) == row # None /\ row.request # Material(call[c].mutation)

LoadIntent(c) ==
  LET row == rows[call[c].op] IN
  /\ pc[c] = "load"
  /\ \/ /\ ~InTime(row # None)
        /\ Fail(c, "UnknownOperation")
     \/ /\ InTime(row # None)
        /\ Clash(row, c)
        /\ Fail(c, "IdempotencyConflict")
     \/ /\ InTime(row # None)
        /\ ~Clash(row, c)
        /\ seen' = [seen EXCEPT ![c] = [row |-> row, version |-> RowVersionOf(call[c].op)]]
        /\ \/ row = None /\ Goto(c, "scan") /\ UNCHANGED base
           \/ /\ row # None /\ row.state = "Applied"
              /\ Goto(c, "cached") /\ UNCHANGED base
           \/ /\ row # None /\ row.state = "Pending"
              /\ Goto(c, "resolve") /\ base' = [base EXCEPT ![c] = row.base]
        /\ UNCHANGED <<call, draft, result, reply, receipts>>
  /\ UNCHANGED <<store, wire, clock, spent>>

\* An Applied row is a hint: it must name the canonical commit of its
\* generation in the live history, for this identity and request.
CacheHit(c, h) ==
  LET d == seen[c].row.commit IN
  /\ InHistory(d, h)
  /\ h[Len(d)].identity = call[c].op
  /\ h[Len(d)].request = Material(call[c].mutation)

TryCachedApplied(c) ==
  LET h == ref.head_commit IN
  /\ pc[c] = "cached"
  /\ \/ /\ CacheHit(c, h)
        /\ Acknowledge(c, ReceiptAt(h, Len(seen[c].row.commit), FALSE))
     \/ /\ ~CacheHit(c, h)
        /\ Goto(c, "scan")
        /\ UNCHANGED <<frame, reply, receipts>>
  /\ UNCHANGED <<store, wire, clock, spent>>

\* The whole parent chain is searched for the identity.
RecoverWithoutIntent(c) ==
  LET h     == ref.head_commit
      found == CommittedAt(call[c].op, h) IN
  /\ pc[c] = "scan"
  /\ \/ /\ found = {}
        /\ Goto(c, "readbase")
        /\ UNCHANGED <<frame, reply, receipts>>
     \/ \E g \in found :
          /\ \A i \in found : i <= g
          /\ IF h[g].request = Material(call[c].mutation)
             THEN Acknowledge(c, ReceiptAt(h, g, FALSE))
             ELSE Fail(c, "IdempotencyConflict")
  /\ UNCHANGED <<store, wire, clock, spent>>

\* A new row, or a pending copy of a row whose Applied hint proved empty,
\* starts at the head generation read now.
ReadBase(c) ==
  /\ pc[c] = "readbase"
  /\ base' = [base EXCEPT ![c] = ref.generation]
  /\ Goto(c, IF seen[c].row = None THEN "create" ELSE "resolve")
  /\ UNCHANGED <<store, wire, clock, call, seen, draft, result, reply, receipts, spent>>

\* Created, lost to another caller, or unanswered: the loop reloads the row.
CreateIntent(c) ==
  /\ pc[c] = "create"
  /\ Retry(c)
  /\ \/ /\ PutMatches(Outgoing(c))
        /\ ApplyPut(Outgoing(c))
        /\ UNCHANGED <<wire, spent>>
     \/ /\ ~PutMatches(Outgoing(c))
        /\ UNCHANGED <<ref, refVersion, rows, rowVersion, wire, spent>>
     \/ /\ Fault(c)
        /\ UNCHANGED <<ref, refVersion, rows, rowVersion>>
  /\ UNCHANGED <<objects, clock, reply, receipts>>

\* Only the commit of generation base + 1 can be this operation's.
ResolvePending(c) ==
  LET h == ref.head_commit
      o == call[c].op
      g == base[c] + 1 IN
  /\ pc[c] = "resolve"
  /\ \/ /\ ref.generation = base[c]
        /\ Goto(c, "attempt")
        /\ UNCHANGED <<frame, reply, receipts>>
     \/ /\ ref.generation < base[c]
        /\ Fail(c, "RecoveryFailed")
     \/ /\ ref.generation > base[c]
        /\ h[g].identity = o /\ h[g].request # Material(call[c].mutation)
        /\ Fail(c, "IdempotencyConflict")
     \/ /\ ref.generation > base[c]
        /\ h[g].identity = o /\ h[g].request = Material(call[c].mutation)
        /\ result' = [result EXCEPT ![c] = ReceiptAt(h, g, FALSE)]
        /\ Goto(c, "finalize")
        /\ UNCHANGED <<call, seen, base, draft, reply, receipts>>
     \/ /\ ref.generation > base[c]
        /\ h[g].identity # o
        /\ base' = [base EXCEPT ![c] = ref.generation]
        /\ Goto(c, "attempt")
        /\ UNCHANGED <<call, seen, draft, result, reply, receipts>>
  /\ UNCHANGED <<store, wire, clock, spent>>

\* The next ref value of an admitted plan; its commit extends the snapshot's head.
Prepared(c, snapshot) ==
  LET m    == call[c].mutation
      next == Apply(m, snapshot, clock)
      header == [identity |-> call[c].op, request |-> Material(m), epoch |-> next.epoch, by |-> c]
  IN [next EXCEPT !.generation = @ + 1, !.head_commit = Append(@, header)]

\* A fresh snapshot must still be at base; the plan is prepared against it.
BeginAttempt(c) ==
  LET verdict == Verdict(call[c].mutation, ref, clock) IN
  /\ pc[c] = "attempt"
  /\ \/ /\ ref.generation # base[c]
        /\ Retry(c)
        /\ UNCHANGED <<reply, receipts>>
     \/ /\ ref.generation = base[c]
        /\ verdict # "Admitted"
        /\ Fail(c, verdict)
     \/ /\ ref.generation = base[c]
        /\ verdict = "Admitted"
        /\ draft' = [draft EXCEPT ![c] = [value |-> Prepared(c, ref), version |-> refVersion]]
        /\ Goto(c, "write")
        /\ UNCHANGED <<call, seen, base, result, reply, receipts>>
  /\ UNCHANGED <<store, wire, clock, spent>>

\* The row must name this base before the ref CAS can be issued.
WriteIntent(c) ==
  /\ pc[c] = "write"
  /\ \/ /\ PutMatches(Outgoing(c))
        /\ ApplyPut(Outgoing(c))
        /\ Goto(c, "upload")
        /\ UNCHANGED frame
     \/ /\ ~PutMatches(Outgoing(c))
        /\ Retry(c)
        /\ UNCHANGED <<ref, refVersion, rows, rowVersion>>
  /\ UNCHANGED <<objects, wire, clock, reply, receipts, spent>>

\* Mutant: the ref CAS is issued without waiting for the upload.
UploadSkipped(c) ==
  /\ pc[c] = "upload"
  /\ Goto(c, "cas")
  /\ UNCHANGED <<store, frame, wire, clock, reply, receipts, spent>>

Upload(c) ==
  /\ pc[c] = "upload"
  /\ objects' = objects \cup {draft[c].value.head_commit}
  /\ Goto(c, "cas")
  /\ UNCHANGED <<ref, refVersion, rows, rowVersion, frame, wire, clock, reply, receipts, spent>>

\* The linearization point.
CasRef(c) ==
  LET next == draft[c].value IN
  /\ pc[c] = "cas"
  /\ \/ /\ PutMatches(Outgoing(c))
        /\ ApplyPut(Outgoing(c))
        /\ result' = [result EXCEPT ![c] = ReceiptAt(next.head_commit, next.generation, TRUE)]
        /\ Goto(c, "finalize")
        /\ UNCHANGED <<call, seen, base, draft>>
     \/ /\ ~PutMatches(Outgoing(c))
        /\ Retry(c)
        /\ UNCHANGED <<ref, refVersion, rows, rowVersion>>
  /\ UNCHANGED <<objects, wire, clock, reply, receipts, spent>>

\* Best effort: the row is reloaded and overwritten, unless it is gone, another
\* write gets in between, or the reply is lost; the caller gets its receipt anyway.
FinalizeIntent(c) ==
  /\ pc[c] = "finalize"
  /\ Acknowledge(c, result[c])
  /\ \/ /\ rows[call[c].op] # None
        /\ ApplyPut(Outgoing(c))
        /\ UNCHANGED <<wire, spent>>
     \/ UNCHANGED <<ref, refVersion, rows, rowVersion, wire, spent>>
     \/ /\ Fault(c)
        /\ UNCHANGED <<ref, refVersion, rows, rowVersion>>
  /\ UNCHANGED <<objects, clock>>

\* A backend error is returned, the caller's future is dropped, or its process
\* dies; a write it had issued may still arrive.
Abandon(c) ==
  /\ pc[c] # "idle"
  /\ Fault(c)
  /\ Fail(c, "BackendUnavailable")
  /\ UNCHANGED <<store, clock>>
-----------------------------------------------------------------------------
(* The environment.                                                        *)

\* An abandoned write reaches the store.
Land(m) ==
  /\ wire' = wire \ {m}
  /\ \/ PutMatches(m) /\ ApplyPut(m)
     \/ ~PutMatches(m) /\ UNCHANGED <<ref, refVersion, rows, rowVersion>>
  /\ UNCHANGED <<objects, clock, pc, frame, reply, receipts, spent>>

\* A renewal succeeds only on the version it read; the new deadline is counted
\* from when its owner read a clock, some time before the write arrives.
Renew ==
  /\ spent.renewals < MaxRenewals
  /\ \E fence \in 0..ref.epoch : Renewable(ref, fence)
  /\ \E t \in 0..clock : ref' = Renewed(ref, t)
  /\ refVersion' = refVersion + 1
  /\ spent' = [spent EXCEPT !.renewals = @ + 1]
  /\ UNCHANGED <<rows, rowVersion, objects, wire, clock, pc, frame, reply, receipts>>

Tick ==
  /\ clock < MaxClock
  /\ clock' = clock + 1
  /\ UNCHANGED <<store, wire, pc, frame, reply, receipts, spent>>

\* Nobody is publishing o and no write for it is under way.
Quiet(o) == /\ \A c \in Client : pc[c] # "idle" => call[c].op # o
            /\ \A m \in wire : m.op # o

\* An intent row is deleted, or overwritten with an Applied state that names an
\* uploaded commit which was never published (the drills of retry_drills.rs).
Tamper(o) ==
  /\ spent.tampers < MaxTampers
  /\ rows[o] # None
  /\ Quiet(o)
  /\ \/ rows' = [rows EXCEPT ![o] = None]
     \/ \E d \in objects :
          /\ ~InHistory(d, ref.head_commit)
          /\ rows' = [rows EXCEPT ![o].state = "Applied", ![o].commit = d]
  /\ rowVersion' = [rowVersion EXCEPT ![o] = @ + 1]
  /\ spent' = [spent EXCEPT !.tampers = @ + 1]
  /\ UNCHANGED <<ref, refVersion, objects, wire, clock, pc, frame, reply, receipts>>
-----------------------------------------------------------------------------
Init ==
  /\ ref = NewRef /\ refVersion = 0
  /\ rows = [o \in Op |-> None] /\ rowVersion = [o \in Op |-> 0]
  /\ objects = {} /\ wire = {} /\ clock = 0
  /\ pc = [c \in Client |-> "idle"]
  /\ call = [c \in Client |-> None]
  /\ seen = [c \in Client |-> NoRead]
  /\ base = [c \in Client |-> 0]
  /\ draft = [c \in Client |-> None]
  /\ result = [c \in Client |-> None]
  /\ reply = [c \in Client |-> "none"]
  /\ receipts = {}
  /\ spent = [calls |-> 0, faults |-> 0, tampers |-> 0, renewals |-> 0]

\* The steps a caller takes on its own, without a fault.
Step(c) ==
  \/ LoadIntent(c) \/ TryCachedApplied(c) \/ RecoverWithoutIntent(c) \/ ReadBase(c)
  \/ CreateIntent(c) \/ ResolvePending(c) \/ BeginAttempt(c) \/ WriteIntent(c)
  \/ Upload(c) \/ CasRef(c) \/ FinalizeIntent(c)

Next ==
  \/ \E c \in Client : Start(c) \/ Step(c) \/ Abandon(c)
  \/ \E m \in wire : Land(m)
  \/ \E o \in Op : Tamper(o)
  \/ Renew
  \/ Tick

Spec == Init /\ [][Next]_vars

\* The runtime keeps polling every call that has not returned.
Fairness == \A c \in Client : WF_vars(Step(c))

FairSpec == Spec /\ Fairness
=============================================================================
