-------------------------------- MODULE Log --------------------------------
(***************************************************************************)
(* The log store (crates/combctl/src/log.rs: LogStore): append, stable     *)
(* append, takeover, compaction, retention, read and follow.               *)
(*                                                                         *)
(* The head of a log is its ref; the ref's target is a manifest, which     *)
(* lists the segments and chunks that hold the frames.  Every mutation     *)
(* carries an operation id and goes through the publication engine, which  *)
(* applies it at most once and answers a retry with what it recorded       *)
(* (module Publish): a publication is one step here.  A stable append      *)
(* bypasses the engine: the index of stable keys tells whether it has been *)
(* done, and it is published against the very snapshot it was looked up    *)
(* in.                                                                     *)
(*                                                                         *)
(* A digest stands for the one object it names: a chunk reference holds    *)
(* its frames.  What the code may refuse is a set, empty or with its one   *)
(* result.  The stable-key index is the set of its entries (module Hamt).  *)
(* Every publication counts the generation up, which therefore stands for  *)
(* the version of the ref.  A task that fails for good is idle again.      *)
(***************************************************************************)
EXTENDS Mutations, SequencesExt

CONSTANTS Op,        \* operation ids
          Key,       \* keys of stable appends
          Payload,
          Task,      \* invocations that may be in progress at the same time
          Job,       \* what they may be asked for
          Follower,
          Start,     \* the positions from which followers begin
          MaxEvents, \* MAX_APPEND_EVENTS
          \* Bounds of the model.
          MaxClock, MaxCalls, MaxFaults

Modes == {"complete", "trimmable"}

AppendJobs  == [kind : {"append"}, op : Op, writer : Writer, feed : Modes,
                payloads : Seq(Payload)]
StableJobs  == [kind : {"stable"}, op : Key, writer : Writer, feed : Modes,
                payloads : Seq(Payload)]
StealJobs   == [kind : {"steal"}, op : Op, writer : Writer]
CompactJobs == [kind : {"compact"}, op : Op, feed : Modes]
TrimJobs    == [kind : {"trim"}, op : Op, feed : Modes, before : Nat]

Frame    == [seq : Nat, payload : Payload]
Piece    == [first : Nat, last : Nat, frames : Seq(Frame)]
Entry    == [key : Key, payload : Payload, seq : Nat, generation : Nat]
Index    == [entries : SUBSET Entry]
Manifest == [head : Nat, chunks : Seq(Piece), segments : Seq(Piece), trim : Nat,
             retention : Modes, index : Index \cup {None}]

ASSUME JobAssumption ==
  Job \subseteq AppendJobs \cup StableJobs \cup StealJobs \cup CompactJobs \cup TrimJobs
\* A stable append has an operation id of its own kind (operation.rs: OpIdentity).
ASSUME OpAssumption    == Op \cap Key = {}
ASSUME AbsentAssumption == None \notin Key \cup Index \cup Manifest
ASSUME StartAssumption == Start \subseteq Nat \ {0}

VARIABLES
  ref,      \* generation, epoch, lease, and the manifest that is the target
  wire,     \* drafts nobody waits for, whose put may still arrive
  commits,  \* history: the identity and result of every generation
  log,      \* history: the events in the order of their publication
  clock,
  task,
  follower,
  acks,     \* answers to generic operations, with the number of commits then
  receipts, \* answers to stable appends
  spent     \* calls and failures so far

store == <<ref, commits, log>>
vars  == <<store, wire, clock, task, follower, acks, receipts, spent>>

Idle == [pc |-> "idle", job |-> None, draft |-> None]

Init ==
  /\ ref = [generation |-> 0, epoch |-> 0, lease |-> None, target |-> None]
  /\ wire = {} /\ commits = <<>> /\ log = <<>> /\ clock = 0
  /\ task = [t \in Task |-> Idle]
  /\ follower \in [Follower -> {[start |-> n, cursor |-> n, last |-> 0, got |-> <<>>,
                                 pc |-> "poll"] : n \in Start}]
  /\ acks = {} /\ receipts = {}
  /\ spent = [calls |-> 0, faults |-> 0]

(***************************************************************************)
(* Manifests.                                                              *)
(***************************************************************************)
EmptyDomain(feed) ==
  [head |-> 0, chunks |-> <<>>, segments |-> <<>>, trim |-> 0,
   retention |-> feed, index |-> None]

\* load_manifest: an error without a target.
LoadManifest(r) == {r.target} \ {None}

\* load_domain
Domain(r, feed) ==
  IF r.target = None THEN EmptyDomain(feed) ELSE CHOOSE m \in LoadManifest(r) : TRUE

\* load_domain: a complete feed is not opened as a trimmable one.
Openable(r, feed) ==
  r.target # None /\ r.target.retention = "complete" => feed = "complete"

Chunk(first, payloads) ==
  [first  |-> first,
   last   |-> first + Len(payloads) - 1,
   frames |-> [i \in DOMAIN payloads |-> [seq |-> first + i - 1, payload |-> payloads[i]]]]

Frames(refs) == FlattenSeq([i \in DOMAIN refs |-> refs[i].frames])

\* sort_by_key, which is stable.
Before(frames, i, j) ==
  frames[i].seq < frames[j].seq \/ (frames[i].seq = frames[j].seq /\ i < j)

\* The frames at the wanted places, sorted.
InOrder(frames, wanted) ==
  [n \in 1..Cardinality(wanted) |->
     frames[CHOOSE i \in wanted :
              Cardinality({j \in wanted : Before(frames, j, i)}) = n - 1]]

\* LogStore.read.
Read(m, from) ==
  IF m.trim > 0 /\ from <= m.trim THEN {}
  ELSE LET pieces  == m.segments \o m.chunks
           reached == FlattenSeq([i \in DOMAIN pieces |->
                                    IF pieces[i].last < from THEN <<>> ELSE pieces[i].frames])
           wanted  == {i \in DOMAIN reached : reached[i].seq >= from /\ reached[i].seq > m.trim}
       IN  {InOrder(reached, wanted)}

(***************************************************************************)
(* Plans: what each operation makes of the ref.                            *)
(***************************************************************************)
\* Mutant: the writer that follows an expired lease continues its epoch.
NextWriterSameEpoch(r, writer, now) ==
  IF LeaseLive(r, now) /\ r.lease.writer # writer THEN {}
  ELSE {[epoch |-> IF r.epoch = 0 THEN 1 ELSE r.epoch,
         lease |-> [writer |-> writer, until |-> now + TTL]]}

\* next_writer: only the holder continues the epoch of a live lease.
NextWriter(r, writer, now) ==
  IF LeaseLive(r, now) /\ r.lease.writer # writer THEN {}
  ELSE {[epoch |-> IF LeaseLive(r, now) THEN r.epoch ELSE r.epoch + 1,
         lease |-> [writer |-> writer, until |-> now + TTL]]}

Advance(r, epoch, lease, target) ==
  [generation |-> r.generation + 1, epoch |-> epoch, lease |-> lease, target |-> target]

Draft(op, next, result, events) == [op |-> op, next |-> next, result |-> result, events |-> events]

EventsOf(payloads, key, epoch, writer) ==
  [i \in DOMAIN payloads |-> [payload |-> payloads[i], key |-> key,
                              epoch |-> epoch, writer |-> writer]]

\* prepare_events: payloads for one operation, or one payload under a stable key.
Extend(r, op, writer, feed, payloads, key, now) ==
  LET m         == Domain(r, feed)
      retention == IF m.retention = "complete" THEN "complete" ELSE feed
      chunk     == Chunk(m.head + 1, payloads)
      entries   == IF m.index = None THEN {} ELSE m.index.entries
      entry     == [key |-> key, payload |-> payloads[1], seq |-> chunk.first,
                    generation |-> r.generation + 1]
      manifest  == [m EXCEPT !.head = chunk.last, !.chunks = Append(@, chunk),
                             !.retention = retention,
                             !.index = CASE retention = "trimmable" -> None
                                         [] retention = "complete" /\ key # None ->
                                              [entries |-> entries \cup {entry}]
                                         [] OTHER -> [entries |-> entries]]
  IN IF r.target # None /\ retention = "complete" /\ m.index = None THEN {}
     ELSE {Draft(op, Advance(r, w.epoch, w.lease, manifest),
                 [first |-> chunk.first, last |-> chunk.last],
                 EventsOf(payloads, key, w.epoch, writer)) :
             w \in NextWriter(r, writer, now)}

TakeOver(r, op, writer, now) ==
  {Draft(op, Advance(r, r.epoch + 1, [writer |-> writer, until |-> now + TTL], r.target),
         r.epoch + 1, <<>>)}

\* Mutant: the segment is as long as the last chunk merged into it.
MergedShort(chunks) ==
  LET all    == Frames(chunks)
      frames == InOrder(all, DOMAIN all)
  IN  [first |-> Head(frames).seq, last |-> chunks[1].last, frames |-> frames]

Merged(chunks) ==
  LET all    == Frames(chunks)
      frames == InOrder(all, DOMAIN all)
  IN  [first |-> Head(frames).seq, last |-> Last(frames).seq, frames |-> frames]

\* Mutant: the index is cleared with the admissions.
CompactedBare(r, op, feed) ==
  IF r.target = None \/ Len(r.target.chunks) < 2 THEN {}
  ELSE LET m == r.target
           manifest == [m EXCEPT !.segments = Append(@, Merged(m.chunks)), !.chunks = <<>>,
                                 !.retention = IF feed = "complete" THEN feed ELSE @, !.index = None]
       IN  {Draft(op, Advance(r, r.epoch, r.lease, manifest), Len(m.chunks), <<>>)}

\* Through a complete handle the log becomes complete, with the index it has or without.
Compacted(r, op, feed) ==
  IF r.target = None \/ Len(r.target.chunks) < 2 THEN {}
  ELSE LET m == r.target
           manifest == [m EXCEPT !.segments = Append(@, Merged(m.chunks)), !.chunks = <<>>,
                                 !.retention = IF feed = "complete" THEN feed ELSE @]
       IN  {Draft(op, Advance(r, r.epoch, r.lease, manifest), Len(m.chunks), <<>>)}

Smaller(m, n) == IF m < n THEN m ELSE n
Larger(m, n)  == IF m < n THEN n ELSE m

Trimmed(r, op, before) ==
  IF r.target = None \/ r.target.retention = "complete" THEN {}
  ELSE LET floor == Larger(r.target.trim, Smaller(before, r.target.head))
       IN  {Draft(op, Advance(r, r.epoch, r.lease, [r.target EXCEPT !.trim = floor]), floor, <<>>)}

Prepared(r, job, now) ==
  CASE job.kind = "append"  -> Extend(r, job.op, job.writer, job.feed, job.payloads, None, now)
    [] job.kind = "stable"  -> Extend(r, job.op, job.writer, job.feed, job.payloads, job.op, now)
    [] job.kind = "steal"   -> TakeOver(r, job.op, job.writer, now)
    [] job.kind = "compact" -> Compacted(r, job.op, job.feed)
    [] job.kind = "trim"    -> Trimmed(r, job.op, job.before)

(***************************************************************************)
(* Invocations.                                                            *)
(***************************************************************************)
Goto(t, pc) == task' = [task EXCEPT ![t].pc = pc]
Return(t)   == task' = [task EXCEPT ![t] = Idle]

\* check_payloads, and what the feed mode of the handle rules out.
Sound(j) ==
  /\ j.kind \in {"append", "stable"} => Len(j.payloads) \in 1..MaxEvents
  /\ j.kind = "stable" => j.feed = "complete" /\ Len(j.payloads) = 1
  /\ j.kind = "trim" => j.feed = "trimmable"

FirstStep(j) ==
  CASE j.kind = "stable" -> "look" [] j.kind = "compact" -> "inspect" [] OTHER -> "publish"

Begin(t, j) ==
  /\ task[t].pc = "idle" /\ spent.calls < MaxCalls
  /\ Sound(j)
  /\ task' = [task EXCEPT ![t] = [pc |-> FirstStep(j), job |-> j, draft |-> None]]
  /\ spent' = [spent EXCEPT !.calls = @ + 1]
  /\ UNCHANGED <<store, wire, clock, follower, acks, receipts>>

Fail == spent.faults < MaxFaults /\ spent' = [spent EXCEPT !.faults = @ + 1]

Current(draft) == draft # None /\ draft.next.generation = ref.generation + 1

Commit(draft) ==
  /\ ref' = draft.next
  /\ commits' = Append(commits, [op |-> draft.op, result |-> draft.result])
  /\ log' = log \o draft.events
  /\ wire' = {}

Recorded(op) == {commits[g].result : g \in {g \in DOMAIN commits : commits[g].op = op}}

Answer(t, answer) ==
  acks' = acks \cup {[kind |-> task[t].job.kind, op |-> task[t].job.op, answer |-> answer,
                      at |-> Len(commits')]}

\* The caller hears of it, or has gone.
Tell(t, answer) ==
  /\ Return(t)
  /\ \/ Answer(t, answer) /\ UNCHANGED spent
     \/ Fail /\ UNCHANGED acks

\* Store::publish: once per operation id.
Publish(t) ==
  LET j == task[t].job IN
  /\ task[t].pc = "publish"
  /\ UNCHANGED <<clock, follower, receipts>>
  /\ \/ \E result \in Recorded(j.op) : UNCHANGED <<store, wire>> /\ Tell(t, result)
     \/ /\ Recorded(j.op) = {}
        /\ \E draft \in Prepared(ref, j, clock) : Commit(draft) /\ Tell(t, draft.result)
     \/ /\ Recorded(j.op) = {} /\ Prepared(ref, j, clock) = {}
        /\ Return(t) /\ UNCHANGED <<store, wire, acks, spent>>

\* compact looks at the log first.
Inspect(t) ==
  LET j == task[t].job IN
  /\ task[t].pc = "inspect"
  /\ UNCHANGED <<store, wire, clock, follower, receipts, spent>>
  /\ \/ ref.generation = 0 /\ Answer(t, 0) /\ Return(t)
     \/ ~Openable(ref, j.feed) /\ Return(t) /\ UNCHANGED acks
     \/ /\ ref.generation > 0 /\ Openable(ref, j.feed)
        /\ Goto(t, IF Len(Domain(ref, j.feed).chunks) < 2 THEN "recover" ELSE "publish")
        /\ UNCHANGED acks

\* Mutant: too few chunks always means that there was nothing to do.
RecoveredNothing(op) == 0

\* recover_completed: the result of an earlier publication, otherwise zero.
Recovered(op) == IF Recorded(op) = {} THEN 0 ELSE CHOOSE result \in Recorded(op) : TRUE

Recover(t) ==
  /\ task[t].pc = "recover"
  /\ UNCHANGED <<store, wire, clock, follower, receipts, spent>>
  /\ Answer(t, Recovered(task[t].job.op)) /\ Return(t)

Found(t) == IF ref.target = None \/ ref.target.index = None THEN {}
            ELSE {e \in ref.target.index.entries : e.key = task[t].job.op}

\* append_stable: snapshot, lookup, and the preparation of what to publish.
Look(t) ==
  /\ task[t].pc = "look"
  /\ UNCHANGED <<store, wire, clock, follower, acks, spent>>
  /\ \/ \E e \in Found(t) :
          /\ receipts' = IF e.payload = task[t].job.payloads[1] THEN receipts \cup {e} ELSE receipts
          /\ Return(t)
     \/ /\ Found(t) = {} /\ UNCHANGED receipts
        /\ \/ \E draft \in Prepared(ref, task[t].job, clock) :
                task' = [task EXCEPT ![t].pc = "put", ![t].draft = draft]
           \/ Prepared(ref, task[t].job, clock) = {} /\ Return(t)

\* Mutant: the put does not ask for the version that was looked up.
PutFreshAlways(t) == TRUE

\* The put of commit_at_snapshot finds the ref as it was in the snapshot.
PutFresh(t) == Current(task[t].draft)

\* The outcome of the put, if it is known; otherwise, or on a conflict, back to
\* the lookup.
Put(t) ==
  LET draft == task[t].draft
      again == task' = [task EXCEPT ![t].pc = "look", ![t].draft = None]
  IN
  /\ task[t].pc = "put"
  /\ UNCHANGED <<clock, follower, acks>>
  /\ \/ /\ PutFresh(t) /\ Commit(draft) /\ UNCHANGED spent /\ Return(t)
        /\ receipts' = receipts \cup {[key |-> draft.op, payload |-> draft.events[1].payload,
                                       seq |-> draft.result.first,
                                       generation |-> draft.next.generation]}
     \/ /\ PutFresh(t) /\ Fail /\ again /\ UNCHANGED receipts
        /\ Commit(draft) \/ (wire' = wire \cup {draft} /\ UNCHANGED store)
     \/ ~PutFresh(t) /\ again /\ UNCHANGED <<store, wire, receipts, spent>>

Land(draft) ==
  /\ draft \in wire /\ Commit(draft)
  /\ UNCHANGED <<clock, task, follower, acks, receipts, spent>>

Crash(t) ==
  /\ task[t].pc # "idle" /\ Fail /\ Return(t)
  /\ wire' = wire \cup {d \in {task[t].draft} : Current(d)}
  /\ UNCHANGED <<store, clock, follower, acks, receipts>>

(***************************************************************************)
(* Followers.                                                              *)
(***************************************************************************)
\* status fails when there is a ref without a manifest: a takeover created the
\* log and nobody has written to it.
StatusFails(r) == r.generation > 0 /\ LoadManifest(r) = {}

\* A new head is what makes a follower read, an error ends it.
Poll(f) ==
  /\ follower[f].pc = "poll"
  /\ UNCHANGED <<store, wire, clock, task, acks, receipts, spent>>
  /\ \/ StatusFails(ref) /\ follower' = [follower EXCEPT ![f].pc = "ended"]
     \/ \E m \in LoadManifest(ref) :
          /\ m.head > follower[f].last
          /\ follower' = [follower EXCEPT ![f].last = m.head,
                            ![f].pc = IF m.head >= follower[f].cursor THEN "read" ELSE "poll"]

\* Mutant: the cursor follows the head that was polled.
PassHead(follow, frames) ==
  [follow EXCEPT !.got = @ \o frames, !.cursor = follow.last + 1, !.pc = "poll"]

\* The cursor follows what was read, which may be more than was polled.
Pass(follow, frames) ==
  [follow EXCEPT !.got = @ \o frames, !.pc = "poll",
                 !.cursor = IF frames = <<>> THEN @ ELSE Last(frames).seq + 1]

FollowRead(f) ==
  /\ follower[f].pc = "read"
  /\ UNCHANGED <<store, wire, clock, task, acks, receipts, spent>>
  /\ \/ \E frames \in Read(ref.target, follower[f].cursor) :
          follower' = [follower EXCEPT ![f] = Pass(@, frames)]
     \/ /\ Read(ref.target, follower[f].cursor) = {}
        /\ follower' = [follower EXCEPT ![f].pc = "ended"]

Tick ==
  /\ clock < MaxClock /\ clock' = clock + 1
  /\ UNCHANGED <<store, wire, task, follower, acks, receipts, spent>>

Next ==
  \/ \E t \in Task : \/ \E j \in Job : Begin(t, j)
                     \/ Publish(t) \/ Inspect(t) \/ Recover(t)
                     \/ Look(t) \/ Put(t) \/ Crash(t)
  \/ \E draft \in wire : Land(draft)
  \/ \E f \in Follower : Poll(f) \/ FollowRead(f)
  \/ Tick

Spec == Init /\ [][Next]_vars
=============================================================================
