------------------------------ MODULE LogProps ------------------------------
(***************************************************************************)
(* What the log store promises.                                            *)
(***************************************************************************)
EXTENDS Log

FrameOf(i) == [seq |-> i, payload |-> log[i].payload]
FramesFrom(first, last) == [i \in 1..(last - first + 1) |-> FrameOf(first + i - 1)]

\* Whatever has been appended, compacted and trimmed since, a read from any
\* position returns exactly the published events from there on, each once and in
\* order; only below the retention floor it is refused, and then as a whole
\* (log.rs read, CompactPlan, TrimPlan).
ReadsAgree ==
  ref.target # None =>
    /\ ref.target.head = Len(log)
    /\ \A from \in 1..(Len(log) + 1) :
         Read(ref.target, from) =
           IF ref.target.trim > 0 /\ from <= ref.target.trim THEN {}
           ELSE {FramesFrom(from, Len(log))}

\* A follower is given the log from its starting point without gap or repetition,
\* although the head it polls and the frames it reads are of different instants,
\* and before it waits again it has been given all it has polled (log.rs follow).
FollowerTiles ==
  \A f \in Follower :
    /\ follower[f].got = FramesFrom(follower[f].start, follower[f].cursor - 1)
    /\ follower[f].pc = "poll" => follower[f].last < follower[f].cursor

\* The answer to an operation is what its one publication recorded; in particular
\* a compaction that has been published is never answered with zero, although it
\* leaves nothing to compact (log.rs compact, recover_completed).
AnswersStand ==
  \A a \in acks :
    LET before == {g \in 1..a.at : commits[g].op = a.op} IN
    IF before = {} THEN a.kind = "compact" /\ a.answer = 0
    ELSE \A g \in before : commits[g].result = a.answer

Indexed(r) == r.target # None /\ r.target.index # None

EntriesOf(r) == IF Indexed(r) THEN r.target.index.entries ELSE {}

\* A stable key is appended at most once, whatever is retried, lost or late; every
\* receipt names the event of its key and payload and the generation that wrote
\* it; and the index of the log holds just the stable appends (log.rs append_stable).
StableOnce ==
  LET keyed == {i \in DOMAIN log : log[i].key # None} IN
  /\ \A i, j \in keyed : log[i].key = log[j].key => i = j
  /\ \A r \in receipts : /\ r.seq \in keyed
                         /\ log[r.seq].key = r.key /\ log[r.seq].payload = r.payload
                         /\ commits[r.generation].op = r.key
  /\ {[key |-> e.key, seq |-> e.seq] : e \in EntriesOf(ref)}
       = {[key |-> log[i].key, seq |-> i] : i \in keyed}

\* The epochs of the events never decrease, and all events of an epoch are of one
\* writer, across expiries and takeovers (log.rs next_writer, TakeoverPlan).
EpochHasOneWriter ==
  \A i, j \in DOMAIN log :
    i < j => /\ log[i].epoch <= log[j].epoch
             /\ log[i].epoch = log[j].epoch => log[i].writer = log[j].writer

IsComplete(r) == r.target # None /\ r.target.retention = "complete"

\* A complete log stays complete, through whatever handles it is appended to,
\* compacted and trimmed, and its floor never moves again.  If it has an index, it
\* has lost no event and its index never loses an entry.  If a compaction through
\* a complete handle made it complete, it has none, and no event is ever added
\* to it (log.rs prepare_events, CompactPlan, TrimPlan, load_domain).
StaysComplete ==
  [][IsComplete(ref) =>
       /\ IsComplete(ref') /\ ref'.target.trim = ref.target.trim
       /\ IF Indexed(ref)
          THEN /\ Indexed(ref') /\ ref'.target.trim = 0
               /\ EntriesOf(ref) \subseteq EntriesOf(ref')
          ELSE ~Indexed(ref') /\ log' = log]_vars
=============================================================================
