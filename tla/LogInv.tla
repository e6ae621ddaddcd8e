------------------------------- MODULE LogInv -------------------------------
(***************************************************************************)
(* The inductive invariant of the log store.                               *)
(***************************************************************************)
EXTENDS LogProps

-----------------------------------------------------------------------------
(* Types.                                                                  *)

RefType == [generation : Nat, epoch : Nat, lease : Lease \cup {None},
            target : Manifest \cup {None}]
Event   == [payload : Payload, key : Key \cup {None}, epoch : Nat, writer : Writer]
Span    == [first : Nat, last : Nat]
DraftType  == [op : Key, next : RefType, result : Span, events : Seq(Event)]
CommitType == [op : Op \cup Key, result : Nat \cup Span]
FollowType == [start : Nat \ {0}, cursor : Nat \ {0}, last : Nat, got : Seq(Frame),
               pc : {"poll", "read", "ended"}]

\* Which jobs an invocation goes through which steps for.
Steps(pc) == CASE pc = "publish"           -> {"append", "steal", "compact", "trim"}
               [] pc \in {"inspect", "recover"} -> {"compact"}
               [] OTHER                    -> {"stable"}

InTask(k) ==
  /\ k = [pc |-> k.pc, job |-> k.job, draft |-> k.draft]
  /\ k.pc \in {"idle", "publish", "inspect", "recover", "look", "put"}
  /\ k.pc # "idle" => k.job \in Job /\ Sound(k.job) /\ k.job.kind \in Steps(k.pc)
  /\ IF k.pc = "put" THEN k.draft \in DraftType ELSE k.draft = None

TaskType == DOMAIN task = Task /\ \A t \in Task : InTask(task[t])

Types ==
  /\ ref \in RefType /\ wire \subseteq DraftType
  /\ commits \in Seq(CommitType) /\ log \in Seq(Event) /\ clock \in Nat
  /\ TaskType /\ follower \in [Follower -> FollowType]

-----------------------------------------------------------------------------
(* The head of the log against its history.                                *)

FrameAt(events, n) == [seq |-> n, payload |-> events[n].payload]
FramesOf(events, first, last) ==
  [i \in 1..(last - first + 1) |-> FrameAt(events, first + i - 1)]

\* The pieces lie side by side and hold what the log has there.
Beside(pieces, events) ==
  \A i \in DOMAIN pieces :
    /\ 0 < pieces[i].first /\ pieces[i].first <= pieces[i].last
    /\ pieces[i].last <= Len(events)
    /\ i > 1 => pieces[i].first = pieces[i-1].last + 1
    /\ pieces[i].frames = FramesOf(events, pieces[i].first, pieces[i].last)

\* They hold the whole log.
Tiled(pieces, events) ==
  /\ Beside(pieces, events)
  /\ IF pieces = <<>> THEN events = <<>>
     ELSE pieces[1].first = 1 /\ pieces[Len(pieces)].last = Len(events)

HeadInv ==
  /\ ref.target = None => log = <<>>
  /\ ref.target # None => /\ ref.target.head = Len(log)
                          /\ Tiled(ref.target.segments \o ref.target.chunks, log)

Keyed == {i \in DOMAIN log : log[i].key # None}

\* An entry of the index, and a receipt, is an event and the commit that wrote it.
Holds(e) ==
  /\ e.seq \in DOMAIN log /\ e.generation \in DOMAIN commits
  /\ log[e.seq].key = e.key /\ log[e.seq].payload = e.payload
  /\ commits[e.generation].op = e.key

\* Only a complete log that was never trimmed has an index, and only a log with
\* an index has keyed events.
IndexInv ==
  /\ \A i, j \in Keyed : log[i].key = log[j].key => i = j
  /\ \/ /\ Indexed(ref) /\ IsComplete(ref)
        /\ ref.target.trim = 0 /\ ref.target.index \in Index
        /\ \A e \in ref.target.index.entries : Holds(e)
        /\ \A i \in Keyed : \E e \in ref.target.index.entries : e.seq = i
     \/ ~Indexed(ref) /\ Keyed = {}

WriterInv ==
  /\ EpochHasOneWriter
  /\ \A i \in DOMAIN log :
       /\ log[i].epoch <= ref.epoch
       /\ log[i].epoch = ref.epoch => ref.lease # None /\ ref.lease.writer = log[i].writer

OnceInv ==
  /\ Len(commits) = ref.generation
  /\ \A g, h \in DOMAIN commits :
       commits[g].op = commits[h].op /\ commits[g].op \notin Key => g = h

-----------------------------------------------------------------------------
(* Drafts, answers and followers.                                          *)

\* What a stable append has prepared against this very ref.
Fits(draft) ==
  \E j \in Job, now \in 0..clock :
    /\ j.kind = "stable" /\ Sound(j) /\ draft \in Prepared(ref, j, now)
    /\ \A i \in Keyed : log[i].key # j.op

Holding(k) ==
  k.pc = "put" =>
    /\ k.draft.op = k.job.op
    /\ k.draft.next.generation <= ref.generation + 1
    /\ k.draft.next.generation = ref.generation + 1 => Fits(k.draft)

DraftInv ==
  /\ \A t \in Task : Holding(task[t])
  /\ \A d \in wire : d.next.generation = ref.generation + 1 /\ Fits(d)

Acked(a) ==
  /\ a.op \in Op /\ a.at \in 0..Len(commits)
  /\ \A g \in 1..a.at : commits[g].op = a.op => commits[g].result = a.answer
  /\ (\A g \in 1..a.at : commits[g].op # a.op) => a.kind = "compact" /\ a.answer = 0

AnswerInv ==
  /\ \A a \in acks : Acked(a)
  /\ \A r \in receipts : r \in Entry /\ Holds(r)

\* A follower has the log up to its cursor.
Follows(follow) ==
  /\ follow.last <= Len(log)
  /\ follow.got = FramesOf(log, follow.start, follow.cursor - 1)
  /\ follow.start <= follow.cursor
  /\ follow.start < follow.cursor => follow.cursor <= Len(log) + 1
  /\ follow.pc = "poll" => follow.last < follow.cursor
  /\ follow.pc = "read" => follow.cursor <= follow.last

FollowerInv == \A f \in Follower : Follows(follower[f])

LogInductive ==
  /\ Types /\ HeadInv /\ IndexInv /\ WriterInv /\ OnceInv /\ DraftInv /\ AnswerInv
  /\ FollowerInv
=============================================================================
