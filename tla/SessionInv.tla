----------------------------- MODULE SessionInv -----------------------------
(***************************************************************************)
(* Why sessions keep their promises: the inductive invariant.              *)
(*                                                                         *)
(* A session acquires once, by one task.  Whatever may still be put        *)
(* continues the ref: it takes over a lease that nobody relies on, keeps   *)
(* the lease of the ref, or frees the lease of a session that is lost.  So *)
(* what a session believes of its lease stays true until the deadline it   *)
(* believes in is too close to act on.                                     *)
(***************************************************************************)
EXTENDS SessionProps

Jobs      == UNION {Job(t) : t \in Task}
EntryType == [key : {j.key : j \in Jobs}, payload : {j.payload : j \in Jobs},
              epoch : Nat, by : Writer]
\* The appends that calls may make.
Entries   == UNION {{[key |-> j.key, payload |-> j.payload] : j \in Job(t)} : t \in Task}
RefType   == [epoch : Nat, lease : Lease \cup {None}, log : Seq(EntryType)]
StateType == [tag : {"Unacquired", "Acquiring", "Active", "Lost", "Closed"},
              epoch : Nat, until : Nat]
RenewerType == [pc : {"none", "sleep", "read", "cas", "notify", "lastnotify"},
                epoch : Nat, until : Nat]
Label     == {"idle", "look", "lock", "claim", "claimed", "confirm", "check",
              "issue", "sent", "close", "closing", "freed"}
TaskType  == [pc : Label, job : Jobs \cup {None}, epoch : Nat, rounds : Nat,
              started : Nat, until : Nat]

TypesInv ==
  /\ ref \in RefType /\ fresh \subseteq Task \cup Sessions /\ wire \subseteq RefType
  /\ clock \in Nat
  /\ state \in [Sessions -> StateType]
  /\ loss \in [Sessions -> BOOLEAN]
  /\ mutex \in [Sessions -> Task \cup {None}]
  /\ renewer \in [Sessions -> RenewerType]
  /\ task \in [Task -> TaskType]
  /\ \A t \in Task : /\ task[t].job \in Job(t) \cup {None}
                     /\ task[t].pc # "idle" => task[t].job \in Job(t)

(***************************************************************************)
(* Phases of a session: it is acquired by one task, once; after that tasks *)
(* append and the renewal task runs; a close is alone.                     *)
(***************************************************************************)
Claiming(t)  == task[t].pc \in {"claim", "claimed", "confirm"}
Appending(t) == task[t].pc \in {"check", "issue", "sent"}
Closing(t)   == task[t].pc \in {"close", "closing", "freed"}

TaskPhase(t) ==
  /\ Claiming(t) => mutex[Of(t)] = t /\ state[Of(t)].tag = "Acquiring"
  /\ Appending(t) => state[Of(t)].tag \in {"Active", "Lost", "Closed"}
  /\ task[t].pc # "idle" => (Closing(t) <=> task[t].job.kind = "close")
  /\ Closing(t) => \A u \in Task : Of(u) = Of(t) /\ u # t => task[u].pc = "idle"
  /\ task[t].pc \in {"closing", "freed"} => loss[Of(t)]

SessionPhase(s) ==
  /\ state[s].tag \in {"Unacquired", "Acquiring"} => renewer[s].pc = "none"
  /\ renewer[s].pc = "lastnotify" => loss[s]
  /\ mutex[s] # None => Of(mutex[s]) = s /\ Claiming(mutex[s])

PhaseInv == (\A t \in Task : TaskPhase(t)) /\ (\A s \in Sessions : SessionPhase(s))

(***************************************************************************)
(* What may be put: a value that continues the ref, in one of four ways.   *)
(***************************************************************************)
\* A deadline: TTL from some instant of the session's own clock.
InTime(s, until) == TTL <= until /\ until <= Now(s) + TTL

Dated(lease) == InTime(lease.writer, lease.until)

\* By this session's clock nobody else relies on the lease of the ref any more.
Takeable(s) == ref.lease = None \/ ref.lease.writer = s \/ ref.lease.until <= Now(s)

\* A session with a claim under way believes nothing yet.
Unsure(s) ==
  /\ state[s].tag # "Active" /\ renewer[s].pc = "none"
  /\ \A t \in Task : Of(t) = s => task[t].pc # "confirm"

Takes(v) == /\ v.epoch = ref.epoch + 1 /\ v.log = ref.log
            /\ v.lease # None /\ Dated(v.lease)
            /\ Takeable(v.lease.writer) /\ Unsure(v.lease.writer)
Keeps(v) == /\ v.epoch = ref.epoch /\ v.log = ref.log
            /\ v.lease # None /\ ref.lease # None /\ Dated(v.lease)
            /\ v.lease.writer = ref.lease.writer /\ ref.lease.until <= v.lease.until
Frees(v) == /\ v.epoch = ref.epoch /\ v.log = ref.log
            /\ v.lease = None /\ ref.lease # None /\ loss[ref.lease.writer]
Adds(v, e) == /\ v.epoch = ref.epoch /\ v.lease = ref.lease /\ ref.lease # None
              /\ v.log = Append(ref.log, e) /\ ~Holds(e.key)
              /\ e.epoch = ref.epoch /\ e.by = ref.lease.writer
              /\ [key |-> e.key, payload |-> e.payload] \in Entries

\* The last entry of a value, which is the one it adds if it adds any.
Newest(v) == v.log[Len(v.log)]

Puttable(v) == Takes(v) \/ Keeps(v) \/ Frees(v) \/ (Len(v.log) > 0 /\ Adds(v, Newest(v)))

\* What a task or a renewal task knows as long as its snapshot is fresh.
TaskKnows(t) ==
  /\ task[t].pc \in {"issue", "sent"} =>
       ~Holds(task[t].job.key) /\ ref.lease # None /\ ref.lease.writer = Of(t)
  /\ task[t].pc = "claimed" => Takeable(Of(t))
  /\ task[t].pc = "freed" => ref.lease # None /\ ref.lease.writer = Of(t)

RenewerKnows(s) ==
  renewer[s].pc = "cas" =>
    Owns(ref, s, renewer[s].epoch) /\ ref.lease.until <= renewer[s].until

LeaseInv == ref.lease # None => Dated(ref.lease)
WireInv  == \A v \in wire : Puttable(v)
CallInv(t) ==
  /\ t \in fresh => TaskKnows(t)
  /\ task[t].pc = "claimed" => InTime(Of(t), task[t].until)
RenewalInv(s) ==
  /\ s \in fresh => RenewerKnows(s)
  /\ renewer[s].pc = "cas" => InTime(s, renewer[s].until)

StoreInv ==
  /\ KeyOnce /\ LeaseInv /\ WireInv
  /\ \A t \in Task : CallInv(t)
  /\ \A s \in Sessions : RenewalInv(s)

(***************************************************************************)
(* What sessions believe.                                                  *)
(***************************************************************************)
\* A session that believes it has the lease of epoch e until u has it, or it is
\* past the time at which it may act on its belief.
Justified(s, e, u) ==
  /\ e <= ref.epoch
  /\ e = ref.epoch => Owns(ref, s, e) /\ u <= ref.lease.until
  /\ e < ref.epoch => u <= clock + Slack

Belief(s) ==
  ~loss[s] =>
    /\ state[s].tag = "Active" => Justified(s, state[s].epoch, state[s].until)
    /\ renewer[s].pc = "notify" => Justified(s, renewer[s].epoch, renewer[s].until)

BeliefInv == \A s \in Sessions : Belief(s)

Inductive == TypesInv /\ PhaseInv /\ StoreInv /\ BeliefInv
=============================================================================
