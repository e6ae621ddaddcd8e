---------------------------- MODULE SessionProofs ----------------------------
(***************************************************************************)
(* Theorems about writer sessions, for any number of sessions and calls    *)
(* and any lease policy: types and phases, what the values are that they   *)
(* put, and what they promise.                                             *)
(***************************************************************************)
EXTENDS SessionInv, TLAPS

(***************************************************************************)
(* Types and phases, and what is put.                                      *)
(***************************************************************************)

\* What the assumptions on the constants say of their types.
LEMMA Constants ==
  /\ TTL \in Nat /\ Slack \in Nat
  /\ \A s \in Sessions : Skew[s] \in Nat /\ Skew[s] <= Slack /\ s # None /\ s \notin Task
  /\ \A t \in Task : Of(t) \in Sessions /\ t # None /\ t \notin Sessions
  /\ \A lease \in Lease : lease # None
  BY NoneAssumption, TTLAssumption, PolicyAssumption, SkewAssumption, TaskAssumption
     DEF ValidPolicy, Sessions

\* The fields of the values that are put.
LEMMA Values ==
  ASSUME TypesInv, NEW w \in fresh \cap Putting, StoreInv
  PROVE  /\ w \in Sessions =>
              /\ Value(w) = [epoch |-> ref.epoch, log |-> ref.log,
                             lease |-> [writer |-> w, until |-> renewer[w].until]]
              /\ ref.lease # None /\ ref.lease.writer = w /\ ref.lease.until <= renewer[w].until
              /\ InTime(w, renewer[w].until)
         /\ w \in Task /\ task[w].pc = "sent" =>
              /\ Value(w) = [epoch |-> ref.epoch, lease |-> ref.lease,
                             log |-> Append(ref.log, EntryOf(w))]
              /\ ~Holds(task[w].job.key) /\ ref.lease # None /\ ref.lease.writer = Of(w)
         /\ w \in Task /\ task[w].pc = "claimed" =>
              /\ Value(w) = [epoch |-> ref.epoch + 1, log |-> ref.log,
                             lease |-> [writer |-> Of(w), until |-> task[w].until]]
              /\ Takeable(Of(w)) /\ InTime(Of(w), task[w].until)
         /\ w \in Task /\ task[w].pc = "freed" =>
              /\ Value(w) = [epoch |-> ref.epoch, lease |-> None, log |-> ref.log]
              /\ ref.lease # None /\ ref.lease.writer = Of(w)
<1>1. ref = [epoch |-> ref.epoch, lease |-> ref.lease, log |-> ref.log] BY DEF TypesInv, RefType
<1>2. CASE w \in Sessions
  <2>1. w \notin Task /\ renewer[w].pc = "cas" BY <1>2, Constants DEF Putting
  <2>2. ref.lease # None /\ ref.lease.writer = w /\ ref.lease.until <= renewer[w].until
        /\ InTime(w, renewer[w].until)
    BY <1>2, <2>1 DEF StoreInv, RenewalInv, RenewerKnows, Owns
  <2>3. Value(w) = [ref EXCEPT !.lease.until = renewer[w].until] BY <1>2, <2>1 DEF Value
  <2>4. ref.lease \in Lease BY <2>2 DEF TypesInv, RefType
  <2>5. [ref.lease EXCEPT !.until = renewer[w].until] = [writer |-> w, until |-> renewer[w].until]
    BY <2>2, <2>4 DEF Lease
  <2>6. Value(w) = [ref EXCEPT !.lease = [ref.lease EXCEPT !.until = renewer[w].until]]
    BY <2>3
  <2> QED BY <1>1, <1>2, <2>1, <2>2, <2>5, <2>6
<1>3. CASE w \in Task /\ w \notin Sessions
  <2>1. CASE task[w].pc = "sent" BY <1>1, <1>3, <2>1 DEF Value, StoreInv, CallInv, TaskKnows
  <2>2. CASE task[w].pc = "claimed"
    <3>1. Value(w) = Apply(Claim(Of(w)), ref, task[w].until - TTL) BY <1>3, <2>2 DEF Value
    <3>2. Value(w) = [ref EXCEPT !.epoch = @ + 1,
                                 !.lease = [writer |-> Of(w), until |-> (task[w].until - TTL) + TTL]]
      BY <3>1 DEF Apply, Claim
    <3>3. (task[w].until - TTL) + TTL = task[w].until BY <1>3, Constants DEF TypesInv, TaskType
    <3> QED BY <1>1, <1>3, <2>2, <3>2, <3>3 DEF StoreInv, CallInv, TaskKnows
  <2>3. CASE task[w].pc = "freed"
    <3>1. Value(w) = Apply(Release(Of(w), task[w].epoch), ref, clock) BY <1>3, <2>3 DEF Value
    <3>2. Value(w) = [ref EXCEPT !.lease = None] BY <3>1 DEF Apply, Release
    <3> QED BY <1>1, <1>3, <2>3, <3>2 DEF StoreInv, CallInv, TaskKnows
  <2> QED BY <1>3, <2>1, <2>2, <2>3
<1> QED BY <1>2, <1>3, Constants DEF TypesInv

\* Every value on its way to the ref continues it.
LEMMA ValuePuttable ==
  ASSUME TypesInv, PhaseInv, StoreInv, NEW w \in fresh \cap Putting
  PROVE  Value(w) \in RefType /\ Puttable(Value(w))
<1> USE Constants
<1>1. CASE w \in Sessions
  <2>1. /\ Value(w) = [epoch |-> ref.epoch, log |-> ref.log,
                       lease |-> [writer |-> w, until |-> renewer[w].until]]
        /\ ref.lease # None /\ ref.lease.writer = w /\ ref.lease.until <= renewer[w].until
        /\ InTime(w, renewer[w].until)
    BY <1>1, Values
  <2>2. [writer |-> w, until |-> renewer[w].until] \in Lease
    BY <1>1 DEF TypesInv, RenewerType, Lease, Sessions
  <2>3. Value(w) \in RefType BY <2>1, <2>2 DEF TypesInv, RefType
  <2>4. Keeps(Value(w)) BY <2>1, <2>2 DEF Keeps, Dated
  <2> QED BY <2>3, <2>4 DEF Puttable
<1>2. CASE w \in Task /\ task[w].pc = "sent"
  <2>1. /\ Value(w) = [epoch |-> ref.epoch, lease |-> ref.lease,
                       log |-> Append(ref.log, EntryOf(w))]
        /\ ~Holds(task[w].job.key) /\ ref.lease # None /\ ref.lease.writer = Of(w)
    BY <1>2, Values
  <2>2. task[w].job \in Jobs BY <1>2 DEF TypesInv, Jobs
  <2>3. EntryOf(w) \in EntryType BY <1>2, <2>2 DEF EntryOf, EntryType, TypesInv, RefType, Sessions
  <2>4. ref.log \in Seq(EntryType) /\ ref.epoch \in Nat /\ ref.lease \in Lease \cup {None}
    BY DEF TypesInv, RefType
  <2> HIDE DEF EntryOf
  <2>5. /\ Append(ref.log, EntryOf(w)) \in Seq(EntryType)
        /\ Len(Append(ref.log, EntryOf(w))) = Len(ref.log) + 1
        /\ Append(ref.log, EntryOf(w))[Len(ref.log) + 1] = EntryOf(w)
        /\ Len(ref.log) \in Nat
    BY <2>3, <2>4
  <2>6. Value(w) \in RefType BY <2>1, <2>4, <2>5 DEF RefType
  <2>7. Newest(Value(w)) = EntryOf(w) /\ Len(Value(w).log) > 0 BY <2>1, <2>5 DEF Newest
  <2>8. /\ EntryOf(w).key = task[w].job.key /\ EntryOf(w).epoch = ref.epoch /\ EntryOf(w).by = Of(w)
        /\ EntryOf(w).payload = task[w].job.payload
    BY DEF EntryOf
  <2>10. [key |-> task[w].job.key, payload |-> task[w].job.payload] \in Entries
    <3>1. task[w].job \in Job(w) BY <1>2 DEF TypesInv
    <3> QED BY <1>2, <3>1 DEF Entries
  <2>9. Adds(Value(w), EntryOf(w)) BY <2>1, <2>8, <2>10 DEF Adds
  <2> QED BY <2>6, <2>7, <2>9 DEF Puttable
<1>3. CASE w \in Task /\ task[w].pc = "claimed"
  <2>1. /\ Value(w) = [epoch |-> ref.epoch + 1, log |-> ref.log,
                       lease |-> [writer |-> Of(w), until |-> task[w].until]]
        /\ Takeable(Of(w)) /\ InTime(Of(w), task[w].until)
    BY <1>3, Values
  <2>2. [writer |-> Of(w), until |-> task[w].until] \in Lease
    BY <1>3 DEF TypesInv, TaskType, Lease, Sessions
  <2>3. Value(w) \in RefType BY <2>1, <2>2 DEF TypesInv, RefType
  <2>4. Unsure(Of(w))
    <3>1. mutex[Of(w)] = w /\ state[Of(w)].tag = "Acquiring" /\ renewer[Of(w)].pc = "none"
      BY <1>3 DEF PhaseInv, TaskPhase, SessionPhase, Claiming
    <3>2. ASSUME NEW t \in Task, Of(t) = Of(w), task[t].pc = "confirm" PROVE FALSE
      BY <1>3, <3>1, <3>2 DEF PhaseInv, TaskPhase, Claiming
    <3> QED BY <3>1, <3>2 DEF Unsure
  <2>5. Takes(Value(w)) BY <2>1, <2>2, <2>4 DEF Takes, Dated
  <2> QED BY <2>3, <2>5 DEF Puttable
<1>4. CASE w \in Task /\ task[w].pc = "freed"
  <2>1. /\ Value(w) = [epoch |-> ref.epoch, lease |-> None, log |-> ref.log]
        /\ ref.lease # None /\ ref.lease.writer = Of(w)
    BY <1>4, Values
  <2>2. Value(w) \in RefType BY <2>1 DEF TypesInv, RefType
  <2>3. loss[Of(w)] BY <1>4 DEF PhaseInv, TaskPhase
  <2>4. Frees(Value(w)) BY <2>1, <2>3 DEF Frees
  <2> QED BY <2>2, <2>4 DEF Puttable
<1> QED BY <1>1, <1>2, <1>3, <1>4 DEF Putting

\* The values that a step may put.
Offered == wire \cup {Value(w) : w \in fresh \cap Putting}

\* The steps that take a snapshot.
Looks(w) ==
  /\ Snapshot(w)
  /\ \/ w \in Task /\ (ClaimRead(w) \/ Check(w) \/ ReleaseRead(w))
     \/ w \in Sessions /\ RenewRead(w)

\* What any step does to the ref, to the snapshots and to the wire.
LEMMA StoreSteps ==
  ASSUME TypesInv, PhaseInv, StoreInv, Next
  PROVE  \/ \E v \in RefType : v \in Offered /\ Puttable(v) /\ Commit(v)
         \/ \E who \in SUBSET (Task \cup Sessions) : Leave(who)
         \/ \E w \in Task \cup Sessions : Looks(w)
         \/ UNCHANGED store
<1>1. ASSUME NEW w \in Putting, Matches(w), Commit(Value(w))
      PROVE  \E v \in RefType : v \in Offered /\ Puttable(v) /\ Commit(v)
  <2>1. w \in fresh \cap Putting BY <1>1 DEF Matches
  <2> QED BY <1>1, <2>1, ValuePuttable DEF Offered
<1>2. ASSUME NEW t \in Task, Proceed(t) PROVE
         \/ \E v \in RefType : v \in Offered /\ Puttable(v) /\ Commit(v)
         \/ \E who \in SUBSET (Task \cup Sessions) : Leave(who)
         \/ \E w \in Task \cup Sessions : Looks(w)
         \/ UNCHANGED store
  <2>1. Of(t) \in Sessions BY Constants
  <2>2. {t} \in SUBSET (Task \cup Sessions) /\ {Of(t)} \in SUBSET (Task \cup Sessions)
        /\ {t, Of(t)} \in SUBSET (Task \cup Sessions)
    BY <2>1
  <2>3. CASE Look(t) BY <2>3 DEF Look
  <2>4. CASE Acquire(t) BY <2>2, <2>4 DEF Acquire
  <2>5. CASE ClaimRead(t) BY <2>5 DEF ClaimRead, Looks
  <2>6. CASE ClaimPut(t)
    <3>1. t \in Putting BY <2>6 DEF ClaimPut, Putting
    <3> QED BY <2>6, <3>1, <1>1 DEF ClaimPut
  <2>7. CASE Confirm(t) BY <2>7 DEF Confirm
  <2>8. CASE GiveUp(t) BY <2>2, <2>8 DEF GiveUp
  <2>9. CASE Check(t) BY <2>2, <2>9 DEF Check, LoseCall, Looks
  <2>10. CASE Issue(t) BY <2>2, <2>10 DEF Issue, LoseCall
  <2>11. CASE AppendPut(t)
    <3>1. t \in Putting BY <2>11 DEF AppendPut, Putting
    <3> QED BY <2>11, <3>1, <1>1 DEF AppendPut
  <2>12. CASE Interrupted(t) BY <2>2, <2>12 DEF Interrupted, LoseCall
  <2>13. CASE Close(t) BY <2>2, <2>13 DEF Close
  <2>14. CASE ReleaseRead(t) BY <2>14 DEF ReleaseRead, Looks
  <2>15. CASE ReleasePut(t)
    <3>1. t \in Putting BY <2>15 DEF ReleasePut, Putting
    <3> QED BY <2>15, <3>1, <1>1 DEF ReleasePut
  <2> QED BY <1>2, <2>3, <2>4, <2>5, <2>6, <2>7, <2>8, <2>9, <2>10, <2>11, <2>12, <2>13, <2>14,
             <2>15 DEF Proceed
<1>3. ASSUME NEW s \in Sessions, Renew(s) \/ RenewFails(s) PROVE
         \/ \E v \in RefType : v \in Offered /\ Puttable(v) /\ Commit(v)
         \/ \E who \in SUBSET (Task \cup Sessions) : Leave(who)
         \/ \E w \in Task \cup Sessions : Looks(w)
         \/ UNCHANGED store
  <2>1. {s} \in SUBSET (Task \cup Sessions) OBVIOUS
  <2>2. CASE Wake(s) BY <2>1, <2>2 DEF Wake, RenewerLoses
  <2>3. CASE RenewRead(s) BY <2>1, <2>3 DEF RenewRead, RenewerLoses, Looks
  <2>4. CASE RenewPut(s)
    <3>1. s \in Putting BY <2>4 DEF RenewPut, Putting
    <3> QED BY <2>4, <3>1, <1>1 DEF RenewPut
  <2>5. CASE RenewTimer(s) \/ RenewFails(s) BY <2>1, <2>5 DEF RenewTimer, RenewFails, RenewerLoses
  <2>6. CASE Notify(s) BY <2>6 DEF Notify
  <2> QED BY <1>3, <2>2, <2>3, <2>4, <2>5, <2>6 DEF Renew
<1>4. ASSUME NEW t \in Task, NEW j \in Job(t), Start(t, j) PROVE UNCHANGED store
  BY <1>4 DEF Start
<1>5. ASSUME NEW t \in Task, Abandon(t)
      PROVE \E who \in SUBSET (Task \cup Sessions) : Leave(who)
  <2>1. {t} \in SUBSET (Task \cup Sessions) OBVIOUS
  <2> QED BY <1>5, <2>1 DEF Abandon
<1>6. ASSUME NEW s \in Sessions, Crash(s)
      PROVE \E who \in SUBSET (Task \cup Sessions) : Leave(who)
  <2>1. {s} \cup {t \in Task : Of(t) = s} \in SUBSET (Task \cup Sessions) OBVIOUS
  <2> QED BY <1>6, <2>1 DEF Crash
<1>7. ASSUME NEW v \in wire, Land(v) PROVE \E u \in RefType : u \in Offered /\ Puttable(u) /\ Commit(u)
  BY <1>7 DEF Land, StoreInv, WireInv, TypesInv, Offered
<1>8. CASE Tick BY <1>8 DEF Tick
<1> QED BY <1>2, <1>3, <1>4, <1>5, <1>6, <1>7, <1>8 DEF Next

\* Types of the store.
LEMMA StoreTypes ==
  ASSUME TypesInv, PhaseInv, StoreInv, Next
  PROVE  ref' \in RefType /\ fresh' \subseteq Task \cup Sessions /\ wire' \subseteq RefType
<1>1. ASSUME NEW v \in RefType, Commit(v)
      PROVE  ref' \in RefType /\ fresh' \subseteq Task \cup Sessions /\ wire' \subseteq RefType
  BY <1>1 DEF Commit
<1>2. ASSUME NEW who \in SUBSET (Task \cup Sessions), Leave(who)
      PROVE  ref' \in RefType /\ fresh' \subseteq Task \cup Sessions /\ wire' \subseteq RefType
  <2>1. \A w \in who \cap fresh \cap Putting : Value(w) \in RefType
    BY ValuePuttable
  <2> QED BY <1>2, <2>1 DEF Leave, TypesInv
<1>3. ASSUME NEW w \in Task \cup Sessions, Snapshot(w)
      PROVE  ref' \in RefType /\ fresh' \subseteq Task \cup Sessions /\ wire' \subseteq RefType
  BY <1>3 DEF Snapshot, TypesInv
<1>4. CASE UNCHANGED store BY <1>4 DEF store, TypesInv
<1> QED BY <1>1, <1>2, <1>3, <1>4, StoreSteps DEF Looks

\* The record of one call after a step of that call: a call keeps its job until
\* it returns.
TaskMoves(t) ==
  \/ task' = task
  \/ Return(t)
  \/ \E x \in TaskType : task' = [task EXCEPT ![t] = x] /\ x.job = task[t].job

\* A call that moves keeps the types of all calls.
LEMMA TaskTypes ==
  ASSUME TypesInv, NEW t \in Task, TaskMoves(t), task[t].pc # "idle"
  PROVE  /\ task' \in [Task -> TaskType]
         /\ \A u \in Task : /\ task'[u].job \in Job(u) \cup {None}
                            /\ task'[u].pc # "idle" => task'[u].job \in Job(u)
<1>0. Idle \in TaskType /\ Idle.job = None /\ Idle.pc = "idle" BY DEF Idle, TaskType, Label
<1>1. CASE task' = task BY <1>1 DEF TypesInv
<1>2. CASE Return(t) BY <1>0, <1>2 DEF TypesInv, Return
<1>3. ASSUME NEW x \in TaskType, task' = [task EXCEPT ![t] = x], x.job = task[t].job
      PROVE  /\ task' \in [Task -> TaskType]
             /\ \A u \in Task : /\ task'[u].job \in Job(u) \cup {None}
                                /\ task'[u].pc # "idle" => task'[u].job \in Job(u)
  BY <1>3 DEF TypesInv
<1> QED BY <1>1, <1>2, <1>3 DEF TaskMoves

\* The records a step of a call may produce.
LEMMA Moving ==
  ASSUME TypesInv, NEW t \in Task, NEW pc \in Label, NEW e \in Nat, NEW n \in Nat, NEW r \in Nat
  PROVE  /\ [task[t] EXCEPT !.pc = pc] \in TaskType
         /\ [task[t] EXCEPT !.pc = pc, !.started = n] \in TaskType
         /\ [task[t] EXCEPT !.pc = pc, !.until = n] \in TaskType
         /\ [task[t] EXCEPT !.pc = pc, !.epoch = e] \in TaskType
         /\ [task[t] EXCEPT !.pc = pc, !.epoch = e, !.started = n] \in TaskType
         /\ [task[t] EXCEPT !.pc = pc, !.until = n, !.epoch = e] \in TaskType
         /\ [Idle EXCEPT !.pc = pc, !.job = task[t].job, !.rounds = r] \in TaskType
  BY DEF TypesInv, TaskType, Idle, Label

\* The call's own steps keep its job.
LEMMA ProceedMoves ==
  ASSUME TypesInv, NEW t \in Task, Proceed(t)
  PROVE  TaskMoves(t) /\ task[t].pc # "idle"
<1> USE DEF TaskMoves
<1>a. \A pc \in Label : Goto(t, pc) => TaskMoves(t)
  <2> SUFFICES ASSUME NEW pc \in Label, Goto(t, pc) PROVE TaskMoves(t) OBVIOUS
  <2>1. [task[t] EXCEPT !.pc = pc] \in TaskType BY Moving
  <2>2. [task[t] EXCEPT !.pc = pc].job = task[t].job BY DEF TypesInv, TaskType
  <2> QED BY <2>1, <2>2 DEF Goto
<1>b. \A e \in Nat : Acquired(t, e) => TaskMoves(t)
  <2> SUFFICES ASSUME NEW e \in Nat, Acquired(t, e) PROVE TaskMoves(t) OBVIOUS
  <2> DEFINE x == [task[t] EXCEPT !.pc = "check", !.epoch = e, !.started = 0]
  <2>1. x \in TaskType BY Moving DEF Label
  <2>2. x.job = task[t].job BY DEF TypesInv, TaskType
  <2> HIDE DEF x
  <2> QED BY <2>1, <2>2 DEF Acquired, x
<1>c. Of(t) \in Sessions /\ state[Of(t)].epoch \in Nat /\ ref.epoch \in Nat /\ clock \in Nat
      /\ task[t].epoch \in Nat /\ Now(Of(t)) + TTL \in Nat /\ task[t].rounds + 1 \in Nat
  <2>1. Of(t) \in Sessions BY Constants
  <2>2. /\ state[Of(t)] \in StateType /\ task[t] \in TaskType /\ ref \in RefType /\ clock \in Nat
    BY <2>1 DEF TypesInv
  <2>3. Now(Of(t)) + TTL \in Nat
    <3>1. Skew[Of(t)] \in Nat /\ TTL \in Nat BY <2>1, Constants
    <3> QED BY <2>2, <3>1 DEF Now
  <2>4. task[t].rounds \in Nat /\ task[t].epoch \in Nat BY <2>2 DEF TaskType
  <2> QED BY <2>1, <2>2, <2>3, <2>4 DEF StateType, RefType
<1>1. CASE Look(t) BY <1>1, <1>a DEF Look, Answer, Label
<1>2. CASE Acquire(t)
  <2>1. [task[t] EXCEPT !.pc = "claim", !.started = clock] \in TaskType BY <1>c, Moving DEF Label
  <2>2. [task[t] EXCEPT !.pc = "claim", !.started = clock].job = task[t].job
    BY DEF TypesInv, TaskType
  <2> QED BY <1>2, <1>b, <1>c, <2>1, <2>2 DEF Acquire
<1>3. CASE ClaimRead(t)
  <2> DEFINE x == [task[t] EXCEPT !.pc = "claimed", !.until = Now(Of(t)) + TTL]
  <2>1. x \in TaskType BY <1>c, Moving DEF Label
  <2>2. x.job = task[t].job BY DEF TypesInv, TaskType
  <2> QED BY <1>3, <2>1, <2>2 DEF ClaimRead
<1>4. CASE ClaimPut(t)
  <2> DEFINE x == [task[t] EXCEPT !.pc = "confirm", !.until = 0, !.epoch = ref.epoch + 1]
             y == [task[t] EXCEPT !.pc = "claim", !.until = 0]
  <2>0. ref.epoch + 1 \in Nat /\ 0 \in Nat /\ "claim" \in Label /\ "confirm" \in Label
    BY <1>c DEF Label
  <2>1. x \in TaskType /\ y \in TaskType
    <3>1. x \in TaskType BY <2>0, Moving
    <3>2. y \in TaskType BY <2>0, Moving
    <3> QED BY <3>1, <3>2
  <2>2. x.job = task[t].job /\ y.job = task[t].job BY DEF TypesInv, TaskType
  <2> QED BY <1>4, <2>1, <2>2 DEF ClaimPut
<1>5. CASE Confirm(t)
  <2>1. task[t].epoch \in Nat BY <1>c
  <2> QED BY <1>5, <1>b, <2>1 DEF Confirm
<1>6. CASE GiveUp(t) BY <1>6 DEF GiveUp
<1>7. CASE Check(t)
  <2>1. CASE LoseCall(t) \/ Answer(t) BY <1>7, <2>1 DEF Check, LoseCall, Answer
  <2>2. CASE /\ task' = [task EXCEPT ![t].pc = "issue", ![t].until = ref.lease.until]
             /\ Owns(ref, Of(t), task[t].epoch)
    <3> DEFINE x == [task[t] EXCEPT !.pc = "issue", !.until = ref.lease.until]
    <3>1. ref.lease.until \in Nat BY <2>2 DEF Owns, TypesInv, RefType, Lease
    <3>2. x \in TaskType BY <3>1, Moving DEF Label
    <3>3. x.job = task[t].job BY DEF TypesInv, TaskType
    <3> QED BY <1>7, <2>2, <3>2, <3>3 DEF Check
  <2> QED BY <1>7, <2>1, <2>2 DEF Check
<1>8. CASE Issue(t) BY <1>8, <1>a DEF Issue, LoseCall, Label
<1>9. CASE AppendPut(t)
  <2> DEFINE x == [Idle EXCEPT !.pc = "look", !.job = task[t].job, !.rounds = task[t].rounds + 1]
  <2>1. x \in TaskType BY <1>c, Moving DEF Label
  <2>2. x.job = task[t].job BY DEF Idle
  <2> QED BY <1>9, <2>1, <2>2 DEF AppendPut
<1>10. CASE Interrupted(t) BY <1>10 DEF Interrupted, LoseCall
<1>11. CASE Close(t) BY <1>11, <1>a DEF Close, Label
<1>12. CASE ReleaseRead(t)
  <2> DEFINE x == [task[t] EXCEPT !.pc = "freed", !.epoch = state[Of(t)].epoch]
  <2>1. x \in TaskType BY <1>c, Moving DEF Label
  <2>2. x.job = task[t].job BY DEF TypesInv, TaskType
  <2> QED BY <1>12, <2>1, <2>2 DEF ReleaseRead, Closed
<1>13. CASE ReleasePut(t) BY <1>13, <1>a DEF ReleasePut, Closed, Label
<1> QED BY <1>1, <1>2, <1>3, <1>4, <1>5, <1>6, <1>7, <1>8, <1>9, <1>10, <1>11, <1>12, <1>13
        DEF Proceed

\* Every step keeps the types.
LEMMA TypesStep ==
  ASSUME TypesInv, PhaseInv, StoreInv, Next PROVE TypesInv'
<1> DEFINE SessionTypes ==
             /\ clock' \in Nat /\ state' \in [Sessions -> StateType]
             /\ loss' \in [Sessions -> BOOLEAN] /\ mutex' \in [Sessions -> Task \cup {None}]
             /\ renewer' \in [Sessions -> RenewerType]
           Tasks ==
             /\ task' \in [Task -> TaskType]
             /\ \A u \in Task : /\ task'[u].job \in Job(u) \cup {None}
                                /\ task'[u].pc # "idle" => task'[u].job \in Job(u)
<1>s. ref' \in RefType /\ fresh' \subseteq Task \cup Sessions /\ wire' \subseteq RefType
  BY StoreTypes
<1>e. \A e, u \in Nat : Active(e, u) \in StateType /\ Asleep(e) \in RenewerType
  BY DEF Active, StateType, Asleep, RenewerType
<1>t. /\ At("Lost") \in StateType /\ At("Closed") \in StateType /\ At("Acquiring") \in StateType
      /\ NoRenewer \in RenewerType
  BY DEF At, StateType, NoRenewer, RenewerType
<1>r. ASSUME NEW s \in Sessions PROVE Aborted(s) \in RenewerType
  <2>1. renewer[s] \in RenewerType BY DEF TypesInv
  <2>2. [renewer[s] EXCEPT !.pc = "lastnotify"] \in RenewerType BY <2>1 DEF RenewerType
  <2> QED BY <1>t, <2>2 DEF Aborted
<1>c. ASSUME NEW s \in Sessions, Cancel(s)
      PROVE  loss' \in [Sessions -> BOOLEAN] /\ renewer' \in [Sessions -> RenewerType]
  BY <1>c, <1>r DEF Cancel, TypesInv
<1>l. ASSUME NEW s \in Sessions, Lose(s)
      PROVE  /\ loss' \in [Sessions -> BOOLEAN] /\ renewer' \in [Sessions -> RenewerType]
             /\ state' \in [Sessions -> StateType]
  BY <1>l, <1>c, <1>t DEF Lose, TypesInv
<1>0. ASSUME NEW t \in Task, Proceed(t) PROVE Tasks
  BY <1>0, ProceedMoves, TaskTypes
<1>1. ASSUME NEW t \in Task, Proceed(t) PROVE SessionTypes
  <2> DEFINE s == Of(t)
  <2>1. s \in Sessions BY Constants
  <2> HIDE DEF s
  <2>3. ASSUME UNCHANGED <<clock, session>> PROVE SessionTypes BY <2>3 DEF session, TypesInv
  <2>4. CASE Look(t) BY <2>3, <2>4 DEF Look
  <2>5. CASE Acquire(t)
    <3>1. CASE UNCHANGED <<store, session>> BY <2>3, <2>5, <3>1 DEF Acquire
    <3>2. CASE Lose(s) /\ UNCHANGED mutex BY <1>l, <2>1, <2>5, <3>2 DEF Acquire, TypesInv
    <3>3. CASE /\ mutex' = [mutex EXCEPT ![s] = t] /\ state' = [state EXCEPT ![s] = At("Acquiring")]
               /\ UNCHANGED <<store, loss, renewer>>
      BY <1>t, <2>1, <2>5, <3>3 DEF Acquire, TypesInv
    <3> QED BY <2>5, <3>1, <3>2, <3>3 DEF Acquire, s
  <2>6. CASE ClaimRead(t) \/ ClaimPut(t) BY <2>3, <2>6 DEF ClaimRead, ClaimPut
  <2>7. CASE Confirm(t)
    <3>1. mutex' \in [Sessions -> Task \cup {None}] /\ clock' = clock
      BY <2>1, <2>7 DEF Confirm, Unlocked, TypesInv
    <3>2. CASE UNCHANGED <<state, loss, renewer>> BY <3>1, <3>2 DEF TypesInv
    <3>3. CASE Lose(s) BY <1>l, <2>1, <3>1, <3>3 DEF TypesInv
    <3>4. CASE /\ Owns(ref, s, task[t].epoch)
               /\ state' = [state EXCEPT ![s] = Active(task[t].epoch, ref.lease.until)]
               /\ renewer' = [renewer EXCEPT ![s] = Asleep(task[t].epoch)] /\ UNCHANGED loss
      <4>1. task[t].epoch \in Nat /\ ref.lease.until \in Nat
        BY <3>4 DEF Owns, TypesInv, TaskType, RefType, Lease
      <4> QED BY <1>e, <2>1, <3>1, <3>4, <4>1 DEF TypesInv
    <3> QED BY <2>7, <3>2, <3>3, <3>4 DEF Confirm, s
  <2>8. CASE GiveUp(t) BY <2>1, <2>8 DEF GiveUp, Unlocked, TypesInv, s
  <2>9. CASE Check(t) \/ Issue(t) \/ Interrupted(t)
    <3>1. CASE LoseCall(t) /\ clock' = clock BY <1>l, <2>1, <3>1 DEF LoseCall, TypesInv, s
    <3>2. CASE UNCHANGED <<clock, session>> BY <2>3, <3>2
    <3> QED BY <2>9, <3>1, <3>2 DEF Check, Issue, Interrupted
  <2>10. CASE AppendPut(t) BY <2>3, <2>10 DEF AppendPut
  <2>11. CASE Close(t) BY <1>c, <2>1, <2>11 DEF Close, TypesInv, s
  <2>12. CASE ReleaseRead(t) \/ ReleasePut(t)
    <3>1. UNCHANGED <<clock, loss, mutex, renewer>> BY <2>12 DEF ReleaseRead, ReleasePut
    <3>2. state' \in [Sessions -> StateType]
      BY <1>t, <2>1, <2>12 DEF ReleaseRead, ReleasePut, Closed, TypesInv
    <3> QED BY <3>1, <3>2 DEF TypesInv
  <2> QED BY <1>1, <2>4, <2>5, <2>6, <2>7, <2>8, <2>9, <2>10, <2>11, <2>12 DEF Proceed
<1>2. ASSUME NEW s \in Sessions, Renew(s) \/ RenewFails(s) PROVE SessionTypes /\ Tasks
  <2>1. UNCHANGED <<clock, mutex, task>>
    BY <1>2 DEF Renew, Wake, RenewRead, RenewPut, RenewTimer, Notify, RenewFails
  <2>2. Tasks BY <2>1 DEF TypesInv
  <2>3. renewer[s] \in RenewerType /\ Now(s) + TTL \in Nat
    BY Constants DEF TypesInv, Now
  <2>4. CASE RenewerLoses(s) BY <1>t, <2>1, <2>4 DEF RenewerLoses, TypesInv
  <2>5. CASE UNCHANGED <<state, loss>> /\ \E x \in RenewerType : renewer' = [renewer EXCEPT ![s] = x]
    BY <2>1, <2>5 DEF TypesInv
  <2>6. CASE Wake(s)
    <3>1. [renewer[s] EXCEPT !.pc = "read"] \in RenewerType BY <2>3 DEF RenewerType
    <3> QED BY <1>t, <2>2, <2>4, <2>5, <2>6, <3>1 DEF Wake
  <2>7. CASE RenewRead(s)
    <3>1. [renewer[s] EXCEPT !.pc = "cas", !.until = Now(s) + TTL] \in RenewerType
      BY <2>3 DEF RenewerType
    <3> QED BY <2>2, <2>4, <2>5, <2>7, <3>1 DEF RenewRead
  <2>8. CASE RenewPut(s)
    <3>1. /\ [renewer[s] EXCEPT !.pc = "notify"] \in RenewerType
          /\ [renewer[s] EXCEPT !.pc = "read", !.until = 0] \in RenewerType
      BY <2>3 DEF RenewerType
    <3> QED BY <2>2, <2>5, <2>8, <3>1 DEF RenewPut
  <2>9. CASE Notify(s)
    <3>1. renewer[s].epoch \in Nat /\ renewer[s].until \in Nat BY <2>3 DEF RenewerType
    <3>2. state' \in [Sessions -> StateType] BY <1>e, <2>9, <3>1 DEF Notify, TypesInv
    <3>3. renewer' \in [Sessions -> RenewerType] BY <1>e, <1>t, <2>9, <3>1 DEF Notify, TypesInv
    <3> QED BY <2>1, <2>2, <2>9, <3>2, <3>3 DEF Notify, TypesInv
  <2> QED BY <1>2, <2>2, <2>4, <2>6, <2>7, <2>8, <2>9 DEF Renew, RenewTimer, RenewFails
<1>3. ASSUME NEW t \in Task, NEW j \in Job(t), Start(t, j) PROVE SessionTypes /\ Tasks
  <2>1. UNCHANGED <<clock, session>> BY <1>3 DEF Start
  <2>2. PICK pc \in {"look", "lock", "close"} :
          task' = [task EXCEPT ![t].job = j, ![t].pc = pc]
    BY <1>3, TaskAssumption DEF Start
  <2>3. j \in Jobs BY DEF Jobs
  <2>4. [task[t] EXCEPT !.job = j, !.pc = pc] \in TaskType
    BY <2>3 DEF TypesInv, TaskType, Label
  <2>5. task' \in [Task -> TaskType] BY <2>2, <2>4 DEF TypesInv
  <2>6. \A u \in Task : task'[u] = IF u = t THEN [task[t] EXCEPT !.job = j, !.pc = pc] ELSE task[u]
    BY <2>2 DEF TypesInv
  <2>7. task'[t].job = j BY <2>6 DEF TypesInv, TaskType
  <2> QED BY <2>1, <2>5, <2>6, <2>7 DEF session, TypesInv
<1>4. ASSUME NEW t \in Task, Abandon(t) PROVE SessionTypes /\ Tasks
  <2>1. Of(t) \in Sessions BY Constants
  <2>2. TaskMoves(t) /\ task[t].pc # "idle" BY <1>4 DEF Abandon, Closed, TaskMoves
  <2>3. Tasks BY <2>2, TaskTypes
  <2>4. UNCHANGED <<clock, loss, renewer>> BY <1>4 DEF Abandon
  <2>5. state' \in [Sessions -> StateType] BY <1>4, <1>t, <2>1 DEF Abandon, Closed, TypesInv
  <2>6. mutex' \in [Sessions -> Task \cup {None}] BY <1>4 DEF Abandon, Unlocked, TypesInv
  <2> QED BY <2>3, <2>4, <2>5, <2>6 DEF TypesInv
<1>5. ASSUME NEW s \in Sessions, Crash(s) PROVE SessionTypes /\ Tasks
  <2>1. Idle \in TaskType /\ Idle.job = None /\ Idle.pc = "idle" BY DEF Idle, TaskType, Label
  <2>2. Tasks BY <1>5, <2>1 DEF Crash, TypesInv
  <2>3. SessionTypes BY <1>5, <1>t DEF Crash, Unlocked, TypesInv
  <2> QED BY <2>2, <2>3
<1>6. ASSUME NEW v \in wire, Land(v) PROVE SessionTypes /\ Tasks
  BY <1>6 DEF Land, session, TypesInv
<1>7. CASE Tick
  <2>1. clock' \in Nat BY <1>7 DEF Tick, TypesInv
  <2> QED BY <1>s, <1>7, <2>1 DEF Tick, session, TypesInv
<1> QED BY <1>s, <1>0, <1>1, <1>2, <1>3, <1>4, <1>5, <1>6, <1>7 DEF Next, TypesInv

(***************************************************************************)
(* Phases.                                                                 *)
(***************************************************************************)
\* A step of one call is about that call and its session; the other calls of
\* the session must not mind.
Local(t) ==
  /\ \A u \in Task \ {t} : task'[u] = task[u]
  /\ \A s \in Sessions \ {Of(t)} :
       /\ state'[s] = state[s] /\ mutex'[s] = mutex[s]
       /\ renewer'[s] = renewer[s] /\ loss'[s] = loss[s]

Unminded(t) ==
  \A u \in Task \ {t} : Of(u) = Of(t) =>
    /\ ~Closing(u)
    /\ Claiming(u) => mutex'[Of(t)] = u /\ state'[Of(t)].tag = "Acquiring"
    /\ Appending(u) => state'[Of(t)].tag \in {"Active", "Lost", "Closed"}

\* A step of one call keeps the phases if it keeps its own and its session minds
\* none of the others.
LEMMA PhaseFrame ==
  ASSUME TypesInv, PhaseInv, NEW t \in Task, Local(t), Unminded(t),
         TaskPhase(t)', SessionPhase(Of(t))'
  PROVE  PhaseInv'
<1> USE Constants
<1>1. ASSUME NEW u \in Task, u # t PROVE TaskPhase(u)'
  <2>1. task'[u] = task[u] /\ TaskPhase(u) BY <1>1 DEF Local, PhaseInv
  <2>2. CASE Of(u) = Of(t)
    BY <1>1, <2>1, <2>2 DEF Unminded, TaskPhase, Claiming, Appending, Closing
  <2>3. CASE Of(u) # Of(t)
    <3>1. /\ state'[Of(u)] = state[Of(u)] /\ mutex'[Of(u)] = mutex[Of(u)]
          /\ loss'[Of(u)] = loss[Of(u)]
      BY <2>3 DEF Local
    <3>2. \A v \in Task : Of(v) = Of(u) => task'[v] = task[v] BY <2>3 DEF Local
    <3> QED BY <2>1, <3>1, <3>2 DEF TaskPhase, Claiming, Appending, Closing
  <2> QED BY <2>2, <2>3
<1>2. ASSUME NEW s \in Sessions, s # Of(t) PROVE SessionPhase(s)'
  <2>1. /\ state'[s] = state[s] /\ mutex'[s] = mutex[s] /\ SessionPhase(s)
        /\ renewer'[s] = renewer[s] /\ loss'[s] = loss[s]
    BY <1>2 DEF Local, PhaseInv
  <2>2. mutex[s] # None => mutex[s] \in Task /\ mutex[s] # t
    BY <1>2, <2>1 DEF SessionPhase, TypesInv
  <2>3. mutex[s] # None => task'[mutex[s]] = task[mutex[s]] BY <2>2 DEF Local
  <2> QED BY <2>1, <2>3 DEF SessionPhase, Claiming
<1> QED BY <1>1, <1>2 DEF PhaseInv

\* A call in progress has no closing neighbour, and whoever is claiming has the mutex.
LEMMA Neighbours ==
  ASSUME TypesInv, PhaseInv, NEW t \in Task, task[t].pc # "idle"
  PROVE  /\ \A u \in Task \ {t} : Of(u) = Of(t) => ~Closing(u)
         /\ \A u \in Task \ {t} : Of(u) = Of(t) /\ Claiming(u) =>
              mutex[Of(t)] = u /\ state[Of(t)].tag = "Acquiring" /\ ~Claiming(t)
         /\ \A u \in Task \ {t} : Of(u) = Of(t) /\ Appending(u) =>
              state[Of(t)].tag \in {"Active", "Lost", "Closed"}
         /\ TaskPhase(t) /\ SessionPhase(Of(t))
  BY Constants DEF PhaseInv, TaskPhase

\* A call that moves leaves the other calls alone.
LEMMA Elsewhere ==
  ASSUME TypesInv, NEW t \in Task, TaskMoves(t)
  PROVE  \A u \in Task \ {t} : task'[u] = task[u]
  BY DEF TaskMoves, Return, TypesInv

\* Cancelling the token of one session leaves the others alone.
LEMMA CancelEffect ==
  ASSUME TypesInv, NEW s \in Sessions, Cancel(s)
  PROVE  /\ loss'[s] /\ renewer'[s].pc \in {"none", "lastnotify"}
         /\ renewer[s].pc = "none" => renewer'[s].pc = "none"
         /\ \A r \in Sessions \ {s} : loss'[r] = loss[r] /\ renewer'[r] = renewer[r]
<1>1. Aborted(s).pc \in {"none", "lastnotify"} /\ (renewer[s].pc = "none" => Aborted(s).pc = "none")
  BY DEF Aborted, NoRenewer, TypesInv, RenewerType
<1> QED BY <1>1 DEF Cancel, TypesInv

\* So does losing a session.
LEMMA LoseEffect ==
  ASSUME TypesInv, NEW s \in Sessions, Lose(s)
  PROVE  /\ state'[s] = At("Lost") /\ state'[s].tag = "Lost"
         /\ \A r \in Sessions \ {s} : state'[r] = state[r]
         /\ loss'[s] /\ renewer'[s].pc \in {"none", "lastnotify"}
         /\ \A r \in Sessions \ {s} : loss'[r] = loss[r] /\ renewer'[r] = renewer[r]
  BY CancelEffect DEF Lose, TypesInv, At

\* A step after which the call has returned, or goes on in another place.
LEMMA Went ==
  ASSUME TypesInv, NEW t \in Task
  PROVE  /\ Return(t) => task'[t].pc = "idle"
         /\ \A pc : Goto(t, pc) => task'[t].pc = pc /\ task'[t].job = task[t].job
         /\ \A e : Acquired(t, e) =>
              \/ task'[t].pc = "idle"
              \/ task[t].job.kind = "append" /\ task'[t].pc = "check" /\ task'[t].job = task[t].job
<1>1. Return(t) => task'[t].pc = "idle" BY DEF Return, Idle, TypesInv
<1>2. \A pc : Goto(t, pc) => task'[t].pc = pc /\ task'[t].job = task[t].job
  BY DEF Goto, TypesInv, TaskType
<1>3. ASSUME NEW e, Acquired(t, e), task[t].job.kind = "append"
      PROVE  task'[t].pc = "check" /\ task'[t].job = task[t].job
  BY <1>3 DEF Acquired, TypesInv, TaskType
<1>4. ASSUME NEW e, Acquired(t, e), task[t].job.kind # "append" PROVE task'[t].pc = "idle"
  BY <1>1, <1>4 DEF Acquired
<1> QED BY <1>1, <1>2, <1>3, <1>4

\* A call finds the session lost, or loses it, and returns.
LEMMA LosePhase ==
  ASSUME TypesInv, PhaseInv, NEW t \in Task, Lose(Of(t)), Return(t), UNCHANGED mutex,
         task[t].pc # "idle", state[Of(t)].tag \in {"Active", "Lost", "Closed"}
  PROVE  PhaseInv'
<1> DEFINE s == Of(t)
<1>1. s \in Sessions BY Constants
<1>2. /\ state'[s].tag = "Lost" /\ loss'[s] /\ renewer'[s].pc \in {"none", "lastnotify"}
      /\ \A r \in Sessions \ {s} :
           state'[r] = state[r] /\ loss'[r] = loss[r] /\ renewer'[r] = renewer[r]
      /\ mutex' = mutex /\ task'[t].pc = "idle"
  BY <1>1, LoseEffect, Went
<1>3. Local(t) BY <1>2, Elsewhere DEF Local, TaskMoves
<1>4. ~Claiming(t) BY DEF PhaseInv, TaskPhase
<1>5. Unminded(t) BY <1>2, Neighbours DEF Unminded
<1>6. TaskPhase(t)' BY <1>2 DEF TaskPhase, Claiming, Appending, Closing
<1>7. SessionPhase(s)'
  <2>1. mutex[s] # None => mutex[s] \in Task /\ mutex[s] # t /\ Claiming(mutex[s]) /\ Of(mutex[s]) = s
    BY <1>1, <1>4 DEF PhaseInv, SessionPhase, TypesInv
  <2>2. mutex[s] # None => task'[mutex[s]] = task[mutex[s]] BY <2>1, <1>3 DEF Local
  <2> QED BY <1>2, <2>1, <2>2 DEF SessionPhase, Claiming
<1> QED BY <1>3, <1>5, <1>6, <1>7, PhaseFrame

\* A step of a call that leaves the session as it is.
LEMMA PlainPhase ==
  ASSUME TypesInv, PhaseInv, NEW t \in Task, TaskMoves(t), UNCHANGED session, task[t].pc # "idle",
         Claiming(t)' <=> Claiming(t), Closing(t)' => Closing(t),
         task'[t].pc # "idle" => (Closing(t)' <=> Closing(t)) /\ task'[t].job = task[t].job,
         Appending(t)' => state[Of(t)].tag \in {"Active", "Lost", "Closed"},
         task'[t].pc \in {"closing", "freed"} => loss[Of(t)]
  PROVE  PhaseInv'
<1> USE Constants
<1>1. Local(t) BY Elsewhere DEF Local, session
<1>2. Unminded(t) BY Neighbours DEF Unminded, session
<1>3. TaskPhase(t)'
  <2>1. TaskPhase(t) /\ UNCHANGED session BY DEF PhaseInv
  <2>2. Closing(t)' => \A u \in Task : Of(u) = Of(t) /\ u # t => task'[u].pc = "idle"
    BY <1>1, <2>1 DEF TaskPhase, Local
  <2>3. task'[t].pc # "idle" => (Closing(t)' <=> task'[t].job.kind = "close")
    BY <2>1 DEF TaskPhase
  <2> QED BY <2>1, <2>2, <2>3 DEF TaskPhase, session
<1>4. SessionPhase(Of(t))'
  <2>1. SessionPhase(Of(t)) /\ UNCHANGED session BY DEF PhaseInv
  <2>2. mutex[Of(t)] # None => mutex[Of(t)] \in Task BY DEF TypesInv
  <2>3. mutex[Of(t)] # None => Claiming(mutex[Of(t)]) /\ Of(mutex[Of(t)]) = Of(t)
    BY <2>1 DEF SessionPhase
  <2>4. ASSUME NEW u \in Task, Claiming(u) PROVE Claiming(u)'
    BY <1>1, <2>4 DEF Local, Claiming
  <2> QED BY <2>1, <2>2, <2>3, <2>4 DEF SessionPhase, session
<1> QED BY <1>1, <1>2, <1>3, <1>4, PhaseFrame

\* The call that has the mutex lets go of it.
LEMMA UnlockPhase ==
  ASSUME TypesInv, PhaseInv, NEW t \in Task, Claiming(t), Local(t), mutex'[Of(t)] = None,
         TaskPhase(t)',
         state'[Of(t)].tag \in {"Unacquired", "Acquiring"} => renewer'[Of(t)].pc = "none",
         renewer'[Of(t)].pc = "lastnotify" => loss'[Of(t)]
  PROVE  PhaseInv'
<1>1. state[Of(t)].tag = "Acquiring" /\ task[t].pc # "idle"
  BY DEF PhaseInv, TaskPhase, Claiming
<1>2. Unminded(t) BY <1>1, Neighbours DEF Unminded
<1>3. SessionPhase(Of(t))' BY DEF SessionPhase
<1> QED BY <1>2, <1>3, PhaseFrame

\* close ends: the session is Closed.
LEMMA ClosedPhase ==
  ASSUME TypesInv, PhaseInv, NEW t \in Task, Closing(t), Closed(t), UNCHANGED <<loss, mutex, renewer>>
  PROVE  PhaseInv'
<1> DEFINE s == Of(t)
<1>1. s \in Sessions BY Constants
<1>2. /\ state'[s].tag = "Closed" /\ task'[t].pc = "idle"
      /\ \A r \in Sessions \ {s} : state'[r] = state[r]
  BY <1>1, Went DEF Closed, TypesInv, At
<1>3. Local(t) BY <1>2, Elsewhere DEF Local, TaskMoves, Closed
<1>4. task[t].pc # "idle" /\ ~Claiming(t) BY DEF Closing, Claiming
<1>5. \A u \in Task \ {t} : Of(u) = s => task[u].pc = "idle" BY DEF PhaseInv, TaskPhase
<1>6. Unminded(t) BY <1>5 DEF Unminded, Closing, Claiming, Appending
<1>7. TaskPhase(t)' BY <1>2 DEF TaskPhase, Claiming, Appending, Closing
<1>8. mutex[s] = None
  <2>1. mutex[s] # None => mutex[s] \in Task /\ Of(mutex[s]) = s /\ Claiming(mutex[s])
    BY <1>1 DEF PhaseInv, SessionPhase, TypesInv
  <2> QED BY <1>4, <1>5, <2>1 DEF Claiming
<1>9. SessionPhase(s)' BY <1>1, <1>2, <1>8 DEF SessionPhase, PhaseInv
<1> QED BY <1>3, <1>6, <1>7, <1>9, PhaseFrame

\* A call's own steps keep the phases.
LEMMA ProceedPhase ==
  ASSUME TypesInv, PhaseInv, NEW t \in Task, Proceed(t) PROVE PhaseInv'
<1> DEFINE s == Of(t)
<1>a. s \in Sessions BY Constants
<1>b. TaskMoves(t) /\ task[t].pc # "idle" BY ProceedMoves
<1>c. TaskPhase(t) /\ SessionPhase(s) /\ task[t] \in TaskType BY <1>a DEF PhaseInv, TypesInv
<1> USE DEF Claiming, Appending, Closing
<1>1. CASE Look(t)
  <2>1. task[t].pc = "look" /\ task'[t].pc \in {"idle", "lock"}
        /\ (task'[t].pc # "idle" => task'[t].job = task[t].job) /\ UNCHANGED session
    BY <1>1, Went DEF Look, Answer
  <2> QED BY <1>b, <2>1, PlainPhase
<1>2. CASE Acquire(t)
  <2>0. task[t].pc = "lock" /\ mutex[s] = None BY <1>2 DEF Acquire
  <2>1. CASE state[s].tag = "Active" /\ Acquired(t, state[s].epoch) /\ UNCHANGED session
    <3>1. /\ task'[t].pc \in {"idle", "check"} /\ (task'[t].pc # "idle" => task'[t].job = task[t].job)
      BY <2>1, Went
    <3> QED BY <1>b, <2>0, <2>1, <3>1, PlainPhase
  <2>2. CASE state[s].tag = "Active" /\ Lose(s) /\ Return(t) /\ UNCHANGED mutex
    BY <1>b, <2>2, LosePhase
  <2>3. CASE Return(t) /\ UNCHANGED session
    BY <1>b, <2>0, <2>3, Went, PlainPhase
  <2>4. CASE /\ state[s].tag \in {"Unacquired", "Acquiring"}
             /\ mutex' = [mutex EXCEPT ![s] = t]
             /\ state' = [state EXCEPT ![s] = At("Acquiring")]
             /\ task' = [task EXCEPT ![t].pc = "claim", ![t].started = clock]
             /\ UNCHANGED <<loss, renewer>>
    <3>1. /\ mutex'[s] = t /\ state'[s].tag = "Acquiring"
          /\ \A r \in Sessions \ {s} : mutex'[r] = mutex[r] /\ state'[r] = state[r]
      BY <1>a, <2>4 DEF TypesInv, At
    <3>2. task'[t].pc = "claim" /\ task'[t].job = task[t].job
      BY <1>c, <2>4 DEF TypesInv, TaskType
    <3>3. Local(t) BY <1>b, <2>4, <3>1, Elsewhere DEF Local
    <3>4. t # None /\ task'[t].pc # "idle" BY <3>2, Constants
    <3>5. Unminded(t)
      <4>1. \A u \in Task \ {t} : Of(u) = s => ~Closing(u) /\ ~Claiming(u) /\ ~Appending(u)
        BY <1>b, <2>0, <2>4, Neighbours, Constants
      <4> QED BY <4>1 DEF Unminded
    <3>6. TaskPhase(t)' BY <1>c, <2>0, <3>1, <3>2 DEF TaskPhase
    <3>7. SessionPhase(s)' BY <1>c, <2>4, <3>1, <3>2 DEF SessionPhase
    <3> QED BY <3>3, <3>5, <3>6, <3>7, PhaseFrame
  <2> QED BY <1>2, <2>1, <2>2, <2>3, <2>4 DEF Acquire
<1>3. CASE ClaimRead(t) \/ ClaimPut(t)
  <2>1. Claiming(t) /\ Claiming(t)' /\ UNCHANGED session /\ task'[t].job = task[t].job
    BY <1>c, <1>3 DEF ClaimRead, ClaimPut, TypesInv, TaskType
  <2> QED BY <1>b, <2>1, PlainPhase
<1>4. CASE Confirm(t)
  <2>1. task[t].pc = "confirm" /\ mutex'[s] = None
        /\ \A r \in Sessions \ {s} : mutex'[r] = mutex[r]
    BY <1>a, <1>4 DEF Confirm, Unlocked, TypesInv
  <2>2. state[s].tag = "Acquiring" /\ renewer[s].pc = "none" /\ ~Closing(t)
        /\ task[t].job.kind # "close"
    BY <1>c, <2>1 DEF TaskPhase, SessionPhase
  <2>3. CASE Return(t) /\ UNCHANGED <<state, loss, renewer>>
    <3>1. task'[t].pc = "idle" BY <2>3, Went
    <3>2. Local(t) BY <1>b, <2>1, <2>3, Elsewhere DEF Local
    <3> QED BY <2>1, <2>2, <2>3, <3>1, <3>2, UnlockPhase DEF TaskPhase
  <2>4. CASE Lose(s) /\ Return(t)
    <3>1. /\ task'[t].pc = "idle" /\ state'[s].tag = "Lost" /\ loss'[s]
          /\ \A r \in Sessions \ {s} :
               state'[r] = state[r] /\ loss'[r] = loss[r] /\ renewer'[r] = renewer[r]
      BY <1>a, <2>4, Went, LoseEffect
    <3>2. Local(t) BY <1>b, <2>1, <3>1, Elsewhere DEF Local
    <3> QED BY <2>1, <3>1, <3>2, UnlockPhase DEF TaskPhase
  <2>5. CASE /\ state' = [state EXCEPT ![s] = Active(task[t].epoch, ref.lease.until)]
             /\ renewer' = [renewer EXCEPT ![s] = Asleep(task[t].epoch)]
             /\ Acquired(t, task[t].epoch) /\ UNCHANGED <<loss, store>>
    <3>1. /\ state'[s].tag = "Active" /\ renewer'[s].pc = "sleep" /\ loss' = loss
          /\ \A r \in Sessions \ {s} : state'[r] = state[r] /\ renewer'[r] = renewer[r]
      BY <1>a, <2>5 DEF TypesInv, Active, Asleep
    <3>2. \/ task'[t].pc = "idle"
          \/ task[t].job.kind = "append" /\ task'[t].pc = "check" /\ task'[t].job = task[t].job
      BY <2>5, Went
    <3>3. Local(t) BY <1>b, <2>1, <3>1, Elsewhere DEF Local
    <3>4. TaskPhase(t)' BY <3>1, <3>2 DEF TaskPhase
    <3> QED BY <2>1, <3>1, <3>3, <3>4, UnlockPhase
  <2> QED BY <1>4, <2>3, <2>4, <2>5 DEF Confirm
<1>5. CASE GiveUp(t)
  <2>1. /\ Claiming(t) /\ mutex'[s] = None /\ task'[t].pc = "idle" /\ UNCHANGED <<state, loss, renewer>>
        /\ \A r \in Sessions \ {s} : mutex'[r] = mutex[r]
    BY <1>a, <1>5, Went DEF GiveUp, Unlocked, TypesInv
  <2>2. Local(t) BY <1>b, <2>1, Elsewhere DEF Local
  <2> QED BY <1>c, <2>1, <2>2, UnlockPhase DEF TaskPhase, SessionPhase
<1>6. CASE Check(t) \/ Issue(t) \/ Interrupted(t)
  <2>1. Appending(t) BY <1>6 DEF Check, Issue, Interrupted
  <2>2. state[s].tag \in {"Active", "Lost", "Closed"} BY <1>c, <2>1 DEF TaskPhase
  <2>3. CASE LoseCall(t) BY <1>b, <2>2, <2>3, LosePhase DEF LoseCall
  <2>4. CASE Answer(t) /\ UNCHANGED session BY <1>b, <2>1, <2>4, Went, PlainPhase DEF Answer
  <2>5. CASE Appending(t)' /\ task'[t].job = task[t].job /\ UNCHANGED session
    BY <1>b, <2>1, <2>2, <2>5, PlainPhase
  <2>6. CASE Check(t)
    <3>1. CASE /\ task' = [task EXCEPT ![t].pc = "issue", ![t].until = ref.lease.until]
               /\ UNCHANGED session
      <4>1. Appending(t)' /\ task'[t].job = task[t].job
        BY <1>c, <3>1 DEF TypesInv, TaskType
      <4> QED BY <2>5, <3>1, <4>1
    <3> QED BY <2>3, <2>4, <2>6, <3>1 DEF Check
  <2>7. CASE Issue(t) BY <2>3, <2>5, <2>7, Went DEF Issue
  <2> QED BY <1>6, <2>3, <2>6, <2>7 DEF Interrupted
<1>7. CASE AppendPut(t)
  <2>1. task[t].pc = "sent" /\ UNCHANGED session BY <1>7 DEF AppendPut
  <2>2. task'[t].pc \in {"idle", "look"} /\ (task'[t].pc # "idle" => task'[t].job = task[t].job)
    BY ZenonT(40), <1>7, <1>c, Went DEF AppendPut, TypesInv, Idle
  <2> QED BY <1>b, <2>1, <2>2, PlainPhase
<1>8. CASE Close(t)
  <2>1. /\ task[t].pc = "close" /\ task'[t].pc = "closing" /\ task'[t].job = task[t].job
        /\ UNCHANGED <<state, mutex>>
    BY <1>8, Went DEF Close
  <2>2. /\ loss'[s] /\ (renewer[s].pc = "none" => renewer'[s].pc = "none")
        /\ \A r \in Sessions \ {s} : loss'[r] = loss[r] /\ renewer'[r] = renewer[r]
    BY <1>a, <1>8, CancelEffect DEF Close
  <2>3. Local(t) BY <1>b, <2>1, <2>2, Elsewhere DEF Local
  <2>4. \A u \in Task \ {t} : Of(u) = s => task[u].pc = "idle"
    BY <1>c, <2>1 DEF TaskPhase
  <2>5. Unminded(t) BY <2>4 DEF Unminded
  <2>6. TaskPhase(t)'
    <3>1. \A u \in Task : Of(u) = s /\ u # t => task'[u].pc = "idle" BY <2>3, <2>4 DEF Local
    <3> QED BY <1>c, <2>1, <2>2, <3>1 DEF TaskPhase
  <2>7. SessionPhase(s)'
    <3>1. mutex[s] = None
      <4>1. mutex[s] # None => mutex[s] \in Task /\ Of(mutex[s]) = s /\ Claiming(mutex[s])
        BY <1>a, <1>c DEF SessionPhase, TypesInv
      <4> QED BY <2>1, <2>4, <4>1
    <3> QED BY <1>c, <2>1, <2>2, <3>1 DEF SessionPhase
  <2> QED BY <2>3, <2>5, <2>6, <2>7, PhaseFrame
<1>9. CASE ReleaseRead(t) \/ ReleasePut(t)
  <2>1. task[t].pc \in {"closing", "freed"} /\ loss[s] /\ UNCHANGED <<loss, mutex, renewer>>
    BY <1>9, <1>c DEF ReleaseRead, ReleasePut, TaskPhase
  <2>2. CASE Closed(t) BY <2>1, <2>2, ClosedPhase
  <2>3. CASE task'[t].pc \in {"closing", "freed"} /\ task'[t].job = task[t].job /\ UNCHANGED state
    <3>1. UNCHANGED session BY <2>1, <2>3 DEF session
    <3> QED BY <1>b, <2>1, <2>3, <3>1, PlainPhase
  <2>4. CASE ReleaseRead(t)
    <3>1. CASE /\ task' = [task EXCEPT ![t].pc = "freed", ![t].epoch = state[s].epoch]
               /\ UNCHANGED state
      <4>1. task'[t].pc = "freed" /\ task'[t].job = task[t].job
        BY <1>c, <3>1 DEF TypesInv, TaskType
      <4> QED BY <2>3, <3>1, <4>1
    <3> QED BY <2>2, <2>4, <3>1 DEF ReleaseRead
  <2>5. CASE ReleasePut(t) BY <2>2, <2>3, <2>5, Went DEF ReleasePut
  <2> QED BY <1>9, <2>4, <2>5
<1> QED BY <1>1, <1>2, <1>3, <1>4, <1>5, <1>6, <1>7, <1>8, <1>9 DEF Proceed

\* The renewal task only runs in a session that was acquired.
LEMMA RenewPhase ==
  ASSUME TypesInv, PhaseInv, NEW s \in Sessions, Renew(s) \/ RenewFails(s) PROVE PhaseInv'
<1>1. UNCHANGED <<mutex, task>> /\ renewer[s].pc # "none"
  BY DEF Renew, Wake, RenewRead, RenewPut, RenewTimer, Notify, RenewFails
<1>2. state[s].tag \in {"Active", "Lost", "Closed"}
  BY <1>1 DEF PhaseInv, SessionPhase, TypesInv, StateType
<1>3. CASE RenewerLoses(s)
  <2>1. /\ state'[s].tag = "Lost" /\ loss'[s] /\ renewer'[s].pc = "none"
        /\ \A r \in Sessions \ {s} :
             state'[r] = state[r] /\ loss'[r] = loss[r] /\ renewer'[r] = renewer[r]
    BY <1>3 DEF RenewerLoses, TypesInv, At, NoRenewer
  <2>2. \A r \in Sessions : loss[r] => loss'[r] BY <2>1
  <2>3. ASSUME NEW t \in Task PROVE TaskPhase(t)'
    <3>1. TaskPhase(t) /\ Of(t) \in Sessions BY Constants DEF PhaseInv
    <3> QED BY <1>1, <1>2, <2>1, <2>2, <3>1 DEF TaskPhase, Claiming, Appending, Closing
  <2>4. ASSUME NEW r \in Sessions PROVE SessionPhase(r)'
    BY <1>1, <2>1 DEF PhaseInv, SessionPhase, Claiming
  <2> QED BY <2>3, <2>4 DEF PhaseInv
<1>4. CASE /\ UNCHANGED loss /\ \A r \in Sessions \ {s} : renewer'[r] = renewer[r] /\ state'[r] = state[r]
           /\ state'[s].tag \in {"Active", "Closed", state[s].tag}
           /\ renewer'[s].pc # "lastnotify"
  <2>3. ASSUME NEW t \in Task PROVE TaskPhase(t)'
    <3>1. TaskPhase(t) /\ Of(t) \in Sessions BY Constants DEF PhaseInv
    <3> QED BY <1>1, <1>2, <1>4, <3>1 DEF TaskPhase, Claiming, Appending, Closing
  <2>4. ASSUME NEW r \in Sessions PROVE SessionPhase(r)'
    BY <1>1, <1>2, <1>4 DEF PhaseInv, SessionPhase, Claiming
  <2> QED BY <2>3, <2>4 DEF PhaseInv
<1>5. CASE Wake(s) BY <1>3, <1>4, <1>5 DEF Wake, TypesInv, RenewerType, NoRenewer
<1>6. CASE RenewRead(s) BY <1>3, <1>4, <1>6 DEF RenewRead, TypesInv, RenewerType
<1>7. CASE RenewPut(s) BY <1>4, <1>7 DEF RenewPut, TypesInv, RenewerType
<1>8. CASE Notify(s) BY <1>4, <1>8 DEF Notify, TypesInv, Active, Asleep, NoRenewer
<1> QED BY <1>3, <1>5, <1>6, <1>7, <1>8 DEF Renew, RenewTimer, RenewFails

\* A new call: close waits until nothing else is in progress.
LEMMA StartPhase ==
  ASSUME TypesInv, PhaseInv, NEW t \in Task, NEW j \in Job(t), Start(t, j) PROVE PhaseInv'
<1>1. UNCHANGED session /\ task[t].pc = "idle" BY DEF Start
<1>2. PICK pc \in {"look", "lock", "close"} :
        /\ task' = [task EXCEPT ![t].job = j, ![t].pc = pc]
        /\ pc = "close" <=> j.kind = "close"
  BY TaskAssumption DEF Start
<1>3. task'[t].pc = pc /\ task'[t].job = j /\ (\A u \in Task \ {t} : task'[u] = task[u])
  BY <1>2 DEF TypesInv, TaskType
<1>4. \A u \in Task : Of(u) = Of(t) /\ task[u].pc # "idle" =>
        j.kind # "close" /\ task[u].job.kind # "close"
  BY DEF Start
<1>5. Local(t) BY <1>1, <1>3 DEF Local, session
<1>6. Unminded(t)
  BY <1>1, <1>4 DEF Unminded, PhaseInv, TaskPhase, session, Closing, Claiming, Appending
<1>7. TaskPhase(t)'
  <2>1. ~Claiming(t)' /\ ~Appending(t)' /\ (Closing(t)' <=> pc = "close")
        /\ task'[t].pc \notin {"closing", "freed"}
    BY <1>3 DEF Claiming, Appending, Closing
  <2>2. pc = "close" => \A u \in Task : Of(u) = Of(t) /\ u # t => task'[u].pc = "idle"
    BY <1>2, <1>3, <1>4
  <2> QED BY <1>2, <1>3, <2>1, <2>2 DEF TaskPhase
<1>8. SessionPhase(Of(t))'
  <2>1. SessionPhase(Of(t)) /\ Of(t) \in Sessions BY Constants DEF PhaseInv
  <2>2. mutex[Of(t)] # None => mutex[Of(t)] \in Task \ {t}
    BY <1>1, <2>1 DEF SessionPhase, Claiming, TypesInv
  <2> QED BY <1>1, <1>3, <2>1, <2>2 DEF SessionPhase, Claiming, session
<1> QED BY <1>5, <1>6, <1>7, <1>8, PhaseFrame

\* A call that is given up leaves its session usable.
LEMMA AbandonPhase ==
  ASSUME TypesInv, PhaseInv, NEW t \in Task, Abandon(t) PROVE PhaseInv'
<1> DEFINE s == Of(t)
<1>1. s \in Sessions /\ task[t].pc # "idle" /\ UNCHANGED <<loss, renewer>> BY Constants DEF Abandon
<1>2. TaskPhase(t) /\ SessionPhase(s) BY <1>1 DEF PhaseInv
<1>3. CASE task[t].job.kind = "close"
  <2>1. Closing(t) /\ Closed(t) BY <1>1, <1>2, <1>3 DEF Abandon, TaskPhase
  <2>2. mutex[s] # t BY <1>2, <2>1, Constants DEF SessionPhase, Claiming, Closing
  <2>3. UNCHANGED mutex BY <2>2 DEF Abandon
  <2> QED BY <1>1, <2>1, <2>3, ClosedPhase
<1>4. CASE task[t].job.kind # "close"
  <2>1. Return(t) /\ UNCHANGED state BY <1>4 DEF Abandon
  <2>2. task'[t].pc = "idle" BY <2>1, Went
  <2>3. CASE mutex[s] = t
    <3>1. Claiming(t) /\ state[s].tag = "Acquiring" /\ renewer[s].pc = "none"
      BY <1>2, <2>3, Constants DEF SessionPhase, TaskPhase
    <3>2. mutex'[s] = None /\ \A r \in Sessions \ {s} : mutex'[r] = mutex[r]
      BY <1>1, <2>3 DEF Abandon, Unlocked, TypesInv
    <3>3. Local(t) BY <1>1, <2>1, <3>2, Elsewhere DEF Local, TaskMoves
    <3>4. TaskPhase(t)' BY <2>2 DEF TaskPhase, Claiming, Appending, Closing
    <3> QED BY <1>1, <3>1, <3>2, <3>3, <3>4, UnlockPhase
  <2>4. CASE mutex[s] # t
    <3>1. ~Claiming(t) /\ UNCHANGED session BY <1>1, <1>2, <2>1, <2>4 DEF TaskPhase, Abandon, session
    <3> QED BY <1>1, <2>1, <2>2, <3>1, PlainPhase DEF TaskMoves, Claiming, Closing, Appending
  <2> QED BY <2>3, <2>4
<1> QED BY <1>3, <1>4

\* After a crash nothing of the session is left.
LEMMA CrashPhase ==
  ASSUME TypesInv, PhaseInv, NEW s \in Sessions, Crash(s) PROVE PhaseInv'
<1>1. /\ \A t \in Task : IF Of(t) = s THEN task'[t].pc = "idle" ELSE task'[t] = task[t]
      /\ mutex'[s] = None /\ renewer'[s].pc = "none" /\ state'[s].tag = "Closed" /\ loss' = loss
      /\ \A r \in Sessions \ {s} :
           mutex'[r] = mutex[r] /\ renewer'[r] = renewer[r] /\ state'[r] = state[r]
  BY DEF Crash, Unlocked, NoRenewer, Idle, At, TypesInv
<1>2. ASSUME NEW t \in Task PROVE TaskPhase(t)'
  <2>1. TaskPhase(t) /\ Of(t) \in Sessions BY Constants DEF PhaseInv
  <2>2. CASE Of(t) = s BY <1>1, <2>2 DEF TaskPhase, Claiming, Appending, Closing
  <2>3. CASE Of(t) # s
    <3>1. task'[t] = task[t] /\ \A u \in Task : Of(u) = Of(t) => task'[u] = task[u]
      BY <1>1, <2>3
    <3> QED BY <1>1, <2>1, <2>3, <3>1 DEF TaskPhase, Claiming, Appending, Closing
  <2> QED BY <2>2, <2>3
<1>3. ASSUME NEW r \in Sessions PROVE SessionPhase(r)'
  <2>1. SessionPhase(r) BY DEF PhaseInv
  <2>2. CASE r = s BY <1>1, <2>2 DEF SessionPhase
  <2>3. CASE r # s
    <3>1. mutex[r] # None => mutex[r] \in Task /\ Of(mutex[r]) = r BY <2>1 DEF SessionPhase, TypesInv
    <3> QED BY <1>1, <2>1, <2>3, <3>1 DEF SessionPhase, Claiming
  <2> QED BY <2>2, <2>3
<1> QED BY <1>2, <1>3 DEF PhaseInv

\* Every step keeps the phases.
LEMMA PhaseStep ==
  ASSUME TypesInv, PhaseInv, Next PROVE PhaseInv'
<1>1. ASSUME UNCHANGED session, UNCHANGED task PROVE PhaseInv'
  BY <1>1 DEF PhaseInv, TaskPhase, SessionPhase, Claiming, Appending, Closing, session
<1>2. CASE Tick \/ \E v \in wire : Land(v) BY <1>1, <1>2 DEF Tick, Land
<1> QED BY <1>2, ProceedPhase, RenewPhase, StartPhase, AbandonPhase, CrashPhase DEF Next

(***************************************************************************)
(* What a step does to one call, one renewal task and one session.         *)
(***************************************************************************)
\* Where a call knows something of the ref, or of its claim.
Knowing == {"issue", "sent", "claimed", "confirm", "freed"}

\* A call comes to know something in four actions, or by its claim being
\* confirmed.
LEMMA TaskStep ==
  ASSUME TypesInv, Next, NEW t \in Task
  PROVE  \/ task'[t] = task[t]
         \/ task'[t].pc \notin Knowing
         \/ ClaimRead(t) \/ Check(t) \/ Issue(t) \/ ReleaseRead(t)
         \/ fresh' = {} /\ wire' = {} /\ task'[t].pc = "confirm"
<1> USE DEF Knowing
<1>1. ASSUME Proceed(t) PROVE
         \/ task'[t].pc \notin Knowing
         \/ ClaimRead(t) \/ Check(t) \/ Issue(t) \/ ReleaseRead(t)
         \/ fresh' = {} /\ wire' = {} /\ task'[t].pc = "confirm"
  <2>0. task[t] \in TaskType BY DEF TypesInv
  <2>1. CASE Look(t) BY <2>1, Went DEF Look, Answer
  <2>2. CASE Acquire(t)
    <3>1. CASE \E e : Acquired(t, e) BY <3>1, Went
    <3>2. CASE Return(t) BY <3>2, Went
    <3>3. CASE task' = [task EXCEPT ![t].pc = "claim", ![t].started = clock]
      BY <2>0, <3>3 DEF TypesInv, TaskType
    <3> QED BY <2>2, <3>1, <3>2, <3>3 DEF Acquire
  <2>3. CASE ClaimPut(t) BY <2>0, <2>3 DEF ClaimPut, Commit, TypesInv, TaskType
  <2>4. CASE Confirm(t)
    <3>1. CASE Acquired(t, task[t].epoch) BY <3>1, Went
    <3>2. CASE Return(t) BY <3>2, Went
    <3> QED BY <2>4, <3>1, <3>2 DEF Confirm
  <2>5. CASE GiveUp(t) BY <2>5, Went DEF GiveUp
  <2>6. CASE AppendPut(t)
    <3>1. CASE Return(t) BY <3>1, Went
    <3>2. CASE task' = [task EXCEPT ![t] = [Idle EXCEPT !.pc = "look", !.job = task[t].job,
                                                        !.rounds = task[t].rounds + 1]]
      BY <2>0, <3>2 DEF TypesInv, TaskType, Idle
    <3> QED BY <2>6, <3>1, <3>2 DEF AppendPut
  <2>7. CASE Interrupted(t) BY <2>7, Went DEF Interrupted, LoseCall
  <2>8. CASE Close(t) BY <2>8, Went DEF Close
  <2>9. CASE ReleasePut(t) BY <2>9, Went DEF ReleasePut, Closed
  <2> QED BY <1>1, <2>1, <2>2, <2>3, <2>4, <2>5, <2>6, <2>7, <2>8, <2>9 DEF Proceed
<1>2. ASSUME NEW u \in Task, Proceed(u) \/ Abandon(u), u # t PROVE task'[t] = task[t]
  <2>1. TaskMoves(u) BY <1>2, ProceedMoves DEF Abandon, Closed, TaskMoves
  <2> QED BY <1>2, <2>1, Elsewhere
<1>3. ASSUME Abandon(t) PROVE task'[t].pc \notin Knowing
  BY <1>3, Went DEF Abandon, Closed
<1>4. ASSUME NEW s \in Sessions, Crash(s)
      PROVE  task'[t] = task[t] \/ task'[t].pc \notin Knowing
  BY <1>4 DEF Crash, Idle
<1>5. ASSUME NEW s \in Sessions, Renew(s) \/ RenewFails(s) PROVE task'[t] = task[t]
  BY <1>5 DEF Renew, Wake, RenewRead, RenewPut, RenewTimer, Notify, RenewFails
<1>6. ASSUME NEW u \in Task, NEW j \in Job(u), Start(u, j)
      PROVE  task'[t] = task[t] \/ task'[t].pc \notin Knowing
  <2>1. PICK pc \in {"look", "lock", "close"} : task' = [task EXCEPT ![u].job = j, ![u].pc = pc]
    BY <1>6, TaskAssumption DEF Start
  <2> QED BY <2>1 DEF TypesInv, TaskType
<1>7. CASE Tick \/ \E v \in wire : Land(v) BY <1>7 DEF Tick, Land
<1> QED BY <1>1, <1>2, <1>3, <1>4, <1>5, <1>6, <1>7 DEF Next

\* A renewal task comes to know something when it reads or puts.
LEMMA RenewerStep ==
  ASSUME TypesInv, Next, NEW s \in Sessions
  PROVE  \/ renewer'[s] = renewer[s]
         \/ renewer'[s].pc = "none"
         \/ renewer'[s].pc \in {"lastnotify", "read", "sleep"} /\ renewer[s].pc # "none"
         \/ RenewRead(s) \/ RenewPut(s)
         \/ \E t \in Task : Of(t) = s /\ Confirm(t) /\ renewer'[s].pc = "sleep"
<1>1. ASSUME NEW r \in Sessions, Cancel(r)
      PROVE  \/ renewer'[s] = renewer[s] \/ renewer'[s].pc = "none"
             \/ renewer'[s].pc = "lastnotify" /\ renewer[s].pc # "none"
  BY <1>1, CancelEffect
<1>2. ASSUME NEW t \in Task, Proceed(t)
      PROVE  \/ renewer'[s] = renewer[s] \/ renewer'[s].pc = "none"
             \/ renewer'[s].pc = "lastnotify" /\ renewer[s].pc # "none"
             \/ Of(t) = s /\ Confirm(t) /\ renewer'[s].pc = "sleep"
  <2>1. Of(t) \in Sessions BY Constants
  <2>2. CASE Cancel(Of(t)) BY <1>1, <2>1, <2>2
  <2>3. CASE UNCHANGED renewer BY <2>3
  <2>4. CASE Confirm(t)
    <3>1. CASE renewer' = [renewer EXCEPT ![Of(t)] = Asleep(task[t].epoch)]
      BY <2>1, <2>4, <3>1 DEF Asleep, TypesInv
    <3> QED BY <2>2, <2>3, <2>4, <3>1 DEF Confirm, Lose
  <2> QED BY <1>2, <2>2, <2>3, <2>4 DEF Proceed, Look, Acquire, ClaimRead, ClaimPut, GiveUp, Check,
             Issue, AppendPut, Interrupted, LoseCall, Lose, Close, ReleaseRead, ReleasePut, session
<1>3. ASSUME NEW r \in Sessions, Renew(r) \/ RenewFails(r), r # s PROVE renewer'[s] = renewer[s]
  BY <1>3 DEF Renew, Wake, RenewRead, RenewPut, RenewTimer, Notify, RenewFails, RenewerLoses, TypesInv
<1>4. ASSUME Renew(s) \/ RenewFails(s)
      PROVE  \/ renewer'[s].pc = "none"
             \/ renewer'[s].pc \in {"read", "sleep"} /\ renewer[s].pc # "none"
             \/ RenewRead(s) \/ RenewPut(s)
  BY <1>4 DEF Renew, Wake, RenewTimer, Notify, RenewFails, RenewerLoses, TypesInv, RenewerType,
              NoRenewer, Asleep
<1>5. ASSUME NEW r \in Sessions, Crash(r) PROVE renewer'[s] = renewer[s] \/ renewer'[s].pc = "none"
  BY <1>5 DEF Crash, TypesInv, NoRenewer
<1>6. ASSUME NEW t \in Task, Abandon(t) \/ \E j \in Job(t) : Start(t, j) PROVE renewer' = renewer
  BY <1>6 DEF Abandon, Start, session
<1>7. CASE Tick \/ \E v \in wire : Land(v) BY <1>7 DEF Tick, Land, session
<1> QED BY <1>2, <1>3, <1>4, <1>5, <1>6, <1>7 DEF Next

\* A session becomes Active when its claim is confirmed or its lease is renewed.
LEMMA StateStep ==
  ASSUME TypesInv, Next, NEW s \in Sessions
  PROVE  \/ state'[s] = state[s]
         \/ state'[s].tag # "Active"
         \/ Notify(s) \/ \E t \in Task : Of(t) = s /\ Confirm(t)
<1>1. ASSUME NEW r \in Sessions, Lose(r)
      PROVE  state'[s] = state[s] \/ state'[s].tag # "Active"
  BY <1>1, LoseEffect
<1>2. ASSUME NEW t \in Task, Proceed(t)
      PROVE  \/ state'[s] = state[s] \/ state'[s].tag # "Active"
             \/ Of(t) = s /\ Confirm(t)
  <2>1. Of(t) \in Sessions BY Constants
  <2>2. CASE Lose(Of(t)) BY <1>1, <2>1, <2>2
  <2>3. CASE UNCHANGED state BY <2>3
  <2>4. CASE Closed(t) BY <2>1, <2>4 DEF Closed, TypesInv, At
  <2>5. CASE state' = [state EXCEPT ![Of(t)] = At("Acquiring")] BY <2>1, <2>5 DEF TypesInv, At
  <2>6. CASE Confirm(t) /\ Of(t) # s
    BY <2>1, <2>2, <2>3, <2>6 DEF Confirm, TypesInv
  <2> QED BY <1>2, <2>2, <2>3, <2>4, <2>5, <2>6 DEF Proceed, Look, Acquire, ClaimRead, ClaimPut,
             GiveUp, Check, Issue, AppendPut, Interrupted, LoseCall, Close, ReleaseRead, ReleasePut,
             session
<1>3. ASSUME NEW r \in Sessions, Renew(r) \/ RenewFails(r)
      PROVE  state'[s] = state[s] \/ state'[s].tag # "Active" \/ Notify(s)
  BY <1>3 DEF Renew, Wake, RenewRead, RenewPut, RenewTimer, Notify, RenewFails, RenewerLoses,
              TypesInv, At
<1>4. ASSUME NEW r \in Sessions, Crash(r) PROVE state'[s] = state[s] \/ state'[s].tag # "Active"
  BY <1>4 DEF Crash, TypesInv, At
<1>5. ASSUME NEW t \in Task, Abandon(t) PROVE state'[s] = state[s] \/ state'[s].tag # "Active"
  <2>1. Of(t) \in Sessions BY Constants
  <2> QED BY <1>5, <2>1 DEF Abandon, Closed, TypesInv, At
<1>6. ASSUME NEW t \in Task, NEW j \in Job(t), Start(t, j) PROVE state' = state
  BY <1>6 DEF Start, session
<1>7. CASE Tick \/ \E v \in wire : Land(v) BY <1>7 DEF Tick, Land, session
<1> QED BY <1>2, <1>3, <1>4, <1>5, <1>6, <1>7 DEF Next

\* Time passes, and a cancelled token stays cancelled.
LEMMA Monotone ==
  ASSUME TypesInv, Next
  PROVE  /\ clock \in Nat /\ clock' \in Nat /\ clock <= clock'
         /\ \A s \in Sessions : loss[s] => loss'[s]
<1>1. ASSUME NEW r \in Sessions, Cancel(r) PROVE \A s \in Sessions : loss[s] => loss'[s]
  BY <1>1, CancelEffect
<1>2. ASSUME NEW t \in Task, Proceed(t)
      PROVE  clock' = clock /\ \A s \in Sessions : loss[s] => loss'[s]
  <2>1. clock' = clock
    BY <1>2 DEF Proceed, Look, Acquire, ClaimRead, ClaimPut, Confirm, GiveUp, Check, Issue, AppendPut,
                Interrupted, Close, ReleaseRead, ReleasePut
  <2>2. CASE UNCHANGED loss BY <2>1, <2>2
  <2>3. CASE Cancel(Of(t)) BY <1>1, <2>1, <2>3, Constants
  <2> QED BY <1>2, <2>2, <2>3 DEF Proceed, Look, Acquire, ClaimRead, ClaimPut, Confirm, GiveUp,
             Check, Issue, AppendPut, Interrupted, LoseCall, Lose, Close, ReleaseRead, ReleasePut, session
<1>3. ASSUME NEW r \in Sessions, Renew(r) \/ RenewFails(r) \/ Crash(r)
      PROVE  clock' = clock /\ \A s \in Sessions : loss[s] => loss'[s]
  BY <1>3 DEF Renew, Wake, RenewRead, RenewPut, RenewTimer, Notify, RenewFails, RenewerLoses, Crash,
              TypesInv
<1>4. ASSUME NEW t \in Task, Abandon(t) \/ \E j \in Job(t) : Start(t, j)
      PROVE  clock' = clock /\ loss' = loss
  BY <1>4 DEF Abandon, Start, session
<1>5. ASSUME NEW v \in wire, Land(v) PROVE clock' = clock /\ loss' = loss
  BY <1>5 DEF Land, session
<1>6. CASE Tick BY <1>6 DEF Tick, session, TypesInv
<1>7. clock \in Nat BY DEF TypesInv
<1> QED BY <1>2, <1>3, <1>4, <1>5, <1>6, <1>7 DEF Next

\* While a claim is under way its session goes on believing nothing.
LEMMA UnsureStep ==
  ASSUME TypesInv, PhaseInv, Next, NEW s \in Sessions, Unsure(s), wire' # {}
  PROVE  Unsure(s)'
<1>1. ASSUME NEW t \in Task, Of(t) = s, Confirm(t) PROVE FALSE
  BY <1>1 DEF Unsure, Confirm
<1>2. state'[s].tag # "Active"
  <2>1. ~Notify(s) BY DEF Unsure, Notify
  <2> QED BY <1>1, <2>1, StateStep DEF Unsure
<1>3. renewer'[s].pc = "none" BY <1>1, RenewerStep DEF Unsure, RenewRead, RenewPut
<1>4. ASSUME NEW t \in Task, Of(t) = s PROVE task'[t].pc # "confirm"
  <2>1. task[t] \in TaskType /\ task[t].pc # "confirm" BY <1>4 DEF TypesInv, Unsure
  <2>2. CASE ClaimRead(t) BY <2>1, <2>2 DEF ClaimRead, TypesInv, TaskType
  <2>3. CASE Check(t)
    <3>1. CASE Return(t) BY <3>1, Went
    <3>2. CASE task' = [task EXCEPT ![t].pc = "issue", ![t].until = ref.lease.until]
      BY <2>1, <3>2 DEF TypesInv, TaskType
    <3> QED BY <2>3, <3>1, <3>2 DEF Check, LoseCall, Answer
  <2>4. CASE Issue(t) BY <2>4, Went DEF Issue, LoseCall
  <2>5. CASE ReleaseRead(t)
    <3>1. CASE task' = [task EXCEPT ![t].pc = "freed", ![t].epoch = state[Of(t)].epoch]
      BY <2>1, <3>1 DEF TypesInv, TaskType
    <3> QED BY <2>5, <3>1, Went DEF ReleaseRead, Closed
  <2> QED BY <2>1, <2>2, <2>3, <2>4, <2>5, TaskStep DEF Knowing
<1> QED BY <1>2, <1>3, <1>4 DEF Unsure

(***************************************************************************)
(* The store.                                                              *)
(***************************************************************************)
\* A key that is not in the log yet can be appended once.
LEMMA KeyOnceStep ==
  ASSUME TypesInv, KeyOnce, NEW v \in RefType, Puttable(v), Commit(v) PROVE KeyOnce'
<1>1. ref' = v BY DEF Commit
<1>2. CASE v.log = ref.log BY <1>1, <1>2 DEF KeyOnce
<1>3. ASSUME NEW e, v.log = Append(ref.log, e), ~Holds(e.key), e \in EntryType PROVE KeyOnce'
  <2>1. ref.log \in Seq(EntryType) BY DEF TypesInv, RefType
  <2>2. /\ DOMAIN v.log = 1..(Len(ref.log) + 1) /\ DOMAIN ref.log = 1..Len(ref.log)
        /\ Len(ref.log) \in Nat
        /\ \A i \in 1..Len(ref.log) : v.log[i] = ref.log[i]
        /\ v.log[Len(ref.log) + 1] = e
    BY <1>3, <2>1
  <2>3. \A i \in 1..Len(ref.log) : v.log[i].key # e.key BY <1>3, <2>2 DEF Holds
  <2>4. \A i, j \in 1..Len(ref.log) : v.log[i].key = v.log[j].key => i = j
    BY <2>2 DEF KeyOnce
  <2>5. \A i, j \in DOMAIN v.log : v.log[i].key = v.log[j].key => i = j
    <3> SUFFICES ASSUME NEW i \in DOMAIN v.log, NEW j \in DOMAIN v.log, v.log[i].key = v.log[j].key
                 PROVE  i = j
      OBVIOUS
    <3>1. i \in 1..Len(ref.log) \/ i = Len(ref.log) + 1 BY <2>2
    <3>2. j \in 1..Len(ref.log) \/ j = Len(ref.log) + 1 BY <2>2
    <3>3. CASE i \in 1..Len(ref.log) /\ j \in 1..Len(ref.log) BY <2>4, <3>3
    <3>4. CASE i \in 1..Len(ref.log) /\ j = Len(ref.log) + 1
      <4>1. v.log[i].key # e.key /\ v.log[j] = e BY <2>2, <2>3, <3>4
      <4> QED BY <4>1
    <3>5. CASE i = Len(ref.log) + 1 /\ j \in 1..Len(ref.log)
      <4>1. v.log[j].key # e.key /\ v.log[i] = e BY <2>2, <2>3, <3>5
      <4> QED BY <4>1
    <3> QED BY <3>1, <3>2, <3>3, <3>4, <3>5
  <2> QED BY <1>1, <2>5 DEF KeyOnce
<1>4. Len(v.log) > 0 => Newest(v) \in EntryType BY DEF Newest, RefType
<1> QED BY <1>2, <1>3, <1>4 DEF Puttable, Takes, Keeps, Frees, Adds

\* A deadline stays within its bounds as time passes.
LEMMA InTimeLater ==
  ASSUME TypesInv, Next, NEW s \in Sessions, NEW u \in Nat, InTime(s, u)
  PROVE  TTL <= u /\ u <= clock' + Skew[s] + TTL
  BY Monotone, Constants DEF InTime, Now

\* Deadlines stay within the time to live as time passes.
LEMMA DatedStep ==
  ASSUME TypesInv, PhaseInv, StoreInv, Next, ref'.lease # None PROVE Dated(ref.lease)'
<1>0. ref' \in RefType BY StoreTypes
<1>1. ref'.lease \in Lease /\ ref'.lease.until \in Nat /\ ref'.lease.writer \in Sessions
  BY <1>0 DEF RefType, Lease, Sessions
<1>2. Dated(ref'.lease)
  <2>1. ASSUME NEW v \in RefType, Puttable(v), Commit(v) PROVE Dated(ref'.lease)
    <3>1. ref' = v BY <2>1 DEF Commit
    <3> QED BY <2>1, <3>1 DEF Puttable, Takes, Keeps, Frees, Adds, StoreInv, LeaseInv
  <2>2. CASE ref' = ref BY <2>2 DEF StoreInv, LeaseInv
  <2> QED BY <2>1, <2>2, StoreSteps DEF Leave, Looks, Snapshot, store
<1>3. InTime(ref'.lease.writer, ref'.lease.until) BY <1>2 DEF Dated
<1>4. TTL <= ref'.lease.until /\ ref'.lease.until <= clock' + Skew[ref'.lease.writer] + TTL
  BY <1>1, <1>3, InTimeLater
<1> QED BY <1>4 DEF Dated, InTime, Now

\* What was put stays fit to be put as long as the ref stays as it is.
LEMMA WireStep ==
  ASSUME TypesInv, PhaseInv, StoreInv, Next, NEW v \in wire' PROVE Puttable(v)'
<1>0. wire' # {} /\ wire' \subseteq RefType BY StoreTypes
<1>1. v \in RefType BY <1>0
<1>2. ref' = ref /\ Puttable(v)
  <2>1. CASE \E u \in RefType : Commit(u) BY <2>1 DEF Commit
  <2>2. ASSUME NEW who \in SUBSET (Task \cup Sessions), Leave(who) PROVE ref' = ref /\ Puttable(v)
    BY <2>2, ValuePuttable DEF Leave, StoreInv, WireInv
  <2>3. CASE UNCHANGED <<ref, wire>> BY <2>3 DEF StoreInv, WireInv
  <2> QED BY <2>1, <2>2, <2>3, StoreSteps DEF Looks, Snapshot, store
<1>3. ASSUME NEW s \in Sessions, Unsure(s) PROVE Unsure(s)'
  BY <1>0, <1>3, UnsureStep
<1>4. ASSUME NEW lease \in Lease, Dated(lease) PROVE Dated(lease)'
  <2>1. lease.writer \in Sessions /\ lease.until \in Nat BY DEF Lease, Sessions
  <2>2. TTL <= lease.until /\ lease.until <= clock' + Skew[lease.writer] + TTL
    BY <1>4, <2>1, InTimeLater DEF Dated
  <2> QED BY <2>2 DEF Dated, InTime, Now
<1>5. ASSUME NEW s \in Sessions, Takeable(s) PROVE Takeable(s)'
  <2>1. CASE ref.lease = None \/ ref.lease.writer = s BY <1>2, <2>1 DEF Takeable
  <2>2. CASE ref.lease \in Lease /\ ref.lease.until <= Now(s)
    <3>1. ref.lease.until \in Nat BY <2>2 DEF Lease
    <3>2. ref.lease.until <= clock' + Skew[s] BY <2>2, <3>1, Monotone, Constants DEF Now
    <3> QED BY <1>2, <3>2 DEF Takeable, Now
  <2> QED BY <1>5, <2>1, <2>2 DEF Takeable, TypesInv, RefType
<1>6. v.lease # None => v.lease \in Lease /\ v.lease.writer \in Sessions
  BY <1>1 DEF RefType, Lease, Sessions
<1>7. CASE Takes(v)
  <2>1. Dated(v.lease)' /\ Takeable(v.lease.writer)' /\ Unsure(v.lease.writer)'
    BY <1>3, <1>4, <1>5, <1>6, <1>7 DEF Takes
  <2> QED BY <1>2, <1>7, <2>1 DEF Takes, Puttable
<1>8. CASE Keeps(v)
  <2>1. Dated(v.lease)' BY <1>4, <1>6, <1>8 DEF Keeps
  <2> QED BY <1>2, <1>8, <2>1 DEF Keeps, Puttable
<1>9. CASE Frees(v)
  <2>1. ref.lease.writer \in Sessions BY <1>9 DEF Frees, TypesInv, RefType, Lease, Sessions
  <2> QED BY <1>2, <1>9, <2>1, Monotone DEF Frees, Puttable
<1>10. CASE Len(v.log) > 0 /\ Adds(v, Newest(v))
  BY <1>2, <1>10 DEF Adds, Holds, Newest, Puttable
<1> QED BY <1>2, <1>7, <1>8, <1>9, <1>10 DEF Puttable

\* What a fresh snapshot tells a call.
LEMMA KnowsStep ==
  ASSUME TypesInv, PhaseInv, StoreInv, Next, NEW t \in Task, t \in fresh'
  PROVE  TaskKnows(t)'
<1> DEFINE s == Of(t)
<1>a. s \in Sessions /\ task[t] \in TaskType /\ TaskPhase(t) BY Constants DEF TypesInv, PhaseInv
<1>b. /\ ref' = ref
      /\ fresh' \subseteq fresh \/ (\E w \in Task \cup Sessions : Looks(w))
  BY StoreSteps DEF Commit, Leave, Looks, Snapshot, store
<1>c. clock \in Nat /\ clock <= clock' /\ clock' \in Nat BY Monotone
<1>d. ASSUME Takeable(s) PROVE Takeable(s)'
  <2>1. CASE ref.lease = None \/ ref.lease.writer = s BY <1>b, <2>1 DEF Takeable
  <2>2. CASE ref.lease \in Lease /\ ref.lease.until <= Now(s)
    <3>1. ref.lease.until \in Nat BY <2>2 DEF Lease
    <3>2. ref.lease.until <= clock' + Skew[s] BY <1>a, <1>c, <2>2, <3>1, Constants DEF Now
    <3> QED BY <1>b, <3>2 DEF Takeable, Now
  <2> QED BY <1>d, <2>1, <2>2 DEF Takeable, TypesInv, RefType
<1>1. CASE task'[t].pc \notin {"issue", "sent", "claimed", "freed"} BY <1>1 DEF TaskKnows
<1>2. CASE ClaimRead(t)
  <2>1. Takeable(s)
    <3>1. ~(LeaseLive(ref, Now(s)) /\ ref.lease.writer # s)
      BY <1>2 DEF ClaimRead, Admitted, Verdict, Claim, ClaimRefusal
    <3>2. ref.lease # None => ref.lease.until \in Nat BY DEF TypesInv, RefType, Lease
    <3>3. Now(s) \in Nat BY <1>a, <1>c, Constants DEF Now
    <3> QED BY <3>1, <3>2, <3>3 DEF LeaseLive, Takeable
  <2>2. task'[t].pc = "claimed" BY <1>a, <1>2 DEF ClaimRead, TypesInv, TaskType
  <2> QED BY <1>d, <2>1, <2>2 DEF TaskKnows
<1>3. CASE Check(t)
  <2>1. CASE Return(t) BY <1>1, <2>1, Went
  <2>2. CASE /\ Owns(ref, s, task[t].epoch) /\ ~Holds(task[t].job.key)
             /\ task' = [task EXCEPT ![t].pc = "issue", ![t].until = ref.lease.until]
    <3>1. task'[t].pc = "issue" /\ task'[t].job = task[t].job
      BY <1>a, <2>2 DEF TypesInv, TaskType
    <3> QED BY <1>b, <2>2, <3>1 DEF TaskKnows, Owns, Holds
  <2> QED BY <1>3, <2>1, <2>2 DEF Check, LoseCall, Answer
<1>4. CASE ReleaseRead(t)
  <2>1. CASE Return(t) BY <1>1, <2>1, Went
  <2>2. CASE /\ Admitted(Release(s, state[s].epoch), ref, Now(s))
             /\ task' = [task EXCEPT ![t].pc = "freed", ![t].epoch = state[s].epoch]
    <3>1. task'[t].pc = "freed" BY <1>a, <2>2 DEF TypesInv, TaskType
    <3>2. ref.lease # None /\ ref.lease.writer = s
      <4>1. ReleaseRefusal(Release(s, state[s].epoch), ref) = "Admitted"
        BY <2>2 DEF Admitted, Verdict, Release
      <4> QED BY <1>a, <4>1, Constants DEF ReleaseRefusal, Release
    <3> QED BY <1>b, <3>1, <3>2 DEF TaskKnows
  <2> QED BY <1>4, <2>1, <2>2 DEF ReleaseRead, Closed
<1>5. CASE Issue(t)
  <2>1. CASE Return(t) BY <1>1, <2>1, Went
  <2>2. CASE Goto(t, "sent") /\ UNCHANGED store
    <3>1. task'[t].pc = "sent" /\ task'[t].job = task[t].job BY <2>2, Went
    <3>2. t \in fresh /\ task[t].pc = "issue" BY <1>5, <2>2 DEF Issue, store
    <3> QED BY <1>b, <3>1, <3>2 DEF TaskKnows, StoreInv, CallInv, Holds
  <2> QED BY <1>5, <2>1, <2>2 DEF Issue, LoseCall
<1>6. CASE task'[t] = task[t]
  <2>1. CASE t \in fresh
    <3>1. TaskKnows(t) BY <2>1 DEF StoreInv, CallInv
    <3> QED BY <1>b, <1>d, <1>6, <3>1 DEF TaskKnows, Holds
  <2>2. CASE t \notin fresh
    <3>1. Looks(t) BY <1>b, <2>2 DEF Looks, Snapshot
    <3>2. ClaimRead(t) \/ Check(t) \/ ReleaseRead(t) BY <3>1, Constants DEF Looks
    <3> QED BY <1>2, <1>3, <1>4, <3>2
  <2> QED BY <2>1, <2>2
<1> QED BY <1>1, <1>2, <1>3, <1>4, <1>5, <1>6, TaskStep DEF Knowing

\* What a fresh snapshot tells a renewal task.
LEMMA RenewerKnowsStep ==
  ASSUME TypesInv, PhaseInv, StoreInv, Next, NEW s \in Sessions
  PROVE  /\ s \in fresh' => RenewerKnows(s)'
         /\ renewer'[s].pc = "cas" => InTime(s, renewer[s].until)'
<1>a. renewer[s] \in RenewerType /\ clock \in Nat /\ Skew[s] \in Nat /\ TTL \in Nat
  BY Constants DEF TypesInv
<1>1. CASE renewer'[s].pc # "cas" BY <1>1 DEF RenewerKnows
<1>2. CASE RenewRead(s)
  <2>1. CASE RenewerLoses(s) BY <1>1, <2>1 DEF RenewerLoses, TypesInv, NoRenewer
  <2>2. CASE /\ Owns(ref, s, renewer[s].epoch) /\ Snapshot(s)
             /\ renewer' = [renewer EXCEPT ![s].pc = "cas", ![s].until = Now(s) + TTL]
    <3>1. renewer'[s].epoch = renewer[s].epoch /\ renewer'[s].until = Now(s) + TTL
      BY <1>a, <2>2 DEF TypesInv, RenewerType
    <3>2. ref' = ref /\ clock' = clock BY <1>2, <2>2 DEF Snapshot, RenewRead
    <3>3. ref.lease.until <= Now(s) + TTL BY <2>2 DEF StoreInv, LeaseInv, Dated, InTime, Owns
    <3>4. RenewerKnows(s)' BY <2>2, <3>1, <3>2, <3>3 DEF RenewerKnows, Owns
    <3>5. TTL <= Now(s) + TTL /\ Now(s) + TTL <= Now(s) + TTL BY <1>a DEF Now
    <3>6. InTime(s, renewer[s].until)' BY <3>1, <3>2, <3>5 DEF InTime, Now
    <3> QED BY <3>4, <3>6
  <2> QED BY <1>2, <2>1, <2>2 DEF RenewRead
<1>3. CASE RenewPut(s)
  <2>1. renewer'[s].pc # "cas" BY <1>a, <1>3 DEF RenewPut, TypesInv, RenewerType
  <2> QED BY <1>1, <2>1
<1>4. CASE renewer'[s] = renewer[s] /\ renewer[s].pc = "cas"
  <2>1. InTime(s, renewer[s].until) BY <1>4 DEF StoreInv, RenewalInv
  <2>2. renewer[s].until \in Nat BY <1>a DEF RenewerType
  <2>3. InTime(s, renewer[s].until)'
    <3>1. TTL <= renewer[s].until /\ renewer[s].until <= clock' + Skew[s] + TTL
      BY <2>1, <2>2, InTimeLater
    <3> QED BY <1>4, <3>1 DEF InTime, Now
  <2>4. ASSUME s \in fresh' PROVE RenewerKnows(s)'
    <3>1. ref' = ref /\ s \in fresh
      <4>1. ~RenewRead(s) BY <1>4 DEF RenewRead
      <4>2. ref' = ref /\ (fresh' \subseteq fresh \/ (\E w \in Task \cup Sessions : Looks(w)))
        BY <2>4, StoreSteps DEF Commit, Leave, Looks, Snapshot, store
      <4>3. \A w \in Task \cup Sessions : Looks(w) /\ s \notin fresh => w = s
        BY <2>4 DEF Looks, Snapshot
      <4>4. ~Looks(s) BY <4>1, Constants DEF Looks
      <4> QED BY <2>4, <4>2, <4>3, <4>4
    <3> QED BY <1>4, <3>1 DEF StoreInv, RenewalInv, RenewerKnows, Owns
  <2> QED BY <2>3, <2>4
<1> QED BY <1>1, <1>2, <1>3, <1>4, RenewerStep

\* The deadline of a claim is one that the session has just computed.
LEMMA ClaimStep ==
  ASSUME TypesInv, Next, StoreInv, NEW t \in Task, task'[t].pc = "claimed"
  PROVE  InTime(Of(t), task[t].until)'
<1>a. /\ task[t] \in TaskType /\ Of(t) \in Sessions /\ clock \in Nat
      /\ Skew[Of(t)] \in Nat /\ TTL \in Nat
  BY Constants DEF TypesInv
<1>1. CASE ClaimRead(t)
  <2>1. task'[t].until = Now(Of(t)) + TTL /\ clock' = clock
    BY <1>a, <1>1 DEF ClaimRead, TypesInv, TaskType
  <2>2. TTL <= Now(Of(t)) + TTL /\ Now(Of(t)) + TTL <= Now(Of(t)) + TTL BY <1>a DEF Now
  <2> QED BY <2>1, <2>2 DEF InTime, Now
<1>2. CASE task'[t] = task[t]
  <2>1. InTime(Of(t), task[t].until) /\ task[t].until \in Nat BY <1>a, <1>2 DEF StoreInv, CallInv, TaskType
  <2>2. TTL <= task[t].until /\ task[t].until <= clock' + Skew[Of(t)] + TTL
    BY <1>a, <2>1, InTimeLater
  <2> QED BY <1>2, <2>2 DEF InTime, Now
<1>3. CASE Check(t) \/ Issue(t) \/ ReleaseRead(t)
  <2>1. CASE Return(t) BY <2>1, Went
  <2>2. CASE Goto(t, "sent") BY <2>2, Went
  <2>3. CASE task' = [task EXCEPT ![t].pc = "issue", ![t].until = ref.lease.until]
    BY <1>a, <2>3 DEF TypesInv, TaskType
  <2>4. CASE task' = [task EXCEPT ![t].pc = "freed", ![t].epoch = state[Of(t)].epoch]
    BY <1>a, <2>4 DEF TypesInv, TaskType
  <2> QED BY <1>3, <2>1, <2>2, <2>3, <2>4 DEF Check, Issue, ReleaseRead, LoseCall, Answer, Closed
<1> QED BY <1>1, <1>2, <1>3, TaskStep DEF Knowing

\* Every step keeps what is known of the store.
LEMMA StoreStep ==
  ASSUME TypesInv, PhaseInv, StoreInv, Next PROVE StoreInv'
<1>1. KeyOnce'
  <2>1. KeyOnce BY DEF StoreInv
  <2>2. CASE \E v \in RefType : Puttable(v) /\ Commit(v) BY <2>1, <2>2, KeyOnceStep
  <2>3. CASE ref' = ref BY <2>1, <2>3 DEF KeyOnce
  <2> QED BY <2>2, <2>3, StoreSteps DEF Leave, Looks, Snapshot, store
<1>2. LeaseInv' BY DatedStep DEF LeaseInv
<1>3. WireInv' BY WireStep DEF WireInv
<1>4. ASSUME NEW t \in Task PROVE CallInv(t)' BY <1>4, KnowsStep, ClaimStep DEF CallInv
<1>5. ASSUME NEW s \in Sessions PROVE RenewalInv(s)' BY <1>5, RenewerKnowsStep DEF RenewalInv
<1> QED BY <1>1, <1>2, <1>3, <1>4, <1>5 DEF StoreInv

(***************************************************************************)
(* What sessions believe.                                                  *)
(***************************************************************************)
\* A belief stays justified: no put that is on its way can deceive a session
\* that is not lost.
LEMMA JustifiedStep ==
  ASSUME TypesInv, PhaseInv, StoreInv, Next, NEW s \in Sessions, NEW e \in Nat, NEW u \in Nat,
         ~loss[s], ~Unsure(s), Justified(s, e, u)
  PROVE  Justified(s, e, u)'
<1>a. clock \in Nat /\ Slack \in Nat /\ ref.epoch \in Nat
  BY Constants DEF TypesInv, RefType
<1>b. u <= clock + Slack => u <= clock' + Slack
  <2>1. clock' \in Nat /\ clock <= clock' BY Monotone
  <2>2. \A c, d \in Nat : c <= d /\ u <= c + Slack => u <= d + Slack BY <1>a
  <2> QED BY <1>a, <2>1, <2>2
<1>1. CASE ref' = ref
  BY <1>b, <1>1 DEF Justified, Owns
<1>2. ASSUME NEW v \in RefType, Puttable(v), Commit(v) PROVE Justified(s, e, u)'
  <2>1. ref' = v /\ v.epoch \in Nat BY <1>2 DEF Commit, RefType
  <2>2. CASE Takes(v)
    <3>1. v.epoch = ref.epoch + 1 /\ v.lease.writer \in Sessions
      BY <1>2, <2>2 DEF Takes, RefType, Lease, Sessions
    <3>2. v.lease.writer # s BY <2>2 DEF Takes
    <3>3. u <= clock + Slack
      <4>1. CASE e = ref.epoch
        <5>1. Owns(ref, s, e) /\ u <= ref.lease.until BY <4>1 DEF Justified
        <5>2. ref.lease.until <= Now(v.lease.writer) /\ ref.lease.until \in Nat
          BY <2>2, <3>2, <5>1 DEF Takes, Takeable, Owns, TypesInv, RefType, Lease
        <5>3. Skew[v.lease.writer] \in Nat /\ Skew[v.lease.writer] <= Slack BY <3>1, Constants
        <5> QED BY <1>a, <5>1, <5>2, <5>3 DEF Now
      <4>2. CASE e < ref.epoch BY <4>2 DEF Justified
      <4> QED BY <1>a, <4>1, <4>2 DEF Justified
    <3>4. e <= ref.epoch BY DEF Justified
    <3>5. e < v.epoch /\ e <= v.epoch /\ e # v.epoch
      <4>1. v.epoch = ref.epoch + 1 /\ ref.epoch \in Nat /\ e \in Nat BY <1>a, <3>1
      <4> QED BY <3>4, <4>1
    <3>6. u <= clock' + Slack BY <1>b, <3>3
    <3> QED BY <2>1, <3>5, <3>6 DEF Justified
  <2>3. CASE Keeps(v)
    <3>1. v.lease.until \in Nat /\ ref.lease.until \in Nat
      BY <1>2, <2>3 DEF Keeps, TypesInv, RefType, Lease
    <3>2. v.epoch = ref.epoch /\ v.lease # None /\ ref.lease # None
          /\ v.lease.writer = ref.lease.writer /\ ref.lease.until <= v.lease.until
      BY <2>3 DEF Keeps
    <3>3. e = ref.epoch => Owns(v, s, e) /\ u <= v.lease.until
      <4>1. e = ref.epoch => Owns(ref, s, e) /\ u <= ref.lease.until BY DEF Justified
      <4>2. Owns(ref, s, e) => Owns(v, s, e) BY <3>2 DEF Owns
      <4>3. u <= ref.lease.until => u <= v.lease.until BY <3>1, <3>2
      <4> QED BY <4>1, <4>2, <4>3
    <3>4. e <= ref.epoch /\ (e < ref.epoch => u <= clock' + Slack) BY <1>b DEF Justified
    <3> QED BY <2>1, <3>2, <3>3, <3>4 DEF Justified
  <2>4. CASE Frees(v)
    <3>1. e # ref.epoch /\ v.epoch = ref.epoch BY <2>4 DEF Frees, Justified, Owns
    <3>2. e <= ref.epoch /\ (e < ref.epoch => u <= clock' + Slack) BY <1>b DEF Justified
    <3> QED BY <2>1, <3>1, <3>2 DEF Justified
  <2>5. CASE Adds(v, Newest(v))
    <3>1. v.epoch = ref.epoch /\ v.lease = ref.lease BY <2>5 DEF Adds
    <3>2. e <= ref.epoch /\ (e < ref.epoch => u <= clock' + Slack) BY <1>b DEF Justified
    <3> QED BY <2>1, <3>1, <3>2 DEF Justified, Owns
  <2> QED BY <1>2, <2>2, <2>3, <2>4, <2>5 DEF Puttable
<1> QED BY <1>1, <1>2, StoreSteps DEF Leave, Looks, Snapshot, store

\* Every step keeps beliefs justified.
LEMMA BeliefStep ==
  ASSUME TypesInv, PhaseInv, StoreInv, BeliefInv, Next PROVE BeliefInv'
<1> SUFFICES ASSUME NEW s \in Sessions, ~loss'[s] PROVE Belief(s)'
  BY DEF BeliefInv, Belief
<1>a. ~loss[s] /\ Belief(s) BY Monotone DEF BeliefInv
<1>b. /\ state[s].epoch \in Nat /\ state[s].until \in Nat
      /\ renewer[s].epoch \in Nat /\ renewer[s].until \in Nat /\ ref.epoch \in Nat
  BY DEF TypesInv, StateType, RenewerType, RefType
<1>1. ASSUME state'[s].tag = "Active" PROVE Justified(s, state[s].epoch, state[s].until)'
  <2>1. CASE state'[s] = state[s]
    <3>1. Justified(s, state[s].epoch, state[s].until) /\ ~Unsure(s)
      BY <1>a, <1>1, <2>1 DEF Belief, Unsure
    <3>2. ASSUME NEW e \in Nat, NEW u \in Nat, e = state[s].epoch, u = state[s].until
          PROVE  Justified(s, e, u)'
      BY <1>a, <3>1, <3>2, JustifiedStep
    <3> QED BY <1>b, <2>1, <3>2 DEF Justified, Owns
  <2>2. CASE Notify(s)
    <3>1. renewer[s].pc = "notify"
      BY <1>a, <2>2 DEF Notify, PhaseInv, SessionPhase
    <3>2. Justified(s, renewer[s].epoch, renewer[s].until) BY <1>a, <3>1 DEF Belief
    <3>3. ref' = ref /\ clock' = clock BY <2>2 DEF Notify, store
    <3>4. state[s].tag # "Closed" BY <1>1, <2>2 DEF Notify
    <3>5. state'[s].epoch = renewer[s].epoch /\ state'[s].until = renewer[s].until
      BY <2>2, <3>4 DEF Notify, Active, TypesInv
    <3> QED BY <3>2, <3>3, <3>5 DEF Justified, Owns
  <2>3. ASSUME NEW t \in Task, Of(t) = s, Confirm(t)
        PROVE  Justified(s, state[s].epoch, state[s].until)'
    <3>1. state[s].tag # "Active" /\ ref' = ref
      BY <2>3, StoreSteps DEF PhaseInv, TaskPhase, Claiming, Confirm, store
    <3>2. Owns(ref, s, task[t].epoch) /\ state' = [state EXCEPT ![s] = Active(task[t].epoch, ref.lease.until)]
      BY <1>1, <2>3, <3>1, LoseEffect DEF Confirm
    <3>3. state'[s].epoch = task[t].epoch /\ state'[s].until = ref.lease.until
      BY <3>2 DEF Active, TypesInv
    <3>4. ref.lease.until \in Nat BY <3>2 DEF Owns, TypesInv, RefType, Lease
    <3>5. task[t].epoch = ref.epoch BY <3>2 DEF Owns
    <3>6. ref.epoch <= ref.epoch /\ ref.lease.until <= ref.lease.until /\ ~(ref.epoch < ref.epoch)
      BY <1>b, <3>4
    <3> QED BY <3>1, <3>2, <3>3, <3>5, <3>6 DEF Justified, Owns
  <2> QED BY <1>1, <2>1, <2>2, <2>3, StateStep
<1>2. ASSUME renewer'[s].pc = "notify" PROVE Justified(s, renewer[s].epoch, renewer[s].until)'
  <2>1. CASE renewer'[s] = renewer[s]
    <3>1. Justified(s, renewer[s].epoch, renewer[s].until) /\ ~Unsure(s)
      BY <1>a, <1>2, <2>1 DEF Belief, Unsure
    <3>2. ASSUME NEW e \in Nat, NEW u \in Nat, e = renewer[s].epoch, u = renewer[s].until
          PROVE  Justified(s, e, u)'
      BY <1>a, <3>1, <3>2, JustifiedStep
    <3> QED BY <1>b, <2>1, <3>2 DEF Justified, Owns
  <2>2. CASE RenewPut(s)
    <3>1. Matches(s) /\ Commit(Value(s))
          /\ renewer' = [renewer EXCEPT ![s].pc = "notify"]
      BY <1>2, <2>2 DEF RenewPut, TypesInv, RenewerType
    <3>2. renewer[s].pc = "cas" /\ s \in fresh \cap Putting BY <2>2, <3>1 DEF RenewPut, Matches, Putting
    <3>3. ref' = [epoch |-> ref.epoch, log |-> ref.log,
                  lease |-> [writer |-> s, until |-> renewer[s].until]]
      BY <3>1, <3>2, Values DEF Commit
    <3>4. Owns(ref, s, renewer[s].epoch) BY <3>2 DEF StoreInv, RenewalInv, RenewerKnows
    <3>5. renewer'[s].epoch = renewer[s].epoch /\ renewer'[s].until = renewer[s].until
      BY <3>1 DEF TypesInv, RenewerType
    <3>6. [writer |-> s, until |-> renewer[s].until] # None
      <4>1. [writer |-> s, until |-> renewer[s].until] \in Lease BY <1>b DEF Lease, Sessions
      <4> QED BY <4>1, Constants
    <3>7. renewer[s].epoch = ref.epoch BY <3>4 DEF Owns
    <3>8. /\ ref.epoch <= ref.epoch /\ ~(ref.epoch < ref.epoch)
          /\ renewer[s].until <= renewer[s].until
      BY <1>b
    <3>9. Owns(ref', s, ref.epoch) BY <3>3, <3>6 DEF Owns
    <3> QED BY <3>3, <3>5, <3>7, <3>8, <3>9 DEF Justified, Owns
  <2>3. ~RenewRead(s)
    BY <1>2 DEF RenewRead, RenewerLoses, NoRenewer, TypesInv, RenewerType
  <2> QED BY <1>2, <2>1, <2>2, <2>3, RenewerStep
<1> QED BY <1>1, <1>2 DEF Belief

(***************************************************************************)
(* The theorems.                                                           *)
(***************************************************************************)
LEMMA InductiveInit == Init => Inductive
<1> SUFFICES ASSUME Init PROVE Inductive OBVIOUS
<1>a. /\ Idle \in TaskType /\ Idle.pc = "idle" /\ Idle.job = None
      /\ NoRenewer \in RenewerType /\ NoRenewer.pc = "none"
      /\ At("Unacquired") \in StateType /\ At("Unacquired").tag = "Unacquired"
  BY DEF Idle, TaskType, Label, NoRenewer, RenewerType, At, StateType
<1>1. TypesInv
  <2>1. ref \in RefType BY DEF Init, RefType
  <2> QED BY <1>a, <2>1 DEF Init, TypesInv
<1>2. PhaseInv
  BY <1>a, Constants DEF Init, PhaseInv, TaskPhase, SessionPhase, Claiming, Appending, Closing
<1>3. StoreInv
  BY <1>a DEF Init, StoreInv, KeyOnce, LeaseInv, WireInv, CallInv, RenewalInv
<1>4. BeliefInv BY <1>a DEF Init, BeliefInv, Belief
<1> QED BY <1>1, <1>2, <1>3, <1>4 DEF Inductive

\* Every step keeps the invariant.
LEMMA InductiveStep == Inductive /\ [Next]_vars => Inductive'
<1> SUFFICES ASSUME Inductive, [Next]_vars PROVE Inductive' OBVIOUS
<1>1. CASE Next BY <1>1, TypesStep, PhaseStep, StoreStep, BeliefStep DEF Inductive
<1>2. CASE UNCHANGED vars
  <2>1. TypesInv' BY <1>2 DEF Inductive, TypesInv, vars
  <2>2. PhaseInv'
    BY <1>2 DEF Inductive, PhaseInv, TaskPhase, SessionPhase, Claiming, Appending, Closing, vars
  <2>3. KeyOnce' /\ LeaseInv'
    BY <1>2 DEF Inductive, StoreInv, KeyOnce, LeaseInv, Dated, InTime, Now, vars
  <2>4. WireInv'
    <3>1. ASSUME NEW v \in wire PROVE Puttable(v)'
      <4>1. Puttable(v) BY <3>1 DEF Inductive, StoreInv, WireInv
      <4>2. /\ \A r \in Sessions : Takeable(r)' <=> Takeable(r)
            /\ \A r \in Sessions : Unsure(r)' <=> Unsure(r)
        BY <1>2 DEF Takeable, Unsure, Now, vars
      <4>3. v.lease # None => v.lease.writer \in Sessions
        BY <3>1 DEF Inductive, TypesInv, RefType, Lease, Sessions
      <4>4. Takes(v) => Takes(v)'
        <5> SUFFICES ASSUME Takes(v) PROVE Takes(v)' OBVIOUS
        <5>1. v.lease.writer \in Sessions BY <4>3 DEF Takes
        <5>2. Takeable(v.lease.writer)' /\ Unsure(v.lease.writer)' BY <4>2, <5>1 DEF Takes
        <5>3. Dated(v.lease)' BY <1>2 DEF Takes, Dated, InTime, Now, vars
        <5> QED BY <1>2, <5>2, <5>3 DEF Takes, vars
      <4>5. Keeps(v) => Keeps(v)' BY <1>2 DEF Keeps, Dated, InTime, Now, vars
      <4>6. Frees(v) => Frees(v)' BY <1>2 DEF Frees, vars
      <4>7. Adds(v, Newest(v)) => Adds(v, Newest(v))' BY <1>2 DEF Adds, Newest, Holds, vars
      <4> QED BY <4>1, <4>4, <4>5, <4>6, <4>7 DEF Puttable
    <3> QED BY <1>2, <3>1 DEF WireInv, vars
  <2>5. ASSUME NEW t \in Task PROVE CallInv(t)'
    BY <1>2 DEF Inductive, StoreInv, CallInv, TaskKnows, Takeable, InTime, Now, Holds, vars
  <2>6. ASSUME NEW s \in Sessions PROVE RenewalInv(s)'
    BY <1>2 DEF Inductive, StoreInv, RenewalInv, RenewerKnows, Owns, InTime, Now, vars
  <2>7. BeliefInv' BY <1>2 DEF Inductive, BeliefInv, Belief, Justified, Owns, vars
  <2> QED BY <2>1, <2>2, <2>3, <2>4, <2>5, <2>6, <2>7 DEF Inductive, StoreInv
<1> QED BY <1>1, <1>2

\* The inductive invariant: whatever sessions may still put, and whatever they
\* believe of their lease, agrees with the ref (feed.rs acquire, spawn_renew,
\* append_stable, close).
THEOREM SessionInductive == Spec => []Inductive
  BY InductiveInit, InductiveStep, PTL DEF Spec

\* The ref, the published states, the tasks and the renewal tasks keep their
\* types, and the acquire mutex is held by a task inside acquire (feed.rs
\* WriterSession).
THEOREM SessionTypeCorrectness == Spec => []TypeOK
<1>1. Inductive => TypeOK
  BY DEF Inductive, TypesInv, PhaseInv, SessionPhase, Claiming, TypeOK, RefType, StateType,
         RenewerType, TaskType, Label
<1> QED BY <1>1, SessionInductive, PTL

\* A stable key is appended at most once, whatever sessions, retries, lost
\* replies and late puts do (feed.rs append_stable, lookup_committed).
THEOREM SessionKeyOnce == Spec => []KeyOnce
<1>1. Inductive => KeyOnce BY DEF Inductive, StoreInv
<1> QED BY <1>1, SessionInductive, PTL

\* As long as the epoch has not moved on, what an Active session believes of its
\* lease is true of the ref (feed.rs acquire, spawn_renew).
THEOREM SessionActiveBelief == Spec => []ActiveBelief
<1>1. Inductive => ActiveBelief
  <2> SUFFICES ASSUME Inductive, NEW s \in Sessions, state[s].tag = "Active", ~loss[s]
               PROVE  /\ ref.epoch >= state[s].epoch
                      /\ ref.epoch = state[s].epoch =>
                           Owns(ref, s, state[s].epoch) /\ ref.lease.until >= state[s].until
    BY DEF ActiveBelief
  <2>1. Justified(s, state[s].epoch, state[s].until) BY DEF Inductive, BeliefInv, Belief
  <2>2. ref.epoch \in Nat /\ state[s].epoch \in Nat /\ state[s].until \in Nat
        /\ (ref.lease # None => ref.lease.until \in Nat)
    BY DEF Inductive, TypesInv, RefType, StateType, Lease
  <2>3. ref.epoch >= state[s].epoch BY <2>1, <2>2 DEF Justified
  <2>4. ASSUME ref.epoch = state[s].epoch
        PROVE  Owns(ref, s, state[s].epoch) /\ ref.lease.until >= state[s].until
    <3>1. Owns(ref, s, state[s].epoch) /\ state[s].until <= ref.lease.until
      BY <2>1, <2>4 DEF Justified
    <3>2. ref.lease.until \in Nat BY <2>2, <3>1 DEF Owns
    <3>3. ref.lease.until >= state[s].until BY <2>2, <3>1, <3>2
    <3> QED BY <3>1, <3>3
  <2> QED BY <2>3, <2>4
<1> QED BY <1>1, SessionInductive, PTL

\* With clocks apart by no more than the slack, no two sessions consider
\* themselves the writer at the same instant (feed.rs active_epoch, renewal loop).
THEOREM SessionOneActiveWriter == Spec => []OneActiveWriter
<1>1. Inductive => OneActiveWriter
  <2> SUFFICES ASSUME Inductive, NEW r \in Sessions, NEW s \in Sessions, Acting(r), Acting(s)
               PROVE  r = s
    BY DEF OneActiveWriter
  <2>1. ASSUME NEW q \in Sessions, Acting(q) PROVE Owns(ref, q, ref.epoch)
    <3>1. Justified(q, state[q].epoch, state[q].until)
      BY <2>1 DEF Inductive, BeliefInv, Belief, Acting
    <3>2. /\ clock \in Nat /\ Slack \in Nat /\ Skew[q] \in Nat
          /\ state[q].until \in Nat /\ state[q].epoch \in Nat /\ ref.epoch \in Nat
      BY Constants DEF Inductive, TypesInv, RefType, StateType
    <3>3. ~(state[q].until <= clock + Slack)
      <4>1. ~(state[q].until <= clock + Skew[q] + Slack) BY <2>1 DEF Acting, Expiring, Now
      <4> QED BY <3>2, <4>1
    <3>4. state[q].epoch = ref.epoch BY <3>1, <3>2, <3>3 DEF Justified
    <3> QED BY <3>1, <3>4 DEF Justified
  <2> QED BY <2>1 DEF Owns
<1> QED BY <1>1, SessionInductive, PTL

(***************************************************************************)
(* The sessions implement a log behind an expiring lock.                   *)
(***************************************************************************)
\* A value that continues the ref is one step of the lock or of the log.
LEMMA PutImplements ==
  ASSUME TypesInv, NEW v \in RefType, Puttable(v), ref' = v, UNCHANGED <<acks, clock>>
  PROVE  Promise!Next
<1>0. ref \in RefType /\ clock \in Nat BY DEF TypesInv
<1>1. ASSUME NEW s \in Sessions, v.lease \in Lease, v.lease.writer = s, Dated(v.lease)
      PROVE  Promise!Hold(s)
  <2>1. v.lease.until \in Nat /\ Skew[s] \in Nat /\ TTL \in Nat BY <1>1, Constants DEF Lease
  <2>2. TTL <= v.lease.until /\ v.lease.until <= clock + Skew[s] + TTL
    BY <1>1 DEF Dated, InTime, Now
  <2>3. v.lease.until - TTL \in 0..(clock + Skew[s]) /\ (v.lease.until - TTL) + TTL = v.lease.until
    BY <1>0, <2>1, <2>2
  <2>4. v.lease = [writer |-> s, until |-> (v.lease.until - TTL) + TTL]
    BY <1>1, <2>3 DEF Lease
  <2> QED BY <2>3, <2>4 DEF Promise!Hold
<1>2. CASE Takes(v)
  <2> DEFINE s == v.lease.writer
  <2>1. v.lease \in Lease /\ s \in Sessions BY <1>2 DEF Takes, RefType, Lease, Sessions
  <2>2. Promise!Hold(s) BY <1>1, <1>2, <2>1 DEF Takes
  <2>3. Promise!Take(s) BY <1>2, <2>2 DEF Takes, Takeable, Now, Promise!Take
  <2> QED BY <2>1, <2>3 DEF Promise!Next
<1>3. CASE Keeps(v)
  <2> DEFINE s == v.lease.writer
  <2>1. v.lease \in Lease /\ s \in Sessions BY <1>3 DEF Keeps, RefType, Lease, Sessions
  <2>2. Promise!Hold(s) BY <1>1, <1>3, <2>1 DEF Keeps
  <2>3. Promise!Extend(s) BY <1>3, <2>2 DEF Keeps, Promise!Extend
  <2> QED BY <2>1, <2>3 DEF Promise!Next
<1>4. CASE Frees(v)
  <2> DEFINE s == ref.lease.writer
  <2>1. s \in Sessions BY <1>0, <1>4 DEF Frees, RefType, Lease, Sessions
  <2>2. Promise!GiveBack(s) BY <1>4 DEF Frees, Promise!GiveBack
  <2> QED BY <2>1, <2>2 DEF Promise!Next
<1>5. CASE Len(v.log) > 0 /\ Adds(v, Newest(v))
  <2> DEFINE s == ref.lease.writer
             e == Newest(v)
             a == [key |-> e.key, payload |-> e.payload]
  <2>1. s \in Sessions BY <1>0, <1>5 DEF Adds, RefType, Lease, Sessions
  <2>2. e \in EntryType BY <1>5 DEF Newest, RefType
  <2>3. e = [key |-> a.key, payload |-> a.payload, epoch |-> ref.epoch, by |-> s]
    BY <1>5, <2>2 DEF Adds, EntryType
  <2>4. a \in Entries BY <1>5 DEF Adds
  <2> HIDE DEF e
  <2>5. Promise!Write(s, a)
    <3>1. \A i \in DOMAIN ref.log : ref.log[i].key # a.key BY <1>5 DEF Adds, Holds, e
    <3>2. v.log = Append(ref.log, e) /\ v.epoch = ref.epoch /\ v.lease = ref.lease /\ ref.lease # None
      BY <1>5 DEF Adds, e
    <3> QED BY <2>3, <3>1, <3>2 DEF Promise!Write
  <2> QED BY <2>1, <2>4, <2>5 DEF Promise!Next, Entries
<1> QED BY <1>2, <1>3, <1>4, <1>5 DEF Puttable

\* Receipts name entries of the log.
LEMMA AnswerImplements ==
  ASSUME Inductive, NEW t \in Task, Answer(t), UNCHANGED <<ref, clock>>
  PROVE  Promise!Next \/ UNCHANGED acks
<1> DEFINE j == task[t].job
           found == {n \in DOMAIN ref.log : ref.log[n].key = j.key /\ ref.log[n].payload = j.payload}
<1>1. acks' = acks \cup {Receipt(i) : i \in found} BY DEF Answer, Receipts
<1>2. CASE found = {}
  <2> HIDE DEF found
  <2>1. {Receipt(i) : i \in found} = {} BY <1>2
  <2> QED BY <1>1, <2>1
<1>3. CASE found # {}
  <2>1. PICK i \in found : TRUE BY <1>3
  <2>2. \A n \in found : n = i BY <2>1 DEF Inductive, StoreInv, KeyOnce
  <2>3. i \in DOMAIN ref.log BY <2>1
  <2> HIDE DEF found
  <2>4. {Receipt(n) : n \in found} = {Receipt(i)} BY <2>1, <2>2
  <2>5. Promise!Acknowledge(i) BY <1>1, <2>4 DEF Promise!Acknowledge, Receipt
  <2> QED BY <2>3, <2>5 DEF Promise!Next
<1> QED BY <1>2, <1>3

\* The writer of an append is told so at once.
LEMMA AppendImplements ==
  ASSUME Inductive, NEW t \in Task, AppendPut(t), Matches(t), task[t].pc = "sent"
  PROVE  Promise!Next
<1> DEFINE s == Of(t)
           j == task[t].job
           a == [key |-> j.key, payload |-> j.payload]
<1>1. t \in fresh \cap Putting BY DEF Matches, Putting
<1>2. /\ Value(t) = [epoch |-> ref.epoch, lease |-> ref.lease, log |-> Append(ref.log, EntryOf(t))]
      /\ ~Holds(j.key) /\ ref.lease # None /\ ref.lease.writer = s
  BY <1>1, Values DEF Inductive
<1>3. CASE Commit(Value(t))
  <2>1. ref' = Value(t) /\ clock' = clock BY <1>3 DEF Commit, AppendPut
  <2>2. acks' = acks \cup {[seq |-> Len(ref.log) + 1, key |-> j.key, payload |-> j.payload]}
    BY DEF AppendPut
  <2>3. s \in Sessions /\ a \in Entries
    <3>1. j \in Job(t) BY DEF Inductive, TypesInv
    <3> QED BY <3>1, Constants DEF Entries
  <2>4. EntryOf(t) = [key |-> a.key, payload |-> a.payload, epoch |-> ref.epoch, by |-> s]
    BY DEF EntryOf
  <2>5. \A i \in DOMAIN ref.log : ref.log[i].key # a.key BY <1>2 DEF Holds
  <2>6. Promise!WriteAcknowledged(s, a)
    BY <1>2, <2>1, <2>2, <2>4, <2>5 DEF Promise!WriteAcknowledged
  <2> QED BY <2>3, <2>6 DEF Promise!Next, Entries
<1> QED BY <1>3 DEF AppendPut

\* Receipts are handed out by answers and by appends, and nothing else.
LEMMA AcksStep ==
  ASSUME Next
  PROVE  \/ UNCHANGED acks
         \/ \E t \in Task : Answer(t) /\ UNCHANGED <<ref, clock>>
         \/ \E t \in Task : AppendPut(t) /\ Matches(t) /\ task[t].pc = "sent"
<1>1. ASSUME NEW t \in Task, Proceed(t)
      PROVE  \/ UNCHANGED acks
             \/ Answer(t) /\ UNCHANGED <<ref, clock>>
             \/ AppendPut(t) /\ Matches(t) /\ task[t].pc = "sent"
  <2>1. CASE Look(t) BY <2>1 DEF Look, store
  <2>2. CASE Check(t) BY <2>2 DEF Check, LoseCall, store
  <2>3. CASE AppendPut(t) BY <2>3 DEF AppendPut
  <2>4. CASE UNCHANGED acks BY <2>4
  <2> QED BY <1>1, <2>1, <2>2, <2>3, <2>4 DEF Proceed, Acquire, ClaimRead, ClaimPut, Confirm, GiveUp,
             Issue, Interrupted, LoseCall, Close, ReleaseRead, ReleasePut
<1>2. ASSUME NEW s \in Sessions, Renew(s) \/ RenewFails(s) \/ Crash(s) PROVE UNCHANGED acks
  BY <1>2 DEF Renew, Wake, RenewRead, RenewPut, RenewTimer, Notify, RenewFails, Crash
<1>3. ASSUME NEW t \in Task, Abandon(t) \/ \E j \in Job(t) : Start(t, j) PROVE UNCHANGED acks
  BY <1>3 DEF Abandon, Start
<1>4. CASE Tick \/ \E v \in wire : Land(v) BY <1>4 DEF Tick, Land
<1> QED BY <1>1, <1>2, <1>3, <1>4 DEF Next

\* Only the clock itself moves the clock.
LEMMA ClockStep == Next => Tick \/ UNCHANGED clock
<1>1. ASSUME NEW t \in Task, Proceed(t) PROVE UNCHANGED clock
  BY <1>1 DEF Proceed, Look, Acquire, ClaimRead, ClaimPut, Confirm, GiveUp, Check, Issue, AppendPut,
              Interrupted, Close, ReleaseRead, ReleasePut
<1>2. ASSUME NEW s \in Sessions, Renew(s) \/ RenewFails(s) \/ Crash(s) PROVE UNCHANGED clock
  BY <1>2 DEF Renew, Wake, RenewRead, RenewPut, RenewTimer, Notify, RenewFails, Crash
<1>3. ASSUME NEW t \in Task, Abandon(t) \/ \E j \in Job(t) : Start(t, j) PROVE UNCHANGED clock
  BY <1>3 DEF Abandon, Start
<1>4. ASSUME NEW v \in wire, Land(v) PROVE UNCHANGED clock BY <1>4 DEF Land
<1> QED BY <1>1, <1>2, <1>3, <1>4 DEF Next

\* Every step of the sessions is a step of the log behind the lock, or a
\* stutter.
LEMMA StepImplements == Inductive /\ [Next]_vars => [Promise!Next]_Promise!vars
<1> SUFFICES ASSUME Inductive, [Next]_vars PROVE Promise!Next \/ UNCHANGED <<ref, acks, clock>>
  BY DEF Promise!vars
<1>1. CASE UNCHANGED vars BY <1>1 DEF vars
<1>2. CASE Tick
  <2>1. Promise!Tick BY <1>2 DEF Tick, store, Promise!Tick
  <2> QED BY <2>1 DEF Promise!Next
<1>3. ASSUME NEW t \in Task, Answer(t), UNCHANGED <<ref, clock>>
      PROVE  Promise!Next \/ UNCHANGED <<ref, acks, clock>>
  BY <1>3, AnswerImplements
<1>4. ASSUME NEW t \in Task, AppendPut(t), Matches(t), task[t].pc = "sent" PROVE Promise!Next
  BY <1>4, AppendImplements
<1>5. CASE Next /\ UNCHANGED <<acks, clock>>
  <2>1. ASSUME NEW v \in RefType, Puttable(v), Commit(v) PROVE Promise!Next
    BY <1>5, <2>1, PutImplements DEF Commit, Inductive
  <2>2. CASE ref' = ref BY <1>5, <2>2
  <2> QED BY <1>5, <2>1, <2>2, StoreSteps DEF Inductive, Leave, Looks, Snapshot, store
<1> QED BY <1>1, <1>2, <1>3, <1>4, <1>5, AcksStep, ClockStep

\* The sessions together are a log behind an expiring lock: whoever appends holds
\* the lock, a key is written once, and receipts name written entries (feed.rs
\* WriterSession, module FencedLog).
THEOREM SessionImplementsFencedLog == Spec => FencedLogSpec
<1>1. Init => Promise!Init BY DEF Init, Promise!Init
<1> QED BY <1>1, StepImplements, SessionInductive, PTL DEF Spec, FencedLogSpec, Promise!Spec

(***************************************************************************)
(* A lost session is silent.                                               *)
(***************************************************************************)
\* Only appends of the session itself add to its entries.
LEMMA OfferedEntries ==
  ASSUME Inductive, NEW s \in Sessions, Silent(s), NEW v \in Offered
  PROVE  EntriesBy(v, s) = EntriesBy(ref, s)
<1>1. CASE v \in wire BY <1>1 DEF Silent
<1>2. ASSUME NEW w \in fresh \cap Putting, v = Value(w) PROVE EntriesBy(v, s) = EntriesBy(ref, s)
  <2>1. CASE v.log = ref.log BY <2>1 DEF EntriesBy
  <2>2. CASE w \in Task /\ task[w].pc = "sent"
    <3>1. v.log = Append(ref.log, EntryOf(w)) BY <1>2, <2>2, Values DEF Inductive
    <3>2. EntryOf(w).by # s BY <2>2 DEF Silent, EntryOf
    <3>3. ref.log \in Seq(EntryType) BY DEF Inductive, TypesInv, RefType
    <3> DEFINE n == Len(ref.log)
    <3>4. /\ DOMAIN v.log = 1..(n + 1) /\ DOMAIN ref.log = 1..n /\ n \in Nat
          /\ \A i \in 1..n : v.log[i] = ref.log[i]
          /\ v.log[n + 1] = EntryOf(w)
      BY <3>1, <3>3
    <3>5. \A i : i \in 1..(n + 1) <=> i \in 1..n \/ i = n + 1 BY <3>4
    <3> HIDE DEF n
    <3> QED BY <3>2, <3>4, <3>5 DEF EntriesBy
  <2>3. CASE ~(w \in Task /\ task[w].pc = "sent")
    <3>1. v.log = ref.log BY <1>2, <2>3, Values DEF Inductive, Putting
    <3> QED BY <3>1, <2>1
  <2> QED BY <2>2, <2>3
<1> QED BY <1>1, <1>2 DEF Offered

\* A cancelled token keeps calls from being sent.
LEMMA NeverSent ==
  ASSUME Inductive, Next, NEW t \in Task, loss[Of(t)], task[t].pc # "sent"
  PROVE  task'[t].pc # "sent"
<1>a. task[t] \in TaskType /\ TypesInv BY DEF Inductive, TypesInv
<1>1. CASE ClaimRead(t) BY <1>a, <1>1 DEF ClaimRead, TypesInv, TaskType
<1>2. CASE Check(t)
  <2>1. CASE Return(t) BY <1>a, <2>1, Went
  <2>2. CASE task' = [task EXCEPT ![t].pc = "issue", ![t].until = ref.lease.until]
    BY <1>a, <2>2 DEF TypesInv, TaskType
  <2> QED BY <1>2, <2>1, <2>2 DEF Check, LoseCall, Answer
<1>3. CASE Issue(t) BY <1>a, <1>3, Went DEF Issue, Barred, LoseCall
<1>4. CASE ReleaseRead(t)
  <2>1. CASE task' = [task EXCEPT ![t].pc = "freed", ![t].epoch = state[Of(t)].epoch]
    BY <1>a, <2>1 DEF TypesInv, TaskType
  <2> QED BY <1>a, <1>4, <2>1, Went DEF ReleaseRead, Closed
<1> QED BY <1>a, <1>1, <1>2, <1>3, <1>4, TaskStep DEF Knowing

\* A session whose token is cancelled starts no publication: once what was in
\* flight has settled, it never appends again (feed.rs lose, timed_cas;
\* publish.rs enforce_live_lease).
THEOREM SessionLostIsSilent == Spec => LostIsSilent
<1> DEFINE Step == \A s \in Sessions :
             loss[s] /\ Silent(s) => Silent(s)' /\ EntriesBy(ref', s) = EntriesBy(ref, s)
<1>1. Inductive /\ [Next]_vars => [Step]_vars
  <2> SUFFICES ASSUME Inductive, Next, NEW s \in Sessions, loss[s], Silent(s)
               PROVE  Silent(s)' /\ EntriesBy(ref', s) = EntriesBy(ref, s)
    OBVIOUS
  <2>1. \A t \in Task : Of(t) = s => task'[t].pc # "sent" BY NeverSent DEF Silent
  <2>2. ASSUME NEW v \in Offered, Commit(v) PROVE Silent(s)' /\ EntriesBy(ref', s) = EntriesBy(ref, s)
    <3>1. ref' = v /\ wire' = {} BY <2>2 DEF Commit
    <3>2. EntriesBy(v, s) = EntriesBy(ref, s) BY OfferedEntries
    <3> QED BY <2>1, <3>1, <3>2 DEF Silent
  <2>3. ASSUME ref' = ref, \A v \in wire' : v \in Offered
        PROVE  Silent(s)' /\ EntriesBy(ref', s) = EntriesBy(ref, s)
    <3>1. \A v \in wire' : EntriesBy(v, s) = EntriesBy(ref, s) BY <2>3, OfferedEntries
    <3> QED BY <2>1, <2>3, <3>1 DEF Silent, EntriesBy
  <2>4. ASSUME NEW who, Leave(who) PROVE ref' = ref /\ \A v \in wire' : v \in Offered
    BY <2>4 DEF Leave, Offered
  <2> QED BY <2>2, <2>3, <2>4, StoreSteps DEF Inductive, Looks, Snapshot, store, Offered
<1>2. [][Step]_vars => LostIsSilent BY DEF LostIsSilent
<1> QED BY <1>1, <1>2, SessionInductive, PTL DEF Spec, LostIsSilent
=============================================================================
