------------------------------ MODULE Session ------------------------------
(***************************************************************************)
(* Writer sessions of the complete feed (crates/combctl/src/feed.rs:       *)
(* WriterSession).                                                         *)
(*                                                                         *)
(* A session is one writer instance in one process.  Concurrent calls      *)
(* share it: an append or `ready` first makes sure the session is Active,  *)
(* taking turns behind the acquire mutex; a background task renews the     *)
(* lease; any of them may find that the lease is no longer safe to rely    *)
(* on, and then the session is lost, which cancels a token that every      *)
(* publication in flight races.  Everything is decided against snapshots   *)
(* of one ref, written by compare-and-swap, and against the session's own  *)
(* clock.  A put whose caller has stopped waiting stays on the wire and    *)
(* may still land.                                                         *)
(*                                                                         *)
(* Each claim, release and append is one publication, which the engine     *)
(* (module Publish) carries out at most once.                              *)
(***************************************************************************)
EXTENDS Mutations, Sequences, FiniteSets

CONSTANTS Task,      \* calls that may be in progress at the same time
          Of(_),     \* the session a task calls
          Job(_),    \* the calls a task may make: [kind, key, payload]
          Slack,     \* LeasePolicy.clock_slack
          Budget,    \* LeasePolicy.initial_acquire_budget
          Skew,      \* how far each session's clock is ahead of the common one
          MaxRounds, \* append_stable loops 32 times
          \* Bounds of the model: the last instant at which a call may start,
          \* the number of calls and the number of failures.
          LastStart, MaxCalls, MaxFaults

\* LeasePolicy.validate, with a renewal period of one tick.
ValidPolicy == Slack \in Nat /\ Slack + 1 < TTL /\ TTL <= Budget

ASSUME PolicyAssumption == ValidPolicy
ASSUME SkewAssumption   == \A s \in Writer : Skew[s] \in 0..Slack

\* A task is no session, and calls one session to append, to get ready or to close.
ASSUME TaskAssumption ==
  /\ Task \cap Writer = {} /\ None \notin Task
  /\ \A t \in Task : /\ Of(t) \in Writer
                     /\ \A j \in Job(t) : j.kind \in {"append", "ready", "close"}

VARIABLES
  ref,      \* the ref: epoch, lease and the appended entries
  fresh,    \* the tasks and sessions whose snapshot is the ref's present version
  wire,     \* ref values that nobody waits for and that may still be put
  clock,
  state,    \* per session: the published WriterState
  loss,     \* per session: is the loss token cancelled?
  mutex,    \* per session: the task inside acquire
  renewer,  \* per session: the renewal task
  task,     \* per task: its call and how far it has come
  acks,     \* the receipts that callers have been given
  spent     \* calls and failures so far

store    == <<ref, fresh, wire>>
session  == <<state, loss, mutex, renewer>>
vars     == <<ref, fresh, wire, clock, state, loss, mutex, renewer, task, acks, spent>>

Sessions == Writer

Idle      == [pc |-> "idle", job |-> None, epoch |-> 0, rounds |-> 0,
              started |-> 0, until |-> 0]
NoRenewer == [pc |-> "none", epoch |-> 0, until |-> 0]
Asleep(e) == [pc |-> "sleep", epoch |-> e, until |-> 0]
At(tag)   == [tag |-> tag, epoch |-> 0, until |-> 0]
Active(e, until) == [tag |-> "Active", epoch |-> e, until |-> until]

Init ==
  /\ ref = [epoch |-> 0, lease |-> None, log |-> <<>>]
  /\ fresh = {} /\ wire = {} /\ clock = 0
  /\ state   = [s \in Sessions |-> At("Unacquired")]
  /\ loss    = [s \in Sessions |-> FALSE]
  /\ mutex   = [s \in Sessions |-> None]
  /\ renewer = [s \in Sessions |-> NoRenewer]
  /\ task    = [t \in Task |-> Idle]
  /\ acks = {}
  /\ spent = [calls |-> 0, faults |-> 0]

Now(s) == clock + Skew[s]

\* Mutant: the slack is left out.
ExpiringExactly(s) == state[s].until <= Now(s)

\* The deadline the session believes in is too close to be relied on.
Expiring(s) == state[s].until <= Now(s) + Slack

Owns(r, s, e) == r.lease # None /\ r.lease.writer = s /\ r.epoch = e

(***************************************************************************)
(* Snapshots and puts.  A put succeeds only if the ref still has the       *)
(* version that was read, and then voids every other snapshot.  Its value  *)
(* is a function of the snapshot, so while that is fresh it is a function  *)
(* of the ref.                                                             *)
(***************************************************************************)
\* Mutant: sessions claim the way an operator takes over.
StealingClaim(s) == [kind |-> "claim", writer |-> s, steal |-> TRUE]

Claim(s)      == [kind |-> "claim", writer |-> s, steal |-> FALSE]
Release(s, e) == [kind |-> "release", fence |-> e, writer |-> s]
EntryOf(t)    == [key |-> task[t].job.key, payload |-> task[t].job.payload,
                  epoch |-> ref.epoch, by |-> Of(t)]

Value(w) ==
  CASE w \in Sessions -> [ref EXCEPT !.lease.until = renewer[w].until]
    [] w \in Task /\ task[w].pc = "sent"    -> [ref EXCEPT !.log = Append(@, EntryOf(w))]
    [] w \in Task /\ task[w].pc = "claimed" -> Apply(Claim(Of(w)), ref, task[w].until - TTL)
    [] w \in Task /\ task[w].pc = "freed"   -> Apply(Release(Of(w), task[w].epoch), ref, clock)

Putting ==
  {t \in Task : task[t].pc \in {"sent", "claimed", "freed"}}
  \cup {s \in Sessions : renewer[s].pc = "cas"}

Matches(w)    == w \in fresh
Snapshot(w)   == fresh' = fresh \cup {w} /\ UNCHANGED <<ref, wire>>
Commit(value) == ref' = value /\ fresh' = {} /\ wire' = {}

\* These callers stop waiting; what they have put may still arrive.
Leave(who) ==
  /\ wire' = wire \cup {Value(w) : w \in who \cap fresh \cap Putting}
  /\ fresh' = fresh \ who
  /\ UNCHANGED ref

Land(value) ==
  /\ value \in wire
  /\ Commit(value)
  /\ UNCHANGED <<clock, session, task, acks, spent>>

(***************************************************************************)
(* Calls.                                                                  *)
(***************************************************************************)
Goto(t, pc)   == task' = [task EXCEPT ![t].pc = pc]
Return(t)     == task' = [task EXCEPT ![t] = Idle]

\* Mutant: the guard of the mutex outlives the call.
NeverUnlocked(s) == mutex

Unlocked(s)   == [mutex EXCEPT ![s] = None]

\* close takes the session by value: no other call can be in progress, and
\* none can follow.
Start(t, j) ==
  LET s == Of(t) IN
  /\ task[t].pc = "idle" /\ state[s].tag # "Closed"
  /\ clock <= LastStart /\ spent.calls < MaxCalls
  /\ \A u \in Task : Of(u) = s /\ task[u].pc # "idle" =>
       j.kind # "close" /\ task[u].job.kind # "close"
  /\ spent' = [spent EXCEPT !.calls = @ + 1]
  /\ task' = [task EXCEPT ![t].job = j,
                          ![t].pc = CASE j.kind = "append" -> "look"
                                      [] j.kind = "ready"  -> "lock"
                                      [] j.kind = "close"  -> "close"]
  /\ UNCHANGED <<store, clock, session, acks>>

\* lookup_committed: a key that is in the log answers the call, with a receipt
\* or with a conflict, whatever the state of the session.
Holds(key)   == \E i \in DOMAIN ref.log : ref.log[i].key = key
Receipt(i)   == [seq |-> i, key |-> ref.log[i].key, payload |-> ref.log[i].payload]
Receipts(j)  == {Receipt(i) : i \in {n \in DOMAIN ref.log :
                                ref.log[n].key = j.key /\ ref.log[n].payload = j.payload}}

Answer(t) ==
  /\ Holds(task[t].job.key)
  /\ acks' = acks \cup Receipts(task[t].job)
  /\ Return(t)

Look(t) ==
  /\ task[t].pc = "look"
  /\ \/ Answer(t)
     \/ ~Holds(task[t].job.key) /\ Goto(t, "lock") /\ UNCHANGED acks
  /\ UNCHANGED <<store, clock, session, spent>>

(***************************************************************************)
(* Losing the session: the token is cancelled, Lost is published and the   *)
(* renewal task is aborted.  An abort takes effect where the task next     *)
(* waits, so a task that has its answer in hand still publishes it.        *)
(***************************************************************************)
Aborted(s) ==
  IF renewer[s].pc \in {"notify", "lastnotify"}
  THEN [renewer[s] EXCEPT !.pc = "lastnotify"] ELSE NoRenewer

Cancel(s) ==
  /\ loss' = [loss EXCEPT ![s] = TRUE]
  /\ renewer' = [renewer EXCEPT ![s] = Aborted(s)]

Lose(s) == Cancel(s) /\ state' = [state EXCEPT ![s] = At("Lost")]

(***************************************************************************)
(* acquire.                                                                *)
(***************************************************************************)
\* The call is past acquire.
Acquired(t, e) ==
  IF task[t].job.kind = "append"
  THEN task' = [task EXCEPT ![t].pc = "check", ![t].epoch = e, ![t].started = 0]
  ELSE Return(t)

\* With the mutex in hand active_epoch decides: use the epoch, give up, or claim.
Acquire(t) ==
  LET s == Of(t) IN
  /\ task[t].pc = "lock" /\ mutex[s] = None
  /\ \/ /\ state[s].tag = "Active" /\ ~Expiring(s)
        /\ Acquired(t, state[s].epoch)
        /\ UNCHANGED <<store, session>>
     \/ /\ state[s].tag = "Active" /\ Expiring(s)
        /\ Lose(s) /\ Return(t)
        /\ Leave({s}) /\ UNCHANGED mutex
     \/ /\ state[s].tag \in {"Lost", "Closed"}
        /\ Return(t)
        /\ UNCHANGED <<store, session>>
     \/ /\ state[s].tag \in {"Unacquired", "Acquiring"}
        /\ mutex' = [mutex EXCEPT ![s] = t]
        /\ state' = [state EXCEPT ![s] = At("Acquiring")]
        /\ task' = [task EXCEPT ![t].pc = "claim", ![t].started = clock]
        /\ UNCHANGED <<store, loss, renewer>>
  /\ UNCHANGED <<clock, acks, spent>>

\* While a live lease is in the way the claim is refused and tried again later.
ClaimRead(t) ==
  LET s == Of(t) IN
  /\ task[t].pc = "claim" /\ clock < task[t].started + Budget
  /\ Admitted(Claim(s), ref, Now(s))
  /\ task' = [task EXCEPT ![t].pc = "claimed", ![t].until = Now(s) + TTL]
  /\ Snapshot(t)
  /\ UNCHANGED <<clock, session, acks, spent>>

ClaimPut(t) ==
  /\ task[t].pc = "claimed"
  /\ \/ /\ Matches(t)
        /\ Commit(Value(t))
        /\ task' = [task EXCEPT ![t].pc = "confirm", ![t].until = 0, ![t].epoch = ref.epoch + 1]
     \/ /\ ~Matches(t)
        /\ task' = [task EXCEPT ![t].pc = "claim", ![t].until = 0]
        /\ UNCHANGED store
  /\ UNCHANGED <<clock, session, acks, spent>>

\* The session becomes Active with what a fresh snapshot says, and renewal starts.
Confirm(t) ==
  LET s == Of(t)  e == task[t].epoch IN
  /\ task[t].pc = "confirm"
  /\ mutex' = Unlocked(s)
  /\ \/ /\ ref.lease = None
        /\ Return(t) /\ UNCHANGED <<state, loss, renewer, store>>
     \/ /\ ref.lease # None /\ ~Owns(ref, s, e)
        /\ Lose(s) /\ Return(t) /\ UNCHANGED store
     \/ /\ Owns(ref, s, e)
        /\ state' = [state EXCEPT ![s] = Active(e, ref.lease.until)]
        /\ renewer' = [renewer EXCEPT ![s] = Asleep(e)]
        /\ Acquired(t, e) /\ UNCHANGED <<loss, store>>
  /\ UNCHANGED <<clock, acks, spent>>

\* The acquisition budget is over: LeaseHeld or DeadlineExceeded.
GiveUp(t) ==
  /\ task[t].pc \in {"claim", "claimed", "confirm"}
  /\ clock >= task[t].started + Budget
  /\ Leave({t})
  /\ mutex' = Unlocked(Of(t))
  /\ Return(t)
  /\ UNCHANGED <<clock, state, loss, renewer, acks, spent>>

(***************************************************************************)
(* append_stable, from an Active session on.                               *)
(***************************************************************************)
LoseCall(t) ==
  /\ Lose(Of(t)) /\ Return(t)
  /\ Leave({t, Of(t)})
  /\ UNCHANGED <<mutex, acks>>

\* Mutant: the key is not looked up again in the second snapshot.
CheckLeaseOnly(t) ==
  LET s == Of(t)
      ok == Owns(ref, s, task[t].epoch) /\ LeaseLive(ref, Now(s)) IN
  /\ task[t].pc = "check"
  /\ \/ ~ok /\ LoseCall(t)
     \/ /\ ok /\ task' = [task EXCEPT ![t].pc = "issue", ![t].until = ref.lease.until]
        /\ Snapshot(t) /\ UNCHANGED <<session, acks>>
  /\ UNCHANGED <<clock, spent>>

\* A fresh snapshot must still show the session's own live lease.
Check(t) ==
  LET s == Of(t)
      ok == Owns(ref, s, task[t].epoch) /\ LeaseLive(ref, Now(s)) IN
  /\ task[t].pc = "check"
  /\ \/ ~ok /\ LoseCall(t)
     \/ ok /\ Answer(t) /\ UNCHANGED <<store, session>>
     \/ /\ ok /\ ~Holds(task[t].job.key)
        /\ task' = [task EXCEPT ![t].pc = "issue", ![t].until = ref.lease.until]
        /\ Snapshot(t) /\ UNCHANGED <<session, acks>>
  /\ UNCHANGED <<clock, spent>>

\* publication_io and enforce_live_lease: the token and the snapshot's deadline
\* are looked at before the ref is put, and cut the put short while it is awaited.
\* Mutant: only the deadline is looked at.
BarredByDeadline(t) == task[t].until <= Now(Of(t))

Barred(t) == loss[Of(t)] \/ task[t].until <= Now(Of(t))

Issue(t) ==
  /\ task[t].pc = "issue"
  /\ \/ Barred(t) /\ LoseCall(t)
     \/ ~Barred(t) /\ Goto(t, "sent") /\ UNCHANGED <<store, session, acks>>
  /\ UNCHANGED <<clock, spent>>

AppendPut(t) ==
  /\ task[t].pc = "sent" /\ ~Barred(t)
  /\ \/ /\ Matches(t)
        /\ Commit(Value(t))
        /\ acks' = acks \cup {[seq |-> Len(ref.log) + 1, key |-> task[t].job.key,
                               payload |-> task[t].job.payload]}
        /\ Return(t)
     \/ /\ ~Matches(t) /\ task[t].rounds + 1 < MaxRounds
        /\ task' = [task EXCEPT ![t] = [Idle EXCEPT !.pc = "look", !.job = task[t].job,
                                                    !.rounds = task[t].rounds + 1]]
        /\ UNCHANGED <<store, acks>>
     \/ /\ ~Matches(t) /\ task[t].rounds + 1 >= MaxRounds
        /\ Return(t) /\ UNCHANGED <<store, acks>>
  /\ UNCHANGED <<clock, session, spent>>

Interrupted(t) ==
  /\ task[t].pc = "sent" /\ Barred(t)
  /\ LoseCall(t)
  /\ UNCHANGED <<clock, spent>>

(***************************************************************************)
(* close: cancel the token, stop the renewal, and release a lease that is  *)
(* believed to be held.  Whatever the release says, the session is Closed. *)
(***************************************************************************)
Close(t) ==
  /\ task[t].pc = "close"
  /\ Cancel(Of(t))
  /\ Goto(t, "closing")
  /\ Leave({Of(t)})
  /\ UNCHANGED <<clock, state, mutex, acks, spent>>

Closed(t) == Return(t) /\ state' = [state EXCEPT ![Of(t)] = At("Closed")]

ReleaseRead(t) ==
  LET s == Of(t)  e == state[s].epoch
      mine == state[s].tag = "Active" /\ Admitted(Release(s, e), ref, Now(s)) IN
  /\ task[t].pc = "closing"
  /\ \/ ~mine /\ Closed(t) /\ UNCHANGED store
     \/ /\ mine /\ Snapshot(t) /\ UNCHANGED state
        /\ task' = [task EXCEPT ![t].pc = "freed", ![t].epoch = e]
  /\ UNCHANGED <<clock, loss, mutex, renewer, acks, spent>>

ReleasePut(t) ==
  /\ task[t].pc = "freed"
  /\ \/ Matches(t) /\ Commit(Value(t)) /\ Closed(t)
     \/ ~Matches(t) /\ Goto(t, "closing") /\ UNCHANGED <<store, state>>
  /\ UNCHANGED <<clock, loss, mutex, renewer, acks, spent>>

(***************************************************************************)
(* The renewal task.                                                       *)
(***************************************************************************)
RenewerLoses(s) ==
  /\ loss' = [loss EXCEPT ![s] = TRUE]
  /\ state' = [state EXCEPT ![s] = At("Lost")]
  /\ renewer' = [renewer EXCEPT ![s] = NoRenewer]
  /\ Leave({s})

Renews(s, e) == state[s].tag = "Active" /\ state[s].epoch = e

\* It wakes when the renewal period is over, which is at least a tick after
\* the deadline was set.
Wake(s) ==
  LET r == renewer[s] IN
  /\ r.pc = "sleep" /\ (state[s].tag = "Active" => state[s].until < Now(s) + TTL)
  /\ \/ ~Renews(s, r.epoch) /\ renewer' = [renewer EXCEPT ![s] = NoRenewer]
        /\ UNCHANGED <<store, state, loss>>
     \/ Renews(s, r.epoch) /\ Expiring(s) /\ RenewerLoses(s)
     \/ Renews(s, r.epoch) /\ ~Expiring(s) /\ renewer' = [renewer EXCEPT ![s].pc = "read"]
        /\ UNCHANGED <<store, state, loss>>
  /\ UNCHANGED <<clock, mutex, task, acks, spent>>

\* renew_owned_lease: only a lease that is live and its own is extended.
RenewRead(s) ==
  LET r == renewer[s]
      ok == Owns(ref, s, r.epoch) /\ LeaseLive(ref, Now(s)) IN
  /\ r.pc = "read"
  /\ \/ ~ok /\ RenewerLoses(s)
     \/ /\ ok /\ Snapshot(s) /\ UNCHANGED <<state, loss>>
        /\ renewer' = [renewer EXCEPT ![s].pc = "cas", ![s].until = Now(s) + TTL]
  /\ UNCHANGED <<clock, mutex, task, acks, spent>>

\* Mutant: a lost race counts as a renewal.
RenewPutBlindly(s) ==
  /\ renewer[s].pc = "cas"
  /\ IF Matches(s) THEN Commit(Value(s)) ELSE UNCHANGED store
  /\ renewer' = [renewer EXCEPT ![s].pc = "notify"]
  /\ UNCHANGED <<clock, state, loss, mutex, task, acks, spent>>

RenewPut(s) ==
  /\ renewer[s].pc = "cas"
  /\ \/ /\ Matches(s)
        /\ Commit(Value(s))
        /\ renewer' = [renewer EXCEPT ![s].pc = "notify"]
     \/ /\ ~Matches(s)
        /\ renewer' = [renewer EXCEPT ![s].pc = "read", ![s].until = 0]
        /\ UNCHANGED store
  /\ UNCHANGED <<clock, state, loss, mutex, task, acks, spent>>

\* The renewal is raced against the deadline the session still believes in.
RenewTimer(s) ==
  /\ renewer[s].pc \in {"read", "cas"} /\ Expiring(s)
  /\ RenewerLoses(s)
  /\ UNCHANGED <<clock, mutex, task, acks, spent>>

RenewFails(s) ==
  /\ renewer[s].pc \in {"read", "cas"} /\ spent.faults < MaxFaults
  /\ RenewerLoses(s)
  /\ spent' = [spent EXCEPT !.faults = @ + 1]
  /\ UNCHANGED <<clock, mutex, task, acks>>

\* The new deadline is published, also by a task that was aborted a moment ago.
Notify(s) ==
  LET r == renewer[s] IN
  /\ r.pc \in {"notify", "lastnotify"}
  /\ state' = IF state[s].tag = "Closed" THEN state
              ELSE [state EXCEPT ![s] = Active(r.epoch, r.until)]
  /\ renewer' = [renewer EXCEPT ![s] =
                   IF r.pc = "notify" THEN Asleep(r.epoch) ELSE NoRenewer]
  /\ UNCHANGED <<store, clock, loss, mutex, task, acks, spent>>

(***************************************************************************)
(* Failures.                                                               *)
(***************************************************************************)
\* A call is cancelled, exceeds its deadline or meets a backend error: it
\* returns, its mutex is free, and its put may still be on its way.  A close
\* that fails has closed the session all the same.
Abandon(t) ==
  LET s == Of(t) IN
  /\ task[t].pc # "idle" /\ spent.faults < MaxFaults
  /\ Leave({t})
  /\ mutex' = IF mutex[s] = t THEN Unlocked(s) ELSE mutex
  /\ IF task[t].job.kind = "close" THEN Closed(t) ELSE Return(t) /\ UNCHANGED state
  /\ spent' = [spent EXCEPT !.faults = @ + 1]
  /\ UNCHANGED <<clock, loss, renewer, acks>>

\* The process ends, or drops the session: nothing is released.
Crash(s) ==
  /\ state[s].tag # "Closed" /\ spent.faults < MaxFaults
  /\ Leave({s} \cup {t \in Task : Of(t) = s})
  /\ task' = [t \in Task |-> IF Of(t) = s THEN Idle ELSE task[t]]
  /\ mutex' = Unlocked(s)
  /\ renewer' = [renewer EXCEPT ![s] = NoRenewer]
  /\ state' = [state EXCEPT ![s] = At("Closed")]
  /\ spent' = [spent EXCEPT !.faults = @ + 1]
  /\ UNCHANGED <<clock, loss, acks>>

\* The horizon leaves the last call its whole acquisition budget.
Tick ==
  /\ clock < LastStart + Budget
  /\ clock' = clock + 1
  /\ UNCHANGED <<store, session, task, acks, spent>>

Proceed(t) ==
  \/ Look(t) \/ Acquire(t) \/ ClaimRead(t) \/ ClaimPut(t) \/ Confirm(t) \/ GiveUp(t)
  \/ Check(t) \/ Issue(t) \/ AppendPut(t) \/ Interrupted(t)
  \/ Close(t) \/ ReleaseRead(t) \/ ReleasePut(t)

Renew(s) == Wake(s) \/ RenewRead(s) \/ RenewPut(s) \/ RenewTimer(s) \/ Notify(s)

Next ==
  \/ \E t \in Task : \E j \in Job(t) : Start(t, j)
  \/ \E t \in Task : Proceed(t) \/ Abandon(t)
  \/ \E s \in Sessions : Renew(s) \/ RenewFails(s) \/ Crash(s)
  \/ \E value \in wire : Land(value)
  \/ Tick

Spec == Init /\ [][Next]_vars
=============================================================================
