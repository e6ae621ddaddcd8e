---------------------------- MODULE SessionProps ----------------------------
(***************************************************************************)
(* What writer sessions promise.                                           *)
(***************************************************************************)
EXTENDS Session

\* Types: the ref, the published states, the tasks and the renewal tasks take
\* only the values the code gives them (feed.rs WriterState, WriterSession).
TypeOK ==
  /\ ref.epoch \in Nat /\ ref.lease \in Lease \cup {None}
  /\ fresh \subseteq Task \cup Sessions /\ clock \in Nat
  /\ \A s \in Sessions :
       /\ state[s].tag \in {"Unacquired", "Acquiring", "Active", "Lost", "Closed"}
       /\ state[s].epoch \in Nat /\ state[s].until \in Nat
       /\ loss[s] \in BOOLEAN /\ mutex[s] \in Task \cup {None}
       /\ mutex[s] # None => task[mutex[s]].pc \in {"claim", "claimed", "confirm"}
       /\ renewer[s].pc \in {"none", "sleep", "read", "cas", "notify", "lastnotify"}
  /\ \A t \in Task :
       /\ task[t].pc \in {"idle", "look", "lock", "claim", "claimed", "confirm", "check",
                          "issue", "sent", "close", "closing", "freed"}
       /\ task[t].job \in Job(t) \cup {None}

\* A stable key is appended at most once, whatever sessions, retries, lost
\* replies and late puts do (feed.rs append_stable, lookup_committed).
KeyOnce ==
  \A i, j \in DOMAIN ref.log : ref.log[i].key = ref.log[j].key => i = j

\* The session would hand out its epoch or start a publication now.
Acting(s) == state[s].tag = "Active" /\ ~loss[s] /\ ~Expiring(s)

\* With clocks apart by no more than the slack, no two sessions consider
\* themselves the writer at the same instant (feed.rs active_epoch, renewal loop).
OneActiveWriter == \A r, s \in Sessions : Acting(r) /\ Acting(s) => r = s

\* As long as the epoch has not moved on, what an Active session believes of its
\* lease is true of the ref: the lease is its own and lasts at least as long
\* (feed.rs acquire, spawn_renew).
ActiveBelief ==
  \A s \in Sessions :
    state[s].tag = "Active" /\ ~loss[s] =>
      /\ ref.epoch >= state[s].epoch
      /\ ref.epoch = state[s].epoch =>
           Owns(ref, s, state[s].epoch) /\ ref.lease.until >= state[s].until

EntriesBy(r, s) == {i \in DOMAIN r.log : r.log[i].by = s}

\* Nothing of this session is on its way to the log.
Silent(s) ==
  /\ \A t \in Task : Of(t) = s => task[t].pc # "sent"
  /\ \A value \in wire : EntriesBy(value, s) = EntriesBy(ref, s)

\* A session whose token is cancelled starts no publication: once what was in
\* flight has settled, it never appends again (feed.rs lose, timed_cas;
\* publish.rs enforce_live_lease).
LostIsSilent ==
  [][\A s \in Sessions :
       loss[s] /\ Silent(s) => Silent(s)' /\ EntriesBy(ref', s) = EntriesBy(ref, s)]_vars

\* The sessions together behave like a log behind an expiring lock: whoever
\* appends holds the lock, a key is written once, receipts name written entries
\* (module FencedLog).
Promise == INSTANCE FencedLog WITH
  Session <- Sessions, Entry <- UNION {{[key |-> j.key, payload |-> j.payload] : j \in Job(t)} : t \in Task},
  epoch <- ref.epoch, holder <- ref.lease, log <- ref.log, acks <- acks, clock <- clock

FencedLogSpec == Promise!Spec

\* A lost session is only ever closed, as docs/testing/foundation-bridge.md
\* says: "A lost session stays lost".
LostStaysLost ==
  [][\A s \in Sessions :
       state[s].tag = "Lost" => state'[s].tag \in {"Lost", "Closed"}]_vars
=============================================================================
