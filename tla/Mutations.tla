----------------------------- MODULE Mutations -----------------------------
(***************************************************************************)
(* The logical mutations of a named ref and the fencing rules they obey.   *)
(*                                                                         *)
(* A mutation plan (crates/combctl/src/store.rs: SetTargetPlan, ClaimPlan, *)
(* ReleasePlan) is a function of the ref value it was prepared against and *)
(* of the clock at that moment: it is refused, or it yields the next ref   *)
(* value.  Names, digests and reasons are model values; the time-to-live   *)
(* of a lease is the one constant TTL (it is not part of a request's       *)
(* identity, so different values would not be told apart by a retry).      *)
(***************************************************************************)
EXTENDS Integers

CONSTANTS Writer,   \* writer names that may hold a lease
          Target,   \* blob digests a ref may point at
          TTL,      \* how long a claimed or renewed lease lives
          None      \* the absent option

ASSUME TTLAssumption  == TTL \in Nat

\* The mutable content of a ref apart from its generation and its head commit.
Lease == [writer : Writer, until : Nat]

ASSUME NoneAssumption == None \notin Nat \cup Writer \cup Target \cup Lease

Content == [epoch : Nat, lease : Lease \cup {None}, target : Target \cup {None}]

EmptyContent == [epoch |-> 0, lease |-> None, target |-> None]

\* A lease is live strictly before its deadline.
LeaseLive(r, now) == r.lease # None /\ r.lease.until > now

SetTargets == [kind : {"set-target"}, target : Target, fence : Nat \cup {None}]
Claims     == [kind : {"claim"}, writer : Writer, steal : BOOLEAN]
Releases   == [kind : {"release"}, fence : Nat, writer : Writer \cup {None}]
Mutation   == SetTargets \cup Claims \cup Releases

(***************************************************************************)
(* What identifies a request when its operation id is presented again: the *)
(* fence and the caller of a release are authority, not identity.          *)
(***************************************************************************)
Material(m) ==
  CASE m.kind = "set-target" -> [kind |-> "set-target", target |-> m.target]
    [] m.kind = "claim"      -> [kind |-> "claim", writer |-> m.writer, steal |-> m.steal]
    [] m.kind = "release"    -> [kind |-> "release"]

Materials == [kind : {"set-target"}, target : Target]
             \cup [kind : {"claim"}, writer : Writer, steal : BOOLEAN]
             \cup [kind : {"release"}]

SetTargetRefusal(m, r, now) ==
  CASE m.fence # None /\ m.fence # r.epoch     -> "Fenced"
    [] m.fence = None /\ LeaseLive(r, now)     -> "LeaseHeld"
    [] OTHER                                   -> "Admitted"

ClaimRefusal(m, r, now) ==
  IF LeaseLive(r, now) /\ ~m.steal /\ r.lease.writer # m.writer
  THEN "LeaseHeld" ELSE "Admitted"

ReleaseRefusal(m, r) ==
  CASE m.fence # r.epoch                                                 -> "Fenced"
    [] m.fence = r.epoch /\ m.writer # None /\ r.lease = None            -> "Rejected"
    [] m.fence = r.epoch /\ m.writer # None /\ r.lease # None
                         /\ r.lease.writer # m.writer                    -> "Rejected"
    [] OTHER                                                             -> "Admitted"

\* The verdict of a plan's prepare step on ref content r at time now.
Verdict(m, r, now) ==
  CASE m.kind = "set-target" -> SetTargetRefusal(m, r, now)
    [] m.kind = "claim"      -> ClaimRefusal(m, r, now)
    [] m.kind = "release"    -> ReleaseRefusal(m, r)

Admitted(m, r, now) == Verdict(m, r, now) = "Admitted"

\* The content an admitted mutation leaves behind.  Only a claim moves the epoch.
Apply(m, r, now) ==
  CASE m.kind = "set-target" -> [r EXCEPT !.target = m.target]
    [] m.kind = "claim"      -> [r EXCEPT !.epoch = @ + 1,
                                          !.lease = [writer |-> m.writer, until |-> now + TTL]]
    [] m.kind = "release"    -> [r EXCEPT !.lease = None]

\* A v2 renewal needs the epoch and a lease, whether or not the lease is still live.
Renewable(r, fence) == r.epoch = fence /\ r.lease # None

Renewed(r, now) == [r EXCEPT !.lease = [writer |-> r.lease.writer, until |-> now + TTL]]
=============================================================================
