------------------------------ MODULE Register ------------------------------
(***************************************************************************)
(* What the publication engine promises its callers, with no protocol: one *)
(* register whose mutations happen one at a time, each at most once per    *)
(* operation id, each admitted by the fencing rules on the content it      *)
(* finds, and each acknowledged only with the record of its one effect.    *)
(***************************************************************************)
EXTENDS Mutations, Sequences

CONSTANTS Op,       \* operation ids
          Call,     \* the requests callers may make, each an id and a Mutation
          MaxClock

VARIABLES content,    \* epoch, lease and target of the ref
          history,    \* the operations that took effect, in order
          clock,
          receipts    \* the acknowledgements callers have received

vars == <<content, history, clock, receipts>>

Entry == [identity : Op, request : Materials, epoch : Nat]

Init ==
  /\ content = EmptyContent
  /\ history = <<>>
  /\ clock = 0
  /\ receipts = {}

\* The operation takes effect.  A lease deadline may be counted from any
\* instant at which the mutation was already admissible.
Perform(o, m) ==
  /\ \A i \in DOMAIN history : history[i].identity # o
  /\ Admitted(m, content, clock)
  /\ \E t \in 0..clock : content' = Apply(m, content, t)
  /\ history' = Append(history, [identity |-> o, request |-> Material(m),
                                 epoch |-> content'.epoch])
  /\ UNCHANGED <<clock, receipts>>

Renew ==
  /\ \E fence \in 0..content.epoch : Renewable(content, fence)
  /\ \E t \in 0..clock : content' = Renewed(content, t)
  /\ UNCHANGED <<history, clock, receipts>>

\* A caller learns the place and the result of an effect that has happened.
Acknowledge(i) ==
  /\ receipts' = receipts \cup {[identity |-> history[i].identity, request |-> history[i].request,
                                generation |-> i, epoch |-> history[i].epoch]}
  /\ UNCHANGED <<content, history, clock>>

Tick ==
  /\ clock < MaxClock
  /\ clock' = clock + 1
  /\ UNCHANGED <<content, history, receipts>>

Next ==
  \/ \E k \in Call : Perform(k.op, k.mutation)
  \/ \E i \in DOMAIN history : Acknowledge(i)
  \/ Renew
  \/ Tick

Spec == Init /\ [][Next]_vars
=============================================================================
