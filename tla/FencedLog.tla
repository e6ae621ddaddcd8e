------------------------------ MODULE FencedLog ------------------------------
(***************************************************************************)
(* What writer sessions promise together, with no store protocol: a log    *)
(* behind a lock that expires.  Whoever takes the lock opens a new epoch;  *)
(* only the holder appends; a stable key is appended at most once; what is *)
(* acknowledged is in the log.                                             *)
(***************************************************************************)
EXTENDS Integers, Sequences

CONSTANTS Session,  \* writer instances
          Entry,    \* the appends they may make: a key and a payload
          TTL,      \* how long the lock is held without being extended
          Skew,     \* how far ahead of the common clock each session's clock is
          None

VARIABLES epoch,   \* how often the lock has been taken
          holder,  \* who holds the lock, and until when
          log,
          acks,    \* the positions that have been acknowledged
          clock

vars == <<epoch, holder, log, acks, clock>>

Init == epoch = 0 /\ holder = None /\ log = <<>> /\ acks = {} /\ clock = 0

\* A deadline counts from some instant at which the session looked at its clock.
Hold(s) == \E t \in 0..(clock + Skew[s]) : holder' = [writer |-> s, until |-> t + TTL]

Take(s) ==
  /\ holder = None \/ holder.writer = s \/ holder.until <= clock + Skew[s]
  /\ Hold(s)
  /\ epoch' = epoch + 1
  /\ UNCHANGED <<log, acks, clock>>

Extend(s) ==
  /\ holder # None /\ holder.writer = s
  /\ Hold(s)
  /\ UNCHANGED <<epoch, log, acks, clock>>

GiveBack(s) ==
  /\ holder # None /\ holder.writer = s
  /\ holder' = None
  /\ UNCHANGED <<epoch, log, acks, clock>>

Write(s, a) ==
  /\ holder # None /\ holder.writer = s
  /\ \A i \in DOMAIN log : log[i].key # a.key
  /\ log' = Append(log, [key |-> a.key, payload |-> a.payload, epoch |-> epoch, by |-> s])
  /\ UNCHANGED <<epoch, holder, acks, clock>>

Acknowledge(i) ==
  /\ acks' = acks \cup {[seq |-> i, key |-> log[i].key, payload |-> log[i].payload]}
  /\ UNCHANGED <<epoch, holder, log, clock>>

\* The holder writes and is told so at once.
WriteAcknowledged(s, a) ==
  /\ holder # None /\ holder.writer = s
  /\ \A i \in DOMAIN log : log[i].key # a.key
  /\ log' = Append(log, [key |-> a.key, payload |-> a.payload, epoch |-> epoch, by |-> s])
  /\ acks' = acks \cup {[seq |-> Len(log) + 1, key |-> a.key, payload |-> a.payload]}
  /\ UNCHANGED <<epoch, holder, clock>>

Tick == clock' = clock + 1 /\ UNCHANGED <<epoch, holder, log, acks>>

Next ==
  \/ \E s \in Session : Take(s) \/ Extend(s) \/ GiveBack(s)
  \/ \E s \in Session, a \in Entry : Write(s, a) \/ WriteAcknowledged(s, a)
  \/ \E i \in DOMAIN log : Acknowledge(i)
  \/ Tick

Spec == Init /\ [][Next]_vars
=============================================================================
