----------------------------- MODULE GroupProps -----------------------------
(***************************************************************************)
(* What group commit must keep true.                                       *)
(***************************************************************************)
EXTENDS Group

Ack   == [op : Op, payload : Payloads, generation : Nat, first : Nat, last : Nat, first_delivery : BOOLEAN]
Error == {"IdempotencyConflict", "RecoveryFailed", "NotConverged", "NotAdmitted", "BackendUnavailable"}

\* Type correctness of every variable.
TypeOK ==
  /\ log \in Seq(Commit)
  /\ rows \in [Op -> Row \cup {None}] /\ rowVersion \in [Op -> Nat]
  /\ \A m \in wire : m.op \in Op /\ m.version \in Nat
  /\ pc \in [Task -> Labels]
  /\ \A l \in Task :
       /\ job[l].items \in Seq(Submission) /\ job[l].pending \in Seq(Submission)
       /\ job[l].at \in Nat \ {0} /\ job[l].start \in Nat /\ job[l].base \in Nat
       /\ job[l].seen \in [row : Row \cup {None}, version : Nat]
       /\ job[l].draft \in Commit /\ job[l].todo \in Seq(Op) /\ job[l].rounds \in 0..MaxAttempts
       /\ job[l].done = None \/ job[l].done \in [generation : Nat \ {0}, first : BOOLEAN]
  /\ acks \subseteq Ack
  /\ errors \subseteq [op : Op, error : Error]
  /\ spent \in [batches : Nat, appends : Nat, faults : Nat, losses : Nat]

\* No operation is admitted by two commits, or twice by one, whether it travels as
\* leader, as companion or as a plain append.
AdmittedOnce ==
  \A g, h \in DOMAIN log : \A i \in DOMAIN log[g], j \in DOMAIN log[h] :
    log[g][i].identity = log[h][j].identity => g = h /\ i = j

Events == FlattenSeq([g \in DOMAIN log |-> FlattenSeq([i \in DOMAIN log[g] |-> log[g][i].request])])

\* Every acknowledged range holds exactly the events that its producer submitted.
AcksAreWritten ==
  \A a \in acks : a.last <= Len(Events) /\ SubSeq(Events, a.first, a.last) = a.payload

\* Who presents a used id for a different payload gets a conflict, never a receipt.
DifferentRequestConflicts ==
  \A a \in acks : AdmissionOf(a.op, log[a.generation]).request = a.payload

\* A row never runs ahead of the log, and no companion row goes missing under its leader.
NeverFailsClosed == \A e \in errors : e.error # "RecoveryFailed"

\* A batch that another commit has thrown out of step is served when its
\* producers submit it again: once every batch and append has been made and
\* none was lost to a fault, everything submitted in a batch is in the log.
ResubmissionServes ==
  spent.batches = MaxBatches /\ spent.appends = MaxAppends /\ spent.faults = 0
    /\ (\A l \in Task : pc[l] = "idle")
  => \A batch \in Batch : \A s \in Range(batch) : CommittedAt(s.op) # {}
=============================================================================
