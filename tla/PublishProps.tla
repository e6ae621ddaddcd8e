---------------------------- MODULE PublishProps ----------------------------
(***************************************************************************)
(* What the publication engine must keep true.                             *)
(***************************************************************************)
EXTENDS Publish

\* Type correctness of every variable.
TypeOK ==
  /\ ref \in RefValue /\ refVersion \in Nat
  /\ rows \in [Op -> Row \cup {None}] /\ rowVersion \in [Op -> Nat]
  /\ objects \subseteq Digest
  /\ wire \subseteq Put
  /\ clock \in Nat
  /\ pc \in [Client -> Labels]
  /\ call \in [Client -> Call \cup {None}]
  /\ seen \in [Client -> [row : Row \cup {None}, version : Nat]]
  /\ base \in [Client -> Nat]
  /\ draft \in [Client -> Draft \cup {None}]
  /\ result \in [Client -> Receipt \cup {None}]
  /\ reply \in [Client -> Errors \cup {"none", "Published"}]
  /\ receipts \subseteq [receipt : Receipt, to : Client]
  /\ spent \in [calls : Nat, faults : Nat, tampers : Nat, renewals : Nat]

\* An operation id takes effect at most once in the history of the ref, however
\* often it is retried, by whomever, and whatever writes arrive late.
AtMostOnce ==
  \A i, j \in DOMAIN ref.head_commit :
    ref.head_commit[i].identity = ref.head_commit[j].identity => i = j

\* Nobody is told of an effect that is not in the live history, and what is told
\* (generation, epoch, commit) is what that commit recorded.
ReceiptsAreCommits ==
  \A a \in receipts :
    /\ InHistory(a.receipt.commit, ref.head_commit)
    /\ a.receipt = ReceiptAt(ref.head_commit, a.receipt.generation, a.receipt.first)

\* No two callers are both told that theirs was the first delivery of an operation.
FirstDeliveryOnce ==
  \A a, b \in receipts :
    a.receipt.first /\ b.receipt.first /\ a.receipt.identity = b.receipt.identity => a = b

\* The ref counts the commits behind it, and neither it nor a commit ever points
\* at a commit that was not uploaded before.
HistoryIsDurable ==
  /\ ref.generation = Len(ref.head_commit)
  /\ \A g \in 1..Len(ref.head_commit) : SubSeq(ref.head_commit, 1, g) \in objects

\* An intent row never runs ahead of the ref, so no retry of a healthy store
\* ends in RecoveryFailed.
NeverFailsClosed == \A c \in Client : reply[c] # "RecoveryFailed"

\* A conflict is reported only for an id that really was used for another request.
ConflictIsJustified ==
  [][\A c \in Client :
       reply'[c] = "IdempotencyConflict" /\ reply[c] # "IdempotencyConflict" =>
         LET o == call[c].op
             q == Material(call[c].mutation) IN
         \/ rows[o] # None /\ rows[o].request # q
         \/ \E g \in CommittedAt(o, ref.head_commit) : ref.head_commit[g].request # q]_vars

\* Every call returns, however callers get in each other's way.
EveryCallReturns == \A c \in Client : pc[c] # "idle" ~> pc[c] = "idle"

\* The engine implements the register that performs each operation at once.
Entries(h) == [i \in DOMAIN h |-> [identity |-> h[i].identity, request |-> h[i].request,
                                   epoch |-> h[i].epoch]]

Abstract == INSTANCE Register WITH
  content  <- [epoch |-> ref.epoch, lease |-> ref.lease, target |-> ref.target],
  history  <- Entries(ref.head_commit),
  clock    <- clock,
  receipts <- {[identity |-> a.receipt.identity, request |-> a.receipt.request,
                generation |-> a.receipt.generation, epoch |-> a.receipt.epoch] : a \in receipts}

RegisterSpec == Abstract!Spec
=============================================================================
