---------------------------- MODULE PublishProofs ----------------------------
(***************************************************************************)
(* Theorems about the publication engine, for any number of callers,       *)
(* operations, calls, faults, renewals and clock values: its types, that   *)
(* each operation is published at most once, the history of a ref, the     *)
(* receipts given for it and the register they add up to.                  *)
(***************************************************************************)
EXTENDS PublishInv, TLAPS, SequenceTheorems

-----------------------------------------------------------------------------
(* What the helpers return.                                                *)

\* The identity of a request is one of the known materials.
LEMMA MaterialType == ASSUME NEW m \in Mutation PROVE Material(m) \in Materials
  BY DEF Mutation, SetTargets, Claims, Releases, Material, Materials

\* A mutation keeps the shape of a ref, its generation and its head commit.
LEMMA ApplyType ==
  ASSUME NEW m \in Mutation, NEW r \in RefValue, NEW t \in Nat
  PROVE  /\ Apply(m, r, t) \in RefValue
         /\ Apply(m, r, t).generation = r.generation
         /\ Apply(m, r, t).head_commit = r.head_commit
<1>1. CASE m \in SetTargets
  BY <1>1 DEF SetTargets, Apply, RefValue
<1>2. CASE m \in Claims
  <2> DEFINE l == [writer |-> m.writer, until |-> t + TTL]
             e == r.epoch + 1
  <2>1. l \in Lease /\ e \in Nat BY <1>2, TTLAssumption DEF Claims, Lease, RefValue
  <2>2. Apply(m, r, t) = [r EXCEPT !.epoch = e, !.lease = l]
    BY <1>2 DEF Claims, Apply, RefValue
  <2> HIDE DEF l, e
  <2> QED BY <2>1, <2>2 DEF RefValue
<1>3. CASE m \in Releases
  BY <1>3 DEF Releases, Apply, RefValue
<1> QED BY <1>1, <1>2, <1>3 DEF Mutation

\* A plan that is not admitted is refused with one of the callers' errors.
LEMMA VerdictType ==
  ASSUME NEW m \in Mutation, NEW r, NEW t
  PROVE  Verdict(m, r, t) \in {"Admitted", "Fenced", "LeaseHeld", "Rejected"}
  BY DEF Mutation, SetTargets, Claims, Releases, Verdict, SetTargetRefusal, ClaimRefusal,
         ReleaseRefusal

\* A generation of a history has a receipt.
LEMMA ReceiptType ==
  ASSUME NEW h \in Digest, NEW g \in DOMAIN h, NEW first \in BOOLEAN
  PROVE  ReceiptAt(h, g, first) \in Receipt
<1>1. h[g] \in Commit /\ g \in Nat BY DEF Digest
<1>2. SubSeq(h, 1, g) \in Digest BY DEF Digest
<1> QED BY <1>1, <1>2 DEF ReceiptAt, Receipt, Commit

\* The prepared ref value extends the snapshot by one commit of the caller's operation.
LEMMA PreparedType ==
  ASSUME TypeOK, NEW c \in Client, call[c] \in Call
  PROVE  LET v == Prepared(c, ref) IN
         /\ v \in RefValue
         /\ v.generation = ref.generation + 1
         /\ Len(v.head_commit) = Len(History) + 1
         /\ v.head_commit[Len(History) + 1].identity = call[c].op
         /\ \A g \in 1..Len(History) : v.head_commit[g] = History[g]
<1> DEFINE m == call[c].mutation
           next == Apply(m, ref, clock)
           n == ref.generation + 1
           x == [identity |-> call[c].op, request |-> Material(m), epoch |-> next.epoch, by |-> c]
<1>1. m \in Mutation /\ call[c].op \in Op BY CallAssumption
<1>2. ref \in RefValue /\ clock \in Nat BY DEF TypeOK
<1>3. /\ next \in RefValue /\ next.generation = ref.generation
      /\ next.head_commit = History
  BY <1>1, <1>2, ApplyType DEF History
<1>4. x \in Commit BY <1>1, <1>3, MaterialType DEF Commit, RefValue
<1>5. History \in Seq(Commit) BY <1>2 DEF History, RefValue, Digest
<1>6. Prepared(c, ref) = [next EXCEPT !.generation = n, !.head_commit = Append(History, x)]
  BY <1>3 DEF Prepared, RefValue
<1>7. Append(History, x) \in Seq(Commit) /\ Len(Append(History, x)) = Len(History) + 1
      /\ Append(History, x)[Len(History) + 1] = x
      /\ \A g \in 1..Len(History) : Append(History, x)[g] = History[g]
  BY <1>4, <1>5
<1>10. n \in Nat BY <1>2 DEF RefValue
<1> HIDE DEF next, x, n
<1>8. Prepared(c, ref) \in RefValue
  BY <1>2, <1>3, <1>6, <1>7, <1>10 DEF RefValue, Digest
<1>9. /\ Prepared(c, ref).generation = n
      /\ Prepared(c, ref).head_commit = Append(History, x)
  BY <1>3, <1>6 DEF RefValue
<1> QED BY <1>7, <1>8, <1>9 DEF x, n

\* A row written by an attempt, or by a finalizer, is a row.
LEMMA RowTypes ==
  ASSUME NEW r \in Row, NEW b \in Nat, NEW d \in Digest
  PROVE  /\ [r EXCEPT !.state = "Pending", !.base = b, !.commit = d] \in Row
         /\ [r EXCEPT !.state = "Applied", !.commit = d] \in Row
<1>1. "Pending" \in {"Pending", "Applied"} /\ "Applied" \in {"Pending", "Applied"} OBVIOUS
<1>2. [r EXCEPT !.state = "Pending", !.base = b, !.commit = d] \in Row BY <1>1 DEF Row
<1>3. [r EXCEPT !.state = "Applied", !.commit = d] \in Row BY <1>1 DEF Row
<1> QED BY <1>2, <1>3

\* The write a caller issues is well-formed, whatever it is.
LEMMA OutgoingType ==
  ASSUME TypesInv, NEW c \in Client, Writing(c)
  PROVE  /\ Outgoing(c) \in Put
         /\ Outgoing(c).op = call[c].op
         /\ Outgoing(c).key = "ref" => pc[c] = "cas" /\ Outgoing(c).value = draft[c].value
                                       /\ Outgoing(c).version = draft[c].version
<1> DEFINE o == call[c].op
<1>1. pc[c] # "idle" BY DEF Writing
<1>2. call[c] \in Call /\ o \in Op /\ call[c].mutation \in Mutation
  BY <1>1, CallAssumption DEF TypesInv, LocalsOK
<1>3. CASE pc[c] = "create"
  <2>1. PendingRow(Material(call[c].mutation), base[c]) \in Row
    BY <1>2, MaterialType DEF TypesInv, TypeOK, PendingRow, Row, Digest
  <2> QED BY <1>2, <1>3, <2>1 DEF Outgoing, RowPut, Put
<1>4. CASE pc[c] = "write"
  <2>1. seen[c].row \in Row /\ base[c] \in Nat /\ <<>> \in Digest
    BY <1>4 DEF TypesInv, TypeOK, LocalsOK, Digest
  <2>2. Rebased(c) \in Row BY <2>1, RowTypes DEF Rebased
  <2>3. seen[c].version \in Nat BY DEF TypesInv, TypeOK
  <2> QED BY <1>2, <1>4, <2>2, <2>3 DEF Outgoing, RowPut, Put
<1>5. CASE pc[c] = "cas"
  <2>1. draft[c] \in Draft BY <1>5 DEF TypesInv, TypeOK, LocalsOK
  <2> QED BY <1>2, <1>5, <2>1 DEF Outgoing, RefPut, Put, Draft
<1>6. CASE pc[c] = "finalize"
  <2>1. rows[o] \in Row BY <1>2, <1>6 DEF TypesInv, TypeOK, Writing
  <2>2. result[c] \in Receipt BY <1>6 DEF TypesInv, TypeOK, LocalsOK
  <2>3. AppliedRow(c) \in Row BY <2>1, <2>2, RowTypes DEF AppliedRow, Receipt
  <2>4. RowVersionOf(o) \in Nat BY <1>2 DEF RowVersionOf, TypesInv, TypeOK
  <2> QED BY <1>2, <1>6, <2>3, <2>4 DEF Outgoing, RowPut, Put
<1> QED BY <1>3, <1>4, <1>5, <1>6 DEF Writing

-----------------------------------------------------------------------------
(* Type correctness.                                                       *)

\* A step to another label moves the one caller only.
LEMMA GotoFacts ==
  ASSUME TypesInv, NEW c \in Client, NEW l \in Labels, Goto(c, l)
  PROVE  /\ pc' \in [Client -> Labels] /\ pc'[c] = l
         /\ \A k \in Client \ {c} : pc'[k] = pc[k]
  BY DEF Goto, TypesInv, TypeOK

\* The locals of a caller that starts over, or is done.
LEMMA ForgetTypes ==
  ASSUME TypesInv, NEW c \in Client, Forget(c)
  PROVE  /\ call' = call
         /\ seen' \in [Client -> [row : Row \cup {None}, version : Nat]] /\ seen'[c] = NoRead
         /\ base' \in [Client -> Nat] /\ base'[c] = 0
         /\ draft' \in [Client -> Draft \cup {None}] /\ draft'[c] = None
         /\ result' \in [Client -> Receipt \cup {None}] /\ result'[c] = None
         /\ \A k \in Client \ {c} : /\ seen'[k] = seen[k] /\ base'[k] = base[k]
                                    /\ draft'[k] = draft[k] /\ result'[k] = result[k]
<1>1. NoRead \in [row : Row \cup {None}, version : Nat] BY DEF NoRead
<1> QED BY <1>1 DEF TypesInv, TypeOK, Forget

\* A conditional write that lands keeps the store well-typed.
LEMMA ApplyPutTypes ==
  ASSUME TypesInv, NEW m \in Put, ApplyPut(m), m.key = "ref" => Counted(m.value)
  PROVE  /\ ref' \in RefValue /\ refVersion' \in Nat /\ Counted(ref')
         /\ rows' \in [Op -> Row \cup {None}] /\ rowVersion' \in [Op -> Nat]
<1>1. CASE m.key = "row"
  <2>1. m.value \in Row /\ m.op \in Op BY <1>1 DEF Put
  <2>2. rows' \in [Op -> Row \cup {None}] BY <1>1, <2>1 DEF ApplyPut, TypesInv, TypeOK
  <2>3. rowVersion' \in [Op -> Nat] BY <1>1, <2>1 DEF ApplyPut, TypesInv, TypeOK
  <2>4. ref' = ref /\ refVersion' = refVersion BY <1>1 DEF ApplyPut
  <2> QED BY <2>2, <2>3, <2>4 DEF TypesInv, TypeOK, CountsOK, Counted
<1>2. CASE m.key = "ref"
  <2>1. m.value \in RefValue BY <1>2 DEF Put
  <2> QED BY <1>2, <2>1 DEF ApplyPut, TypesInv, TypeOK, CountsOK, Counted
<1> QED BY <1>1, <1>2 DEF Put

\* What a faulty step may leave on the wire.
LEMMA FaultTypes ==
  ASSUME TypesInv, NEW c \in Client, Fault(c)
  PROVE  /\ wire' \subseteq Put
         /\ \A m \in wire' : m.key = "ref" => Counted(m.value)
         /\ spent' \in [calls : Nat, faults : Nat, tampers : Nat, renewals : Nat]
<1>1. spent' \in [calls : Nat, faults : Nat, tampers : Nat, renewals : Nat]
  BY DEF Fault, TypesInv, TypeOK
<1>2. CASE wire' = wire BY <1>1, <1>2 DEF TypesInv, TypeOK, CountsOK
<1>3. CASE Writing(c) /\ wire' = wire \cup {Outgoing(c)}
  <2>1. Outgoing(c) \in Put BY <1>3, OutgoingType
  <2>2. Outgoing(c).key = "ref" => Counted(Outgoing(c).value)
    BY <1>3, OutgoingType DEF TypesInv, LocalsOK, CountsOK, CountedNext
  <2> QED BY <1>1, <1>3, <2>1, <2>2 DEF TypesInv, TypeOK, CountsOK
<1> QED BY <1>2, <1>3 DEF Fault

\* A caller that starts over, or returns, knows nothing.
LEMMA ForgetLocals ==
  ASSUME TypesInv, NEW c \in Client, Forget(c), NEW l \in {"idle", "load"}, Goto(c, l),
         l = "load" => call[c] \in Call
  PROVE  /\ pc' \in [Client -> Labels] /\ LocalsOK'
         /\ \A k \in Client : draft'[k] # None => CountedNext(draft'[k].value)
<1>1. pc' \in [Client -> Labels] /\ pc'[c] = l /\ \A k \in Client \ {c} : pc'[k] = pc[k]
  BY DEF Goto, TypesInv, TypeOK, Labels
<1>2. LocalsOK' BY <1>1, ForgetTypes DEF TypesInv, LocalsOK, NoRead
<1> QED BY <1>1, <1>2, ForgetTypes DEF TypesInv, CountsOK

\* Everything but the store and the wire after a caller returned.
LEMMA LeaveTypes ==
  ASSUME TypesInv, NEW c \in Client, NEW a \in Errors \cup {"none", "Published"}, Leave(c, a)
  PROVE  /\ call' \in [Client -> Call \cup {None}]
         /\ seen' \in [Client -> [row : Row \cup {None}, version : Nat]]
         /\ base' \in [Client -> Nat]
         /\ draft' \in [Client -> Draft \cup {None}]
         /\ result' \in [Client -> Receipt \cup {None}]
         /\ reply' \in [Client -> Errors \cup {"none", "Published"}]
         /\ pc' \in [Client -> Labels] /\ LocalsOK'
         /\ \A k \in Client : draft'[k] # None => CountedNext(draft'[k].value)
<1>1. Forget(c) /\ Goto(c, "idle") /\ reply' = [reply EXCEPT ![c] = a] BY DEF Leave
<1>2. reply' \in [Client -> Errors \cup {"none", "Published"}] BY <1>1 DEF TypesInv, TypeOK
<1> QED BY <1>1, <1>2, ForgetTypes, ForgetLocals DEF TypesInv, TypeOK

\* An acknowledgement keeps the set of receipts well typed.
LEMMA AcknowledgeTypes ==
  ASSUME TypesInv, NEW c \in Client, NEW r \in Receipt, Acknowledge(c, r)
  PROVE  receipts' \subseteq [receipt : Receipt, to : Client]
  BY DEF Acknowledge, TypesInv, TypeOK

\* Every step of every caller and of the environment keeps the types.
LEMMA TypesStep == TypesInv /\ [Next]_vars => TypesInv'
<1> SUFFICES ASSUME TypesInv, [Next]_vars PROVE TypesInv'
  OBVIOUS
<1> USE DEF store, frame
<1>1. ASSUME NEW c \in Client, Start(c) PROVE TypesInv'
  <2>1. pc' \in [Client -> Labels] /\ pc'[c] = "load" /\ \A k \in Client \ {c} : pc'[k] = pc[k]
    BY <1>1 DEF Start, Goto, TypesInv, TypeOK, Labels
  <2>2. call' \in [Client -> Call \cup {None}] /\ call'[c] \in Call
        /\ \A k \in Client \ {c} : call'[k] = call[k]
    BY <1>1 DEF Start, TypesInv, TypeOK
  <2>3. reply' \in [Client -> Errors \cup {"none", "Published"}]
        /\ spent' \in [calls : Nat, faults : Nat, tampers : Nat, renewals : Nat]
    BY <1>1 DEF Start, TypesInv, TypeOK
  <2>4. LocalsOK' BY <1>1, <2>1, <2>2 DEF Start, TypesInv, LocalsOK
  <2> QED BY <1>1, <2>1, <2>2, <2>3, <2>4 DEF Start, TypesInv, TypeOK, CountsOK
<1>2. ASSUME NEW c \in Client, LoadIntent(c) PROVE TypesInv'
  <2> DEFINE row == rows[call[c].op]
  <2>1. call[c] \in Call /\ row \in Row \cup {None} /\ RowVersionOf(call[c].op) \in Nat
    BY <1>2, CallAssumption DEF LoadIntent, TypesInv, TypeOK, LocalsOK, RowVersionOf
  <2>2. CASE Fail(c, "UnknownOperation") \/ Fail(c, "IdempotencyConflict")
    BY <1>2, <2>2, LeaveTypes DEF LoadIntent, Fail, Errors, TypesInv, TypeOK, CountsOK
  <2>3. CASE /\ seen' = [seen EXCEPT ![c] = [row |-> row, version |-> RowVersionOf(call[c].op)]]
             /\ \/ row = None /\ Goto(c, "scan") /\ UNCHANGED base
                \/ row # None /\ row.state = "Applied" /\ Goto(c, "cached") /\ UNCHANGED base
                \/ /\ row # None /\ row.state = "Pending"
                   /\ Goto(c, "resolve") /\ base' = [base EXCEPT ![c] = row.base]
             /\ UNCHANGED <<call, draft, result, reply, receipts>>
    <3>1. seen' \in [Client -> [row : Row \cup {None}, version : Nat]] /\ seen'[c].row = row
          /\ (row = None => seen'[c] = NoRead)
          /\ \A k \in Client \ {c} : seen'[k] = seen[k]
      BY <2>1, <2>3 DEF TypesInv, TypeOK, NoRead, RowVersionOf
    <3>2. base' \in [Client -> Nat] BY <2>1, <2>3 DEF TypesInv, TypeOK, Row
    <3>3. PICK l \in {"scan", "cached", "resolve"} :
            /\ Goto(c, l)
            /\ l = "scan" => row = None
            /\ l = "cached" => row # None /\ row.state = "Applied"
            /\ l = "resolve" => row # None
      BY <2>3
    <3>4. pc' \in [Client -> Labels] /\ pc'[c] = l /\ \A k \in Client \ {c} : pc'[k] = pc[k]
      BY <3>3 DEF Goto, TypesInv, TypeOK, Labels
    <3>5. \A k \in Client \ {c} : base'[k] = base[k] BY <2>3 DEF TypesInv, TypeOK
    <3>6. LocalsOK' BY <2>1, <2>3, <3>1, <3>3, <3>4, <3>5 DEF TypesInv, LocalsOK
    <3> QED BY <1>2, <2>3, <3>1, <3>2, <3>4, <3>6 DEF LoadIntent, TypesInv, TypeOK, CountsOK
  <2> QED BY <1>2, <2>2, <2>3 DEF LoadIntent
<1>3. ASSUME NEW c \in Client, TryCachedApplied(c) PROVE TypesInv'
  <2> DEFINE r == ReceiptAt(History, Len(seen[c].row.commit), FALSE)
  <2>1. CASE CacheHit(c, History) /\ Acknowledge(c, r)
    <3>1. Len(seen[c].row.commit) \in DOMAIN History /\ History \in Digest
      BY <2>1 DEF CacheHit, InHistory, History, TypesInv, TypeOK, RefValue, Digest
    <3>2. r \in Receipt BY <3>1, ReceiptType
    <3> QED BY <1>3, <2>1, <3>2, LeaveTypes, AcknowledgeTypes
            DEF TryCachedApplied, Acknowledge, TypesInv, TypeOK, CountsOK
  <2>2. CASE Goto(c, "scan") /\ UNCHANGED <<frame, reply, receipts>>
    <3>1. /\ pc' \in [Client -> Labels] /\ pc'[c] = "scan"
          /\ \A k \in Client \ {c} : pc'[k] = pc[k]
      BY <2>2, GotoFacts DEF Labels
    <3>2. LocalsOK' BY <1>3, <2>2, <3>1 DEF TryCachedApplied, TypesInv, LocalsOK
    <3> QED BY <1>3, <2>2, <3>1, <3>2 DEF TryCachedApplied, TypesInv, TypeOK, CountsOK
  <2> QED BY <1>3, <2>1, <2>2 DEF TryCachedApplied, History
<1>4. ASSUME NEW c \in Client, RecoverWithoutIntent(c) PROVE TypesInv'
  <2>1. CASE Goto(c, "readbase") /\ UNCHANGED <<frame, reply, receipts>>
    <3>1. /\ pc' \in [Client -> Labels] /\ pc'[c] = "readbase"
          /\ \A k \in Client \ {c} : pc'[k] = pc[k]
      BY <2>1, GotoFacts DEF Labels
    <3>2. LocalsOK' BY <1>4, <2>1, <3>1 DEF RecoverWithoutIntent, TypesInv, LocalsOK
    <3> QED BY <1>4, <2>1, <3>1, <3>2 DEF RecoverWithoutIntent, TypesInv, TypeOK, CountsOK
  <2>2. CASE \E g \in CommittedAt(call[c].op, History) : Acknowledge(c, ReceiptAt(History, g, FALSE))
    <3>1. PICK g \in DOMAIN History : Acknowledge(c, ReceiptAt(History, g, FALSE))
      BY <2>2 DEF CommittedAt
    <3>2. ReceiptAt(History, g, FALSE) \in Receipt
      BY ReceiptType DEF History, TypesInv, TypeOK, RefValue
    <3> QED BY <1>4, <3>1, <3>2, LeaveTypes, AcknowledgeTypes
            DEF RecoverWithoutIntent, Acknowledge, TypesInv, TypeOK, CountsOK
  <2>3. CASE Fail(c, "IdempotencyConflict")
    BY <1>4, <2>3, LeaveTypes DEF RecoverWithoutIntent, Fail, Errors, TypesInv, TypeOK, CountsOK
  <2> QED BY <1>4, <2>1, <2>2, <2>3 DEF RecoverWithoutIntent, History
<1>5. ASSUME NEW c \in Client, ReadBase(c) PROVE TypesInv'
  <2>1. PICK l \in {"create", "resolve"} :
          Goto(c, l) /\ (l = "create" <=> seen[c].row = None)
    BY <1>5 DEF ReadBase
  <2>2. pc' \in [Client -> Labels] /\ pc'[c] = l /\ \A k \in Client \ {c} : pc'[k] = pc[k]
    BY <2>1, GotoFacts DEF Labels
  <2>3. base' \in [Client -> Nat] /\ \A k \in Client \ {c} : base'[k] = base[k]
    BY <1>5 DEF ReadBase, TypesInv, TypeOK, RefValue
  <2>4. LocalsOK' BY <1>5, <2>1, <2>2, <2>3 DEF ReadBase, TypesInv, LocalsOK, NoRead
  <2> QED BY <1>5, <2>2, <2>3, <2>4 DEF ReadBase, TypesInv, TypeOK, CountsOK
<1>6. ASSUME NEW c \in Client, CreateIntent(c) PROVE TypesInv'
  <2>1. Forget(c) /\ Goto(c, "load") /\ call[c] \in Call
    BY <1>6 DEF CreateIntent, Retry, TypesInv, LocalsOK
  <2>2. /\ pc' \in [Client -> Labels] /\ LocalsOK'
        /\ \A k \in Client : draft'[k] # None => CountedNext(draft'[k].value)
    BY <2>1, ForgetLocals
  <2>3. /\ ref' \in RefValue /\ refVersion' \in Nat /\ Counted(ref')
        /\ rows' \in [Op -> Row \cup {None}] /\ rowVersion' \in [Op -> Nat]
    <3>1. CASE ApplyPut(Outgoing(c))
      BY <1>6, <3>1, OutgoingType, ApplyPutTypes DEF CreateIntent, Writing
    <3>2. CASE UNCHANGED <<ref, refVersion, rows, rowVersion>>
      BY <3>2 DEF TypesInv, TypeOK, CountsOK, Counted
    <3> QED BY <1>6, <3>1, <3>2 DEF CreateIntent
  <2>4. /\ wire' \subseteq Put /\ \A m \in wire' : m.key = "ref" => Counted(m.value)
        /\ spent' \in [calls : Nat, faults : Nat, tampers : Nat, renewals : Nat]
    <3>1. CASE Fault(c) BY <3>1, FaultTypes
    <3>2. CASE UNCHANGED <<wire, spent>> BY <3>2 DEF TypesInv, TypeOK, CountsOK
    <3> QED BY <1>6, <3>1, <3>2 DEF CreateIntent
  <2> QED BY <1>6, <2>1, <2>2, <2>3, <2>4, ForgetTypes
          DEF CreateIntent, TypesInv, TypeOK, CountsOK
<1>7. ASSUME NEW c \in Client, ResolvePending(c) PROVE TypesInv'
  <2> DEFINE g == base[c] + 1
             r == ReceiptAt(History, g, FALSE)
  <2>0. base[c] \in Nat /\ ref.generation = Len(History) /\ History \in Digest
    BY DEF TypesInv, TypeOK, CountsOK, Counted, History, RefValue
  <2>1. CASE Fail(c, "RecoveryFailed") \/ Fail(c, "IdempotencyConflict")
    BY <1>7, <2>1, LeaveTypes DEF ResolvePending, Fail, Errors, TypesInv, TypeOK, CountsOK
  <2>2. CASE /\ ref.generation > base[c]
             /\ result' = [result EXCEPT ![c] = r]
             /\ Goto(c, "finalize")
             /\ UNCHANGED <<call, seen, base, draft, reply, receipts>>
    <3>1. g \in DOMAIN History BY <2>0, <2>2 DEF Digest
    <3>2. r \in Receipt BY <2>0, <3>1, ReceiptType
    <3>3. result' \in [Client -> Receipt \cup {None}] /\ result'[c] # None
          /\ \A k \in Client \ {c} : result'[k] = result[k]
      BY <2>2, <3>2, AbsentAssumption DEF TypesInv, TypeOK
    <3>4. /\ pc' \in [Client -> Labels] /\ pc'[c] = "finalize"
          /\ \A k \in Client \ {c} : pc'[k] = pc[k]
      BY <2>2, GotoFacts DEF Labels
    <3>5. LocalsOK' BY ZenonT(40), <1>7, <2>2, <3>3, <3>4 DEF ResolvePending, TypesInv, LocalsOK
    <3> QED BY <1>7, <2>2, <3>3, <3>4, <3>5 DEF ResolvePending, TypesInv, TypeOK, CountsOK
  <2>3. CASE /\ base' = base \/ base' = [base EXCEPT ![c] = ref.generation]
             /\ Goto(c, "attempt")
             /\ UNCHANGED <<call, seen, draft, result, reply, receipts>>
    <3>1. base' \in [Client -> Nat] /\ \A k \in Client \ {c} : base'[k] = base[k]
      BY <2>3 DEF TypesInv, TypeOK, RefValue
    <3>2. /\ pc' \in [Client -> Labels] /\ pc'[c] = "attempt"
          /\ \A k \in Client \ {c} : pc'[k] = pc[k]
      BY <2>3, GotoFacts DEF Labels
    <3>3. LocalsOK' BY <1>7, <2>3, <3>1, <3>2 DEF ResolvePending, TypesInv, LocalsOK
    <3> QED BY <1>7, <2>3, <3>1, <3>2, <3>3 DEF ResolvePending, TypesInv, TypeOK, CountsOK
  <2> QED BY <1>7, <2>1, <2>2, <2>3 DEF ResolvePending, History
<1>8. ASSUME NEW c \in Client, BeginAttempt(c) PROVE TypesInv'
  <2> DEFINE m == call[c].mutation
  <2>1. call[c] \in Call /\ m \in Mutation
    BY <1>8, CallAssumption DEF BeginAttempt, TypesInv, LocalsOK
  <2>2. CASE Retry(c) /\ UNCHANGED <<reply, receipts>>
    <3>1. Forget(c) /\ Goto(c, "load") BY <2>2 DEF Retry
    <3> QED BY <1>8, <2>1, <2>2, <3>1, ForgetTypes, ForgetLocals
            DEF BeginAttempt, TypesInv, TypeOK, CountsOK
  <2>3. CASE Verdict(m, ref, clock) # "Admitted" /\ Fail(c, Verdict(m, ref, clock))
    <3>1. Verdict(m, ref, clock) \in Errors BY <2>1, <2>3, VerdictType DEF Errors
    <3> QED BY <1>8, <2>3, <3>1, LeaveTypes DEF BeginAttempt, Fail, TypesInv, TypeOK, CountsOK
  <2>4. CASE /\ draft' = [draft EXCEPT ![c] = [value |-> Prepared(c, ref), version |-> refVersion]]
             /\ Goto(c, "write")
             /\ UNCHANGED <<call, seen, base, result, reply, receipts>>
    <3> DEFINE d == [value |-> Prepared(c, ref), version |-> refVersion]
    <3>1. d \in Draft /\ d # None /\ CountedNext(d.value)
      <4> DEFINE v == Prepared(c, ref)
      <4>1. v \in RefValue /\ v.generation = ref.generation + 1 /\ Len(v.head_commit) = Len(History) + 1
        BY <2>1, PreparedType DEF TypesInv
      <4>2. refVersion \in Nat /\ ref.generation = Len(History) /\ History \in Digest
        BY DEF TypesInv, TypeOK, CountsOK, Counted, History, RefValue
      <4> HIDE DEF v
      <4>3. CountedNext(v) BY <4>1, <4>2 DEF CountedNext, Counted, Digest
      <4>4. d = [value |-> v, version |-> refVersion] BY DEF v
      <4> QED BY <4>1, <4>2, <4>3, <4>4, AbsentAssumption DEF Draft
    <3>2. draft' \in [Client -> Draft \cup {None}] /\ draft'[c] = d
          /\ \A k \in Client \ {c} : draft'[k] = draft[k]
      BY <2>4, <3>1 DEF TypesInv, TypeOK
    <3>3. /\ pc' \in [Client -> Labels] /\ pc'[c] = "write"
          /\ \A k \in Client \ {c} : pc'[k] = pc[k]
      BY <2>4, GotoFacts DEF Labels
    <3> HIDE DEF d
    <3>4. LocalsOK' BY <1>8, <2>4, <3>1, <3>2, <3>3 DEF BeginAttempt, TypesInv, LocalsOK
    <3> QED BY <1>8, <2>4, <3>1, <3>2, <3>3, <3>4 DEF BeginAttempt, TypesInv, TypeOK, CountsOK
  <2> QED BY <1>8, <2>2, <2>3, <2>4 DEF BeginAttempt
<1>9. ASSUME NEW c \in Client, WriteIntent(c) PROVE TypesInv'
  <2>1. CASE ApplyPut(Outgoing(c)) /\ Goto(c, "upload") /\ UNCHANGED frame
    <3>1. /\ pc' \in [Client -> Labels] /\ pc'[c] = "upload"
          /\ \A k \in Client \ {c} : pc'[k] = pc[k]
      BY <2>1, GotoFacts DEF Labels
    <3>2. /\ ref' \in RefValue /\ refVersion' \in Nat /\ Counted(ref')
          /\ rows' \in [Op -> Row \cup {None}] /\ rowVersion' \in [Op -> Nat]
      BY <1>9, <2>1, OutgoingType, ApplyPutTypes DEF WriteIntent, Writing
    <3>3. LocalsOK' BY <1>9, <2>1, <3>1 DEF WriteIntent, TypesInv, LocalsOK
    <3> QED BY <1>9, <2>1, <3>1, <3>2, <3>3 DEF WriteIntent, TypesInv, TypeOK, CountsOK
  <2>2. CASE Retry(c) /\ UNCHANGED <<ref, refVersion, rows, rowVersion>>
    <3>1. Forget(c) /\ Goto(c, "load") /\ call[c] \in Call
      BY <1>9, <2>2 DEF Retry, WriteIntent, TypesInv, LocalsOK
    <3> QED BY <1>9, <2>2, <3>1, ForgetTypes, ForgetLocals
            DEF WriteIntent, TypesInv, TypeOK, CountsOK, Counted
  <2> QED BY <1>9, <2>1, <2>2 DEF WriteIntent
<1>10. ASSUME NEW c \in Client, Upload(c) PROVE TypesInv'
  <2>1. /\ pc' \in [Client -> Labels] /\ pc'[c] = "cas"
        /\ \A k \in Client \ {c} : pc'[k] = pc[k]
    BY <1>10, GotoFacts DEF Upload, Labels
  <2>2. draft[c] \in Draft BY <1>10 DEF Upload, TypesInv, TypeOK, LocalsOK
  <2>3. objects' \subseteq Digest BY <1>10, <2>2 DEF Upload, TypesInv, TypeOK, Draft, RefValue
  <2>4. LocalsOK' BY <1>10, <2>1 DEF Upload, TypesInv, LocalsOK
  <2> QED BY <1>10, <2>1, <2>3, <2>4 DEF Upload, TypesInv, TypeOK, CountsOK, Counted
<1>11. ASSUME NEW c \in Client, CasRef(c) PROVE TypesInv'
  <2> DEFINE next == draft[c].value
             r == ReceiptAt(next.head_commit, next.generation, TRUE)
  <2>1. draft[c] \in Draft /\ draft[c] # None /\ CountedNext(next) /\ Counted(next)
    BY <1>11 DEF CasRef, TypesInv, TypeOK, LocalsOK, CountsOK, CountedNext
  <2>2. CASE /\ ApplyPut(Outgoing(c))
             /\ result' = [result EXCEPT ![c] = r]
             /\ Goto(c, "finalize")
             /\ UNCHANGED <<call, seen, base, draft>>
             /\ PutMatches(Outgoing(c))
    <3>1. next.generation \in DOMAIN next.head_commit
      BY <2>1 DEF Counted, CountedNext, Draft, RefValue, Digest
    <3>2. r \in Receipt BY <2>1, <3>1, ReceiptType DEF Draft, RefValue
    <3>3. result' \in [Client -> Receipt \cup {None}] /\ result'[c] # None
          /\ \A k \in Client \ {c} : result'[k] = result[k]
      BY <2>2, <3>2, AbsentAssumption DEF TypesInv, TypeOK
    <3>4. /\ pc' \in [Client -> Labels] /\ pc'[c] = "finalize"
          /\ \A k \in Client \ {c} : pc'[k] = pc[k]
      BY <2>2, GotoFacts DEF Labels
    <3>5. /\ ref' \in RefValue /\ refVersion' \in Nat /\ Counted(ref')
          /\ rows' \in [Op -> Row \cup {None}] /\ rowVersion' \in [Op -> Nat]
      BY <1>11, <2>1, <2>2, OutgoingType, ApplyPutTypes DEF CasRef, Writing
    <3>6. LocalsOK' BY ZenonT(40), <1>11, <2>2, <3>3, <3>4 DEF CasRef, TypesInv, LocalsOK
    <3> QED BY <1>11, <2>2, <3>3, <3>4, <3>5, <3>6 DEF CasRef, TypesInv, TypeOK, CountsOK
  <2>3. CASE Retry(c) /\ UNCHANGED <<ref, refVersion, rows, rowVersion>>
    <3>1. Forget(c) /\ Goto(c, "load") /\ call[c] \in Call
      BY <1>11, <2>3 DEF Retry, CasRef, TypesInv, LocalsOK
    <3> QED BY <1>11, <2>3, <3>1, ForgetTypes, ForgetLocals
            DEF CasRef, TypesInv, TypeOK, CountsOK, Counted
  <2> QED BY <1>11, <2>2, <2>3 DEF CasRef
<1>12. ASSUME NEW c \in Client, FinalizeIntent(c) PROVE TypesInv'
  <2>1. result[c] \in Receipt /\ Acknowledge(c, result[c])
    BY <1>12 DEF FinalizeIntent, TypesInv, TypeOK, LocalsOK
  <2>2. /\ ref' \in RefValue /\ refVersion' \in Nat /\ Counted(ref')
        /\ rows' \in [Op -> Row \cup {None}] /\ rowVersion' \in [Op -> Nat]
    <3>1. CASE rows[call[c].op] # None /\ ApplyPut(Outgoing(c))
      <4>1. Writing(c) /\ pc[c] = "finalize" BY <1>12, <3>1 DEF FinalizeIntent, Writing
      <4> QED BY <3>1, <4>1, OutgoingType, ApplyPutTypes
    <3>2. CASE UNCHANGED <<ref, refVersion, rows, rowVersion>>
      BY <3>2 DEF TypesInv, TypeOK, CountsOK, Counted
    <3> QED BY <1>12, <3>1, <3>2 DEF FinalizeIntent
  <2>3. /\ wire' \subseteq Put /\ \A m \in wire' : m.key = "ref" => Counted(m.value)
        /\ spent' \in [calls : Nat, faults : Nat, tampers : Nat, renewals : Nat]
    <3>1. CASE Fault(c) BY <3>1, FaultTypes
    <3>2. CASE UNCHANGED <<wire, spent>> BY <3>2 DEF TypesInv, TypeOK, CountsOK
    <3> QED BY <1>12, <3>1, <3>2 DEF FinalizeIntent
  <2>4. Leave(c, "Published") BY <2>1 DEF Acknowledge
  <2>5. receipts' \subseteq [receipt : Receipt, to : Client] BY <2>1, AcknowledgeTypes
  <2> QED BY <1>12, <2>2, <2>3, <2>4, <2>5, LeaveTypes DEF FinalizeIntent, TypesInv, TypeOK, CountsOK
<1>13. ASSUME NEW c \in Client, Abandon(c) PROVE TypesInv'
  <2>1. Leave(c, "BackendUnavailable") /\ receipts' = receipts BY <1>13 DEF Abandon, Fail
  <2> QED BY <1>13, <2>1, LeaveTypes, FaultTypes DEF Abandon, Errors, TypesInv, TypeOK, CountsOK, Counted
<1>14. ASSUME NEW m \in wire, Land(m) PROVE TypesInv'
  <2>1. m \in Put /\ (m.key = "ref" => Counted(m.value)) BY DEF TypesInv, TypeOK, CountsOK
  <2>2. /\ ref' \in RefValue /\ refVersion' \in Nat /\ Counted(ref')
        /\ rows' \in [Op -> Row \cup {None}] /\ rowVersion' \in [Op -> Nat]
    <3>1. CASE ApplyPut(m) BY <2>1, <3>1, ApplyPutTypes
    <3>2. CASE UNCHANGED <<ref, refVersion, rows, rowVersion>>
      BY <3>2 DEF TypesInv, TypeOK, CountsOK, Counted
    <3> QED BY <1>14, <3>1, <3>2 DEF Land
  <2>3. LocalsOK' BY <1>14 DEF Land, TypesInv, LocalsOK
  <2> QED BY <1>14, <2>2, <2>3 DEF Land, TypesInv, TypeOK, CountsOK
<1>15. ASSUME NEW o \in Op, Tamper(o) PROVE TypesInv'
  <2>1. rows[o] \in Row BY <1>15 DEF Tamper, TypesInv, TypeOK
  <2>2. rows' \in [Op -> Row \cup {None}]
    <3>1. CASE rows' = [rows EXCEPT ![o] = None] BY <3>1 DEF TypesInv, TypeOK
    <3>2. ASSUME NEW d \in objects,
                 rows' = [rows EXCEPT ![o].state = "Applied", ![o].commit = d]
          PROVE  rows' \in [Op -> Row \cup {None}]
      <4>1. d \in Digest BY DEF TypesInv, TypeOK
      <4>2. [rows[o] EXCEPT !.state = "Applied", !.commit = d] \in Row BY <2>1, <4>1, RowTypes
      <4>3. rows' = [rows EXCEPT ![o] = [rows[o] EXCEPT !.state = "Applied", !.commit = d]]
        BY <3>2 DEF TypesInv, TypeOK
      <4> QED BY <4>2, <4>3 DEF TypesInv, TypeOK
    <3> QED BY <1>15, <3>1, <3>2 DEF Tamper
  <2>3. rowVersion' \in [Op -> Nat] BY <1>15 DEF Tamper, TypesInv, TypeOK
  <2>4. spent' \in [calls : Nat, faults : Nat, tampers : Nat, renewals : Nat]
    BY <1>15 DEF Tamper, TypesInv, TypeOK
  <2>5. LocalsOK' BY <1>15 DEF Tamper, TypesInv, LocalsOK
  <2> QED BY <1>15, <2>2, <2>3, <2>4, <2>5 DEF Tamper, TypesInv, TypeOK, CountsOK, Counted
<1>16. ASSUME Renew PROVE TypesInv'
  <2>1. PICK t \in 0..clock : ref' = Renewed(ref, t) BY <1>16 DEF Renew
  <2>2. ref.lease \in Lease BY <1>16 DEF Renew, Renewable, TypesInv, TypeOK, RefValue
  <2> DEFINE l == [writer |-> ref.lease.writer, until |-> t + TTL]
  <2>3. l \in Lease BY <2>2, TTLAssumption DEF Lease, TypesInv, TypeOK
  <2>4. ref' = [ref EXCEPT !.lease = l] BY <2>1 DEF Renewed
  <2> HIDE DEF l
  <2>5. ref' \in RefValue /\ Counted(ref') BY <2>3, <2>4 DEF TypesInv, TypeOK, CountsOK, Counted, RefValue
  <2>6. spent' \in [calls : Nat, faults : Nat, tampers : Nat, renewals : Nat]
    BY <1>16 DEF Renew, TypesInv, TypeOK
  <2>7. LocalsOK' BY <1>16 DEF Renew, TypesInv, LocalsOK
  <2> QED BY <1>16, <2>5, <2>6, <2>7 DEF Renew, TypesInv, TypeOK, CountsOK
<1>17. CASE Tick \/ UNCHANGED vars
  <2>1. clock' \in Nat BY <1>17 DEF Tick, vars, TypesInv, TypeOK
  <2>2. LocalsOK' BY <1>17 DEF Tick, vars, TypesInv, LocalsOK
  <2> QED BY <1>17, <2>1, <2>2 DEF Tick, vars, TypesInv, TypeOK, CountsOK, Counted
<1> QED BY <1>1, <1>2, <1>3, <1>4, <1>5, <1>6, <1>7, <1>8, <1>9, <1>10, <1>11, <1>12, <1>13,
           <1>14, <1>15, <1>16, <1>17 DEF Next, Step

\* The types hold at the start.
LEMMA TypesInit == Init => TypesInv
<1> SUFFICES ASSUME Init PROVE TypesInv OBVIOUS
<1>1. NoRead \in [row : Row \cup {None}, version : Nat] BY DEF NoRead
<1>2. NewRef \in RefValue /\ Counted(NewRef) BY DEF NewRef, RefValue, Digest, Counted
<1>3. TypeOK BY <1>1, <1>2, BoundAssumption DEF Init, TypeOK, Labels
<1> QED BY <1>2, <1>3 DEF Init, TypesInv, LocalsOK, CountsOK

\* THEOREM: in every reachable state each variable has its type.
THEOREM PublishTyped == Spec => []TypeOK
<1>1. Init => TypesInv BY TypesInit
<1>2. TypesInv /\ [Next]_vars => TypesInv' BY TypesStep
<1>3. TypesInv => TypeOK BY DEF TypesInv
<1> QED BY <1>1, <1>2, <1>3, PTL DEF Spec

(***************************************************************************)
(* At most one publication.                                                *)
(***************************************************************************)

\* The part of the invariant that a caller relies on keeps while its locals do.
Still(k) == /\ pc'[k] = pc[k] /\ call'[k] = call[k] /\ seen'[k] = seen[k]
            /\ base'[k] = base[k] /\ draft'[k] = draft[k] /\ reply'[k] = reply[k]

\* What an invariant state tells about a caller under way.
LEMMA CallerFacts ==
  ASSUME Inductive, NEW c \in Client
  PROVE  /\ pc[c] # "idle" => call[c] \in Call /\ call[c].op \in Op
         /\ seen[c].version \in Nat /\ seen[c].row \in Row \cup {None} /\ base[c] \in Nat
         /\ CallerOK(c)
  BY CallAssumption DEF Inductive, TypesInv, TypeOK, LocalsOK

\* What the types say of the ref and of the rows.
LEMMA StoreFacts ==
  ASSUME Inductive
  PROVE  /\ History \in Digest /\ Len(History) \in Nat /\ DOMAIN History = 1..Len(History)
         /\ ref.generation = Len(History) /\ refVersion \in Nat
         /\ \A o \in Op : /\ rows[o] \in Row \cup {None} /\ rowVersion[o] \in Nat
                          /\ rows[o] # None => rows[o].base \in Nat
  BY DEF Inductive, TypesInv, TypeOK, CountsOK, Counted, History, RefValue, Digest, Row

\* A store that does not move keeps every promise about it.
LEMMA IdleStore ==
  ASSUME Inductive, UNCHANGED <<ref, refVersion, rows, rowVersion>>
  PROVE  /\ RowsOK' /\ AtMostOnce'
         /\ \A k \in Client : Still(k) => CallerOK(k)'
         /\ \A m \in wire : PutOK(m)'
<1>1. RowsOK' BY DEF Inductive, RowsOK, PendingIn, Covers, History
<1>2. AtMostOnce' BY DEF Inductive, AtMostOnce
<1>3. ASSUME NEW k \in Client, Still(k) PROVE CallerOK(k)'
  BY <1>3 DEF Inductive, CallerOK, Still, RowUnchanged, RowVersionOf, MayWrite, Covers, PendingIn,
     Committed, LiveCas, Extends, History
<1>4. ASSUME NEW m \in wire PROVE PutOK(m)'
  BY DEF Inductive, PutOK, RowVersionOf, MayWrite, Covers, PendingIn, Committed, LiveCas, Extends,
     History
<1> QED BY <1>1, <1>2, <1>3, <1>4

\* A row write that lands keeps every promise: callers and writes that relied on
\* the old row can no longer succeed, and a live ref CAS still finds its base.
LEMMA RowLands ==
  ASSUME Inductive, NEW m \in Put, m.key = "row", PutOK(m), PutMatches(m), ApplyPut(m)
  PROVE  /\ RowsOK' /\ AtMostOnce' /\ PutOK(m)'
         /\ \A k \in Client : Still(k) => CallerOK(k)'
         /\ \A n \in wire : PutOK(n)'
<1> DEFINE o == m.op
<1>1. /\ o \in Op /\ m.value \in Row /\ m.value # None /\ m.version \in Nat
      /\ m.version = RowVersionOf(o)
  BY AbsentAssumption DEF Put, PutMatches
<1>2. /\ ref' = ref /\ refVersion' = refVersion
      /\ rows' = [rows EXCEPT ![o] = m.value]
      /\ rowVersion' = [rowVersion EXCEPT ![o] = @ + 1]
  BY DEF ApplyPut
<1>3. /\ rows'[o] = m.value /\ rowVersion'[o] = rowVersion[o] + 1
      /\ \A p \in Op \ {o} : rows'[p] = rows[p] /\ rowVersion'[p] = rowVersion[p]
  BY <1>1, <1>2 DEF Inductive, TypesInv, TypeOK
<1>4. RowVersionOf(o)' = rowVersion[o] + 1 BY <1>1, <1>3 DEF RowVersionOf
<1>5. \A p \in Op \ {o} : RowVersionOf(p)' = RowVersionOf(p) /\ PendingIn(p)' = PendingIn(p)
  BY <1>3 DEF RowVersionOf, PendingIn
<1>6. /\ History' = History /\ \A p : Committed(p)' = Committed(p)
      /\ \A p, b : Covers(p, b)' = Covers(p, b)
  BY <1>2 DEF History, Committed, Covers
<1>7. /\ \A p \in Op \ {o} : \A b : MayWrite(p, b)' = MayWrite(p, b)
  BY <1>3, <1>5, <1>6 DEF MayWrite
<1>8. ASSUME NEW p \in Op, NEW v, NEW n, LiveCas(p, v, n) PROVE LiveCas(p, v, n)'
  <2>1. CASE p # o BY <1>2, <1>3, <1>5, <1>6, <1>8, <2>1 DEF LiveCas, Extends
  <2>2. CASE p = o /\ v = refVersion
    <3>1. /\ PendingIn(o) /\ rows[o].base = Len(History) /\ ~Committed(o)
      BY <1>8, <2>2 DEF LiveCas
    <3>2. m.value.state = "Pending" /\ m.value.base <= Len(History) /\ Len(History) <= m.value.base
      BY <1>1, <3>1 DEF PutOK, MayWrite, Row
    <3>3. PendingIn(o)' /\ rows'[o].base = Len(History)
      BY <1>1, <1>3, <3>2, StoreFacts DEF PendingIn, Row
    <3> QED BY <1>2, <1>6, <1>8, <2>2, <3>3 DEF LiveCas, Extends
  <2>3. CASE p = o /\ v # refVersion BY <1>2, <1>8, <2>3 DEF LiveCas
  <2> QED BY <2>1, <2>2, <2>3
<1>9. RowsOK'
  <2>1. m.value.state = "Pending" => m.value.base <= Len(History) /\ Covers(o, m.value.base)
    BY <1>1 DEF PutOK, MayWrite, Committed, Covers
  <2> QED BY <1>1, <1>3, <1>5, <1>6, <2>1, StoreFacts DEF Inductive, RowsOK, PendingIn
<1>10. AtMostOnce' BY <1>2 DEF Inductive, AtMostOnce
<1>11. ASSUME NEW k \in Client, Still(k) PROVE CallerOK(k)'
  <2>1. /\ pc[k] # "idle" => call[k].op \in Op /\ seen[k].version <= rowVersion[call[k].op]
        /\ seen[k].version \in Nat /\ CallerOK(k)
    BY CallerFacts DEF CallerOK
  <2>2. pc[k] # "idle" => seen[k].version <= rowVersion'[call[k].op]
    BY <1>3, <2>1, StoreFacts
  <2>3. pc[k] \in Deciding => base[k] <= Len(History') /\ RowUnchanged(k)'
    <3>1. CASE pc[k] # "idle" /\ call[k].op = o
      <4>1. seen[k].version # RowVersionOf(o)' BY <1>1, <1>4, <2>1, <3>1, StoreFacts
      <4>2. call'[k].op = o /\ seen'[k] = seen[k] BY <1>11, <3>1 DEF Still
      <4> QED BY <1>6, <2>1, <4>1, <4>2 DEF CallerOK, RowUnchanged
    <3>2. CASE pc[k] # "idle" /\ call[k].op # o
      BY <1>3, <1>5, <1>6, <1>7, <1>11, <2>1, <3>2 DEF CallerOK, RowUnchanged, Still
    <3> QED BY <3>1, <3>2 DEF Deciding
  <2>4. pc[k] \in {"upload", "cas"} => LiveCas(call[k].op, draft[k].version, draft[k].value)'
    BY <1>8, <1>11, <2>1 DEF CallerOK, Still
  <2> QED BY <1>2, <1>6, <1>11, <2>1, <2>2, <2>3, <2>4 DEF CallerOK, Still, Extends
<1>12. ASSUME NEW n \in wire \cup {m} PROVE PutOK(n)'
  <2>1. n \in Put /\ PutOK(n) BY DEF Inductive, TypesInv, TypeOK
  <2>2. CASE n.key = "ref" BY <1>8, <2>1, <2>2 DEF PutOK, Put
  <2>3. CASE n.key = "row" /\ n.op = o
    BY <1>1, <1>3, <1>4, <1>6, <2>1, <2>3, StoreFacts DEF PutOK, Put
  <2>4. CASE n.key = "row" /\ n.op # o
    BY <1>3, <1>5, <1>6, <1>7, <2>1, <2>4 DEF PutOK, Put
  <2> QED BY <2>1, <2>2, <2>3, <2>4 DEF Put
<1> QED BY <1>9, <1>10, <1>11, <1>12

\* What changes when a live ref CAS of operation o lands.
LEMMA Growth ==
  ASSUME Inductive, NEW v \in RefValue, NEW o \in Op, ref' = v, Extends(v, o)
  PROVE  /\ Len(History') = Len(History) + 1
         /\ \A p : Committed(p)' <=> Committed(p) \/ p = o
         /\ \A p, b : p # o => (Covers(p, b)' <=> Covers(p, b))
         /\ ~Committed(o) => \A b \in Nat : Covers(o, b)' <=> b = Len(History)
<1> DEFINE n == Len(History)
<1>1. /\ n \in Nat /\ DOMAIN History = 1..n BY StoreFacts
<1>2. /\ History' = v.head_commit /\ Len(History') = n + 1
      /\ DOMAIN History' = 1..(n + 1)
      /\ History'[n + 1].identity = o
      /\ \A g \in 1..n : History'[g] = History[g]
  BY <1>1 DEF Extends, History, RefValue, Digest
<1>3. \A g \in DOMAIN History' : g \in DOMAIN History \/ g = n + 1 BY <1>1, <1>2
<1>4. DOMAIN History \subseteq DOMAIN History' /\ n + 1 \in DOMAIN History' BY <1>1, <1>2
<1> HIDE DEF n
<1>5. \A p : Committed(p)' <=> Committed(p) \/ p = o
  BY <1>1, <1>2, <1>3, <1>4 DEF Committed
<1>6. \A p, b : p # o => (Covers(p, b)' <=> Covers(p, b))
  BY <1>1, <1>2, <1>3, <1>4 DEF Covers
<1>7. ASSUME ~Committed(o), NEW b \in Nat PROVE Covers(o, b)' <=> b = n
  <2>1. \A g \in DOMAIN History' : History'[g].identity = o <=> g = n + 1
    BY <1>1, <1>2, <1>3, <1>4, <1>7 DEF Committed
  <2>2. Covers(o, b)' <=> n + 1 = b + 1 BY <1>4, <2>1 DEF Covers
  <2> QED BY <1>1, <2>2
<1> QED BY <1>2, <1>5, <1>6, <1>7 DEF n

\* A ref CAS that lands keeps every promise: its operation had not been published,
\* and whoever may still write its row will look where it has just been published.
LEMMA RefLands ==
  ASSUME Inductive, NEW m \in Put, m.key = "ref", PutOK(m), PutMatches(m), ApplyPut(m)
  PROVE  /\ RowsOK' /\ AtMostOnce' /\ PutOK(m)' /\ Committed(m.op)'
         /\ \A k \in Client : Still(k) => CallerOK(k)'
         /\ \A n \in wire : PutOK(n)'
<1> DEFINE o == m.op
           n == Len(History)
<1>1. /\ o \in Op /\ m.value \in RefValue /\ n \in Nat /\ refVersion \in Nat
      /\ ref' = m.value /\ refVersion' = refVersion + 1
      /\ rows' = rows /\ rowVersion' = rowVersion
  BY StoreFacts DEF Put, ApplyPut
<1>2. Extends(m.value, o) /\ ~Committed(o) /\ PendingIn(o) /\ rows[o].base = n
  BY DEF PutOK, LiveCas, PutMatches
<1>3. /\ Len(History') = n + 1
      /\ \A p : Committed(p)' <=> Committed(p) \/ p = o
      /\ \A p, b : p # o => (Covers(p, b)' <=> Covers(p, b))
      /\ \A b \in Nat : Covers(o, b)' <=> b = n
  BY <1>1, <1>2, Growth
<1>4. \A p : RowVersionOf(p)' = RowVersionOf(p) /\ PendingIn(p)' = PendingIn(p)
  BY <1>1 DEF RowVersionOf, PendingIn
<1>5. RowsOK'
  <2> SUFFICES ASSUME NEW p \in Op, rows[p] # None
               PROVE  /\ rowVersion[p] > 0
                      /\ PendingIn(p) => rows[p].base <= n + 1 /\ Covers(p, rows[p].base)'
    BY <1>1, <1>3, <1>4 DEF RowsOK
  <2>1. rowVersion[p] > 0 /\ (PendingIn(p) => rows[p].base <= n /\ Covers(p, rows[p].base))
    BY DEF Inductive, RowsOK
  <2> QED BY <1>1, <1>2, <1>3, <2>1, StoreFacts
<1>6. AtMostOnce'
  <2>1. /\ History' = m.value.head_commit /\ DOMAIN History' = 1..(n + 1)
        /\ History'[n + 1].identity = o
        /\ \A g \in 1..n : History'[g] = History[g]
    BY <1>1, <1>2 DEF Extends, History, RefValue, Digest
  <2>2. \A g \in 1..n : History[g].identity # o BY <1>2, StoreFacts DEF Committed
  <2>3. \A i, j \in 1..n : History[i].identity = History[j].identity => i = j
    BY StoreFacts DEF Inductive, AtMostOnce, History
  <2>4. \A i \in DOMAIN History' : i \in 1..n \/ i = n + 1 BY <1>1, <2>1
  <2>5. \A i, j \in DOMAIN History' : History'[i].identity = History'[j].identity => i = j
    BY <2>1, <2>2, <2>3, <2>4
  <2> QED BY <2>5 DEF AtMostOnce, History
<1>7. ASSUME NEW p \in Op, NEW b \in Nat, b <= n, MayWrite(p, b) PROVE MayWrite(p, b)'
  <2>1. CASE p # o BY <1>1, <1>3, <1>4, <1>7, <2>1 DEF MayWrite
  <2>2. CASE p = o BY <1>1, <1>2, <1>3, <1>4, <1>7, <2>2 DEF MayWrite
  <2> QED BY <2>1, <2>2
<1>8. ASSUME NEW p, NEW v \in Nat, NEW x, LiveCas(p, v, x) PROVE LiveCas(p, v, x)'
  BY <1>1, <1>8 DEF LiveCas
<1>9. ASSUME NEW k \in Client, Still(k) PROVE CallerOK(k)'
  <2>1. /\ pc[k] # "idle" => call[k].op \in Op
        /\ base[k] \in Nat /\ CallerOK(k)
    BY CallerFacts
  <2>2. pc[k] \in Deciding => base[k] <= n + 1 /\ RowUnchanged(k)'
    <3> SUFFICES ASSUME pc[k] \in Deciding, seen[k].version = RowVersionOf(call[k].op)
                 PROVE  /\ seen[k].row = rows[call[k].op]
                        /\ pc[k] = "readbase" => ~Committed(call[k].op)'
                        /\ pc[k] \in {"create", "resolve", "attempt", "write"} =>
                             MayWrite(call[k].op, base[k])'
      BY <1>1, <1>4, <1>9, <2>1 DEF CallerOK, RowUnchanged, Still
    <3>1. base[k] <= n /\ RowUnchanged(k) BY <2>1 DEF CallerOK
    <3>2. seen[k].row = rows[call[k].op] BY <3>1 DEF RowUnchanged
    <3>3. ASSUME pc[k] = "readbase" PROVE ~Committed(call[k].op)'
      <4>1. ~PendingIn(call[k].op)
        BY <3>2, <3>3 DEF PendingIn, Inductive, TypesInv, LocalsOK, NoRead
      <4> QED BY <1>2, <1>3, <1>9, <3>1, <3>3, <4>1 DEF RowUnchanged, Still
    <3>4. ASSUME pc[k] \in {"create", "resolve", "attempt", "write"}
          PROVE  MayWrite(call[k].op, base[k])'
      BY <1>7, <1>9, <2>1, <3>1, <3>4 DEF RowUnchanged, Deciding, Still
    <3> QED BY <3>2, <3>3, <3>4
  <2>3. pc[k] = "write" => draft[k].version <= refVersion /\ draft[k].version \in Nat
    BY <2>1 DEF CallerOK, Inductive, TypesInv, TypeOK, LocalsOK, Draft
  <2>4. pc[k] \in {"upload", "cas"} =>
          LiveCas(call[k].op, draft[k].version, draft[k].value)'
    BY <1>8, <1>9, <2>1 DEF CallerOK, Still, Inductive, TypesInv, TypeOK, LocalsOK, Draft
  <2> QED BY <1>1, <1>3, <1>9, <2>1, <2>2, <2>3, <2>4 DEF CallerOK, Still
<1>10. ASSUME NEW q \in wire \cup {m} PROVE PutOK(q)'
  <2>1. q \in Put /\ PutOK(q) BY DEF Inductive, TypesInv, TypeOK
  <2>2. CASE q.key = "ref" BY <1>8, <2>1, <2>2 DEF PutOK, Put
  <2>3. CASE q.key = "row"
    <3>1. q.op \in Op /\ q.value \in Row /\ q.value.base \in Nat BY <2>1, <2>3 DEF Put, Row
    <3>2. q.value.state = "Applied" => Committed(q.op)' BY <1>3, <2>1, <2>3 DEF PutOK
    <3>3. q.value.state = "Pending" =>
            /\ q.value.base <= n + 1
            /\ q.version = RowVersionOf(q.op) => MayWrite(q.op, q.value.base)'
      BY <1>1, <1>7, <2>1, <2>3, <3>1 DEF PutOK
    <3> QED BY <1>1, <1>3, <1>4, <2>1, <2>3, <3>2, <3>3 DEF PutOK
  <2> QED BY <2>1, <2>2, <2>3 DEF Put
<1> QED BY <1>3, <1>5, <1>6, <1>9, <1>10

\* A renewal invalidates every live ref CAS and changes nothing else of interest.
LEMMA RenewKeeps ==
  ASSUME Inductive, Renew
  PROVE  RowsOK' /\ AtMostOnce' /\ (\A k \in Client : CallerOK(k)') /\ \A m \in wire' : PutOK(m)'
<1>1. /\ History' = History /\ refVersion' = refVersion + 1 /\ refVersion \in Nat
      /\ rows' = rows /\ rowVersion' = rowVersion /\ wire' = wire
      /\ pc' = pc /\ call' = call /\ seen' = seen /\ base' = base /\ draft' = draft
      /\ reply' = reply
  <2>1. PICK t \in 0..clock : ref' = Renewed(ref, t) BY DEF Renew
  <2>2. History' = History BY <2>1 DEF Renewed, History, Inductive, TypesInv, TypeOK, RefValue
  <2> QED BY <2>2, StoreFacts DEF Renew, frame
<1>2. /\ \A p : Committed(p)' = Committed(p) /\ RowVersionOf(p)' = RowVersionOf(p)
                 /\ PendingIn(p)' = PendingIn(p)
      /\ \A p, b : Covers(p, b)' = Covers(p, b) /\ MayWrite(p, b)' = MayWrite(p, b)
  BY <1>1 DEF Committed, RowVersionOf, PendingIn, Covers, MayWrite
<1>3. ASSUME NEW p, NEW v \in Nat, NEW x, LiveCas(p, v, x) PROVE LiveCas(p, v, x)'
  BY <1>1, <1>3 DEF LiveCas
<1>4. RowsOK' BY <1>1, <1>2 DEF Inductive, RowsOK
<1>5. AtMostOnce' BY <1>1 DEF Inductive, AtMostOnce, History
<1>6. ASSUME NEW k \in Client PROVE CallerOK(k)'
  <2>1. CallerOK(k) /\ (pc[k] \in {"write", "upload", "cas"} => draft[k].version \in Nat)
    BY DEF Inductive, TypesInv, TypeOK, LocalsOK, Draft
  <2>2. pc[k] = "write" => draft[k].version <= refVersion' /\ draft[k].version # refVersion'
    BY <1>1, <2>1 DEF CallerOK
  <2>3. pc[k] \in {"upload", "cas"} => LiveCas(call[k].op, draft[k].version, draft[k].value)'
    BY <1>1, <1>3, <2>1 DEF CallerOK
  <2> QED BY <1>1, <1>2, <2>1, <2>2, <2>3 DEF CallerOK, RowUnchanged
<1>7. ASSUME NEW m \in wire PROVE PutOK(m)'
  <2>1. PutOK(m) /\ m.version \in Nat BY DEF Inductive, TypesInv, TypeOK, Put
  <2> QED BY <1>1, <1>2, <1>3, <2>1 DEF PutOK
<1> QED BY <1>1, <1>4, <1>5, <1>6, <1>7

\* Nobody relies on an intent row that is deleted or forged while its operation is quiet.
LEMMA TamperKeeps ==
  ASSUME Inductive, NEW o \in Op, Tamper(o)
  PROVE  RowsOK' /\ AtMostOnce' /\ (\A k \in Client : CallerOK(k)') /\ \A m \in wire' : PutOK(m)'
<1>1. /\ ref' = ref /\ History' = History /\ refVersion' = refVersion /\ wire' = wire
      /\ pc' = pc /\ call' = call /\ seen' = seen /\ base' = base /\ draft' = draft
      /\ reply' = reply
  BY DEF Tamper, frame, History
<1>2. /\ \A k \in Client : pc[k] # "idle" => call[k].op # o
      /\ \A m \in wire : m.op # o
  BY DEF Tamper, Quiet
<1>3. /\ rowVersion'[o] > 0 /\ ~PendingIn(o)'
      /\ \A p \in Op \ {o} : rows'[p] = rows[p] /\ rowVersion'[p] = rowVersion[p]
  <2>1. rows[o] \in Row /\ rowVersion[o] \in Nat BY StoreFacts DEF Tamper
  <2>2. rowVersion'[o] > 0 /\ \A p \in Op \ {o} : rowVersion'[p] = rowVersion[p]
    BY <2>1 DEF Tamper, Inductive, TypesInv, TypeOK
  <2>3. \A p \in Op \ {o} : rows'[p] = rows[p] BY DEF Tamper, Inductive, TypesInv, TypeOK
  <2>4. CASE rows' = [rows EXCEPT ![o] = None]
    BY <2>2, <2>3, <2>4 DEF PendingIn, Inductive, TypesInv, TypeOK
  <2>5. ASSUME NEW d \in objects, rows' = [rows EXCEPT ![o].state = "Applied", ![o].commit = d]
        PROVE  rows'[o].state = "Applied"
    BY <2>1, <2>5 DEF Row, Inductive, TypesInv, TypeOK
  <2> QED BY <2>2, <2>3, <2>4, <2>5 DEF Tamper, PendingIn
<1>4. /\ \A p : Committed(p)' = Committed(p)
      /\ \A p, b : Covers(p, b)' = Covers(p, b)
      /\ \A p \in Op \ {o} : /\ RowVersionOf(p)' = RowVersionOf(p)
                             /\ PendingIn(p)' = PendingIn(p)
                             /\ \A b : MayWrite(p, b)' = MayWrite(p, b)
  BY <1>1, <1>3 DEF Committed, RowVersionOf, PendingIn, Covers, MayWrite
<1>5. RowsOK' BY <1>1, <1>3, <1>4 DEF Inductive, RowsOK
<1>6. AtMostOnce' BY <1>1 DEF Inductive, AtMostOnce
<1>7. ASSUME NEW k \in Client PROVE CallerOK(k)'
  <2>1. CallerOK(k) /\ (pc[k] # "idle" => call[k].op \in Op \ {o}) BY <1>2, CallerFacts
  <2> QED BY <1>1, <1>3, <1>4, <2>1
          DEF CallerOK, RowUnchanged, LiveCas, Extends, Deciding
<1>8. ASSUME NEW m \in wire PROVE PutOK(m)'
  <2>1. PutOK(m) /\ m.op \in Op \ {o} BY <1>2 DEF Inductive, TypesInv, TypeOK, Put
  <2> QED BY <1>1, <1>3, <1>4, <2>1 DEF PutOK, LiveCas, Extends
<1> QED BY <1>1, <1>5, <1>6, <1>7, <1>8

\* A write a caller issues is one the invariant allows on the wire.
LEMMA OutgoingOK ==
  ASSUME Inductive, NEW c \in Client, Writing(c)
  PROVE  Outgoing(c) \in Put /\ PutOK(Outgoing(c)) /\ Outgoing(c).op = call[c].op
<1> DEFINE o == call[c].op
<1>1. Outgoing(c) \in Put /\ Outgoing(c).op = o BY OutgoingType DEF Inductive
<1>2. o \in Op /\ CallerOK(c) BY CallerFacts DEF Writing
<1>3. CASE pc[c] = "create"
  <2>1. Outgoing(c) = RowPut(o, 0, PendingRow(Material(call[c].mutation), base[c]))
    BY <1>3 DEF Outgoing
  <2>2. seen[c].version = 0 BY <1>3 DEF Inductive, TypesInv, LocalsOK, NoRead
  <2>3. base[c] <= Len(History) /\ RowUnchanged(c) BY <1>2, <1>3 DEF CallerOK, Deciding
  <2>4. 0 = RowVersionOf(o) => MayWrite(o, base[c]) BY <1>3, <2>2, <2>3 DEF RowUnchanged
  <2> QED BY <1>1, <1>2, <2>1, <2>3, <2>4, StoreFacts DEF PutOK, RowPut, PendingRow
<1>4. CASE pc[c] = "write"
  <2>1. Outgoing(c) = RowPut(o, seen[c].version, Rebased(c)) BY <1>4 DEF Outgoing
  <2>2. Rebased(c).state = "Pending" /\ Rebased(c).base = base[c]
    <3>1. seen[c].row \in Row BY <1>4 DEF Inductive, TypesInv, TypeOK, LocalsOK
    <3> QED BY <3>1 DEF Rebased, Row
  <2>3. base[c] <= Len(History) /\ RowUnchanged(c) /\ seen[c].version <= rowVersion[o]
    BY <1>2, <1>4 DEF CallerOK, Deciding
  <2>4. seen[c].version = RowVersionOf(o) => MayWrite(o, base[c])
    BY <1>4, <2>3 DEF RowUnchanged
  <2> QED BY <1>1, <2>1, <2>2, <2>3, <2>4 DEF PutOK, RowPut
<1>5. CASE pc[c] = "cas"
  BY <1>1, <1>2, <1>5 DEF Outgoing, RefPut, PutOK, CallerOK
<1>6. CASE pc[c] = "finalize" /\ rows[o] # None
  <2>1. Outgoing(c) = RowPut(o, RowVersionOf(o), AppliedRow(c)) BY <1>6 DEF Outgoing
  <2>2. AppliedRow(c).state = "Applied" BY <1>2, <1>6, StoreFacts DEF AppliedRow, Row
  <2>3. RowVersionOf(o) <= rowVersion[o] BY <1>2, StoreFacts DEF RowVersionOf
  <2> QED BY <1>1, <1>2, <1>6, <2>1, <2>2, <2>3 DEF PutOK, RowPut, CallerOK
<1> QED BY <1>3, <1>4, <1>5, <1>6 DEF Writing

-----------------------------------------------------------------------------
(* The steps of a caller.                                                  *)

\* A caller that starts over or has returned promises nothing.
LEMMA ForgetOK ==
  ASSUME Inductive, TypesInv', NEW c \in Client, Forget(c), NEW l \in {"idle", "load"}, Goto(c, l),
         reply'[c] # "RecoveryFailed"
  PROVE  /\ CallerOK(c)'
         /\ \A k \in Client \ {c} : reply'[k] = reply[k] => Still(k)
<1>1. /\ pc'[c] = l /\ \A k \in Client \ {c} : pc'[k] = pc[k]
  BY DEF Goto, Inductive, TypesInv, TypeOK
<1>2. seen'[c].version = 0 /\ call' = call
      /\ \A k \in Client \ {c} : /\ seen'[k] = seen[k] /\ base'[k] = base[k]
                                 /\ draft'[k] = draft[k]
  BY ForgetTypes DEF Inductive, NoRead
<1>3. l = "load" => rowVersion'[call'[c].op] \in Nat
  BY <1>1, CallAssumption DEF TypesInv, TypeOK, LocalsOK
<1>4. CallerOK(c)' BY <1>1, <1>2, <1>3 DEF CallerOK, Deciding
<1> QED BY <1>1, <1>2, <1>4 DEF Still

\* A caller returns with an answer other than RecoveryFailed.
LEMMA LeaveOK ==
  ASSUME Inductive, TypesInv', NEW c \in Client, NEW a, Leave(c, a), a # "RecoveryFailed"
  PROVE  CallerOK(c)' /\ \A k \in Client \ {c} : Still(k)
<1>1. Forget(c) /\ Goto(c, "idle") BY DEF Leave
<1>2. reply'[c] = a /\ \A k \in Client \ {c} : reply'[k] = reply[k]
  BY DEF Leave, Inductive, TypesInv, TypeOK
<1> QED BY <1>1, <1>2, ForgetOK

\* A caller that starts its loop over satisfies its part of the invariant.
LEMMA RetryOK ==
  ASSUME Inductive, TypesInv', NEW c \in Client, Retry(c), reply' = reply
  PROVE  CallerOK(c)' /\ \A k \in Client \ {c} : Still(k)
<1>1. Forget(c) /\ Goto(c, "load") /\ reply'[c] # "RecoveryFailed"
  BY DEF Retry, Inductive, CallerOK
<1> QED BY <1>1, ForgetOK

\* A step that leaves the store alone keeps the invariant if its caller does.
LEMMA QuietStep ==
  ASSUME Inductive, TypesInv', NEW c \in Client, UNCHANGED <<ref, refVersion, rows, rowVersion>>,
         CallerOK(c)', \A k \in Client \ {c} : Still(k),
         wire' = wire \/ (Writing(c) /\ wire' = wire \cup {Outgoing(c)})
  PROVE  Inductive'
<1>1. RowsOK' /\ AtMostOnce' BY IdleStore
<1>2. \A k \in Client : CallerOK(k)' BY IdleStore
<1>3. \A m \in wire : PutOK(m)' BY IdleStore
<1>4. Writing(c) => PutOK(Outgoing(c)) BY OutgoingOK
<1>5. ASSUME NEW m, PutOK(m) PROVE PutOK(m)'
  BY <1>5 DEF PutOK, RowVersionOf, MayWrite, Covers, PendingIn, Committed, LiveCas, Extends, History
<1>6. \A m \in wire' : PutOK(m)'
  <2>1. ASSUME NEW n, n = Outgoing(c), Writing(c) PROVE PutOK(n)' BY <1>4, <1>5, <2>1
  <2> QED BY <1>3, <2>1
<1> QED BY <1>1, <1>2, <1>6 DEF Inductive

\* A caller whose row write lands.
LEMMA RowStep ==
  ASSUME Inductive, TypesInv', NEW c \in Client, Writing(c), pc[c] # "cas",
         PutMatches(Outgoing(c)), ApplyPut(Outgoing(c)), wire' = wire,
         CallerOK(c)', \A k \in Client \ {c} : Still(k)
  PROVE  Inductive'
<1>1. /\ Outgoing(c) \in Put /\ PutOK(Outgoing(c)) BY OutgoingOK
<1>2. Outgoing(c).key = "row" BY <1>1, OutgoingType DEF Put, Inductive
<1>3. /\ RowsOK' /\ AtMostOnce' /\ \A n \in wire : PutOK(n)'
      /\ \A k \in Client : Still(k) => CallerOK(k)'
  BY <1>1, <1>2, RowLands
<1> QED BY <1>3 DEF Inductive

\* A caller that moves on within publish, as to everyone else.
LEMMA OthersStill ==
  ASSUME Inductive, NEW c \in Client, NEW l \in Labels, Goto(c, l), call' = call, reply' = reply,
         \A k \in Client \ {c} : seen'[k] = seen[k] /\ base'[k] = base[k] /\ draft'[k] = draft[k]
  PROVE  pc'[c] = l /\ \A k \in Client \ {c} : Still(k)
  BY DEF Inductive, TypesInv, TypeOK, Goto, Still

\* Every step keeps the invariant.
LEMMA OnceStep == Inductive /\ [Next]_vars => Inductive'
<1> SUFFICES ASSUME Inductive, [Next]_vars PROVE Inductive'
  OBVIOUS
<1> USE DEF store, frame
<1>0. TypesInv' BY TypesStep DEF Inductive
<1>1. ASSUME NEW c \in Client, Start(c) PROVE Inductive'
  <2>1. /\ pc'[c] = "load" /\ call'[c] \in Call /\ seen' = seen /\ base' = base /\ draft' = draft
        /\ \A k \in Client \ {c} : pc'[k] = pc[k] /\ call'[k] = call[k]
        /\ reply'[c] = "none" /\ \A k \in Client \ {c} : reply'[k] = reply[k]
    BY <1>1 DEF Start, Goto, Inductive, TypesInv, TypeOK
  <2>2. \A k \in Client \ {c} : Still(k) BY <2>1 DEF Still
  <2>3. seen[c].version <= rowVersion[call'[c].op]
    <3>1. seen[c].version = 0 BY <1>1 DEF Start, Inductive, TypesInv, LocalsOK, NoRead
    <3> QED BY <2>1, <3>1, CallAssumption, StoreFacts
  <2>4. CallerOK(c)' BY <1>1, <2>1, <2>3 DEF Start, CallerOK, Deciding
  <2> QED BY <1>0, <1>1, <2>2, <2>4, QuietStep DEF Start
<1>2. ASSUME NEW c \in Client, LoadIntent(c) PROVE Inductive'
  <2> DEFINE o == call[c].op
             row == rows[o]
  <2>1. /\ o \in Op /\ row \in Row \cup {None} /\ RowVersionOf(o) \in Nat
        /\ RowVersionOf(o) <= rowVersion[o] /\ base[c] \in Nat
    BY <1>2, CallerFacts, StoreFacts DEF LoadIntent, RowVersionOf
  <2>2. CASE Fail(c, "UnknownOperation") \/ Fail(c, "IdempotencyConflict")
    BY <1>0, <1>2, <2>2, LeaveOK, QuietStep DEF LoadIntent, Fail
  <2>3. CASE /\ seen' = [seen EXCEPT ![c] = [row |-> row, version |-> RowVersionOf(o)]]
             /\ \/ row = None /\ Goto(c, "scan") /\ UNCHANGED base
                \/ row # None /\ row.state = "Applied" /\ Goto(c, "cached") /\ UNCHANGED base
                \/ /\ row # None /\ row.state = "Pending"
                   /\ Goto(c, "resolve") /\ base' = [base EXCEPT ![c] = row.base]
             /\ UNCHANGED <<call, draft, result, reply, receipts>>
    <3>1. /\ seen'[c].row = row /\ seen'[c].version = RowVersionOf(o)
          /\ \A k \in Client \ {c} : seen'[k] = seen[k]
      BY <2>3 DEF Inductive, TypesInv, TypeOK
    <3>2. PICK l \in {"scan", "cached", "resolve"} :
            /\ Goto(c, l)
            /\ l = "resolve" => PendingIn(o) /\ base'[c] = row.base
            /\ l # "resolve" => base'[c] = base[c]
      BY <2>3 DEF PendingIn, Inductive, TypesInv, TypeOK
    <3>3. \A k \in Client \ {c} : base'[k] = base[k] BY <2>3 DEF Inductive, TypesInv, TypeOK
    <3>4. pc'[c] = l /\ \A k \in Client \ {c} : Still(k)
      BY <2>3, <3>1, <3>2, <3>3, OthersStill DEF Labels
    <3>5. base'[c] <= Len(History)
      <4>1. base[c] = 0 BY <1>2 DEF LoadIntent, Inductive, TypesInv, LocalsOK
      <4>2. l = "resolve" => row.base <= Len(History)
        BY <2>1, <3>2 DEF Inductive, RowsOK, PendingIn
      <4> QED BY <3>2, <4>1, <4>2, StoreFacts
    <3>6. l = "resolve" => MayWrite(o, base'[c])
      BY <2>1, <3>2, StoreFacts DEF Inductive, RowsOK, MayWrite, PendingIn
    <3>7. /\ UNCHANGED <<ref, refVersion, rows, rowVersion>> /\ call'[c] = call[c]
          /\ reply'[c] = reply[c]
      BY <1>2, <2>3 DEF LoadIntent
    <3>8. RowUnchanged(c)'
      <4>1. seen'[c].row = rows'[o] BY <3>1, <3>7
      <4>2. l = "resolve" => MayWrite(o, base[c])'
        BY <3>6, <3>7 DEF MayWrite, PendingIn, Covers, Committed, History
      <4> QED BY <3>2, <3>4, <3>7, <4>1, <4>2 DEF RowUnchanged, MayWrite, PendingIn, Covers, Committed, History
    <3>9. CallerOK(c)'
      <4>1. reply[c] # "RecoveryFailed" BY DEF Inductive, CallerOK
      <4> QED BY <2>1, <3>1, <3>4, <3>5, <3>7, <3>8, <4>1 DEF CallerOK, Deciding, History
    <3> QED BY <1>0, <1>2, <3>4, <3>7, <3>9, QuietStep DEF LoadIntent
  <2> QED BY <1>2, <2>2, <2>3 DEF LoadIntent
<1>3. ASSUME NEW c \in Client, TryCachedApplied(c) PROVE Inductive'
  <2>1. CASE \E r : Acknowledge(c, r)
    BY <1>0, <1>3, <2>1, LeaveOK, QuietStep DEF TryCachedApplied, Acknowledge
  <2>2. CASE Goto(c, "scan") /\ UNCHANGED <<frame, reply, receipts>>
    <3>1. pc'[c] = "scan" /\ \A k \in Client \ {c} : Still(k)
      BY <2>2, OthersStill DEF Labels
    <3>2. CallerOK(c) /\ pc[c] = "cached" BY <1>3 DEF TryCachedApplied, Inductive
    <3>3. CallerOK(c)'
      BY <1>3, <2>2, <3>1, <3>2
      DEF TryCachedApplied, CallerOK, RowUnchanged, Deciding, RowVersionOf, History
    <3> QED BY <1>0, <1>3, <3>1, <3>3, QuietStep DEF TryCachedApplied
  <2> QED BY <1>3, <2>1, <2>2 DEF TryCachedApplied
<1>4. ASSUME NEW c \in Client, RecoverWithoutIntent(c) PROVE Inductive'
  <2>1. CASE CommittedAt(call[c].op, History) = {} /\ Goto(c, "readbase")
             /\ UNCHANGED <<frame, reply, receipts>>
    <3>1. pc'[c] = "readbase" /\ \A k \in Client \ {c} : Still(k)
      BY <2>1, OthersStill DEF Labels
    <3>2. CallerOK(c) /\ pc[c] = "scan" BY <1>4 DEF RecoverWithoutIntent, Inductive
    <3>3. ~Committed(call[c].op) BY <2>1 DEF CommittedAt, Committed
    <3>4. CallerOK(c)'
      BY <1>4, <2>1, <3>1, <3>2, <3>3
      DEF RecoverWithoutIntent, CallerOK, RowUnchanged, Deciding, RowVersionOf, Committed, History
    <3> QED BY <1>0, <1>4, <3>1, <3>4, QuietStep DEF RecoverWithoutIntent
  <2>2. CASE (\E r : Acknowledge(c, r)) \/ Fail(c, "IdempotencyConflict")
    BY <1>0, <1>4, <2>2, LeaveOK, QuietStep DEF RecoverWithoutIntent, Acknowledge, Fail
  <2> QED BY <1>4, <2>1, <2>2 DEF RecoverWithoutIntent, History
<1>5. ASSUME NEW c \in Client, ReadBase(c) PROVE Inductive'
  <2> DEFINE o == call[c].op
  <2>1. PICK l \in {"create", "resolve"} : Goto(c, l) BY <1>5 DEF ReadBase
  <2>2. base'[c] = Len(History) /\ \A k \in Client \ {c} : base'[k] = base[k]
    BY <1>5, StoreFacts DEF ReadBase, Inductive, TypesInv, TypeOK
  <2>3. pc'[c] = l /\ \A k \in Client \ {c} : Still(k)
    BY <1>5, <2>1, <2>2, OthersStill DEF ReadBase, Labels
  <2>4. CallerOK(c) /\ pc[c] = "readbase" BY <1>5 DEF ReadBase, Inductive
  <2>5. seen[c].version = RowVersionOf(o) => seen[c].row = rows[o] /\ ~Committed(o) /\ ~PendingIn(o)
    BY <2>4 DEF CallerOK, Deciding, RowUnchanged, PendingIn, Inductive, TypesInv, LocalsOK, NoRead
  <2>6. RowUnchanged(c)'
    BY <1>5, <2>3, <2>5
    DEF ReadBase, RowUnchanged, RowVersionOf, MayWrite, Committed, PendingIn, History
  <2>7. CallerOK(c)'
    BY <1>5, <2>2, <2>3, <2>4, <2>6, StoreFacts DEF ReadBase, CallerOK, Deciding, History
  <2> QED BY <1>0, <1>5, <2>3, <2>7, QuietStep DEF ReadBase
<1>6. ASSUME NEW c \in Client, CreateIntent(c) PROVE Inductive'
  <2>1. pc[c] = "create" /\ Writing(c) /\ CallerOK(c)' /\ \A k \in Client \ {c} : Still(k)
    BY <1>0, <1>6, RetryOK DEF CreateIntent, Writing
  <2>2. CASE PutMatches(Outgoing(c)) /\ ApplyPut(Outgoing(c)) /\ UNCHANGED <<wire, spent>>
    BY <1>0, <2>1, <2>2, RowStep
  <2>3. CASE UNCHANGED <<ref, refVersion, rows, rowVersion, wire, spent>>
    BY <1>0, <2>1, <2>3, QuietStep
  <2>4. CASE Fault(c) /\ UNCHANGED <<ref, refVersion, rows, rowVersion>>
    BY <1>0, <2>1, <2>4, QuietStep DEF Fault
  <2> QED BY <1>6, <2>2, <2>3, <2>4 DEF CreateIntent
<1>7. ASSUME NEW c \in Client, ResolvePending(c) PROVE Inductive'
  <2> DEFINE o == call[c].op
             g == base[c] + 1
             n == Len(History)
  <2>1. /\ pc[c] = "resolve" /\ o \in Op /\ CallerOK(c) /\ base[c] \in Nat /\ n \in Nat
        /\ ref.generation = n /\ base[c] <= n /\ RowUnchanged(c)
    BY <1>7, CallerFacts, StoreFacts DEF ResolvePending, CallerOK, Deciding
  <2>2. CASE Fail(c, "IdempotencyConflict")
    BY <1>0, <1>7, <2>2, LeaveOK, QuietStep DEF ResolvePending, Fail
  <2>3. CASE /\ ref.generation > base[c] /\ History[g].identity = o
             /\ Goto(c, "finalize")
             /\ UNCHANGED <<call, seen, base, draft, reply, receipts>>
    <3>1. pc'[c] = "finalize" /\ \A k \in Client \ {c} : Still(k)
      BY <2>3, OthersStill DEF Labels
    <3>2. Committed(o) BY <2>1, <2>3, StoreFacts DEF Committed
    <3>3. CallerOK(c)' BY <1>7, <2>1, <2>3, <3>1, <3>2
      DEF ResolvePending, CallerOK, Deciding, Committed, History
    <3> QED BY <1>0, <1>7, <3>1, <3>3, QuietStep DEF ResolvePending
  <2>4. CASE /\ \/ ref.generation = base[c] /\ base' = base
                \/ /\ ref.generation > base[c] /\ History[g].identity # o
                   /\ base' = [base EXCEPT ![c] = ref.generation]
             /\ Goto(c, "attempt")
             /\ UNCHANGED <<call, seen, draft, result, reply, receipts>>
    <3>1. /\ base'[c] = n /\ \A k \in Client \ {c} : base'[k] = base[k]
      BY <2>1, <2>4 DEF Inductive, TypesInv, TypeOK
    <3>2. pc'[c] = "attempt" /\ \A k \in Client \ {c} : Still(k)
      BY <2>4, <3>1, OthersStill DEF Labels
    <3>3. seen[c].version = RowVersionOf(o) => seen[c].row = rows[o] /\ MayWrite(o, n)
      <4>1. ASSUME MayWrite(o, base[c]) PROVE MayWrite(o, n)
        <5>1. CASE base[c] = n BY <4>1, <5>1
        <5>2. CASE base[c] < n /\ History[g].identity # o
          BY <2>1, <4>1, <5>2, StoreFacts DEF MayWrite, Covers, PendingIn
        <5> QED BY <2>1, <2>4, <5>1, <5>2
      <4> QED BY <2>1, <4>1 DEF RowUnchanged
    <3>4. RowUnchanged(c)'
      BY <1>7, <2>4, <3>1, <3>2, <3>3
      DEF ResolvePending, RowUnchanged, RowVersionOf, MayWrite, Covers, Committed, PendingIn, History
    <3>5. CallerOK(c)'
      BY <1>7, <2>1, <2>4, <3>1, <3>2, <3>4 DEF ResolvePending, CallerOK, Deciding, History
    <3> QED BY <1>0, <1>7, <3>2, <3>5, QuietStep DEF ResolvePending
  <2>5. ~(ref.generation < base[c]) BY <2>1
  <2> QED BY <1>7, <2>2, <2>3, <2>4, <2>5 DEF ResolvePending, History
<1>8. ASSUME NEW c \in Client, BeginAttempt(c) PROVE Inductive'
  <2> DEFINE m == call[c].mutation
             v == Prepared(c, ref)
             d == [value |-> v, version |-> refVersion]
  <2>1. /\ pc[c] = "attempt" /\ call[c] \in Call /\ m \in Mutation /\ CallerOK(c)
        /\ refVersion \in Nat /\ ref.generation = Len(History)
    BY <1>8, CallerFacts, StoreFacts, CallAssumption DEF BeginAttempt
  <2>2. CASE Retry(c) /\ UNCHANGED <<reply, receipts>>
    BY <1>0, <1>8, <2>2, RetryOK, QuietStep DEF BeginAttempt
  <2>3. CASE Fail(c, Verdict(m, ref, clock))
    BY <1>0, <1>8, <2>1, <2>3, VerdictType, LeaveOK, QuietStep DEF BeginAttempt, Fail
  <2>4. CASE /\ ref.generation = base[c]
             /\ draft' = [draft EXCEPT ![c] = d]
             /\ Goto(c, "write")
             /\ UNCHANGED <<call, seen, base, result, reply, receipts>>
    <3>1. Extends(v, call[c].op)
      BY <2>1, PreparedType DEF Extends, Inductive, TypesInv
    <3>2. draft'[c] = d /\ \A k \in Client \ {c} : draft'[k] = draft[k]
      BY <2>4 DEF Inductive, TypesInv, TypeOK
    <3>3. pc'[c] = "write" /\ \A k \in Client \ {c} : Still(k)
      BY <2>4, <3>2, OthersStill DEF Labels
    <3>4. RowUnchanged(c)'
      BY <1>8, <2>1, <2>4, <3>3
      DEF BeginAttempt, CallerOK, Deciding, RowUnchanged, RowVersionOf, MayWrite, Covers, Committed,
          PendingIn, History
    <3> HIDE DEF v
    <3>5. CallerOK(c)'
      BY <1>8, <2>1, <2>4, <3>1, <3>2, <3>3, <3>4
      DEF BeginAttempt, CallerOK, Deciding, Extends, History
    <3> QED BY <1>0, <1>8, <3>3, <3>5, QuietStep DEF BeginAttempt
  <2> QED BY <1>8, <2>2, <2>3, <2>4 DEF BeginAttempt
<1>9. ASSUME NEW c \in Client, WriteIntent(c) PROVE Inductive'
  <2> DEFINE o == call[c].op
             n == Len(History)
  <2>1. /\ pc[c] = "write" /\ Writing(c) /\ o \in Op /\ CallerOK(c) /\ n \in Nat
        /\ base[c] <= n /\ RowUnchanged(c) /\ seen[c].row \in Row
    BY <1>9, CallerFacts, StoreFacts
    DEF WriteIntent, Writing, CallerOK, Deciding, Inductive, TypesInv, LocalsOK
  <2>2. CASE Retry(c) /\ UNCHANGED <<ref, refVersion, rows, rowVersion>>
    BY <1>0, <1>9, <2>2, RetryOK, QuietStep DEF WriteIntent
  <2>3. CASE PutMatches(Outgoing(c)) /\ ApplyPut(Outgoing(c)) /\ Goto(c, "upload")
             /\ UNCHANGED frame
    <3>1. Outgoing(c) = RowPut(o, seen[c].version, Rebased(c)) BY <2>1 DEF Outgoing
    <3>2. seen[c].version = RowVersionOf(o) BY <2>3, <3>1 DEF PutMatches, RowPut
    <3>3. MayWrite(o, base[c]) BY <2>1, <3>2 DEF RowUnchanged
    <3>4. /\ ref' = ref /\ refVersion' = refVersion
          /\ rows'[o] = Rebased(c) /\ rowVersion'[o] = rowVersion[o] + 1
      BY <2>1, <2>3, <3>1 DEF ApplyPut, RowPut, Inductive, TypesInv, TypeOK
    <3>5. Rebased(c).state = "Pending" /\ Rebased(c).base = base[c] /\ Rebased(c) # None
      <4>1. <<>> \in Digest /\ base[c] \in Nat BY CallerFacts DEF Digest
      <4>2. Rebased(c) \in Row BY <2>1, <4>1, RowTypes DEF Rebased
      <4> QED BY <2>1, <4>2, AbsentAssumption DEF Rebased, Row
    <3>6. pc'[c] = "upload" /\ \A k \in Client \ {c} : Still(k)
      BY <1>9, <2>3, OthersStill DEF WriteIntent, Labels
    <3>7. LiveCas(o, draft[c].version, draft[c].value)'
      <4>1. draft[c].version <= refVersion BY <2>1 DEF CallerOK
      <4>2. ASSUME draft[c].version = refVersion
            PROVE  Extends(draft[c].value, o) /\ base[c] = n /\ ~Committed(o)
        <5>1. Extends(draft[c].value, o) /\ base[c] = n BY <2>1, <4>2 DEF CallerOK
        <5>2. ~Committed(o) BY <2>1, <3>3, <5>1, StoreFacts DEF MayWrite, Covers, Committed
        <5> QED BY <5>1, <5>2
      <4> QED BY <2>3, <3>4, <3>5, <4>1, <4>2
              DEF LiveCas, Extends, Committed, PendingIn, History
    <3>8. CallerOK(c)'
      BY <1>9, <2>1, <2>3, <3>4, <3>6, <3>7, StoreFacts, CallerFacts
      DEF WriteIntent, CallerOK, Deciding
    <3> QED BY <1>0, <1>9, <2>1, <2>3, <3>6, <3>8, RowStep DEF WriteIntent
  <2> QED BY <1>9, <2>2, <2>3 DEF WriteIntent
<1>10. ASSUME NEW c \in Client, Upload(c) PROVE Inductive'
  <2>1. pc'[c] = "cas" /\ \A k \in Client \ {c} : Still(k)
    BY <1>10, OthersStill DEF Upload, Labels
  <2>2. CallerOK(c) /\ pc[c] = "upload" BY <1>10 DEF Upload, Inductive
  <2>3. CallerOK(c)'
    BY <1>10, <2>1, <2>2
    DEF Upload, CallerOK, Deciding, LiveCas, Extends, Committed, PendingIn, History
  <2> QED BY <1>0, <1>10, <2>1, <2>3, QuietStep DEF Upload
<1>11. ASSUME NEW c \in Client, CasRef(c) PROVE Inductive'
  <2>1. pc[c] = "cas" /\ Writing(c) /\ Outgoing(c) \in Put /\ PutOK(Outgoing(c))
        /\ Outgoing(c).op = call[c].op /\ call[c].op \in Op
    BY <1>11, OutgoingOK, CallerFacts DEF CasRef, Writing
  <2>2. CASE Retry(c) /\ UNCHANGED <<ref, refVersion, rows, rowVersion>>
    BY <1>0, <1>11, <2>2, RetryOK, QuietStep DEF CasRef
  <2>3. CASE /\ PutMatches(Outgoing(c)) /\ ApplyPut(Outgoing(c)) /\ Goto(c, "finalize")
             /\ UNCHANGED <<call, seen, base, draft>>
    <3>1. Outgoing(c).key = "ref" BY <2>1 DEF Outgoing, RefPut
    <3>2. /\ RowsOK' /\ AtMostOnce' /\ Committed(call[c].op)'
          /\ \A k \in Client : Still(k) => CallerOK(k)'
          /\ \A n \in wire : PutOK(n)'
      <4>1. ASSUME NEW m, m = Outgoing(c)
            PROVE  /\ RowsOK' /\ AtMostOnce' /\ Committed(m.op)'
                   /\ \A k \in Client : Still(k) => CallerOK(k)'
                   /\ \A n \in wire : PutOK(n)'
        BY <2>1, <2>3, <3>1, <4>1, RefLands
      <4>2. PICK o : o = call[c].op OBVIOUS
      <4>3. Committed(o)'
        <5>1. ASSUME NEW m, m = Outgoing(c) PROVE Committed(o)' BY <2>1, <4>1, <4>2, <5>1
        <5> QED BY <5>1
      <4> QED BY <2>3, <4>1, <4>2, <4>3 DEF Committed
    <3>3. pc'[c] = "finalize" /\ \A k \in Client \ {c} : Still(k)
      BY <1>11, <2>3, OthersStill DEF CasRef, Labels
    <3>4. CallerOK(c)'
      <4>1. CallerOK(c) /\ rowVersion' = rowVersion /\ reply' = reply
        BY <1>11, <2>3, <3>1 DEF CasRef, ApplyPut, Inductive
      <4> QED BY <2>1, <2>3, <3>2, <3>3, <4>1 DEF CallerOK, Deciding
    <3> QED BY <1>0, <1>11, <3>2, <3>3, <3>4 DEF CasRef, Inductive
  <2> QED BY <1>11, <2>2, <2>3 DEF CasRef
<1>12. ASSUME NEW c \in Client, FinalizeIntent(c) PROVE Inductive'
  <2>1. pc[c] = "finalize" /\ Leave(c, "Published") BY <1>12 DEF FinalizeIntent, Acknowledge
  <2>2. CallerOK(c)' /\ \A k \in Client \ {c} : Still(k) BY <1>0, <2>1, LeaveOK
  <2>3. CASE rows[call[c].op] # None /\ ApplyPut(Outgoing(c)) /\ UNCHANGED <<wire, spent>>
    <3>1. Writing(c) BY <2>1, <2>3 DEF Writing
    <3>2. Outgoing(c) = RowPut(call[c].op, RowVersionOf(call[c].op), AppliedRow(c))
      BY <2>1 DEF Outgoing
    <3>3. PutMatches(Outgoing(c)) BY <3>2 DEF PutMatches, RowPut
    <3> QED BY <1>0, <2>1, <2>2, <2>3, <3>1, <3>3, RowStep
  <2>4. CASE UNCHANGED <<ref, refVersion, rows, rowVersion, wire, spent>>
    BY <1>0, <2>2, <2>4, QuietStep
  <2>5. CASE Fault(c) /\ UNCHANGED <<ref, refVersion, rows, rowVersion>>
    BY <1>0, <2>2, <2>5, QuietStep DEF Fault
  <2> QED BY <1>12, <2>3, <2>4, <2>5 DEF FinalizeIntent
<1>13. ASSUME NEW c \in Client, Abandon(c) PROVE Inductive'
  <2>1. Leave(c, "BackendUnavailable") BY <1>13 DEF Abandon, Fail
  <2>2. CallerOK(c)' /\ \A k \in Client \ {c} : Still(k) BY <1>0, <2>1, LeaveOK
  <2> QED BY <1>0, <1>13, <2>2, QuietStep DEF Abandon, Fault
<1>14. ASSUME NEW m \in wire, Land(m) PROVE Inductive'
  <2>1. m \in Put /\ PutOK(m) /\ wire' \subseteq wire /\ \A k \in Client : Still(k)
    BY <1>14 DEF Land, Still, Inductive, TypesInv, TypeOK
  <2>2. CASE PutMatches(m) /\ ApplyPut(m) /\ m.key = "row"
    BY <1>0, <2>1, <2>2, RowLands DEF Inductive
  <2>3. CASE PutMatches(m) /\ ApplyPut(m) /\ m.key = "ref"
    BY <1>0, <2>1, <2>3, RefLands DEF Inductive
  <2>4. CASE UNCHANGED <<ref, refVersion, rows, rowVersion>>
    BY <1>0, <2>1, <2>4, IdleStore DEF Inductive
  <2> QED BY <1>14, <2>1, <2>2, <2>3, <2>4 DEF Land, Put
<1>15. ASSUME NEW o \in Op, Tamper(o) PROVE Inductive'
  BY <1>0, <1>15, TamperKeeps DEF Inductive
<1>16. ASSUME Renew PROVE Inductive'
  BY <1>0, <1>16, RenewKeeps DEF Inductive
<1>17. CASE Tick \/ UNCHANGED vars
  <2>1. UNCHANGED <<ref, refVersion, rows, rowVersion>> /\ wire' = wire
        /\ \A k \in Client : Still(k)
    BY <1>17 DEF Tick, vars, Still
  <2> QED BY <1>0, <2>1, IdleStore DEF Inductive
<1> QED BY <1>1, <1>2, <1>3, <1>4, <1>5, <1>6, <1>7, <1>8, <1>9, <1>10, <1>11, <1>12, <1>13,
           <1>14, <1>15, <1>16, <1>17 DEF Next, Step

\* The initial state satisfies the invariant.
LEMMA OnceInit == Init => Inductive
<1> SUFFICES ASSUME Init PROVE Inductive OBVIOUS
<1>1. TypesInv BY TypesInit
<1>2. /\ DOMAIN History = {} /\ \A o \in Op : rows[o] = None
      /\ \A c \in Client : pc[c] = "idle" /\ reply[c] = "none"
      /\ wire = {}
  BY DEF Init, NewRef, History
<1>3. RowsOK BY <1>2 DEF RowsOK
<1>4. \A c \in Client : CallerOK(c) BY <1>2 DEF CallerOK, Deciding
<1>5. AtMostOnce BY <1>2 DEF AtMostOnce, History
<1> QED BY <1>1, <1>2, <1>3, <1>4, <1>5 DEF Inductive

\* THEOREM: the inductive invariant holds throughout.
THEOREM PublishInductive == Spec => []Inductive
<1>1. Init => Inductive BY OnceInit
<1>2. Inductive /\ [Next]_vars => Inductive' BY OnceStep
<1> QED BY <1>1, <1>2, PTL DEF Spec

\* THEOREM: no operation id has two commits in the history of the ref.
THEOREM PublishAtMostOnce == Spec => []AtMostOnce
<1>1. Inductive => AtMostOnce BY DEF Inductive
<1> QED BY <1>1, PublishInductive, PTL

\* THEOREM: publish never reports that the ref is behind an intent row.
THEOREM PublishNeverFailsClosed == Spec => []NeverFailsClosed
<1>1. Inductive => NeverFailsClosed BY DEF Inductive, CallerOK, NeverFailsClosed
<1> QED BY <1>1, PublishInductive, PTL

-----------------------------------------------------------------------------
(* What the helpers return.                                                *)

\* Two histories that agree up to n have the same commits up to n.
LEMMA SameCommits ==
  ASSUME NEW h \in Digest, NEW d \in Digest, NEW n \in Nat, n <= Len(h), n <= Len(d),
         \A i \in 1..n : h[i] = d[i]
  PROVE  SubSeq(h, 1, n) = SubSeq(d, 1, n)
<1>1. \A i \in 1..n : h[i] \in Commit /\ d[i] \in Commit BY DEF Digest
<1> DEFINE a == SubSeq(h, 1, n)
           b == SubSeq(d, 1, n)
<1>2. /\ a \in Seq(Commit) /\ Len(a) = n /\ \A i \in 1..n : a[i] = h[i]
      /\ b \in Seq(Commit) /\ Len(b) = n /\ \A i \in 1..n : b[i] = d[i]
  <2>1. n \in Int /\ 1 \in Int OBVIOUS
  <2>2. /\ a \in Seq(Commit) /\ Len(a) = IF 1 <= n THEN n - 1 + 1 ELSE 0
        /\ \A i \in 1..(n - 1 + 1) : a[i] = h[1 + i - 1]
    BY <1>1, <2>1, SubSeqProperties
  <2>3. /\ b \in Seq(Commit) /\ Len(b) = IF 1 <= n THEN n - 1 + 1 ELSE 0
        /\ \A i \in 1..(n - 1 + 1) : b[i] = d[1 + i - 1]
    BY <1>1, <2>1, SubSeqProperties
  <2> HIDE DEF a, b
  <2>4. n - 1 + 1 = n /\ n \in Nat /\ (~(1 <= n) => n = 0) OBVIOUS
  <2>5. /\ a \in Seq(Commit) /\ Len(a) = n BY <2>2, <2>4
  <2>6. ASSUME NEW i \in 1..n PROVE a[i] = h[i]
    <3>1. i \in 1..(n - 1 + 1) /\ 1 + i - 1 = i BY <2>4
    <3> QED BY <2>2, <3>1
  <2>7. /\ b \in Seq(Commit) /\ Len(b) = n BY <2>3, <2>4
  <2>8. ASSUME NEW i \in 1..n PROVE b[i] = d[i]
    <3>1. i \in 1..(n - 1 + 1) /\ 1 + i - 1 = i BY <2>4
    <3> QED BY <2>3, <3>1
  <2> QED BY <2>5, <2>6, <2>7, <2>8
<1> HIDE DEF a, b
<1>3. a = b BY <1>2, SeqEqual
<1> QED BY <1>3 DEF a, b

\* The ref value that request k of caller c makes.
LEMMA MadeFacts ==
  ASSUME TypeOK, NEW c \in Client, NEW k \in Call, NEW t \in Nat
  PROVE  LET next == Apply(k.mutation, ref, t)
             v    == Made(c, k, t) IN
         /\ next \in RefValue
         /\ Header(c, k, next.epoch) \in Commit
         /\ v.head_commit = Append(History, Header(c, k, next.epoch))
         /\ v.epoch = next.epoch /\ v.lease = next.lease /\ v.target = next.target
<1> DEFINE next == Apply(k.mutation, ref, t)
           x == Header(c, k, next.epoch)
<1>1. k.mutation \in Mutation /\ k.op \in Op BY CallAssumption
<1>2. ref \in RefValue BY DEF TypeOK
<1>3. next \in RefValue /\ next.generation = ref.generation /\ next.head_commit = History
  BY <1>1, <1>2, ApplyType DEF History
<1>4. x \in Commit BY <1>1, <1>3, MaterialType DEF Header, Commit, RefValue
<1>5. Made(c, k, t) = [next EXCEPT !.generation = next.generation + 1,
                                   !.head_commit = Append(next.head_commit, x)]
  BY <1>3 DEF Made, RefValue
<1> HIDE DEF next, x
<1>6. /\ Made(c, k, t).head_commit = Append(History, x)
      /\ Made(c, k, t).epoch = next.epoch /\ Made(c, k, t).lease = next.lease
      /\ Made(c, k, t).target = next.target
  BY <1>3, <1>5 DEF RefValue
<1> QED BY <1>3, <1>4, <1>6 DEF next, x

\* What an admitted plan prepares is its effect at this very instant.
LEMMA PreparedEffect ==
  ASSUME TypeOK, NEW c \in Client, Admitted(call[c].mutation, ref, clock)
  PROVE  Effect(c, call[c], Prepared(c, ref))
<1>1. clock \in 0..clock BY DEF TypeOK
<1>2. Prepared(c, ref) = Made(c, call[c], clock) BY DEF Prepared, Made, Header
<1> QED BY <1>1, <1>2 DEF Effect

\* Only the ref CAS writes the ref.
LEMMA OutgoingKey ==
  ASSUME NEW c \in Client, pc[c] \in {"create", "write", "finalize"}
  PROVE  Outgoing(c).key = "row"
  BY DEF Outgoing, RowPut

\* A row write leaves the ref alone.
LEMMA RowPutRef ==
  ASSUME NEW m, m.key = "row", ApplyPut(m)
  PROVE  ref' = ref /\ refVersion' = refVersion
  BY DEF ApplyPut

\* A caller's ref CAS is recorded as soon as it is issued.
LEMMA OutgoingRecorded ==
  ASSUME Recorded, NEW c \in Client, Writing(c)
  PROVE  PutRecorded(Outgoing(c)) /\ PutOK(Outgoing(c)) /\ Outgoing(c) \in Put
<1>1. PutOK(Outgoing(c)) /\ Outgoing(c) \in Put /\ Outgoing(c).op = call[c].op
  BY OutgoingOK DEF Recorded
<1>2. call[c] \in Call BY CallerFacts DEF Recorded, Writing
<1>3. Outgoing(c).key = "ref" => /\ pc[c] = "cas" /\ Outgoing(c).value = draft[c].value
                                 /\ Outgoing(c).version = draft[c].version
  BY OutgoingType DEF Recorded, Inductive
<1>4. CallerRecorded(c) BY DEF Recorded
<1>5. PutRecorded(Outgoing(c))
  BY <1>1, <1>2, <1>3, <1>4 DEF PutRecorded, CallerRecorded
<1> QED BY <1>1, <1>5

-----------------------------------------------------------------------------
(* How the ref moves.                                                      *)

Kept == ref' = ref /\ refVersion' = refVersion

\* Request k of caller c takes effect.
Landed(c, k) ==
  /\ Effect(c, k, ref')
  /\ Extends(ref', k.op)
  /\ ~Committed(k.op)
  /\ Durable(ref'.head_commit)
  /\ refVersion' = refVersion + 1
  /\ UNCHANGED <<clock, receipts>>

\* A ref CAS that succeeds is the effect of some caller's request.
LEMMA PutLands ==
  ASSUME Recorded, NEW m \in Put, PutRecorded(m), PutOK(m), PutMatches(m), ApplyPut(m),
         UNCHANGED <<clock, receipts>>
  PROVE  Kept \/ \E c \in Client, k \in Call : Landed(c, k)
<1>1. CASE m.key = "row" BY <1>1, RowPutRef DEF Kept
<1>2. CASE m.key = "ref"
  <2>1. ref' = m.value /\ refVersion' = refVersion + 1 /\ m.version = refVersion
    BY <1>2 DEF ApplyPut, PutMatches
  <2>2. PICK c \in Client, k \in Call : k.op = m.op /\ Effect(c, k, m.value)
    BY <1>2, <2>1 DEF PutRecorded
  <2>3. Extends(m.value, k.op) /\ ~Committed(k.op) /\ Durable(m.value.head_commit)
    BY <1>2, <2>1, <2>2 DEF PutRecorded, PutOK, LiveCas
  <2>4. Landed(c, k) BY <2>1, <2>2, <2>3 DEF Landed
  <2> QED BY <2>4
<1> QED BY <1>1, <1>2 DEF Put

\* The ref is moved by a renewal or by the effect of a request, and by nothing else.
LEMMA RefMoves ==
  ASSUME Recorded, [Next]_vars
  PROVE  Kept \/ Renew \/ \E c \in Client, k \in Call : Landed(c, k)
<1> USE DEF store, frame
<1>1. ASSUME NEW c \in Client,
             \/ Start(c) \/ LoadIntent(c) \/ TryCachedApplied(c) \/ RecoverWithoutIntent(c)
             \/ ReadBase(c) \/ ResolvePending(c) \/ BeginAttempt(c) \/ Upload(c) \/ Abandon(c)
      PROVE  Kept
  BY <1>1 DEF Start, LoadIntent, TryCachedApplied, RecoverWithoutIntent, ReadBase, ResolvePending,
              BeginAttempt, Upload, Abandon, Kept
<1>2. ASSUME NEW c \in Client, CreateIntent(c) \/ WriteIntent(c) \/ FinalizeIntent(c)
      PROVE  Kept
  <2>1. pc[c] \in {"create", "write", "finalize"}
    BY <1>2 DEF CreateIntent, WriteIntent, FinalizeIntent
  <2>2. ApplyPut(Outgoing(c)) \/ UNCHANGED <<ref, refVersion>>
    BY <1>2 DEF CreateIntent, WriteIntent, FinalizeIntent
  <2>3. ASSUME ApplyPut(Outgoing(c)) PROVE Kept
    BY <2>1, <2>3, OutgoingKey DEF ApplyPut, Kept
  <2> QED BY <2>2, <2>3 DEF Kept
<1>3. ASSUME NEW c \in Client, CasRef(c) PROVE Kept \/ \E d \in Client, k \in Call : Landed(d, k)
  <2>1. Writing(c) /\ UNCHANGED <<clock, receipts>> BY <1>3 DEF CasRef, Writing
  <2>2. CASE PutMatches(Outgoing(c)) /\ ApplyPut(Outgoing(c))
    <3>1. ASSUME NEW m, m = Outgoing(c)
          PROVE  Kept \/ \E d \in Client, k \in Call : Landed(d, k)
      BY <2>1, <2>2, <3>1, OutgoingRecorded, PutLands
    <3> QED BY <3>1
  <2>3. CASE UNCHANGED <<ref, refVersion>> BY <2>3 DEF Kept
  <2> QED BY <1>3, <2>2, <2>3 DEF CasRef
<1>4. ASSUME NEW m \in wire, Land(m) PROVE Kept \/ \E d \in Client, k \in Call : Landed(d, k)
  <2>1. m \in Put /\ PutRecorded(m) /\ PutOK(m) /\ UNCHANGED <<clock, receipts>>
    BY <1>4 DEF Recorded, Inductive, TypesInv, TypeOK, Land
  <2> QED BY <1>4, <2>1, PutLands DEF Land, Kept
<1>5. CASE (\E o \in Op : Tamper(o)) \/ Tick \/ UNCHANGED vars
  BY <1>5 DEF Tamper, Tick, vars, Kept
<1> QED BY <1>1, <1>2, <1>3, <1>4, <1>5 DEF Next, Step

\* Nothing is ever taken back from the store of commits or from the clock.
LEMMA OnlyMore ==
  ASSUME Recorded, [Next]_vars
  PROVE  objects \subseteq objects' /\ clock \in Nat /\ clock' \in Nat /\ clock <= clock'
<1> USE DEF store, frame
<1>1. clock \in Nat /\ clock' \in Nat
  BY TypesStep DEF Recorded, Inductive, TypesInv, TypeOK
<1>2. clock' = clock \/ clock' = clock + 1
  BY DEF Next, Step, Start, LoadIntent, TryCachedApplied, RecoverWithoutIntent, ReadBase,
         CreateIntent, ResolvePending, BeginAttempt, WriteIntent, Upload, CasRef, FinalizeIntent,
         Abandon, Land, Tamper, Renew, Tick, vars
<1>3. objects \subseteq objects'
  BY DEF Next, Step, Start, LoadIntent, TryCachedApplied, RecoverWithoutIntent, ReadBase,
         CreateIntent, ResolvePending, BeginAttempt, WriteIntent, Upload, CasRef, FinalizeIntent,
         Abandon, Land, Tamper, Renew, Tick, vars
<1> QED BY <1>1, <1>2, <1>3

\* The history of a ref only gets longer.
Grows == /\ Len(History) <= Len(History')
         /\ \A g \in 1..Len(History) : History'[g] = History[g]

\* Whatever the step, the history of the ref is extended or left alone.
LEMMA HistoryGrows == ASSUME Recorded, [Next]_vars PROVE Grows
<1>1. Len(History) \in Nat BY StoreFacts DEF Recorded
<1>2. CASE Kept BY <1>1, <1>2 DEF Kept, History, Grows
<1>3. CASE Renew
  <2>1. PICK t \in 0..clock : ref' = Renewed(ref, t) BY <1>3 DEF Renew
  <2>2. History' = History
    BY <2>1 DEF Renewed, History, Recorded, Inductive, TypesInv, TypeOK, RefValue
  <2> QED BY <1>1, <2>2 DEF Grows
<1>4. ASSUME NEW c \in Client, NEW k \in Call, Landed(c, k) PROVE Grows
  BY <1>1, <1>4 DEF Landed, Extends, History, Grows
<1> QED BY <1>2, <1>3, <1>4, RefMoves

-----------------------------------------------------------------------------
(* What every step keeps.                                                  *)

\* A receipt stays true.
LEMMA ReceiptStays ==
  ASSUME Recorded, [Next]_vars, NEW r, NEW c, IsReceipt(r, c)
  PROVE  IsReceipt(r, c)'
<1> DEFINE g == r.generation
<1>1. /\ History \in Digest /\ Len(History) \in Nat /\ DOMAIN History = 1..Len(History)
      /\ History' \in Digest /\ Len(History') \in Nat /\ DOMAIN History' = 1..Len(History')
  <2>1. TypesInv' BY TypesStep DEF Recorded, Inductive
  <2>2. ref' \in RefValue BY <2>1 DEF TypesInv, TypeOK
  <2> QED BY <2>2, StoreFacts DEF Recorded, History, RefValue, Digest
<1>2. Grows BY HistoryGrows
<1>3. g \in 1..Len(History) /\ g \in 1..Len(History') /\ History'[g] = History[g]
  BY <1>1, <1>2 DEF IsReceipt, Grows
<1>4. SubSeq(History', 1, g) = SubSeq(History, 1, g)
  BY <1>1, <1>2, <1>3, SameCommits DEF Grows
<1> QED BY <1>1, <1>3, <1>4 DEF IsReceipt, ReceiptAt

\* So does the durability of a chain.
LEMMA DurableStays ==
  ASSUME Recorded, [Next]_vars, NEW d
  PROVE  /\ Durable(d) => Durable(d)'
         /\ DurableBefore(d) => DurableBefore(d)'
  BY OnlyMore DEF Durable, DurableBefore

\* An effect that could happen before can happen after, unless the ref moved.
LEMMA EffectStays ==
  ASSUME Recorded, [Next]_vars, NEW c, NEW k, NEW v, Effect(c, k, v), refVersion' = refVersion
  PROVE  Effect(c, k, v)'
<1>1. ref' = ref
  <2>1. refVersion \in Nat BY StoreFacts DEF Recorded
  <2> QED BY <2>1, RefMoves DEF Kept, Renew, Landed
<1>2. PICK t \in 0..clock : Admitted(k.mutation, ref, t) /\ v = Made(c, k, t) BY DEF Effect
<1>3. t \in 0..clock' BY <1>2, OnlyMore
<1> QED BY <1>1, <1>2, <1>3 DEF Effect, Made

\* A ref CAS that was overtaken stays overtaken.
LEMMA VersionRises ==
  ASSUME Recorded, [Next]_vars, NEW n \in Nat, n <= refVersion, n = refVersion'
  PROVE  n = refVersion /\ refVersion' = refVersion
<1>1. refVersion \in Nat BY StoreFacts DEF Recorded
<1> QED BY <1>1, RefMoves DEF Kept, Renew, Landed

\* The record of an abandoned write stays true.
LEMMA PutStays ==
  ASSUME Recorded, [Next]_vars, NEW m \in Put, PutOK(m), PutRecorded(m)
  PROVE  PutRecorded(m)'
<1> SUFFICES ASSUME m.key = "ref"
             PROVE  /\ Durable(m.value.head_commit)'
                    /\ m.version = refVersion' =>
                         \E c \in Client, k \in Call : k.op = m.op /\ Effect(c, k, m.value)'
  BY DEF PutRecorded
<1>1. Durable(m.value.head_commit)' BY DurableStays DEF PutRecorded
<1>2. ASSUME m.version = refVersion'
      PROVE  \E c \in Client, k \in Call : k.op = m.op /\ Effect(c, k, m.value)'
  <2>1. m.version \in Nat /\ m.version <= refVersion BY DEF Put, PutOK, LiveCas
  <2>2. m.version = refVersion /\ refVersion' = refVersion BY <1>2, <2>1, VersionRises
  <2>3. PICK c \in Client, k \in Call : k.op = m.op /\ Effect(c, k, m.value)
    BY <2>2 DEF PutRecorded
  <2>4. Effect(c, k, m.value)' BY <2>2, <2>3, EffectStays
  <2> QED BY <2>3, <2>4
<1> QED BY <1>1, <1>2

\* A caller's locals do not move.
Unmoved(c) == /\ pc'[c] = pc[c] /\ call'[c] = call[c]
              /\ draft'[c] = draft[c] /\ result'[c] = result[c]

\* What such a caller holds stays true.
LEMMA CallerStays ==
  ASSUME Recorded, [Next]_vars, NEW c \in Client, Unmoved(c)
  PROVE  CallerRecorded(c)'
<1>1. CallerRecorded(c) BY DEF Recorded
<1>2. pc[c] \in {"write", "upload"} => DurableBefore(draft[c].value.head_commit)'
  <2>1. ASSUME NEW d, d = draft[c].value.head_commit, DurableBefore(d) PROVE DurableBefore(d)'
    BY <2>1, DurableStays
  <2> QED BY <1>1, <2>1 DEF CallerRecorded, Unmoved, DurableBefore
<1>3. pc[c] = "cas" => Durable(draft[c].value.head_commit)'
  <2>1. ASSUME NEW d, d = draft[c].value.head_commit, Durable(d) PROVE Durable(d)'
    BY <2>1, DurableStays
  <2> QED BY <1>1, <2>1 DEF CallerRecorded, Unmoved, Durable
<1>4. ASSUME pc[c] \in {"write", "upload", "cas"}, draft[c].version = refVersion'
      PROVE  Effect(c, call[c], draft[c].value)'
  <2>1. draft[c].version \in Nat /\ draft[c].version <= refVersion
    BY <1>4 DEF Recorded, Inductive, TypesInv, TypeOK, LocalsOK, Draft, CallerOK, LiveCas
  <2>2. draft[c].version = refVersion /\ refVersion' = refVersion BY <1>4, <2>1, VersionRises
  <2>3. ASSUME NEW k, NEW v, k = call[c], v = draft[c].value, Effect(c, k, v)
        PROVE  Effect(c, k, v)'
    BY <2>2, <2>3, EffectStays
  <2>4. PICK k, v : k = call[c] /\ v = draft[c].value OBVIOUS
  <2>5. Effect(c, k, v)' BY <1>1, <1>4, <2>2, <2>3, <2>4 DEF CallerRecorded
  <2>6. call'[c] = k /\ draft'[c].value = v BY <2>4 DEF Unmoved
  <2> QED BY <2>5, <2>6 DEF Effect, Made
<1>5. pc[c] = "finalize" => IsReceipt(result[c], c)'
  <2>1. ASSUME NEW r, r = result[c], IsReceipt(r, c) PROVE IsReceipt(r, c)'
    BY <2>1, ReceiptStays
  <2> QED BY <1>1, <2>1 DEF CallerRecorded, Unmoved, IsReceipt
<1> QED BY <1>2, <1>3, <1>4, <1>5 DEF CallerRecorded, Unmoved

\* The labels at which a caller holds nothing that has to be recorded.
Light == Labels \ {"write", "upload", "cas", "finalize"}

\* A caller at such a label has an empty record.
LEMMA LightCaller == ASSUME NEW c \in Client, pc'[c] \in Light PROVE CallerRecorded(c)'
  BY DEF Light, CallerRecorded

\* A step moves no caller but its own.
LEMMA OneMoves ==
  ASSUME Recorded, [Next]_vars, NEW c \in Client
  PROVE  \/ Unmoved(c)
         \/ Start(c) \/ Step(c) \/ Abandon(c)
<1> USE DEF store, frame
<1>0. /\ pc \in [Client -> Labels] /\ call \in [Client -> Call \cup {None}]
      /\ draft \in [Client -> Draft \cup {None}] /\ result \in [Client -> Receipt \cup {None}]
  BY DEF Recorded, Inductive, TypesInv, TypeOK
<1>1. ASSUME NEW k \in Client \ {c}, Start(k) \/ Step(k) \/ Abandon(k) PROVE Unmoved(c)
  BY <1>0, <1>1
  DEF Step, Start, LoadIntent, TryCachedApplied, RecoverWithoutIntent, ReadBase,
      CreateIntent, ResolvePending, BeginAttempt, WriteIntent, Upload, CasRef, FinalizeIntent,
      Abandon, Goto, Forget, Retry, Leave, Fail, Acknowledge, Unmoved
<1>2. ASSUME (\E m \in wire : Land(m)) \/ (\E o \in Op : Tamper(o)) \/ Renew \/ Tick
             \/ UNCHANGED vars
      PROVE  Unmoved(c)
  BY <1>2 DEF Land, Tamper, Renew, Tick, vars, Unmoved
<1> QED BY <1>1, <1>2 DEF Next

\* A commit of the history has a receipt, for whoever finds it.
LEMMA FoundReceipt ==
  ASSUME NEW c, NEW g \in DOMAIN History
  PROVE  IsReceipt(ReceiptAt(History, g, FALSE), c)
  BY DEF IsReceipt, ReceiptAt

\* What a prepared ref value holds before its upload.
LEMMA AttemptRecorded ==
  ASSUME Recorded, [Next]_vars, NEW c \in Client, BeginAttempt(c)
  PROVE  CallerRecorded(c)'
<1>1. pc[c] = "attempt" /\ call[c] \in Call /\ TypeOK /\ TypesInv
  BY DEF BeginAttempt, Recorded, Inductive, TypesInv, LocalsOK
<1>2. CASE Retry(c) \/ Fail(c, Verdict(call[c].mutation, ref, clock))
  <2>1. pc'[c] \in Light
    BY <1>1, <1>2, GotoFacts DEF Retry, Fail, Leave, Light, Labels
  <2> QED BY <2>1, LightCaller
<1>3. CASE /\ Admitted(call[c].mutation, ref, clock)
           /\ draft' = [draft EXCEPT ![c] = [value |-> Prepared(c, ref), version |-> refVersion]]
           /\ Goto(c, "write") /\ UNCHANGED <<call, store, clock>>
  <2>0. PICK v : v = Prepared(c, ref) OBVIOUS
  <2>10. PICK d : d = v.head_commit OBVIOUS
  <2> DEFINE n == Len(History)
  <2>1. /\ v \in RefValue /\ Len(d) = n + 1 /\ \A g \in 1..n : d[g] = History[g]
        /\ History \in Digest /\ n \in Nat
    BY <1>1, <2>0, <2>10, PreparedType, StoreFacts DEF Recorded
  <2>2. d \in Digest BY <2>1, <2>10 DEF RefValue
  <2>3. Effect(c, call[c], v) BY <1>1, <1>3, <2>0, PreparedEffect
  <2>4. /\ draft'[c].value = v /\ pc'[c] = "write" /\ call' = call /\ ref' = ref
        /\ clock' = clock /\ objects' = objects
    BY <1>1, <1>3, <2>0, GotoFacts DEF TypeOK, store, Labels
  <2>5. \A g \in 1..n : SubSeq(d, 1, g) \in objects
    <3> SUFFICES ASSUME NEW g \in 1..n PROVE SubSeq(d, 1, g) \in objects OBVIOUS
    <3>1. g \in Nat /\ g <= n /\ g <= Len(d) BY <2>1
    <3>2. SubSeq(History, 1, g) = SubSeq(d, 1, g) BY <2>1, <2>2, <3>1, SameCommits
    <3> QED BY <3>2 DEF Recorded, Durable
  <2>6. DurableBefore(d)' BY <2>1, <2>4, <2>5 DEF DurableBefore
  <2>7. Effect(c, call[c], v)' BY <2>3, <2>4 DEF Effect, Made
  <2> QED BY <2>4, <2>6, <2>7, <2>10 DEF CallerRecorded, DurableBefore, Effect, Made
<1> QED BY <1>2, <1>3 DEF BeginAttempt, Admitted

\* The upload completes the chain behind the ref CAS.
LEMMA UploadRecorded ==
  ASSUME Recorded, [Next]_vars, NEW c \in Client, Upload(c)
  PROVE  CallerRecorded(c)'
<1> DEFINE d == draft[c].value.head_commit
<1>1. /\ pc[c] = "upload" /\ pc'[c] = "cas" /\ ref' = ref /\ refVersion' = refVersion
      /\ call' = call /\ draft' = draft /\ clock' = clock /\ objects' = objects \cup {d}
  BY GotoFacts DEF Upload, Labels, frame, Recorded, Inductive
<1>2. CallerRecorded(c) /\ draft[c] \in Draft
  BY <1>1 DEF Recorded, Inductive, TypesInv, TypeOK, LocalsOK
<1>3. d \in Seq(Commit) BY <1>2 DEF Draft, RefValue, Digest
<1>4. SubSeq(d, 1, Len(d)) = d BY <1>3, SubSeqFull
<1>5. \A g \in 1..Len(d) : g \in 1..(Len(d) - 1) \/ g = Len(d) BY <1>3
<1>6. \A g \in 1..Len(d) : SubSeq(d, 1, g) \in objects'
  BY <1>1, <1>2, <1>4, <1>5 DEF CallerRecorded, DurableBefore
<1> QED BY <1>1, <1>2, <1>6 DEF CallerRecorded, Durable, Effect, Made

\* Whoever wins the ref CAS holds the receipt of its own commit.
LEMMA CasRecorded ==
  ASSUME Recorded, [Next]_vars, NEW c \in Client, CasRef(c)
  PROVE  CallerRecorded(c)'
<1> DEFINE v == draft[c].value
           k == call[c]
           r == ReceiptAt(v.head_commit, v.generation, TRUE)
<1>1. /\ pc[c] = "cas" /\ TypesInv /\ TypeOK /\ k \in Call /\ draft[c] \in Draft
      /\ Outgoing(c).key = "ref" /\ Outgoing(c).value = v /\ Outgoing(c).version = draft[c].version
  BY DEF CasRef, Recorded, Inductive, TypesInv, TypeOK, LocalsOK, Outgoing, RefPut
<1>2. CASE Retry(c)
  <2>1. pc'[c] \in Light BY <1>1, <1>2, GotoFacts DEF Retry, Light, Labels
  <2> QED BY <2>1, LightCaller
<1>3. CASE /\ PutMatches(Outgoing(c)) /\ ApplyPut(Outgoing(c))
           /\ result' = [result EXCEPT ![c] = r] /\ Goto(c, "finalize")
  <2>1. draft[c].version = refVersion /\ ref' = v BY <1>1, <1>3 DEF PutMatches, ApplyPut
  <2>2. Effect(c, k, v) BY <1>1, <2>1 DEF Recorded, CallerRecorded
  <2>3. PICK t \in 0..clock : v = Made(c, k, t) BY <2>2 DEF Effect
  <2> DEFINE x == Header(c, k, Apply(k.mutation, ref, t).epoch)
  <2>4. v.head_commit = Append(History, x) /\ x \in Commit
    BY <1>1, <2>3, MadeFacts DEF TypeOK
  <2>5. v.generation = Len(History) + 1
    <3>1. Counted(v) BY <1>1 DEF TypesInv, LocalsOK, CountsOK, CountedNext
    <3>2. History \in Seq(Commit) BY StoreFacts DEF Recorded, Digest
    <3> HIDE DEF x, v
    <3> QED BY <2>4, <3>1, <3>2 DEF Counted
  <2>6. /\ History' = v.head_commit /\ v.generation \in DOMAIN History'
        /\ History'[v.generation].by = c
    <3>1. History \in Seq(Commit) BY StoreFacts DEF Recorded, Digest
    <3>2. x.by = c BY DEF Header
    <3>3. History' = v.head_commit BY <2>1 DEF History
    <3> HIDE DEF x, v
    <3> QED BY <2>4, <2>5, <3>1, <3>2, <3>3
  <2>7. pc'[c] = "finalize" /\ result'[c] = r
    BY <1>1, <1>3, GotoFacts DEF TypeOK, Labels
  <2>8. r.generation = v.generation /\ r.first BY DEF ReceiptAt
  <2>9. PICK q : q = r OBVIOUS
  <2>11. IsReceipt(q, c)'
    <3>1. q = ReceiptAt(History', q.generation, q.first) BY <2>6, <2>8, <2>9
    <3> QED BY <2>6, <2>8, <2>9, <3>1 DEF IsReceipt, ReceiptAt
  <2>12. result'[c] = q BY <2>7, <2>9
  <2> QED BY <2>7, <2>11, <2>12 DEF CallerRecorded, IsReceipt
<1> QED BY <1>2, <1>3 DEF CasRef

\* A commit found at base + 1 makes a receipt that is not the first.
LEMMA ResolveRecorded ==
  ASSUME Recorded, [Next]_vars, NEW c \in Client, ResolvePending(c)
  PROVE  CallerRecorded(c)'
<1> DEFINE g == base[c] + 1
<1>1. /\ pc[c] = "resolve" /\ TypesInv /\ TypeOK /\ ref' = ref
  BY DEF ResolvePending, Recorded, Inductive, TypesInv, store
<1>2. CASE (\E e \in Errors : Fail(c, e)) \/ Goto(c, "attempt")
  <2>1. pc'[c] \in Light BY <1>1, <1>2, GotoFacts DEF Fail, Leave, Light, Labels
  <2> QED BY <2>1, LightCaller
<1>3. CASE /\ ref.generation > base[c] /\ Goto(c, "finalize")
           /\ result' = [result EXCEPT ![c] = ReceiptAt(History, g, FALSE)]
  <2>1. g \in DOMAIN History BY <1>3, CallerFacts, StoreFacts DEF Recorded
  <2>2. IsReceipt(ReceiptAt(History, g, FALSE), c) BY <2>1, FoundReceipt
  <2>3. PICK r : r = ReceiptAt(History, g, FALSE) OBVIOUS
  <2>4. IsReceipt(r, c)' BY <2>2, <2>3, ReceiptStays
  <2>5. pc'[c] = "finalize" /\ result'[c] = r
    BY <1>1, <1>3, <2>3, GotoFacts DEF TypeOK, Labels
  <2> QED BY <2>4, <2>5 DEF CallerRecorded, IsReceipt
<1> QED BY <1>2, <1>3 DEF ResolvePending, History, Errors

\* Every caller's record is kept, its own steps included.
LEMMA CallersRecorded ==
  ASSUME Recorded, [Next]_vars, NEW c \in Client
  PROVE  CallerRecorded(c)'
<1>0. TypesInv /\ TypeOK BY DEF Recorded, Inductive, TypesInv
<1>1. CASE Unmoved(c) BY <1>1, CallerStays
<1>2. CASE \/ Start(c) \/ LoadIntent(c) \/ TryCachedApplied(c) \/ RecoverWithoutIntent(c)
           \/ ReadBase(c) \/ CreateIntent(c) \/ FinalizeIntent(c) \/ Abandon(c)
  <2>1. \E l \in Light : Goto(c, l)
    BY <1>2 DEF Start, LoadIntent, TryCachedApplied, RecoverWithoutIntent, ReadBase, CreateIntent,
                FinalizeIntent, Abandon, Retry, Acknowledge, Fail, Leave, Light, Labels
  <2>2. pc'[c] \in Light BY <1>0, <2>1, GotoFacts DEF Light
  <2> QED BY <2>2, LightCaller
<1>3. CASE WriteIntent(c)
  <2>1. CASE Retry(c)
    <3>1. pc'[c] \in Light BY <1>0, <2>1, GotoFacts DEF Retry, Light, Labels
    <3> QED BY <3>1, LightCaller
  <2>2. CASE Goto(c, "upload") /\ UNCHANGED frame /\ ApplyPut(Outgoing(c))
    <3>1. /\ pc[c] = "write" /\ pc'[c] = "upload" /\ call' = call /\ draft' = draft
          /\ clock' = clock /\ objects' = objects
      BY <1>0, <1>3, <2>2, GotoFacts DEF WriteIntent, frame, Labels
    <3>2. ref' = ref /\ refVersion' = refVersion
      BY <2>2, <3>1, OutgoingKey DEF ApplyPut
    <3>3. CallerRecorded(c) BY DEF Recorded
    <3> QED BY <3>1, <3>2, <3>3 DEF CallerRecorded, DurableBefore, Effect, Made
  <2> QED BY <1>3, <2>1, <2>2 DEF WriteIntent
<1> QED BY <1>1, <1>2, <1>3, OneMoves, AttemptRecorded, UploadRecorded, CasRecorded,
           ResolveRecorded DEF Step

\* The wire grows only by the write of a caller that fails.
LEMMA WireGrows ==
  ASSUME [Next]_vars, NEW m \in wire'
  PROVE  m \in wire \/ \E c \in Client : Writing(c) /\ m = Outgoing(c)
  BY DEF Next, Step, Start, LoadIntent, TryCachedApplied, RecoverWithoutIntent, ReadBase,
         CreateIntent, ResolvePending, BeginAttempt, WriteIntent, Upload, CasRef, FinalizeIntent,
         Abandon, Fault, Land, Tamper, Renew, Tick, vars

\* A receipt is handed out for a commit of the history, and only to its builder
\* as the first delivery.
LEMMA NewReceipts ==
  ASSUME Recorded, [Next]_vars, NEW a \in receipts', a \notin receipts
  PROVE  IsReceipt(a.receipt, a.to)
<1> USE DEF store, frame
<1>1. PICK c \in Client :
        TryCachedApplied(c) \/ RecoverWithoutIntent(c) \/ FinalizeIntent(c)
  BY ZenonT(40) DEF Next, Step, Start, LoadIntent, ReadBase, CreateIntent, ResolvePending, BeginAttempt,
         WriteIntent, Upload, CasRef, Abandon, Fail, Land, Tamper, Renew, Tick, vars
<1>2. ASSUME NEW r, Acknowledge(c, r), IsReceipt(r, c) PROVE IsReceipt(a.receipt, a.to)
  <2>1. a.receipt = r /\ a.to = c BY <1>2 DEF Acknowledge
  <2> QED BY <1>2, <2>1
<1>3. CASE TryCachedApplied(c)
  <2> DEFINE g == Len(seen[c].row.commit)
  <2>1. CacheHit(c, History) /\ Acknowledge(c, ReceiptAt(History, g, FALSE))
    BY <1>3 DEF TryCachedApplied, History
  <2>2. g \in DOMAIN History BY <2>1, StoreFacts DEF CacheHit, InHistory, Recorded
  <2> QED BY <1>2, <2>1, <2>2, FoundReceipt
<1>4. CASE RecoverWithoutIntent(c)
  <2>1. PICK g \in DOMAIN History : Acknowledge(c, ReceiptAt(History, g, FALSE))
    BY <1>4 DEF RecoverWithoutIntent, CommittedAt, History, Fail
  <2> QED BY <1>2, <2>1, FoundReceipt
<1>5. CASE FinalizeIntent(c)
  BY <1>2, <1>5 DEF FinalizeIntent, Recorded, CallerRecorded
<1> QED BY <1>1, <1>3, <1>4, <1>5

\* The commits of the ref stay uploaded, whatever moves it.
LEMMA HistoryRecorded == ASSUME Recorded, [Next]_vars PROVE Durable(History)'
<1>1. objects \subseteq objects' BY OnlyMore
<1>2. CASE Kept BY <1>1, <1>2 DEF Kept, Recorded, Durable, History
<1>3. CASE Renew
  <2>1. PICK t \in 0..clock : ref' = Renewed(ref, t) BY <1>3 DEF Renew
  <2>2. History' = History
    BY <2>1 DEF Renewed, History, Recorded, Inductive, TypesInv, TypeOK, RefValue
  <2> QED BY <1>1, <2>2 DEF Recorded, Durable
<1>4. ASSUME NEW c \in Client, NEW k \in Call, Landed(c, k) PROVE Durable(History)'
  BY <1>1, <1>4 DEF Landed, Durable, History
<1> QED BY <1>2, <1>3, <1>4, RefMoves

\* Every step keeps the whole invariant.
LEMMA RecordedStep == Recorded /\ [Next]_vars => Recorded'
<1> SUFFICES ASSUME Recorded, [Next]_vars PROVE Recorded' OBVIOUS
<1>1. Inductive' BY OnceStep DEF Recorded
<1>2. ASSUME NEW m \in wire' PROVE PutRecorded(m)'
  <2>1. m \in Put /\ PutOK(m) /\ PutRecorded(m)
    <3>1. CASE m \in wire BY <3>1 DEF Recorded, Inductive, TypesInv, TypeOK
    <3>2. ASSUME NEW c \in Client, Writing(c), m = Outgoing(c)
          PROVE  m \in Put /\ PutOK(m) /\ PutRecorded(m)
      BY <3>2, OutgoingRecorded
    <3> QED BY <3>1, <3>2, WireGrows
  <2> QED BY <2>1, PutStays
<1>3. ASSUME NEW a \in receipts' PROVE IsReceipt(a.receipt, a.to)'
  <2>1. IsReceipt(a.receipt, a.to) BY NewReceipts DEF Recorded
  <2> QED BY <2>1, ReceiptStays
<1> QED BY <1>1, <1>2, <1>3, CallersRecorded, HistoryRecorded DEF Recorded

\* A store nobody has used satisfies it.
LEMMA RecordedInit == Init => Recorded
<1> SUFFICES ASSUME Init PROVE Recorded OBVIOUS
<1>1. /\ History = <<>> /\ wire = {} /\ receipts = {} /\ \A c \in Client : pc[c] = "idle"
  BY DEF Init, NewRef, History
<1>2. Durable(History) BY <1>1 DEF Durable
<1>3. \A c \in Client : CallerRecorded(c) BY <1>1 DEF CallerRecorded
<1> QED BY <1>1, <1>2, <1>3, OnceInit DEF Recorded

-----------------------------------------------------------------------------
(* What follows for every caller.                                          *)

\* THEOREM: the invariant of receipts, durability and effects holds throughout.
THEOREM PublishRecorded == Spec => []Recorded
<1> QED BY RecordedInit, RecordedStep, PTL DEF Spec

\* THEOREM: every acknowledgement ever given names a commit of the live history and
\* repeats what that commit recorded.
THEOREM PublishReceiptsAreCommits == Spec => []ReceiptsAreCommits
<1>1. Recorded => ReceiptsAreCommits
  <2> SUFFICES ASSUME Recorded, NEW a \in receipts
               PROVE  /\ InHistory(a.receipt.commit, History)
                      /\ a.receipt = ReceiptAt(History, a.receipt.generation, a.receipt.first)
    BY DEF ReceiptsAreCommits, History
  <2> DEFINE g == a.receipt.generation
             d == SubSeq(History, 1, g)
  <2>1. IsReceipt(a.receipt, a.to) BY DEF Recorded
  <2>2. History \in Digest /\ g \in 1..Len(History) /\ a.receipt.commit = d
    BY <2>1, StoreFacts DEF Recorded, IsReceipt, ReceiptAt
  <2>3. Len(d) = g /\ \A i \in 1..g : d[i] = History[i] BY <2>2 DEF Digest
  <2> QED BY <2>1, <2>2, <2>3 DEF IsReceipt, InHistory
<1> QED BY <1>1, PublishRecorded, PTL

\* THEOREM: no two callers are told that they delivered the same operation first.
THEOREM PublishFirstDeliveryOnce == Spec => []FirstDeliveryOnce
<1>1. Recorded => FirstDeliveryOnce
  <2> SUFFICES ASSUME Recorded, NEW a \in receipts, NEW b \in receipts,
                      a.receipt.first, b.receipt.first,
                      a.receipt.identity = b.receipt.identity
               PROVE  a = b
    BY DEF FirstDeliveryOnce
  <2>1. IsReceipt(a.receipt, a.to) /\ IsReceipt(b.receipt, b.to) /\ AtMostOnce
        /\ a \in [receipt : Receipt, to : Client] /\ b \in [receipt : Receipt, to : Client]
    BY DEF Recorded, Inductive, TypesInv, TypeOK
  <2>2. /\ a.receipt.identity = History[a.receipt.generation].identity
        /\ b.receipt.identity = History[b.receipt.generation].identity
    BY <2>1 DEF IsReceipt, ReceiptAt
  <2>3. a.receipt.generation = b.receipt.generation
    BY <2>1, <2>2 DEF AtMostOnce, IsReceipt, History
  <2>4. a.receipt.first = TRUE /\ b.receipt.first = TRUE BY <2>1 DEF Receipt
  <2>5. a.receipt = b.receipt /\ a.to = b.to BY <2>1, <2>3, <2>4 DEF IsReceipt
  <2> QED BY <2>1, <2>5
<1> QED BY <1>1, PublishRecorded, PTL

\* THEOREM: the ref counts the commits behind it, and each of them was uploaded
\* before the ref could point at it.
THEOREM PublishHistoryIsDurable == Spec => []HistoryIsDurable
<1>1. Recorded => HistoryIsDurable
  BY StoreFacts DEF Recorded, Durable, HistoryIsDurable, History
<1> QED BY <1>1, PublishRecorded, PTL

\* THEOREM: a step only ever appends to the history of the ref; no commit is
\* replaced or dropped, by a late write as little as by a renewal.
THEOREM PublishHistoryGrows == Spec => [][Grows]_vars
<1>1. Recorded /\ [Next]_vars => [Grows]_vars BY HistoryGrows
<1> QED BY <1>1, PublishRecorded, PTL DEF Spec

\* What a caller is told changes only when it is told something.
LEMMA OneAnswers ==
  ASSUME Recorded, [Next]_vars, NEW c \in Client
  PROVE  reply'[c] = reply[c] \/ Start(c) \/ Step(c) \/ Abandon(c)
<1> USE DEF store, frame
<1>0. reply \in [Client -> Errors \cup {"none", "Published"}]
  BY DEF Recorded, Inductive, TypesInv, TypeOK
<1>1. ASSUME NEW k \in Client \ {c}, Start(k) \/ Step(k) \/ Abandon(k)
      PROVE  reply'[c] = reply[c]
  BY <1>0, <1>1
  DEF Step, Start, LoadIntent, TryCachedApplied, RecoverWithoutIntent, ReadBase,
      CreateIntent, ResolvePending, BeginAttempt, WriteIntent, Upload, CasRef, FinalizeIntent,
      Abandon, Leave, Fail, Acknowledge
<1>2. ASSUME (\E m \in wire : Land(m)) \/ (\E o \in Op : Tamper(o)) \/ Renew \/ Tick
             \/ UNCHANGED vars
      PROVE  reply'[c] = reply[c]
  BY <1>2 DEF Land, Tamper, Renew, Tick, vars
<1> QED BY <1>1, <1>2 DEF Next

\* The id of caller c really was used for another request.
Misused(c) ==
  LET o == call[c].op
      q == Material(call[c].mutation) IN
  \/ rows[o] # None /\ rows[o].request # q
  \/ \E g \in CommittedAt(o, ref.head_commit) : ref.head_commit[g].request # q

\* A caller that is told of a conflict now had a reason for it.
LEMMA ConflictMeansMisuse ==
  ASSUME Recorded, [Next]_vars, NEW c \in Client,
         reply'[c] = "IdempotencyConflict", reply[c] # "IdempotencyConflict"
  PROVE  Misused(c)
<1> USE DEF store, frame
<1>0. /\ reply \in [Client -> Errors \cup {"none", "Published"}]
      /\ \A a : reply' = [reply EXCEPT ![c] = a] => a = "IdempotencyConflict"
  BY DEF Recorded, Inductive, TypesInv, TypeOK
<1>1. \/ LoadIntent(c) \/ RecoverWithoutIntent(c) \/ ResolvePending(c) \/ BeginAttempt(c)
  <2>1. ~Start(c) BY <1>0 DEF Start
  <2>2. ~Abandon(c) BY <1>0 DEF Abandon, Fail, Leave
  <2>3. ~TryCachedApplied(c) /\ ~FinalizeIntent(c)
    BY <1>0 DEF TryCachedApplied, FinalizeIntent, Acknowledge, Leave
  <2>4. ~ReadBase(c) /\ ~CreateIntent(c) /\ ~WriteIntent(c) /\ ~Upload(c) /\ ~CasRef(c)
    BY DEF ReadBase, CreateIntent, WriteIntent, Upload, CasRef
  <2> QED BY <2>1, <2>2, <2>3, <2>4, OneAnswers DEF Step
<1>2. CASE LoadIntent(c)
  <2>1. Clash(rows[call[c].op], c) BY <1>0, <1>2 DEF LoadIntent, Fail, Leave
  <2> QED BY <2>1 DEF Clash, Misused
<1>3. CASE RecoverWithoutIntent(c)
  <2>1. \E g \in CommittedAt(call[c].op, ref.head_commit) :
          ref.head_commit[g].request # Material(call[c].mutation)
    BY <1>0, <1>3 DEF RecoverWithoutIntent, Fail, Leave, Acknowledge
  <2> QED BY <2>1 DEF Misused
<1>4. CASE ResolvePending(c)
  <2> DEFINE g == base[c] + 1
  <2>1. /\ ref.generation > base[c] /\ History[g].identity = call[c].op
        /\ History[g].request # Material(call[c].mutation)
    BY <1>0, <1>4 DEF ResolvePending, Fail, Leave, History
  <2>2. g \in DOMAIN History BY <2>1, CallerFacts, StoreFacts DEF Recorded
  <2> QED BY <2>1, <2>2 DEF Misused, CommittedAt, History
<1>5. CASE BeginAttempt(c)
  <2>1. call[c].mutation \in Mutation
    BY <1>5, CallerFacts, CallAssumption DEF Recorded, BeginAttempt
  <2>2. Verdict(call[c].mutation, ref, clock) # "IdempotencyConflict" BY <2>1, VerdictType
  <2> QED BY <1>0, <1>5, <2>2 DEF BeginAttempt, Fail, Leave
<1> QED BY <1>1, <1>2, <1>3, <1>4, <1>5

\* THEOREM: a conflict is reported only for an id whose row or commit, at that
\* moment, belongs to another request.
THEOREM PublishConflictIsJustified == Spec => ConflictIsJustified
<1>1. ASSUME Recorded, [Next]_vars
      PROVE  \A c \in Client :
               reply'[c] = "IdempotencyConflict" /\ reply[c] # "IdempotencyConflict" =>
                 LET o == call[c].op
                     q == Material(call[c].mutation) IN
                 \/ rows[o] # None /\ rows[o].request # q
                 \/ \E g \in CommittedAt(o, ref.head_commit) : ref.head_commit[g].request # q
  BY <1>1, ConflictMeansMisuse DEF Misused
<1> QED BY <1>1, PublishRecorded, PTL DEF Spec, ConflictIsJustified

-----------------------------------------------------------------------------
(* The engine implements the register.                                     *)

ContentPart(r) == [epoch |-> r.epoch, lease |-> r.lease, target |-> r.target]

Told(S) == {[identity |-> a.receipt.identity, request |-> a.receipt.request,
             generation |-> a.receipt.generation, epoch |-> a.receipt.epoch] : a \in S}

\* What was admitted at t is admitted from then on while the ref stands: a lease
\* can only run out.
LEMMA AdmittedLater ==
  ASSUME NEW m \in Mutation, NEW r \in RefValue, NEW t \in Nat, NEW u \in Nat, t <= u,
         Admitted(m, r, t)
  PROVE  Abstract!Admitted(m, ContentPart(r), u)
<1>1. LeaseLive(r, u) => LeaseLive(r, t)
  <2>1. r.lease # None => r.lease.until \in Nat BY DEF RefValue, Lease
  <2> QED BY <2>1 DEF LeaseLive
<1>2. Abstract!LeaseLive(ContentPart(r), u) <=> LeaseLive(r, u)
  BY DEF Abstract!LeaseLive, LeaseLive, ContentPart
<1>3. CASE m \in SetTargets
  BY <1>1, <1>2, <1>3 DEF SetTargets, Admitted, Verdict, SetTargetRefusal, Abstract!Admitted,
     Abstract!Verdict, Abstract!SetTargetRefusal, ContentPart
<1>4. CASE m \in Claims
  BY <1>1, <1>2, <1>4 DEF Claims, Admitted, Verdict, ClaimRefusal, Abstract!Admitted,
     Abstract!Verdict, Abstract!ClaimRefusal, ContentPart
<1>5. CASE m \in Releases
  BY <1>5 DEF Releases, Admitted, Verdict, ReleaseRefusal, Abstract!Admitted, Abstract!Verdict,
     Abstract!ReleaseRefusal, ContentPart
<1> QED BY <1>3, <1>4, <1>5 DEF Mutation

\* A mutation does to the content what it does to the ref.
LEMMA ApplyContent ==
  ASSUME NEW m \in Mutation, NEW r \in RefValue, NEW t \in Nat
  PROVE  /\ ContentPart(Apply(m, r, t)) = Abstract!Apply(m, ContentPart(r), t)
         /\ Abstract!Material(m) = Material(m)
<1>1. CASE m \in SetTargets
  BY <1>1 DEF SetTargets, Apply, Abstract!Apply, ContentPart, RefValue, Material, Abstract!Material
<1>2. CASE m \in Claims
  BY <1>2 DEF Claims, Apply, Abstract!Apply, ContentPart, RefValue, Material, Abstract!Material
<1>3. CASE m \in Releases
  BY <1>3 DEF Releases, Apply, Abstract!Apply, ContentPart, RefValue, Material, Abstract!Material
<1> QED BY <1>1, <1>2, <1>3 DEF Mutation

\* One more commit is one more entry.
LEMMA EntriesAppend ==
  ASSUME NEW h \in Digest, NEW x \in Commit
  PROVE  Entries(Append(h, x)) =
           Append(Entries(h), [identity |-> x.identity, request |-> x.request, epoch |-> x.epoch])
<1> DEFINE e(y) == [identity |-> y.identity, request |-> y.request, epoch |-> y.epoch]
           E == {e(y) : y \in Commit}
           n == Len(h)
<1>1. n \in Nat /\ \A i \in 1..n : h[i] \in Commit BY DEF Digest
<1>2. /\ Append(h, x) \in Seq(Commit) /\ Len(Append(h, x)) = n + 1
      /\ Append(h, x)[n + 1] = x /\ \A i \in 1..n : Append(h, x)[i] = h[i]
  BY DEF Digest
<1>3. Entries(h) \in Seq(E) /\ Len(Entries(h)) = n /\ \A i \in 1..n : Entries(h)[i] = e(h[i])
  <2>1. Entries(h) = [i \in 1..n |-> e(h[i])] BY DEF Entries, Digest
  <2>2. \A i \in 1..n : e(h[i]) \in E BY <1>1
  <2> HIDE DEF e, E
  <2>3. [i \in 1..n |-> e(h[i])] \in Seq(E) BY <1>1, <2>2, IsASeq
  <2> QED BY <1>1, <2>1, <2>3
<1>4. Entries(Append(h, x)) = [i \in 1..(n + 1) |-> e(Append(h, x)[i])]
  BY <1>1, <1>2 DEF Entries
<1>5. Entries(Append(h, x)) \in Seq(E) /\ Len(Entries(Append(h, x))) = n + 1
  <2>1. \A i \in 1..(n + 1) : e(Append(h, x)[i]) \in E
    <3>1. \A i \in 1..(n + 1) : Append(h, x)[i] \in Commit BY <1>1, <1>2
    <3> QED BY <3>1
  <2> HIDE DEF e, E
  <2>2. [i \in 1..(n + 1) |-> e(Append(h, x)[i])] \in Seq(E) BY <1>1, <2>1, IsASeq
  <2> QED BY <1>1, <1>4, <2>2
<1>6. e(x) \in E OBVIOUS
<1> HIDE DEF e, E
<1>7. /\ Append(Entries(h), e(x)) \in Seq(E) /\ Len(Append(Entries(h), e(x))) = n + 1
      /\ Append(Entries(h), e(x))[n + 1] = e(x)
      /\ \A i \in 1..n : Append(Entries(h), e(x))[i] = e(h[i])
  BY <1>1, <1>3, <1>6, AppendProperties
<1>8. \A i \in 1..(n + 1) : Entries(Append(h, x))[i] = Append(Entries(h), e(x))[i]
  <2> SUFFICES ASSUME NEW i \in 1..(n + 1)
               PROVE  Entries(Append(h, x))[i] = Append(Entries(h), e(x))[i]
    OBVIOUS
  <2>1. i \in 1..n \/ i = n + 1 BY <1>1
  <2> QED BY <1>2, <1>4, <1>7, <2>1
<1>9. Entries(Append(h, x)) = Append(Entries(h), e(x)) BY <1>5, <1>7, <1>8, SeqEqual
<1> QED BY <1>9 DEF e

\* A request that takes effect is performed by the register, in one step.
LEMMA LandingPerforms ==
  ASSUME Recorded, TypeOK', NEW c \in Client, NEW k \in Call, Landed(c, k)
  PROVE  Abstract!Perform(k.op, k.mutation)
<1> DEFINE m == k.mutation
<1>0. /\ TypeOK /\ ref \in RefValue /\ clock \in Nat /\ m \in Mutation
      /\ History \in Digest /\ DOMAIN History = 1..Len(History)
  BY CallAssumption, StoreFacts DEF Recorded, Inductive, TypesInv, TypeOK
<1>1. PICK t \in 0..clock : Admitted(m, ref, t) /\ ref' = Made(c, k, t)
  BY DEF Landed, Effect
<1>2. PICK next : next = Apply(m, ref, t) OBVIOUS
<1>3. PICK x : x = Header(c, k, next.epoch) OBVIOUS
<1>4. /\ next \in RefValue /\ x \in Commit /\ History' = Append(History, x)
      /\ ContentPart(ref)' = ContentPart(next)
  BY <1>0, <1>1, <1>2, <1>3, MadeFacts DEF History, ContentPart
<1>5. ContentPart(next) = Abstract!Apply(m, ContentPart(ref), t) /\ Abstract!Material(m) = Material(m)
  BY <1>0, <1>1, <1>2, ApplyContent
<1>6. Abstract!Admitted(m, ContentPart(ref), clock) BY <1>0, <1>1, AdmittedLater
<1>7. \A i \in DOMAIN Entries(History) : Entries(History)[i].identity # k.op
  BY DEF Landed, Committed, Entries
<1>8. Entries(History)' = Append(Entries(History), [identity |-> k.op, request |-> Material(m),
                                                    epoch |-> next.epoch])
  <2>1. Entries(History)' = Entries(Append(History, x)) BY <1>4 DEF Entries
  <2>2. x.identity = k.op /\ x.request = Material(m) /\ x.epoch = next.epoch
    BY <1>3 DEF Header
  <2> QED BY <1>0, <1>4, <2>1, <2>2, EntriesAppend
<1>9. ref'.epoch = next.epoch BY <1>0, <1>1, <1>2, MadeFacts
<1> QED BY <1>1, <1>4, <1>5, <1>6, <1>7, <1>8, <1>9
        DEF Abstract!Perform, ContentPart, History, Landed

\* A renewal of the ref is one of the register.
LEMMA RenewRenews == ASSUME Recorded, Renew PROVE Abstract!Renew
<1>0. ref \in RefValue BY DEF Recorded, Inductive, TypesInv, TypeOK
<1>1. PICK fence \in 0..ref.epoch : Renewable(ref, fence) BY DEF Renew
<1>2. Abstract!Renewable(ContentPart(ref), fence) BY <1>1 DEF Renewable, Abstract!Renewable, ContentPart
<1>3. PICK t \in 0..clock : ref' = Renewed(ref, t) BY DEF Renew
<1>4. /\ ContentPart(ref)' = Abstract!Renewed(ContentPart(ref), t)
      /\ ref'.head_commit = ref.head_commit
  BY <1>0, <1>3 DEF Renewed, Abstract!Renewed, ContentPart, RefValue
<1>5. Entries(ref.head_commit)' = Entries(ref.head_commit) BY <1>4 DEF Entries
<1> QED BY <1>1, <1>2, <1>3, <1>4, <1>5 DEF Abstract!Renew, Renew, ContentPart, frame

\* The callers learn of one receipt at a time.
LEMMA OneReceipt ==
  ASSUME [Next]_vars
  PROVE  receipts' = receipts \/ \E a : receipts' = receipts \cup {a} /\ UNCHANGED clock
<1> USE DEF store, frame
<1>1. ASSUME NEW c \in Client,
             TryCachedApplied(c) \/ RecoverWithoutIntent(c) \/ FinalizeIntent(c)
      PROVE  receipts' = receipts \/ \E a : receipts' = receipts \cup {a} /\ UNCHANGED clock
  BY <1>1 DEF TryCachedApplied, RecoverWithoutIntent, FinalizeIntent, Acknowledge, Fail
<1>2. ASSUME NEW c \in Client,
             \/ Start(c) \/ LoadIntent(c) \/ ReadBase(c) \/ CreateIntent(c) \/ ResolvePending(c)
             \/ BeginAttempt(c) \/ WriteIntent(c) \/ Upload(c) \/ CasRef(c) \/ Abandon(c)
      PROVE  receipts' = receipts
  BY <1>2 DEF Start, LoadIntent, ReadBase, CreateIntent, ResolvePending, BeginAttempt,
         WriteIntent, Upload, CasRef, Abandon, Fail
<1>3. ASSUME (\E m \in wire : Land(m)) \/ (\E o \in Op : Tamper(o)) \/ Renew \/ Tick
             \/ UNCHANGED vars
      PROVE  receipts' = receipts
  BY <1>3 DEF Land, Tamper, Renew, Tick, vars
<1> QED BY <1>1, <1>2, <1>3 DEF Next, Step

\* The register's place and result of an effect are those of the receipt.
LEMMA ReceiptEntry ==
  ASSUME Recorded, NEW r, NEW c, IsReceipt(r, c)
  PROVE  LET e == Entries(History)[r.generation] IN
         /\ r.generation \in DOMAIN Entries(History)
         /\ r.identity = e.identity /\ r.request = e.request /\ r.epoch = e.epoch
<1>1. r.generation \in DOMAIN History /\ r = ReceiptAt(History, r.generation, r.first)
  BY DEF IsReceipt
<1>2. /\ r.identity = History[r.generation].identity
      /\ r.request = History[r.generation].request
      /\ r.epoch = History[r.generation].epoch
  BY <1>1 DEF ReceiptAt
<1> QED BY <1>1, <1>2 DEF Entries

\* A step that leaves the ref alone acknowledges one effect, ticks, or is none of
\* the register's business.
LEMMA KeptStep ==
  ASSUME Recorded, [Next]_vars, Kept
  PROVE  Abstract!Next \/ UNCHANGED Abstract!vars
<1> USE DEF store, frame
<1>0. ContentPart(ref)' = ContentPart(ref) /\ Entries(History)' = Entries(History) /\ History' = History
  BY DEF Kept, ContentPart, Entries, History
<1>1. CASE UNCHANGED <<receipts, clock>>
  BY <1>0, <1>1 DEF Abstract!vars, ContentPart, History
<1>2. CASE receipts' = receipts /\ clock' # clock
  <2>1. Tick
    BY <1>2 DEF Next, Step, Start, LoadIntent, TryCachedApplied, RecoverWithoutIntent, ReadBase,
           CreateIntent, ResolvePending, BeginAttempt, WriteIntent, Upload, CasRef,
           FinalizeIntent, Abandon, Land, Tamper, Renew, vars
  <2>2. Abstract!Tick BY <1>0, <1>2, <2>1 DEF Tick, Abstract!Tick, ContentPart, History
  <2> QED BY <2>2 DEF Abstract!Next
<1>3. ASSUME NEW a, receipts' = receipts \cup {a}, clock' = clock, a \notin receipts
      PROVE  Abstract!Next
  <2>1. IsReceipt(a.receipt, a.to) BY <1>3, NewReceipts
  <2> DEFINE i == a.receipt.generation
             e == Entries(History)[i]
  <2>2. i \in DOMAIN Entries(History) /\ a.receipt.identity = e.identity
        /\ a.receipt.request = e.request /\ a.receipt.epoch = e.epoch
    BY <2>1, ReceiptEntry
  <2>3. Told(receipts') = Told(receipts)
                          \cup {[identity |-> e.identity, request |-> e.request,
                                 generation |-> i, epoch |-> e.epoch]}
    BY <1>3, <2>2 DEF Told
  <2>4. Abstract!Acknowledge(i)
    BY <1>0, <1>3, <2>3 DEF Abstract!Acknowledge, Told, ContentPart, History
  <2> QED BY <2>2, <2>4 DEF Abstract!Next, History
<1> QED BY <1>1, <1>2, <1>3, OneReceipt

\* Every step of the engine is a step of the register, or none.
LEMMA RegisterStep ==
  Recorded /\ [Next]_vars => [Abstract!Next]_(Abstract!vars)
<1> SUFFICES ASSUME Recorded, [Next]_vars PROVE Abstract!Next \/ UNCHANGED Abstract!vars
  OBVIOUS
<1>1. TypeOK' BY TypesStep DEF Recorded, Inductive, TypesInv
<1>2. CASE Kept BY <1>2, KeptStep
<1>3. CASE Renew BY <1>3, RenewRenews DEF Abstract!Next
<1>4. ASSUME NEW c \in Client, NEW k \in Call, Landed(c, k) PROVE Abstract!Next
  BY <1>1, <1>4, LandingPerforms DEF Abstract!Next
<1> QED BY <1>2, <1>3, <1>4, RefMoves

\* So is its initial state.
LEMMA RegisterInit == Init => Abstract!Init
<1> SUFFICES ASSUME Init PROVE Abstract!Init OBVIOUS
<1>1. Entries(ref.head_commit) = <<>> BY DEF Init, NewRef, Entries
<1>2. receipts = {} /\ clock = 0 /\ ref = NewRef BY DEF Init
<1> QED BY <1>1, <1>2 DEF Abstract!Init, Abstract!EmptyContent, NewRef

\* THEOREM: the engine, with its rows, retries and lost writes, implements the
\* register that performs each operation in one step and at most once.
THEOREM PublishImplementsRegister == Spec => RegisterSpec
<1> QED BY RegisterInit, RegisterStep, PublishRecorded, PTL DEF Spec, RegisterSpec, Abstract!Spec
=============================================================================
