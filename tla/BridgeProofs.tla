---------------------------- MODULE BridgeProofs -----------------------------
(***************************************************************************)
(* Theorems about the bridge, for any number of logs, frames, permits and  *)
(* places in the queue: its types; that it shares one slot among the       *)
(* requests for a log and leaks none; and that, if it returns without an   *)
(* error, it has answered every frame exactly once and given back every    *)
(* lease.  The argument of the second is about slots that are alive, open  *)
(* or held: there is at most one of them for a log, and the registry points*)
(* to it, and to nothing else, until the bridge is closed.                 *)
(***************************************************************************)
EXTENDS BridgeInv, TLAPS, FiniteSetTheorems

(***************************************************************************)
(* Types.                                                                  *)
(***************************************************************************)

\* What a request does when it lets go of its slot, whatever the response.
LetGo(i, label) ==
  /\ run = "running" /\ i \in Request
  /\ pc[i] \in {"start", "wait", "open", "serve", "reply"} /\ label \in {"reply", "gone"}
  /\ pc' = [pc EXCEPT ![i] = label]
  /\ label = "gone" => dropped
  /\ Release(i)
  /\ UNCHANGED <<frame, ending, reader, writer, written, run>> /\ UNCHANGED queue

\* Taking a slot that is registered, or that is registered now.
Take(i) ==
  LET log == frame[i].log IN
  /\ run = "running" /\ i \in Request
  /\ pc[i] = "start" /\ ~closed /\ ~Hello(frame[i]) /\ ~Refused(frame[i])
  /\ pc' = [pc EXCEPT ![i] = "wait"]
  /\ registry' = IF registry[log] = None THEN [registry EXCEPT ![log] = i] ELSE registry
  /\ held' = [held EXCEPT ![i] = registry'[log]]
  /\ UNCHANGED slot
  /\ UNCHANGED <<frame, ending, reader, writer, written, run>> /\ UNCHANGED queue

\* The steps that work on the slot that the request keeps, and what they make
\* of the request and of the slot.
Work(i, label, to) ==
  LET s == held[i] IN
  /\ run = "running" /\ i \in Request /\ s \in Request
  /\ pc[i] \in {"wait", "open", "serve"} /\ label \in {"wait", "open", "serve"}
  /\ to \in SlotType
  /\ pc' = [pc EXCEPT ![i] = label]
  /\ slot' = [slot EXCEPT ![s] = to]
  /\ slot[s].open => to.open
  /\ to.session # slot[s].session => pc[i] = "serve" /\ to.session = "live"
  /\ label = "serve" => to.open
  /\ UNCHANGED <<held, registry>>
  /\ UNCHANGED <<frame, ending, reader, writer, written, run>> /\ UNCHANGED queue

SendResponse(i) ==
  /\ run = "running" /\ i \in Request
  /\ Send(i) /\ UNCHANGED <<frame, ending, reader, writer, written, run>>

\* Every step of a handler is one of these.
LEMMA HandlerSteps ==
  ASSUME TypesInv, HoldingInv, NEW i \in Request, Handle(i) \/ Deadline(i)
  PROVE  \/ \E label \in {"reply", "gone"} : LetGo(i, label)
         \/ Take(i)
         \/ \E label \in Label, to \in SlotType : Work(i, label, to)
         \/ SendResponse(i)
<1>1. CASE Deadline(i)
  <2>1. UNCHANGED <<frame, ending, reader, writer, written, run>> /\ UNCHANGED queue
    BY <1>1 DEF Deadline
  <2> QED BY <1>1, <2>1 DEF Deadline, Interrupt, Respond, Goto, LetGo
<1>2. CASE Handle(i) /\ Send(i)
  BY <1>2 DEF Handle, SendResponse
<1>3. CASE /\ Handle(i) /\ UNCHANGED queue
           /\ \/ Immediate(i) \/ Dispatch(i) \/ Obtain(i) \/ Open(i) \/ MakeSession(i)
              \/ Serve(i) \/ Cancel(i) \/ Abort(i)
  <2> DEFINE s == held[i]
  <2>1. /\ run = "running" /\ UNCHANGED queue
        /\ UNCHANGED <<frame, ending, reader, writer, written, run>>
    BY <1>3 DEF Handle
  <2>2. pc[i] \in {"wait", "open", "serve"} => s \in Request /\ slot[s] \in SlotType
    BY DEF TypesInv, HoldingInv
  <2>3. CASE Immediate(i) BY <2>1, <2>3 DEF Immediate, Respond, Goto, LetGo
  <2>4. CASE Dispatch(i) BY <2>1, <2>4 DEF Dispatch, Respond, Goto, LetGo, Take
  <2>5. CASE Obtain(i)
    <3> DEFINE to == [slot[s] EXCEPT !.opener = i]
    <3>1. pc[i] = "wait" BY <2>5 DEF Obtain
    <3>2. to \in SlotType /\ to.open = slot[s].open /\ to.session = slot[s].session
      BY <2>2, <3>1 DEF SlotType
    <3>3. CASE slot[s].open /\ Goto(i, "serve") /\ UNCHANGED slot
      <4>1. slot' = [slot EXCEPT ![s] = slot[s]] BY <2>2, <3>1, <3>3 DEF TypesInv
      <4>2. Work(i, "serve", slot[s]) BY <2>1, <2>2, <2>5, <3>1, <3>3, <4>1 DEF Obtain, Goto, Work
      <4> QED BY <2>2, <3>1, <4>2 DEF Label
    <3>4. CASE Goto(i, "open") /\ slot' = [slot EXCEPT ![s].opener = i]
      <4> HIDE DEF to
      <4>1. slot' = [slot EXCEPT ![s] = to] BY <2>2, <3>1, <3>4 DEF TypesInv, to
      <4>2. Work(i, "open", to) BY <2>1, <2>2, <2>5, <3>1, <3>2, <3>4, <4>1 DEF Obtain, Goto, Work
      <4> QED BY <3>2, <4>2 DEF Label
    <3> QED BY <2>5, <3>3, <3>4 DEF Obtain
  <2>6. CASE Open(i)
    <3> DEFINE to == [slot[s] EXCEPT !.open = TRUE, !.opener = None]
    <3>1. pc[i] = "open" BY <2>6 DEF Open
    <3>2. to \in SlotType /\ to.open /\ to.session = slot[s].session
      BY <2>2, <3>1 DEF SlotType
    <3>3. CASE Respond(i) BY <2>1, <2>6, <3>1, <3>3 DEF Respond, Goto, LetGo
    <3>4. CASE /\ Goto(i, "serve") /\ UNCHANGED <<held, registry>>
               /\ slot' = [slot EXCEPT ![held[i]].open = TRUE, ![held[i]].opener = None]
      <4> HIDE DEF to
      <4>1. slot' = [slot EXCEPT ![s] = to] BY <2>2, <3>1, <3>4 DEF TypesInv, to
      <4>2. Work(i, "serve", to) BY <2>1, <2>2, <3>1, <3>2, <3>4, <4>1 DEF Goto, Work
      <4> QED BY <3>2, <4>2 DEF Label
    <3> QED BY <2>6, <3>3, <3>4 DEF Open
  <2>7. CASE MakeSession(i)
    <3> DEFINE to == [slot[s] EXCEPT !.session = "live"]
    <3>1. pc[i] = "serve" /\ slot[s].open BY <2>7 DEF MakeSession, HoldingInv
    <3>2. to \in SlotType /\ to.open = slot[s].open /\ to.session = "live"
      BY <2>2, <3>1 DEF SlotType
    <3> HIDE DEF to
    <3>3. slot' = [slot EXCEPT ![s] = to] BY <2>2, <2>7, <3>1 DEF MakeSession, TypesInv, to
    <3>4. pc' = [pc EXCEPT ![i] = "serve"] BY <2>7, <3>1 DEF MakeSession, TypesInv
    <3>5. Work(i, "serve", to) BY <2>1, <2>2, <2>7, <3>1, <3>2, <3>3, <3>4 DEF MakeSession, Work
    <3> QED BY <3>2, <3>5 DEF Label
  <2>8. CASE Serve(i) BY <2>1, <2>8 DEF Serve, Respond, Goto, LetGo
  <2>9. CASE Cancel(i) BY <2>1, <2>9 DEF Cancel, Interrupt, Respond, Goto, LetGo
  <2>10. CASE Abort(i) BY <2>1, <2>10 DEF Abort, Active, Goto, LetGo
  <2> QED BY <1>3, <2>3, <2>4, <2>5, <2>6, <2>7, <2>8, <2>9, <2>10
<1> QED BY <1>1, <1>2, <1>3 DEF Handle

\* What letting go of a slot does, request by request and log by log.
LEMMA ReleaseEffect ==
  ASSUME TypesInv, HoldingInv, NEW i \in Request, Release(i)
  PROVE  /\ held' = [held EXCEPT ![i] = None]
         /\ held' \in [Request -> Request \cup {None}]
         /\ registry' \in [Log -> Request \cup {None}]
         /\ slot' \in [Request -> SlotType]
         /\ \A r \in Request :
              /\ slot'[r].open = slot[r].open
              /\ LET orphan == /\ r = held[i] /\ slot[r].session = "live"
                               /\ r \notin Registered /\ Holders(r) \ {i} = {}
                 IN  slot'[r].session = IF orphan THEN "abandoned" ELSE slot[r].session
         /\ \A l \in Log :
              LET vacant == /\ held[i] # None /\ l = frame[i].log /\ registry[l] = held[i]
                            /\ ~slot[held[i]].open /\ Holders(held[i]) \ {i} = {}
              IN  registry'[l] = IF vacant THEN None ELSE registry[l]
<1>1. held' = [held EXCEPT ![i] = None] /\ held' \in [Request -> Request \cup {None}]
  BY DEF Release, TypesInv
<1>2. CASE held[i] = None
  <2>1. registry' = registry /\ slot' = slot BY <1>2 DEF Release
  <2> QED BY <1>1, <1>2, <2>1, LimitAssumption DEF TypesInv, Request
<1>3. CASE held[i] # None
  <2> DEFINE s    == held[i]
             rest == Holders(s) \ {i}
             log  == frame[i].log
             to   == [open |-> slot[s].open, opener |-> OpenerAfter(s, i),
                      session |-> IF s \notin Registered /\ rest = {}
                                  THEN Abandoned(slot[s].session) ELSE slot[s].session]
  <2>1. s \in Request /\ log \in Log /\ slot[s] \in SlotType BY <1>3 DEF TypesInv, HoldingInv
  <2>2. registry' = IF registry[log] = s /\ ~slot[s].open /\ rest = {}
                    THEN [registry EXCEPT ![log] = None] ELSE registry
    BY <1>3 DEF Release, Vacant
  <2>3. slot' = [slot EXCEPT ![s] = to] BY <1>3, <2>1 DEF Release, TypesInv, SlotType
  <2>4. /\ to \in SlotType /\ to.open = slot[s].open
        /\ to.session = IF slot[s].session = "live" /\ s \notin Registered /\ rest = {}
                        THEN "abandoned" ELSE slot[s].session
    <3>1. OpenerAfter(s, i) \in Request \cup {None} BY <2>1 DEF OpenerAfter, SlotType
    <3>2. slot[s].session \in {"none", "live", "releasing", "released", "abandoned"}
      BY <2>1 DEF SlotType
    <3> QED BY <2>1, <3>1, <3>2 DEF Abandoned, SlotType
  <2> HIDE DEF to, rest
  <2>5. slot' \in [Request -> SlotType] BY <2>1, <2>3, <2>4 DEF TypesInv
  <2>6. registry' \in [Log -> Request \cup {None}] BY <2>1, <2>2 DEF TypesInv
  <2>7. \A r \in Request : slot'[r] = IF r = s THEN to ELSE slot[r]
    BY <2>1, <2>3 DEF TypesInv
  <2>8. \A l \in Log : registry'[l] =
          IF l = log /\ registry[l] = s /\ ~slot[s].open /\ rest = {} THEN None ELSE registry[l]
    BY <2>1, <2>2 DEF TypesInv
  <2> QED BY <1>1, <1>3, <2>4, <2>5, <2>6, <2>7, <2>8 DEF rest
<1> QED BY <1>2, <1>3

\* A response joins the queue.
LEMMA QueueGrows ==
  ASSUME TypesInv, NEW i \in Request
  PROVE  Append(queue, i) \in Seq(Request)
  BY DEF TypesInv

\* A new frame joins the ones before it.
LEMMA ReadEffect ==
  ASSUME TypesInv, NEW f \in Frame(Len(frame) + 1), Read(f)
  PROVE  /\ frame' \in Seq(FrameType) /\ Len(frame') = Len(frame) + 1
         /\ Len(frame) + 1 \in Request /\ Len(frame') <= MaxFrames
         /\ \A i \in 1..Len(frame) : frame'[i] = frame[i]
         /\ frame'[Len(frame) + 1] = f
<1>1. Len(frame) \in Nat /\ Len(frame) < MaxFrames /\ frame' = Append(frame, f)
  BY DEF Read, TypesInv
<1>2. Len(frame) + 1 \in Request BY <1>1, LimitAssumption DEF Request
<1>3. f \in FrameType BY <1>2 DEF FrameType
<1> QED BY <1>1, <1>2, <1>3, LimitAssumption DEF TypesInv

\* Initially no frame has been read and nothing is held.
THEOREM BridgeTypesInit == Init => TypesInv /\ HoldingInv
<1> SUFFICES ASSUME Init PROVE TypesInv /\ HoldingInv OBVIOUS
<1>1. TypesInv
  <2>1. slot \in [Request -> SlotType] BY DEF Init, NewSlot, SlotType
  <2>2. frame \in Seq(FrameType) /\ Len(frame) <= MaxFrames /\ queue \in Seq(Request)
    BY LimitAssumption DEF Init
  <2>3. /\ pc \in [Request -> Label] /\ held \in [Request -> Request \cup {None}]
        /\ registry \in [Log -> Request \cup {None}] /\ written \in [Request -> Nat]
    BY DEF Init, Label
  <2> QED BY <2>1, <2>2, <2>3 DEF Init, TypesInv, ReaderLabel
<1>2. HoldingInv BY LimitAssumption DEF Init, HoldingInv, RefusalInv, Request
<1> QED BY <1>1, <1>2

\* The whole of Next, with the steps of handlers sorted by what they do.
LEMMA NextSteps ==
  ASSUME TypesInv, HoldingInv, Next
  PROVE  \/ \E i \in Request, label \in {"reply", "gone"} : LetGo(i, label)
         \/ \E i \in Request : Take(i) \/ SendResponse(i)
         \/ \E i \in Request, label \in Label, to \in SlotType : Work(i, label, to)
         \/ \E f \in Frame(Len(frame) + 1) : Read(f)
         \/ EndOfInput \/ SendRefusal \/ Drained \/ GraceOver \/ DrainOver
         \/ Close \/ (\E s \in Request : ReleaseEnds(s)) \/ ReleaseOver \/ Closed
         \/ Write \/ WriteFails \/ WriterEnds
         \/ \E result \in {"ok", "failed"} :
              /\ run = "running" /\ Finish(result)
              /\ result = "ok" => reader = "ok" /\ writer = "ok"
<1>1. ASSUME NEW i \in Request, Handle(i) \/ Deadline(i)
      PROVE  \/ \E label \in {"reply", "gone"} : LetGo(i, label)
             \/ Take(i)
             \/ \E label \in Label, to \in SlotType : Work(i, label, to)
             \/ SendResponse(i)
  BY <1>1, HandlerSteps
<1>2. CASE \E i \in Request : Handle(i) \/ Deadline(i) BY <1>1, <1>2
<1>3. CASE Return \/ ShutdownOver BY <1>3 DEF Return, ShutdownOver
<1> QED BY <1>2, <1>3 DEF Next, Timer

\* Every step keeps the types.
LEMMA TypesStep == TypesInv /\ HoldingInv /\ Next => TypesInv'
<1> SUFFICES ASSUME TypesInv, HoldingInv, Next PROVE TypesInv' OBVIOUS
<1> USE DEF TypesInv, ending, serving
<1>1. ASSUME NEW i \in Request, NEW label \in {"reply", "gone"}, LetGo(i, label) PROVE TypesInv'
  <2>1. /\ held' \in [Request -> Request \cup {None}]
        /\ registry' \in [Log -> Request \cup {None}] /\ slot' \in [Request -> SlotType]
    BY <1>1, ReleaseEffect DEF LetGo
  <2>2. pc' \in [Request -> Label] BY <1>1 DEF LetGo, Label
  <2> QED BY <1>1, <2>1, <2>2 DEF LetGo
<1>2. ASSUME NEW i \in Request, Take(i) PROVE TypesInv'
  <2>1. frame[i].log \in Log BY <1>2 DEF Take, HoldingInv
  <2>2. registry' \in [Log -> Request \cup {None}] BY <1>2, <2>1 DEF Take
  <2>3. held' \in [Request -> Request \cup {None}] BY <1>2, <2>1, <2>2 DEF Take
  <2>4. pc' \in [Request -> Label] BY <1>2 DEF Take, Label
  <2> QED BY <1>2, <2>2, <2>3, <2>4 DEF Take
<1>3. ASSUME NEW i \in Request, NEW label \in Label, NEW to \in SlotType, Work(i, label, to)
      PROVE TypesInv'
  <2>1. pc' \in [Request -> Label] /\ slot' \in [Request -> SlotType] BY <1>3 DEF Work
  <2> QED BY <1>3, <2>1 DEF Work
<1>4. ASSUME NEW i \in Request, SendResponse(i) PROVE TypesInv'
  <2>1. pc' \in [Request -> Label] BY <1>4 DEF SendResponse, Send, Goto, Label
  <2>2. queue' \in Seq(Request) BY <1>4, QueueGrows DEF SendResponse, Send
  <2> QED BY <1>4, <2>1, <2>2 DEF SendResponse, Send
<1>5. ASSUME NEW f \in Frame(Len(frame) + 1), Read(f) PROVE TypesInv'
  <2>1. /\ frame' \in Seq(FrameType) /\ Len(frame') <= MaxFrames /\ Len(frame) + 1 \in Request
    BY <1>5, ReadEffect
  <2>2. pc' \in [Request -> Label] /\ reader' \in ReaderLabel
    BY <1>5, <2>1 DEF Read, Goto, Label, ReaderLabel
  <2> QED BY <1>5, <2>1, <2>2 DEF Read
<1>6. CASE SendRefusal
  <2>1. Len(frame) \in Request
    BY <1>6, LimitAssumption DEF SendRefusal, HoldingInv, RefusalInv, Request
  <2>2. pc' \in [Request -> Label] BY <1>6, <2>1 DEF SendRefusal, Goto, Label
  <2>3. queue' \in Seq(Request) /\ reader' \in ReaderLabel
    BY <1>6, <2>1, QueueGrows DEF SendRefusal, ReaderLabel
  <2> QED BY <1>6, <2>2, <2>3 DEF SendRefusal
<1>7. CASE EndOfInput \/ Drained \/ GraceOver \/ DrainOver \/ Closed
  BY <1>7 DEF EndOfInput, Drained, GraceOver, DrainOver, Closed, ReaderLabel
<1>8. CASE Close
  <2>1. slot' \in [Request -> SlotType] BY ZenonT(40), <1>8 DEF Close, SlotType
  <2> QED BY <1>8, <2>1 DEF Close, ReaderLabel
<1>9. ASSUME NEW s \in Request, ReleaseEnds(s) PROVE TypesInv'
  <2>1. slot' \in [Request -> SlotType]
    <3>1. PICK to \in {"released", "abandoned"} : slot' = [slot EXCEPT ![s].session = to]
      BY <1>9 DEF ReleaseEnds
    <3> QED BY <3>1 DEF SlotType
  <2> QED BY <1>9, <2>1 DEF ReleaseEnds
<1>10. CASE ReleaseOver
  <2>1. slot' \in [Request -> SlotType] BY <1>10 DEF ReleaseOver, SlotType
  <2> QED BY <1>10, <2>1 DEF ReleaseOver
<1>11. CASE Write
  <2>1. Head(queue) \in Request /\ queue' \in Seq(Request) BY <1>11 DEF Write
  <2>2. written' \in [Request -> Nat] BY <1>11, <2>1 DEF Write
  <2> QED BY <1>11, <2>1, <2>2 DEF Write
<1>12. CASE WriteFails \/ WriterEnds BY <1>12 DEF WriteFails, WriterEnds
<1>13. ASSUME NEW result \in {"ok", "failed"}, Finish(result) PROVE TypesInv'
  <2>1. slot' \in [Request -> SlotType] BY <1>13 DEF Finish, SlotType, Abandoned
  <2>2. pc' \in [Request -> Label] BY <1>13 DEF Finish, Label
  <2> QED BY <1>13, <2>1, <2>2 DEF Finish
<1> QED BY <1>1, <1>2, <1>3, <1>4, <1>5, <1>6, <1>7, <1>8, <1>9, <1>10, <1>11, <1>12, <1>13,
           NextSteps

\* While the reader sends a refusal, nothing else happens to that frame.
LEMMA RefusalStep == TypesInv /\ HoldingInv /\ Next => RefusalInv'
<1> SUFFICES ASSUME TypesInv, HoldingInv, Next, reader' = "send"
             PROVE  Len(frame') > 0 /\ pc'[Len(frame')] = "refused"
  BY DEF RefusalInv
<1>a. Len(frame) \in Nat BY DEF TypesInv
<1>b. reader = "send" => Len(frame) > 0 /\ pc[Len(frame)] = "refused"
  BY DEF HoldingInv, RefusalInv
<1>1. ASSUME NEW f \in Frame(Len(frame) + 1), Read(f)
      PROVE  Len(frame') > 0 /\ pc'[Len(frame')] = "refused"
  <2>1. Len(frame') = Len(frame) + 1 /\ Len(frame) + 1 \in Request BY <1>1, ReadEffect
  <2>2. pc' = [pc EXCEPT ![Len(frame) + 1] = "refused"] BY <1>1 DEF Read, Goto
  <2> QED BY <1>a, <2>1, <2>2 DEF TypesInv
<1>2. ASSUME reader = "send", UNCHANGED frame,
             \A j \in Request : pc[j] = "refused" => pc'[j] = pc[j]
      PROVE  Len(frame') > 0 /\ pc'[Len(frame')] = "refused"
  <2>1. Len(frame) \in Request BY <1>a, <1>b, <1>2, LimitAssumption DEF TypesInv, Request
  <2> QED BY <1>b, <1>2, <2>1
<1>3. ASSUME NEW i \in Request, NEW label, pc[i] # "refused", pc' = [pc EXCEPT ![i] = label]
      PROVE  \A j \in Request : pc[j] = "refused" => pc'[j] = pc[j]
  BY <1>3 DEF TypesInv
<1>4. ASSUME NEW i \in Request,
             \/ \E label \in {"reply", "gone"} : LetGo(i, label)
             \/ Take(i) \/ SendResponse(i)
             \/ \E label \in Label, to \in SlotType : Work(i, label, to)
      PROVE  /\ reader' = reader /\ UNCHANGED frame
             /\ \A j \in Request : pc[j] = "refused" => pc'[j] = pc[j]
  BY <1>3, <1>4 DEF LetGo, Take, Work, SendResponse, Send, Goto
<1>5. ASSUME NEW result \in {"ok", "failed"}, Finish(result)
      PROVE  /\ reader' = reader /\ UNCHANGED frame
             /\ \A j \in Request : pc[j] = "refused" => pc'[j] = pc[j]
  BY <1>5 DEF Finish, Active
<1>6. CASE EndOfInput \/ SendRefusal \/ Drained \/ GraceOver \/ DrainOver \/ Close \/ Closed
  BY <1>6 DEF EndOfInput, SendRefusal, Drained, GraceOver, DrainOver, Close, Closed
<1>7. ASSUME ReleaseOver \/ (\E s \in Request : ReleaseEnds(s)) \/ Write \/ WriteFails \/ WriterEnds
      PROVE  reader' = reader /\ UNCHANGED frame /\ UNCHANGED pc
  BY <1>7 DEF ReleaseOver, ReleaseEnds, Write, WriteFails, WriterEnds, serving
<1> QED BY <1>1, <1>2, <1>4, <1>5, <1>6, <1>7, NextSteps

\* Every step keeps the bookkeeping of who holds what.
LEMMA HoldingStep == TypesInv /\ HoldingInv /\ Next => HoldingInv'
<1> SUFFICES ASSUME TypesInv, HoldingInv, Next PROVE HoldingInv' OBVIOUS
<1>r. RefusalInv' BY RefusalStep
<1> USE <1>r DEF HoldingInv, ending, serving
<1>a. Len(frame) \in Nat BY DEF TypesInv
<1>1. ASSUME NEW i \in Request, NEW label \in {"reply", "gone"}, LetGo(i, label) PROVE HoldingInv'
  <2>1. /\ held' = [held EXCEPT ![i] = None]
        /\ \A r \in Request : slot'[r].open = slot[r].open
    BY <1>1, ReleaseEffect DEF LetGo
  <2>2. \A j \in Request : /\ held'[j] = IF j = i THEN None ELSE held[j]
                           /\ pc'[j] = IF j = i THEN label ELSE pc[j]
    BY <1>1, <2>1 DEF LetGo, TypesInv
  <2>3. UNCHANGED <<frame, reader>> /\ pc[i] # "unread" BY <1>1 DEF LetGo
  <2>4. \A j \in Request : held[j] \in Request \cup {None} BY DEF TypesInv
  <2>5. \A l \in Log : registry'[l] \in {None, registry[l]} BY <1>1, ReleaseEffect DEF LetGo
  <2>6. \A j \in Request \ {i} : held'[j] = held[j] /\ pc'[j] = pc[j] BY <2>2
  <2>7. held'[i] = None /\ pc'[i] \in {"reply", "gone"} BY <2>2
  <2>8. \A j \in Request : held[j] # None => slot'[held[j]].open = slot[held[j]].open
    BY <2>1, <2>4
  <2>9. \A l \in Log : registry'[l] # None =>
          registry'[l] <= Len(frame') /\ frame'[registry'[l]].log = l
    BY <2>3, <2>5
  <2> QED BY <2>3, <2>6, <2>7, <2>8, <2>9
<1>2. ASSUME NEW i \in Request, Take(i) PROVE HoldingInv'
  <2> DEFINE log == frame[i].log
  <2>1. log \in Log /\ i <= Len(frame) /\ i # None /\ i \in Nat
    BY <1>2, LimitAssumption DEF Take, Request
  <2>2. \A l \in Log : registry'[l] = IF l = log /\ registry[l] = None THEN i ELSE registry[l]
    BY <1>2, <2>1 DEF Take, TypesInv
  <2>3. \A j \in Request : /\ held'[j] = IF j = i THEN registry'[log] ELSE held[j]
                           /\ pc'[j] = IF j = i THEN "wait" ELSE pc[j]
    BY <1>2 DEF Take, TypesInv
  <2>4. UNCHANGED <<frame, reader, slot>> /\ pc[i] = "start" BY <1>2 DEF Take
  <2>5. registry'[log] # None /\ registry'[log] <= Len(frame) /\ frame[registry'[log]].log = log
    BY <2>1, <2>2
  <2> HIDE DEF log
  <2>6. \A l \in Log : registry'[l] # None =>
          registry'[l] <= Len(frame') /\ frame'[registry'[l]].log = l
    BY <2>2, <2>4, <2>5
  <2>7. \A j \in Request \ {i} : held'[j] = held[j] /\ pc'[j] = pc[j] BY <2>3
  <2>8. held'[i] = registry'[log] /\ pc'[i] = "wait" BY <2>3
  <2> QED BY <2>1, <2>4, <2>5, <2>6, <2>7, <2>8 DEF log
<1>3. ASSUME NEW i \in Request, NEW label \in Label, NEW to \in SlotType, Work(i, label, to)
      PROVE HoldingInv'
  <2>1. \A j \in Request : /\ slot'[j] = IF j = held[i] THEN to ELSE slot[j]
                           /\ pc'[j] = IF j = i THEN label ELSE pc[j]
    BY <1>3 DEF Work, TypesInv
  <2>2. \A j \in Request : slot[j].open => slot'[j].open BY <1>3, <2>1 DEF Work
  <2>3. UNCHANGED <<frame, reader, held, registry>> /\ pc[i] \in {"wait", "open", "serve"}
        /\ label \in {"wait", "open", "serve"} /\ held[i] \in Request /\ (label = "serve" => to.open)
    BY <1>3 DEF Work
  <2>4. \A j \in Request : held[j] \in Request \cup {None} BY DEF TypesInv
  <2>5. \A j \in Request \ {i} : pc'[j] = pc[j] BY <2>1
  <2>6. label = "serve" => slot'[held[i]].open BY <2>1, <2>3
  <2>7. \A j \in Request \ {i} : pc[j] = "serve" => slot'[held[j]].open
    BY <2>2, <2>4
  <2>8. pc'[i] = label BY <2>1
  <2> QED BY <2>3, <2>5, <2>6, <2>7, <2>8
<1>4. ASSUME NEW i \in Request, SendResponse(i) PROVE HoldingInv'
  <2>1. \A j \in Request : pc'[j] = IF j = i THEN "done" ELSE pc[j]
    BY <1>4 DEF SendResponse, Send, Goto, TypesInv
  <2>2. UNCHANGED <<frame, reader, held, registry, slot>> /\ pc[i] = "reply"
    BY <1>4 DEF SendResponse, Send
  <2> QED BY <2>1, <2>2
<1>5. ASSUME NEW f \in Frame(Len(frame) + 1), Read(f) PROVE HoldingInv'
  <2> DEFINE n == Len(frame) + 1
  <2>1. /\ Len(frame') = n /\ n \in Request
        /\ \A i \in 1..Len(frame) : frame'[i] = frame[i]
        /\ frame'[n] = f
    BY <1>5, ReadEffect
  <2>2. UNCHANGED <<held, registry, slot>> /\ reader' \in {reader, "send"} BY <1>5 DEF Read
  <2>3. PICK label \in {"refused", "start"} :
          /\ pc' = [pc EXCEPT ![n] = label]
          /\ label = "start" => ~Oversized(f)
    BY <1>5 DEF Read, Goto
  <2>4. pc[n] = "unread" /\ held[n] = None BY <2>1, <1>a
  <2>5. \A j \in Request : pc'[j] = IF j = n THEN label ELSE pc[j] BY <2>3 DEF TypesInv
  <2>6. n \in 1..MaxFrames BY <2>1 DEF Request
  <2>7. f.log \in Log \/ f.kind \in {"hello", "invalid", "oversized"}
    BY <2>6, FrameAssumption
  <2>8. label = "start" => f.log \in Log \/ Hello(f) \/ Refused(f)
    BY <2>3, <2>7 DEF Oversized, Hello, Refused
  <2>9. \A j \in Request : j <= Len(frame) => frame'[j] = frame[j] BY <2>1, <1>a DEF Request
  <2>10. \A j \in Request : held[j] \in Request \cup {None} BY DEF TypesInv
  <2>11. \A l \in Log : registry[l] \in Request \cup {None} BY DEF TypesInv
  <2>12. \A j \in Request : j # n => (j <= Len(frame) <=> j <= Len(frame')) BY <2>1, <1>a, LimitAssumption DEF Request
  <2> HIDE DEF n
  <2>13. n = Len(frame) + 1 BY DEF n
  <2>14. \A l \in Log : registry'[l] # None =>
          registry'[l] <= Len(frame') /\ frame'[registry'[l]].log = l
    <3> SUFFICES ASSUME NEW l \in Log, registry[l] # None
                 PROVE registry[l] <= Len(frame') /\ frame'[registry[l]].log = l
      BY <2>2
    <3>1. registry[l] \in Request /\ registry[l] <= Len(frame) /\ frame[registry[l]].log = l
      BY <2>11
    <3> QED BY <3>1, <2>1, <2>9, <2>13, <1>a, LimitAssumption DEF Request
  <2>15. ASSUME NEW j \in Request, j # n
         PROVE  /\ pc'[j] # "unread" <=> j <= Len(frame')
                /\ held'[j] # None <=> pc'[j] \in {"wait", "open", "serve"}
                /\ held'[j] # None => /\ held'[j] <= Len(frame')
                                      /\ frame'[j].log \in Log
                                      /\ frame'[held'[j]].log = frame'[j].log
                /\ pc'[j] = "serve" => slot'[held'[j]].open
                /\ pc'[j] = "start" => frame'[j].log \in Log \/ Hello(frame'[j]) \/ Refused(frame'[j])
    <3>1. pc'[j] = pc[j] /\ held'[j] = held[j] /\ slot' = slot BY <2>2, <2>5, <2>15
    <3>2. pc[j] # "unread" => frame'[j] = frame[j] BY <2>9
    <3>3. held[j] # None => held[j] \in Request /\ held[j] <= Len(frame) /\ held[j] \in Nat
      BY <2>10, LimitAssumption DEF Request
    <3>4. held[j] # None => frame'[held[j]] = frame[held[j]] /\ held[j] <= Len(frame')
      BY <3>3, <2>1, <2>9, <2>13, <1>a
    <3> QED BY <2>12, <2>15, <3>1, <3>2, <3>4
  <2>16. /\ pc'[n] = label /\ held'[n] = None /\ n <= Len(frame') /\ frame'[n] = f
    BY <2>1, <2>2, <2>4, <2>5, <1>a, <2>13
  <2>17. Len(frame') > 0 BY <2>1, <2>13, <1>a
  <2> QED BY <2>8, <2>14, <2>15, <2>16, <2>17
<1>6. CASE SendRefusal
  <2>1. UNCHANGED <<frame, held, registry, slot>> /\ reader' # "send" BY <1>6 DEF SendRefusal
  <2>2. CASE UNCHANGED pc BY <2>1, <2>2
  <2>3. CASE pc' = [pc EXCEPT ![Len(frame)] = "done"]
    <3>1. Len(frame) \in Request /\ pc[Len(frame)] = "refused"
      BY <1>6, LimitAssumption DEF SendRefusal, RefusalInv, Request, TypesInv
    <3>2. \A j \in Request : j # Len(frame) => pc'[j] = pc[j] BY <2>3 DEF TypesInv
    <3>3. pc'[Len(frame)] = "done" BY <2>3, <3>1 DEF TypesInv
    <3> QED BY <2>1, <3>1, <3>2, <3>3
  <2> QED BY <1>6, <2>2, <2>3 DEF SendRefusal, Goto
<1>7. CASE EndOfInput \/ Drained \/ GraceOver \/ DrainOver \/ Closed
  <2>1. UNCHANGED <<frame, pc, held, registry, slot>> /\ reader' # "send"
    BY <1>7 DEF EndOfInput, Drained, GraceOver, DrainOver, Closed
  <2> QED BY <2>1
<1>8. CASE Close
  <2>1. UNCHANGED <<frame, pc, held>> /\ reader' # "send" /\ \A l \in Log : registry'[l] = None
    BY <1>8 DEF Close
  <2>2. \A s \in Request : slot'[s].open = slot[s].open BY <1>8 DEF Close, TypesInv, SlotType
  <2>3. \A j \in Request : held[j] \in Request \cup {None} BY DEF TypesInv
  <2> QED BY <2>1, <2>2, <2>3
<1>9. ASSUME NEW s \in Request, ReleaseEnds(s) PROVE HoldingInv'
  <2>1. UNCHANGED <<frame, pc, held, registry, reader>> BY <1>9 DEF ReleaseEnds
  <2>2. PICK to \in {"released", "abandoned"} : slot' = [slot EXCEPT ![s].session = to]
    BY <1>9 DEF ReleaseEnds
  <2>4. \A r \in Request : slot'[r].open = slot[r].open BY <2>2 DEF TypesInv, SlotType
  <2>3. \A j \in Request : held[j] \in Request \cup {None} BY DEF TypesInv
  <2> QED BY <2>1, <2>3, <2>4
<1>10. CASE ReleaseOver
  <2>1. UNCHANGED <<frame, pc, held, registry, reader>> BY <1>10 DEF ReleaseOver
  <2>2. \A r \in Request : slot'[r].open = slot[r].open
    BY <1>10 DEF ReleaseOver, TypesInv, SlotType
  <2>3. \A j \in Request : held[j] \in Request \cup {None} BY DEF TypesInv
  <2> QED BY <2>1, <2>2, <2>3
<1>11. CASE Write \/ WriteFails \/ WriterEnds
  <2>1. UNCHANGED <<frame, pc, held, registry, slot, reader>>
    BY <1>11 DEF Write, WriteFails, WriterEnds
  <2> QED BY <2>1
<1>12. ASSUME NEW result \in {"ok", "failed"}, Finish(result) PROVE HoldingInv'
  <2>1. /\ UNCHANGED <<frame, reader>>
        /\ \A l \in Log : registry'[l] = None
        /\ \A j \in Request : held'[j] = None
        /\ \A j \in Request : pc'[j] = IF j \in Active THEN "gone" ELSE pc[j]
    BY <1>12 DEF Finish
  <2> QED BY <2>1 DEF Active
<1> QED BY <1>1, <1>2, <1>3, <1>4, <1>5, <1>6, <1>7, <1>8, <1>9, <1>10, <1>11, <1>12, NextSteps

\* The types and the bookkeeping of the bridge are invariants of it.
THEOREM BridgeTypeCorrectness == Spec => [](TypesInv /\ HoldingInv)
<1>1. TypesInv /\ HoldingInv /\ [Next]_vars => (TypesInv /\ HoldingInv)'
  <2> SUFFICES ASSUME TypesInv, HoldingInv, [Next]_vars PROVE TypesInv' /\ HoldingInv' OBVIOUS
  <2>1. CASE Next BY <2>1, TypesStep, HoldingStep
  <2>2. CASE UNCHANGED vars BY <2>2 DEF vars, serving, ending, TypesInv, HoldingInv, RefusalInv
  <2> QED BY <2>1, <2>2
<1> QED BY <1>1, BridgeTypesInit, PTL DEF Spec

(***************************************************************************)
(* The registry and its slots.                                             *)
(***************************************************************************)

\* Nothing is registered, held or open at first.
LEMMA RegistryInit == Init => RegistryInv
  BY LimitAssumption DEF Init, NewSlot, Request, RegistryInv, Unused, Alive, Serving

\* A step of the reader, of the writer or of the end that touches neither the
\* slots nor the registry keeps the invariant, if it keeps serving.
LEMMA RegistryFrame ==
  ASSUME RegistryInv,
         UNCHANGED <<frame, held, registry, slot, run>>,
         \A s \in Request : pc'[s] \in {"unread", "start"} => pc'[s] = pc[s],
         Serving' <=> Serving,
         reader' \in {"release", "ok"} => closed',
         run = "running" /\ closed' => reader' \in {"drain", "close", "release", "ok", "failed"}
  PROVE  RegistryInv'
<1>1. \A s \in Request : (Alive(s)' <=> Alive(s)) /\ (Unused(s)' <=> Unused(s))
  BY DEF Alive, Unused
<1>2. \A l \in Log : registry[l] # None => (Alive(registry[l])' <=> Alive(registry[l]))
  BY DEF Alive
<1> QED BY <1>1, <1>2 DEF RegistryInv

\* Letting go of a slot: if nobody else keeps it alive, it leaves the registry.
LEMMA RegistryLetGo ==
  ASSUME TypesInv, HoldingInv, RegistryInv,
         NEW i \in Request, NEW label \in {"reply", "gone"}, LetGo(i, label)
  PROVE  RegistryInv'
<1> DEFINE vacant(l) == /\ held[i] # None /\ l = frame[i].log /\ registry[l] = held[i]
                        /\ ~slot[held[i]].open /\ Holders(held[i]) \ {i} = {}
<1>1. /\ \A s \in Request : slot'[s].open = slot[s].open
      /\ \A s \in Request : slot'[s].session # slot[s].session => slot[s].session = "live"
      /\ \A l \in Log : registry'[l] = IF vacant(l) THEN None ELSE registry[l]
      /\ held' = [held EXCEPT ![i] = None]
  BY ReleaseEffect DEF LetGo
<1>2. \A j \in Request : /\ held'[j] = IF j = i THEN None ELSE held[j]
                         /\ pc'[j] = IF j = i THEN label ELSE pc[j]
  BY <1>1 DEF LetGo, TypesInv
<1>3. UNCHANGED <<frame, closed, reader, run>> BY DEF LetGo, ending
<1>4. Serving' <=> Serving BY <1>3 DEF Serving
<1>5. ASSUME NEW s \in Request, Alive(s)' PROVE Alive(s)
  BY <1>1, <1>2, <1>5, LimitAssumption DEF Alive, Request
<1>6. ASSUME NEW s \in Request, Alive(s), ~Alive(s)'
      PROVE  held[i] = s /\ ~slot[s].open /\ Holders(s) \ {i} = {}
  BY <1>1, <1>2, <1>6 DEF Alive, Holders
<1>7. \A l \in Log : registry[l] \in Request \cup {None} BY DEF TypesInv
<1>8. ASSUME NEW l \in Log, registry'[l] # None PROVE Alive(registry[l])' /\ Serving'
  <2>1. registry'[l] = registry[l] /\ ~vacant(l) /\ registry[l] \in Request BY <1>1, <1>7, <1>8
  <2>2. Alive(registry[l]) /\ Serving BY <2>1, <1>8 DEF RegistryInv
  <2>3. frame[registry[l]].log = l BY <2>1, <1>8 DEF HoldingInv
  <2>4. held[i] = registry[l] => frame[i].log = l BY <2>1, <2>3, LimitAssumption DEF HoldingInv, Request
  <2>5. Alive(registry[l])' BY <1>6, <2>1, <2>2, <2>4, LimitAssumption DEF Request
  <2> QED BY <1>4, <2>1, <2>2, <2>5 DEF Alive
<1>9. ASSUME NEW s \in Request, Alive(s)'
      PROVE  /\ s <= Len(frame') /\ frame'[s].log \in Log
             /\ Serving' => registry'[frame'[s].log] = s
  <2>1. s <= Len(frame) /\ frame[s].log \in Log /\ (Serving => registry[frame[s].log] = s)
    BY <1>5, <1>9 DEF RegistryInv
  <2>2. held[i] = s => slot[s].open \/ Holders(s) \ {i} # {}
    BY <1>1, <1>2, <1>9, LimitAssumption DEF Alive, Holders, Request
  <2> QED BY <1>1, <1>3, <1>4, <2>1, <2>2
<1>10. ASSUME NEW s \in Request, pc'[s] \in {"unread", "start"} PROVE Unused(s)'
  <2>1. Unused(s) BY <1>2, <1>10 DEF RegistryInv
  <2> QED BY <1>1, <1>2, <2>1, LimitAssumption DEF Unused, Request
<1>11. \A s \in Request : slot'[s].session # "none" => slot'[s].open
  BY <1>1 DEF RegistryInv
<1>12. \A r, s \in Request : Alive(r)' /\ Alive(s)' /\ frame'[r].log = frame'[s].log => r = s
  BY <1>3, <1>5 DEF RegistryInv
<1>13. /\ run' # "running" => \A j \in Request : held'[j] = None
       /\ reader' \in {"release", "ok"} => closed'
       /\ run' = "running" /\ closed' => reader' \in {"drain", "close", "release", "ok", "failed"}
  BY <1>2, <1>3 DEF RegistryInv
<1> HIDE DEF vacant
<1> QED BY <1>8, <1>9, <1>10, <1>11, <1>12, <1>13 DEF RegistryInv

\* Taking a slot: the one that is registered, or a new one if no slot of the log
\* is alive.
LEMMA RegistryTake ==
  ASSUME TypesInv, HoldingInv, RegistryInv, NEW i \in Request, Take(i)
  PROVE  RegistryInv'
<1> DEFINE log == frame[i].log
<1>1. log \in Log /\ i <= Len(frame) /\ i # None /\ Unused(i)
  BY LimitAssumption DEF Take, Request, HoldingInv, RegistryInv
<1>2. /\ run = "running" /\ ~closed /\ pc[i] = "start"
      /\ UNCHANGED <<frame, slot, closed, reader, run>>
  BY DEF Take, ending
<1>3. Serving /\ Serving' BY <1>2 DEF Serving
<1>4. \A l \in Log : registry'[l] = IF l = log /\ registry[l] = None THEN i ELSE registry[l]
  BY <1>1 DEF Take, TypesInv
<1>6. PICK s \in Request : /\ s = registry'[log] /\ s # None
                           /\ s = registry[log] \/ (s = i /\ registry[log] = None)
  BY <1>1, <1>4 DEF TypesInv
<1>5. \A j \in Request : /\ held'[j] = IF j = i THEN s ELSE held[j]
                         /\ pc'[j] = IF j = i THEN "wait" ELSE pc[j]
  BY <1>6 DEF Take, TypesInv
<1>7. held[i] = None BY <1>2 DEF HoldingInv
<1> HIDE DEF log
<1>8. ASSUME NEW r \in Request PROVE Alive(r)' <=> Alive(r) \/ r = s
  BY <1>2, <1>5, <1>6, <1>7, <1>8, LimitAssumption DEF Alive, Request
<1>9. frame[s].log = log /\ s <= Len(frame)
  BY <1>1, <1>6 DEF HoldingInv, log
<1>10. ASSUME NEW r \in Request, Alive(r)', frame[r].log = log PROVE r = s
  BY <1>1, <1>3, <1>6, <1>8, <1>10, LimitAssumption DEF RegistryInv, log, Request
<1>11. ASSUME NEW l \in Log, registry'[l] # None PROVE Alive(registry[l])' /\ Serving'
  <2>1. CASE registry'[l] = registry[l]
    <3>1. registry[l] \in Request /\ Alive(registry[l]) BY <1>11, <2>1 DEF TypesInv, RegistryInv
    <3>2. PICK r \in Request : r = registry[l] BY <3>1
    <3>3. Alive(r)' BY <1>8, <3>1, <3>2
    <3> QED BY <1>3, <2>1, <3>2, <3>3 DEF Alive
  <2>2. CASE l = log /\ registry[l] = None
    <3>1. registry'[l] = s BY <1>6, <2>2
    <3>2. Alive(s)' BY <1>6, <1>8
    <3> QED BY <1>3, <3>1, <3>2 DEF Alive
  <2> QED BY <1>4, <2>1, <2>2
<1>12. ASSUME NEW r \in Request, Alive(r)'
       PROVE  r <= Len(frame) /\ frame[r].log \in Log /\ registry'[frame[r].log] = r
  <2>1. CASE r = s BY <1>1, <1>6, <1>9, <2>1
  <2>2. CASE r # s
    <3>1. Alive(r) BY <1>8, <1>12, <2>2
    <3>2. r <= Len(frame) /\ frame[r].log \in Log /\ registry[frame[r].log] = r
      BY <1>3, <3>1 DEF RegistryInv
    <3>3. frame[r].log # log BY <1>10, <1>12, <2>2
    <3> QED BY <1>4, <3>2, <3>3
  <2> QED BY <2>1, <2>2
<1>13. ASSUME NEW r \in Request, pc'[r] \in {"unread", "start"} PROVE Unused(r)'
  <2>1. r # i /\ Unused(r) BY <1>5, <1>13 DEF RegistryInv
  <2>2. s # r BY <1>1, <1>6, <2>1 DEF Unused
  <2>3. \A l \in Log : registry'[l] # r BY <1>4, <2>1 DEF Unused
  <2>4. \A j \in Request : held'[j] # r BY <1>5, <2>1, <2>2 DEF Unused
  <2> QED BY <1>2, <2>1, <2>3, <2>4 DEF Unused
<1>14. \A r, t \in Request : Alive(r)' /\ Alive(t)' /\ frame[r].log = frame[t].log => r = t
  BY <1>12
<1>15. \A r \in Request : slot'[r].session # "none" => slot'[r].open
  BY <1>2 DEF RegistryInv
<1> QED BY <1>2, <1>3, <1>11, <1>12, <1>13, <1>14, <1>15 DEF RegistryInv

\* Working on a slot that the request keeps.
LEMMA RegistryWork ==
  ASSUME TypesInv, HoldingInv, RegistryInv,
         NEW i \in Request, NEW label \in Label, NEW to \in SlotType, Work(i, label, to)
  PROVE  RegistryInv'
<1>1. PICK s \in Request : s = held[i] BY DEF Work
<1>2. /\ UNCHANGED <<frame, held, registry, closed, reader, run>>
      /\ \A r \in Request : r # s => slot'[r] = slot[r]
      /\ slot'[s] = to /\ (slot[s].open => to.open)
      /\ to.session # slot[s].session => slot[s].open
      /\ \A j \in Request : pc'[j] = IF j = i THEN label ELSE pc[j]
      /\ label \notin {"unread", "start"}
  BY <1>1 DEF Work, ending, TypesInv, HoldingInv
<1>3. Serving' <=> Serving BY <1>2 DEF Serving
<1>4. Alive(s) /\ Alive(s)' BY <1>1, <1>2 DEF Alive
<1>5. \A r \in Request : Alive(r)' <=> Alive(r)
  <2> TAKE r \in Request
  <2>1. CASE r = s BY <1>4, <2>1
  <2>2. CASE r # s BY <1>2, <2>2 DEF Alive
  <2> QED BY <2>1, <2>2
<1>6. \A l \in Log : registry'[l] # None => Alive(registry[l])' /\ Serving'
  <2> SUFFICES ASSUME NEW l \in Log, registry[l] # None PROVE Alive(registry[l])' /\ Serving'
    BY <1>2
  <2>1. PICK r \in Request : r = registry[l] BY DEF TypesInv
  <2>2. Alive(r) /\ Serving BY <2>1 DEF RegistryInv, Alive
  <2>3. Alive(r)' BY <1>5, <2>2
  <2> QED BY <1>2, <1>3, <2>1, <2>2, <2>3 DEF Alive
<1>7. ASSUME NEW r \in Request, pc'[r] \in {"unread", "start"} PROVE Unused(r)'
  <2>1. r # i /\ Unused(r) BY <1>2, <1>7 DEF RegistryInv
  <2>2. r # s BY <1>1, <2>1 DEF Unused
  <2> QED BY <1>2, <2>1, <2>2 DEF Unused
<1>8. \A r \in Request : slot'[r].session # "none" => slot'[r].open
  <2> TAKE r \in Request
  <2>1. CASE r = s BY <1>2, <2>1 DEF RegistryInv
  <2>2. CASE r # s BY <1>2, <2>2 DEF RegistryInv
  <2> QED BY <2>1, <2>2
<1> QED BY <1>2, <1>3, <1>5, <1>6, <1>7, <1>8 DEF RegistryInv

\* A new frame does not touch the slots of the frames before it.
LEMMA RegistryRead ==
  ASSUME TypesInv, HoldingInv, RegistryInv, NEW f \in Frame(Len(frame) + 1), Read(f)
  PROVE  RegistryInv'
<1> DEFINE n == Len(frame) + 1
<1>1. /\ Len(frame') = n /\ n \in Request /\ Len(frame) \in Nat
      /\ \A i \in 1..Len(frame) : frame'[i] = frame[i]
  BY ReadEffect DEF TypesInv
<1>2. UNCHANGED <<held, registry, slot, closed, run>> /\ run = "running"
      /\ reader = "read" /\ reader' \in {"read", "send"}
  BY DEF Read, ending
<1>3. \A j \in Request : j # n => pc'[j] = pc[j] BY DEF Read, Goto, TypesInv
<1>4. pc[n] = "unread" BY <1>1 DEF HoldingInv
<1>5. ~closed BY <1>2 DEF RegistryInv
<1>6. Serving /\ Serving' BY <1>2, <1>5 DEF Serving
<1>7. \A s \in Request : (Alive(s)' <=> Alive(s)) /\ (Unused(s)' <=> Unused(s))
  BY <1>2 DEF Alive, Unused
<1>8. ASSUME NEW s \in Request, Alive(s)
      PROVE  s <= n /\ frame'[s] = frame[s] /\ frame[s].log \in Log /\ registry[frame[s].log] = s
  BY <1>1, <1>6, <1>8, LimitAssumption DEF RegistryInv, Request
<1>9. \A s \in Request : pc'[s] \in {"unread", "start"} => Unused(s)'
  <2> TAKE s \in Request
  <2>1. pc'[s] \in {"unread", "start"} => pc[s] \in {"unread", "start"} BY <1>3, <1>4
  <2> QED BY <1>7, <2>1 DEF RegistryInv
<1>10. \A l \in Log : registry'[l] # None => Alive(registry[l])'
  BY <1>2 DEF RegistryInv, Alive
<1>11. \A s \in Request : Alive(s)' => /\ s <= Len(frame') /\ frame'[s].log \in Log
                                       /\ registry'[frame'[s].log] = s
  BY <1>1, <1>2, <1>7, <1>8
<1>12. \A r, s \in Request : Alive(r)' /\ Alive(s)' /\ frame'[r].log = frame'[s].log => r = s
  BY <1>11
<1>13. \A s \in Request : slot'[s].session # "none" => slot'[s].open BY <1>2 DEF RegistryInv
<1> QED BY <1>2, <1>5, <1>6, <1>9, <1>10, <1>11, <1>12, <1>13 DEF RegistryInv

\* Closing, ending releases and returning: nothing is registered any more, or
\* nothing that is registered changes, and only releases change sessions.
LEMMA RegistryEnd ==
  ASSUME TypesInv, HoldingInv, RegistryInv,
         UNCHANGED frame,
         \A j \in Request : held'[j] \in {held[j], None},
         \A j \in Request : pc'[j] \in {"unread", "start"} => pc'[j] = pc[j],
         \A s \in Request : /\ slot'[s].open = slot[s].open
                            /\ slot'[s].session # "none" => slot[s].session # "none",
         \/ UNCHANGED <<held, registry, run, closed, reader>>
         \/ /\ ~Serving' /\ closed'
            /\ \A l \in Log : registry'[l] = None
            /\ \/ run' # "running" /\ \A j \in Request : held'[j] = None
               \/ UNCHANGED <<held, run>> /\ reader' = "release"
  PROVE  RegistryInv'
<1>1. ASSUME NEW s \in Request, Alive(s)' PROVE Alive(s)
  BY <1>1, LimitAssumption DEF Alive, Request
<1>2. \A l \in Log : registry'[l] \in {registry[l], None} OBVIOUS
<1>3. ASSUME NEW s \in Request, pc'[s] \in {"unread", "start"} PROVE Unused(s)'
  <2>1. Unused(s) BY <1>3 DEF RegistryInv
  <2> QED BY <1>2, <2>1, LimitAssumption DEF Unused, Request
<1>4. \A s \in Request : slot'[s].session # "none" => slot'[s].open BY DEF RegistryInv
<1>5. \A r, s \in Request : Alive(r)' /\ Alive(s)' /\ frame'[r].log = frame'[s].log => r = s
  BY <1>1 DEF RegistryInv
<1>6. CASE UNCHANGED <<held, registry, run, closed, reader>>
  <2>1. Serving' <=> Serving BY <1>6 DEF Serving
  <2>2. \A l \in Log : registry'[l] # None => Alive(registry[l])' /\ Serving'
    <3> SUFFICES ASSUME NEW l \in Log, registry[l] # None PROVE Alive(registry[l])' /\ Serving'
      BY <1>6
    <3>1. registry[l] \in Request BY DEF TypesInv
    <3>2. Alive(registry[l]) /\ Serving BY DEF RegistryInv
    <3> QED BY <1>6, <2>1, <3>1, <3>2 DEF Alive
  <2>3. \A s \in Request : Alive(s)' => /\ s <= Len(frame') /\ frame'[s].log \in Log
                                        /\ Serving' => registry'[frame'[s].log] = s
    BY <1>1, <1>6, <2>1 DEF RegistryInv
  <2> QED BY <1>3, <1>4, <1>5, <1>6, <2>2, <2>3 DEF RegistryInv
<1>7. CASE ~Serving' /\ closed' /\ \A l \in Log : registry'[l] = None
  <2>1. \A s \in Request : Alive(s)' => s <= Len(frame') /\ frame'[s].log \in Log
    BY <1>1 DEF RegistryInv
  <2>2. run' # "running" => \A j \in Request : held'[j] = None BY <1>7 DEF RegistryInv
  <2>3. run' = "running" => reader' \in {"drain", "close", "release", "ok", "failed"}
    BY <1>7 DEF RegistryInv
  <2> QED BY <1>3, <1>4, <1>5, <1>7, <2>1, <2>2, <2>3 DEF RegistryInv
<1> QED BY <1>6, <1>7

\* Every step keeps the registry right.
LEMMA RegistryStep == TypesInv /\ HoldingInv /\ RegistryInv /\ Next => RegistryInv'
<1> SUFFICES ASSUME TypesInv, HoldingInv, RegistryInv, Next PROVE RegistryInv' OBVIOUS
<1> USE DEF ending, serving
<1>1. ASSUME NEW i \in Request, SendResponse(i) PROVE RegistryInv'
  <2>1. /\ UNCHANGED <<frame, held, registry, slot, run, closed, reader>>
        /\ pc' = [pc EXCEPT ![i] = "done"]
    BY <1>1 DEF SendResponse, Send, Goto
  <2>2. \A s \in Request : pc'[s] \in {"unread", "start"} => pc'[s] = pc[s]
    BY <2>1 DEF TypesInv
  <2>3. Serving' <=> Serving BY <2>1 DEF Serving
  <2>4. /\ reader' \in {"release", "ok"} => closed'
        /\ run = "running" /\ closed' => reader' \in {"drain", "close", "release", "ok", "failed"}
    BY <2>1 DEF RegistryInv
  <2> QED BY <2>1, <2>2, <2>3, <2>4, RegistryFrame
<1>2. CASE Write \/ WriteFails \/ WriterEnds
  <2>1. UNCHANGED <<frame, pc, held, registry, slot, run, closed, reader>>
    BY <1>2 DEF Write, WriteFails, WriterEnds
  <2>2. Serving' <=> Serving BY <2>1 DEF Serving
  <2>3. /\ reader' \in {"release", "ok"} => closed'
        /\ run = "running" /\ closed' => reader' \in {"drain", "close", "release", "ok", "failed"}
    BY <2>1 DEF RegistryInv
  <2> QED BY <2>1, <2>2, <2>3, RegistryFrame
<1>3. CASE EndOfInput \/ SendRefusal \/ Drained \/ GraceOver \/ DrainOver \/ Closed
  <2>1. UNCHANGED <<frame, held, registry, slot, run>> /\ run = "running"
    BY <1>3 DEF EndOfInput, SendRefusal, Drained, GraceOver, DrainOver, Closed
  <2>2. \/ /\ reader \in {"read", "send", "grace"} /\ UNCHANGED closed
           /\ reader' \in {"read", "grace", "failed", "close"}
        \/ reader \in {"grace", "drain"} /\ reader' \in {"drain", "close"}
        \/ reader = "release" /\ reader' \in {"ok", "failed"} /\ UNCHANGED closed
    BY <1>3 DEF EndOfInput, SendRefusal, Drained, GraceOver, DrainOver, Closed
  <2>3. /\ reader \in {"read", "send", "grace"} => ~closed
        /\ reader = "release" => closed
    BY <2>1 DEF RegistryInv, TypesInv
  <2>4. Serving' <=> Serving BY <2>1, <2>2, <2>3 DEF Serving
  <2>5. /\ reader' \in {"release", "ok"} => closed'
        /\ run = "running" /\ closed' => reader' \in {"drain", "close", "release", "ok", "failed"}
    BY <2>1, <2>2, <2>3
  <2>6. \A s \in Request : pc'[s] \in {"unread", "start"} => pc'[s] = pc[s]
    <3>1. pc' = pc \/ pc' = [pc EXCEPT ![Len(frame)] = "done"]
      BY <1>3 DEF EndOfInput, SendRefusal, Drained, GraceOver, DrainOver, Closed, Goto
    <3> QED BY <3>1 DEF TypesInv
  <2> QED BY <2>1, <2>4, <2>5, <2>6, RegistryFrame
<1>4. CASE Close
  <2>1. /\ UNCHANGED <<frame, pc, held, run>> /\ closed' /\ reader' = "release"
        /\ \A l \in Log : registry'[l] = None
    BY <1>4 DEF Close
  <2>2. \A s \in Request : /\ slot'[s].open = slot[s].open
                           /\ slot'[s].session # "none" => slot[s].session # "none"
    BY <1>4 DEF Close, TypesInv, SlotType
  <2>3. ~Serving' BY <2>1 DEF Serving
  <2> QED BY <2>1, <2>2, <2>3, RegistryEnd
<1>5. ASSUME NEW s \in Request, ReleaseEnds(s) PROVE RegistryInv'
  <2>1. UNCHANGED <<frame, pc, held, registry, run, closed, reader>> /\ slot[s].session = "releasing"
    BY <1>5 DEF ReleaseEnds, Releasing
  <2>2. PICK to \in {"released", "abandoned"} : slot' = [slot EXCEPT ![s].session = to]
    BY <1>5 DEF ReleaseEnds
  <2>3. \A r \in Request : /\ slot'[r].open = slot[r].open
                           /\ slot'[r].session # "none" => slot[r].session # "none"
    BY <2>1, <2>2 DEF TypesInv, SlotType
  <2> QED BY <2>1, <2>3, RegistryEnd
<1>6. CASE ReleaseOver
  <2>1. UNCHANGED <<frame, pc, held, registry, run, closed, reader>> BY <1>6 DEF ReleaseOver
  <2>2. \A r \in Request : /\ slot'[r].open = slot[r].open
                           /\ slot'[r].session # "none" => slot[r].session # "none"
    BY <1>6 DEF ReleaseOver, Releasing, TypesInv, SlotType
  <2> QED BY <2>1, <2>2, RegistryEnd
<1>7. ASSUME NEW result \in {"ok", "failed"}, Finish(result) PROVE RegistryInv'
  <2>1. /\ UNCHANGED frame /\ closed' /\ run' # "running"
        /\ \A l \in Log : registry'[l] = None
        /\ \A j \in Request : held'[j] = None
        /\ \A j \in Request : pc'[j] \in {"unread", "start"} => pc'[j] = pc[j]
    BY <1>7 DEF Finish, Active
  <2>2. \A s \in Request : /\ slot'[s].open = slot[s].open
                           /\ slot'[s].session # "none" => slot[s].session # "none"
    BY <1>7 DEF Finish, Releasing, Abandoned, TypesInv, SlotType
  <2>3. ~Serving' BY <2>1 DEF Serving
  <2> QED BY <2>1, <2>2, <2>3, RegistryEnd
<1> QED BY <1>1, <1>2, <1>3, <1>4, <1>5, <1>6, <1>7, RegistryLetGo, RegistryTake, RegistryWork,
           RegistryRead, NextSteps

\* The inductive invariant of the registry.
THEOREM BridgeRegistry == Spec => [](TypesInv /\ HoldingInv /\ RegistryInv)
<1>1. RegistryInv /\ UNCHANGED vars => RegistryInv'
  BY DEF vars, serving, ending, RegistryInv, Unused, Alive, Serving
<1>2. TypesInv /\ HoldingInv /\ RegistryInv /\ [Next]_vars => RegistryInv'
  BY <1>1, RegistryStep
<1> QED BY <1>2, RegistryInit, BridgeTypeCorrectness, PTL DEF Spec

\* A feed that could not be opened leaves the registry with the last request that
\* holds it (handler.rs FeedSlot::drop).
THEOREM BridgeNoSlotLeaks == Spec => []NoSlotLeaks
<1>1. TypesInv /\ HoldingInv /\ RegistryInv => NoSlotLeaks
  BY DEF TypesInv, RegistryInv, Alive, NoSlotLeaks, Holders
<1> QED BY <1>1, BridgeRegistry, PTL

\* All requests for a log share one slot, and a log gets one session at most, for
\* any number of requests and logs (handler.rs dispatch, FeedSlot::drop).
THEOREM BridgeOneSlotPerLog == Spec => []OneSlotPerLog
<1>1. ASSUME TypesInv, HoldingInv, RegistryInv PROVE OneSlotPerLog
  <2>1. ASSUME NEW i \in Request, held[i] # None, reader \notin {"release", "ok", "failed"}
        PROVE  registry[frame[i].log] = held[i]
    <3>1. held[i] \in Request BY <1>1, <2>1 DEF TypesInv
    <3>2. Alive(held[i]) BY DEF Alive
    <3>3. run = "running" BY <1>1, <2>1 DEF RegistryInv
    <3>4. Serving BY <1>1, <2>1, <3>3 DEF RegistryInv, Serving, TypesInv
    <3>5. registry[frame[held[i]].log] = held[i]
      BY <1>1, <3>1, <3>2, <3>4 DEF RegistryInv
    <3> QED BY <1>1, <2>1, <3>5 DEF HoldingInv
  <2>2. ASSUME NEW log \in Log PROVE Cardinality(Sessions(log)) <= 1
    <3>1. ASSUME NEW r \in Sessions(log), NEW s \in Sessions(log) PROVE r = s
      <4>1. DOMAIN frame = 1..Len(frame) /\ Len(frame) \in Nat /\ Len(frame) <= MaxFrames
        BY <1>1 DEF TypesInv
      <4>2. r \in Request /\ s \in Request BY <4>1, LimitAssumption DEF Sessions, Request
      <4>3. slot[r].open /\ slot[s].open BY <1>1, <4>2 DEF RegistryInv, Sessions
      <4> QED BY <1>1, <4>2, <4>3 DEF RegistryInv, Alive, Sessions
    <3>2. CASE Sessions(log) = {} BY <3>2, FS_EmptySet
    <3>3. CASE Sessions(log) # {}
      <4>1. PICK s : Sessions(log) = {s} BY <3>1, <3>3
      <4>2. Cardinality({s}) = 1 BY FS_Singleton
      <4> QED BY <4>1, <4>2
    <3> QED BY <3>2, <3>3
  <2> QED BY <2>1, <2>2 DEF OneSlotPerLog
<1> QED BY <1>1, BridgeRegistry, PTL

(***************************************************************************)
(* The answers and the exit.                                               *)
(***************************************************************************)

\* Nothing has been answered at first, and nothing has failed.
LEMMA AnswersInit == Init => AnswersInv /\ ReleasesInv /\ CleanExit
  BY LimitAssumption
     DEF Init, NewSlot, AnswersInv, Queued, Active, ReleasesInv, Serving, CleanExit, Request

\* A response that is put into the queue once is there once.
LEMMA Enqueued ==
  ASSUME TypesInv, NEW i \in Request, queue' = Append(queue, i),
         ~Queued(i), \A j, k \in DOMAIN queue : queue[j] = queue[k] => j = k
  PROVE  /\ \A j, k \in DOMAIN queue' : queue'[j] = queue'[k] => j = k
         /\ \A j \in Request : Queued(j)' <=> Queued(j) \/ j = i
<1>1. /\ queue \in Seq(Request) /\ Len(queue) \in Nat
      /\ DOMAIN queue = 1..Len(queue) /\ DOMAIN queue' = 1..(Len(queue) + 1)
      /\ \A k \in DOMAIN queue : queue'[k] = queue[k]
      /\ queue'[Len(queue) + 1] = i
  BY DEF TypesInv
<1>2. \A k \in DOMAIN queue : queue[k] # i BY DEF Queued
<1> QED BY <1>1, <1>2 DEF Queued

\* A response that is taken from the queue is not there any more.
LEMMA Dequeued ==
  ASSUME TypesInv, queue # <<>>, queue' = Tail(queue),
         \A j, k \in DOMAIN queue : queue[j] = queue[k] => j = k
  PROVE  /\ Head(queue) \in Request /\ Queued(Head(queue))
         /\ \A j, k \in DOMAIN queue' : queue'[j] = queue'[k] => j = k
         /\ \A j \in Request : Queued(j)' <=> Queued(j) /\ j # Head(queue)
<1>1. /\ queue \in Seq(Request) /\ Len(queue) \in Nat /\ Len(queue) > 0
      /\ DOMAIN queue = 1..Len(queue) /\ DOMAIN queue' = 1..(Len(queue) - 1)
      /\ \A k \in DOMAIN queue' : queue'[k] = queue[k + 1]
      /\ Head(queue) = queue[1] /\ queue[1] \in Request
  BY DEF TypesInv
<1>2. \A j, k \in DOMAIN queue' : queue'[j] = queue'[k] => j = k BY <1>1
<1>3. \A j \in Request : Queued(j)' => Queued(j) /\ j # Head(queue) BY <1>1 DEF Queued
<1>4. ASSUME NEW j \in Request, Queued(j), j # Head(queue) PROVE Queued(j)'
  <2>1. PICK k \in DOMAIN queue : queue[k] = j BY <1>4 DEF Queued
  <2>2. k - 1 \in DOMAIN queue' BY <1>1, <1>4, <2>1
  <2>3. queue'[k - 1] = j BY <1>1, <2>1, <2>2
  <2> QED BY <2>2, <2>3 DEF Queued
<1>5. Queued(Head(queue)) BY <1>1 DEF Queued
<1> QED BY <1>1, <1>2, <1>3, <1>4, <1>5

\* A step that answers nothing keeps the account of the answers.
LEMMA AnswersFrame ==
  ASSUME TypesInv, AnswersInv,
         UNCHANGED <<frame, queue, written>> /\ writer' \in {writer, "failed"},
         \A i \in Request : pc'[i] # pc[i] => i \in Active /\ pc'[i] \notin {"done", "refused"},
         Active' \subseteq Active,
         reader' \in {"read", "send"} => reader' = reader,
         \A i \in Request : pc[i] = "refused" => reader' = reader,
         reader' = "drain" => failures',
         run' = "running" => /\ run = "running"
                             /\ failures => failures'
                             /\ dropped' => dropped \/ failures' \/ (Active = {} /\ reader' \notin {"read", "send"})
                             /\ \A i \in Request : pc'[i] = "gone" => pc[i] = "gone" \/ failures'
  PROVE  AnswersInv'
<1>1. \A i \in Request : Queued(i)' <=> Queued(i) BY DEF Queued
<1>2. \A i \in Request : i \in Active => pc[i] \notin {"done", "refused"} BY DEF Active
<1>3. ASSUME NEW i \in Request
      PROVE  /\ Queued(i)' => pc'[i] = "done" /\ written'[i] = 0
             /\ written'[i] \in {0, 1}
             /\ written'[i] = 1 => pc'[i] = "done"
             /\ pc'[i] = "done" /\ written'[i] = 0 /\ writer' # "failed" => Queued(i)'
             /\ pc'[i] = "refused" => i = Len(frame') /\ reader' \in {"send", "failed"}
             /\ run' = "running" /\ pc'[i] = "gone" => failures'
  <2>1. \/ pc'[i] = pc[i]
        \/ pc[i] \notin {"done", "refused"} /\ pc'[i] \notin {"done", "refused"}
    BY <1>2
  <2>2. writer' # "failed" => writer # "failed" OBVIOUS
  <2>3. run' = "running" /\ pc'[i] = "gone" => failures'
    <3>1. run' = "running" /\ pc[i] = "gone" => failures' BY DEF AnswersInv
    <3> QED BY <3>1
  <2> QED BY <1>1, <2>1, <2>2, <2>3 DEF AnswersInv
<1>4. writer' = "ok" => queue' = <<>> /\ Active' = {} /\ reader' \notin {"read", "send"}
  BY DEF AnswersInv
<1>5. ASSUME run' = "running", dropped', ~failures'
      PROVE  Active' = {} /\ reader' \notin {"read", "send"}
  <2>1. ~failures /\ (dropped \/ (Active = {} /\ reader' \notin {"read", "send"})) BY <1>5
  <2>2. dropped => Active = {} /\ reader \notin {"read", "send"} BY <1>5, <2>1 DEF AnswersInv
  <2> QED BY <2>1, <2>2
<1> QED BY <1>3, <1>4, <1>5 DEF AnswersInv

\* The steps that answer nothing.
LEMMA AnswersSilent ==
  ASSUME TypesInv, HoldingInv, AnswersInv,
         \/ \E i \in Request, label \in {"reply", "gone"} : LetGo(i, label)
         \/ \E i \in Request : Take(i)
         \/ \E i \in Request, label \in Label, to \in SlotType : Work(i, label, to)
         \/ EndOfInput \/ Drained \/ GraceOver \/ DrainOver
         \/ Close \/ (\E s \in Request : ReleaseEnds(s)) \/ ReleaseOver \/ Closed
         \/ WriteFails
         \/ \E result \in {"ok", "failed"} : run = "running" /\ Finish(result)
  PROVE  AnswersInv'
<1> USE DEF ending, serving
<1>1. ASSUME NEW i \in Request, NEW label \in {"wait", "open", "serve", "reply", "gone"},
             i \in Active, pc' = [pc EXCEPT ![i] = label],
             label = "gone" => dropped,
             run = "running", UNCHANGED <<frame, ending, reader, writer, written, run, queue>>
      PROVE  AnswersInv'
  <2>1. \A j \in Request : pc'[j] = IF j = i THEN label ELSE pc[j] BY <1>1 DEF TypesInv
  <2>2. Active' \subseteq Active BY <1>1, <2>1 DEF Active
  <2>3. dropped => failures BY <1>1 DEF AnswersInv
  <2>4. reader = "drain" => failures BY DEF AnswersInv
  <2> QED BY <1>1, <2>1, <2>2, <2>3, <2>4, AnswersFrame
<1>2. ASSUME NEW i \in Request, NEW label \in {"reply", "gone"}, LetGo(i, label) PROVE AnswersInv'
  BY <1>1, <1>2 DEF LetGo, Active
<1>3. ASSUME NEW i \in Request, Take(i) PROVE AnswersInv'
  BY <1>1, <1>3 DEF Take, Active
<1>4. ASSUME NEW i \in Request, NEW label \in Label, NEW to \in SlotType, Work(i, label, to)
      PROVE  AnswersInv'
  BY <1>1, <1>4 DEF Work, Active
<1>5. ASSUME EndOfInput \/ Drained \/ GraceOver \/ DrainOver \/ Close \/ Closed
      PROVE  AnswersInv'
  <2>1. UNCHANGED <<frame, pc, queue, writer, written, run>> /\ run = "running" /\ (failures => failures')
    <3>1. UNCHANGED <<frame, pc, queue, writer, written, run>> /\ run = "running"
      BY <1>5 DEF EndOfInput, Drained, GraceOver, DrainOver, Close, Closed
    <3>2. CASE Close
      <4>1. failures' = (failures \/ Retained # {}) BY <3>2 DEF Close
      <4> QED BY <3>1, <4>1, Zenon
    <3>3. CASE ~Close BY <1>5, <3>1, <3>3 DEF EndOfInput, Drained, GraceOver, DrainOver, Closed
    <3> QED BY <3>2, <3>3
  <2>2. /\ reader \notin {"send", "failed"}
        /\ reader' \notin {"read", "send"}
        /\ reader' = "drain" => failures'
        /\ dropped' => dropped \/ failures' \/ Active = {}
    BY <1>5 DEF EndOfInput, Drained, GraceOver, DrainOver, Close, Closed, AnswersInv
  <2>3. \A i \in Request : pc[i] # "refused" BY <2>2 DEF AnswersInv
  <2>4. Active' = Active BY <2>1 DEF Active
  <2> QED BY <2>1, <2>2, <2>3, <2>4, AnswersFrame
<1>6. ASSUME ReleaseOver \/ (\E s \in Request : ReleaseEnds(s)) \/ WriteFails PROVE AnswersInv'
  <2>1. /\ UNCHANGED <<frame, pc, queue, reader, dropped, written, run>> /\ run = "running"
        /\ failures => failures'
        /\ writer' \in {writer, "failed"}
    BY <1>6 DEF ReleaseOver, ReleaseEnds, WriteFails
  <2>2. reader' = "drain" => failures' BY <2>1 DEF AnswersInv
  <2>3. Active' = Active BY <2>1 DEF Active
  <2> QED BY <2>1, <2>2, <2>3, AnswersFrame
<1>7. ASSUME NEW result \in {"ok", "failed"}, Finish(result) PROVE AnswersInv'
  <2>1. /\ UNCHANGED <<frame, queue, writer, written, reader, failures>> /\ run' # "running"
        /\ \A i \in Request : pc'[i] = IF i \in Active THEN "gone" ELSE pc[i]
    BY <1>7 DEF Finish
  <2>2. Active' \subseteq Active BY <2>1 DEF Active
  <2>3. reader' = "drain" => failures' BY <2>1 DEF AnswersInv
  <2> QED BY <2>1, <2>2, <2>3, AnswersFrame
<1> QED BY <1>2, <1>3, <1>4, <1>5, <1>6, <1>7

\* The account of the answers.
LEMMA AnswersStep == TypesInv /\ HoldingInv /\ AnswersInv /\ Next => AnswersInv'
<1> SUFFICES ASSUME TypesInv, HoldingInv, AnswersInv, Next PROVE AnswersInv' OBVIOUS
<1> USE DEF ending, serving
<1>a. \A j, k \in DOMAIN queue : queue[j] = queue[k] => j = k BY DEF AnswersInv
<1>1. ASSUME NEW i \in Request, pc[i] \in {"reply", "refused"}, pc' = [pc EXCEPT ![i] = "done"],
             reader' \in {reader, "read"}, UNCHANGED <<frame, ending, writer, written, run>>,
             run = "running", reader \in {"read", "send"} \/ reader' = reader,
             pc[i] = "refused" => reader = "send" /\ i = Len(frame),
             reader' # reader => pc[i] = "refused",
             \/ writer = "writing" /\ queue' = Append(queue, i)
             \/ writer # "writing" /\ pc[i] = "reply" /\ UNCHANGED queue
      PROVE  AnswersInv'
  <2>1. \A j \in Request : pc'[j] = IF j = i THEN "done" ELSE pc[j] BY <1>1 DEF TypesInv
  <2>2. ~Queued(i) /\ written[i] = 0 BY <1>1 DEF AnswersInv
  <2>3. Active' \subseteq Active BY <2>1 DEF Active
  <2>4. writer # "ok"
    <3>1. pc[i] = "reply" => i \in Active BY DEF Active
    <3> QED BY <1>1, <3>1 DEF AnswersInv
  <2>5. /\ \A j, k \in DOMAIN queue' : queue'[j] = queue'[k] => j = k
        /\ \A j \in Request : Queued(j)' => Queued(j) \/ j = i
        /\ \A j \in Request : Queued(j) => Queued(j)'
        /\ writer # "failed" => Queued(i)'
    <3>1. CASE queue' = Append(queue, i) BY <1>a, <2>2, <3>1, Enqueued
    <3>2. CASE writer # "writing" /\ UNCHANGED queue
      BY <1>a, <2>4, <3>2 DEF TypesInv, Queued
    <3> QED BY <1>1, <3>1, <3>2
  <2>6. ASSUME NEW j \in Request
        PROVE  /\ Queued(j)' => pc'[j] = "done" /\ written'[j] = 0
               /\ written'[j] \in {0, 1}
               /\ written'[j] = 1 => pc'[j] = "done"
               /\ pc'[j] = "done" /\ written'[j] = 0 /\ writer' # "failed" => Queued(j)'
               /\ pc'[j] = "refused" => j = Len(frame') /\ reader' \in {"send", "failed"}
               /\ run' = "running" /\ pc'[j] = "gone" => failures'
    <3>1. CASE j = i BY <1>1, <2>1, <2>2, <2>5, <3>1 DEF AnswersInv
    <3>2. CASE j # i
      <4>1. pc'[j] = pc[j] /\ (Queued(j)' <=> Queued(j)) BY <2>1, <2>5, <3>2
      <4>2. pc[j] = "refused" => j = Len(frame) /\ reader \in {"send", "failed"} BY DEF AnswersInv
      <4>3. pc[j] = "refused" => reader' = reader BY <1>1, <3>2, <4>2
      <4> QED BY <1>1, <4>1, <4>2, <4>3 DEF AnswersInv
    <3> QED BY <3>1, <3>2
  <2>7. run' = "running" /\ dropped' /\ ~failures' => Active' = {} /\ reader' \notin {"read", "send"}
    BY <1>1, <2>3 DEF AnswersInv
  <2>8. reader' = "drain" => failures' BY <1>1 DEF AnswersInv
  <2> QED BY <1>1, <2>4, <2>5, <2>6, <2>7, <2>8 DEF AnswersInv
<1>2. ASSUME NEW i \in Request, SendResponse(i) PROVE AnswersInv'
  BY <1>1, <1>2 DEF SendResponse, Send, Goto
<1>3. CASE SendRefusal
  <2>1. PICK i \in Request : i = Len(frame) /\ pc[i] = "refused"
    BY <1>3, LimitAssumption DEF SendRefusal, HoldingInv, RefusalInv, TypesInv, Request
  <2>2. CASE writer = "writing" /\ queue' = Append(queue, i) /\ Goto(i, "done") /\ reader' = "read"
    BY <1>1, <1>3, <2>1, <2>2 DEF SendRefusal, Goto
  <2>3. CASE reader' = "failed" /\ UNCHANGED <<queue, pc>>
    <3>1. Active' = Active BY <2>3 DEF Active
    <3> QED BY <1>3, <2>3, <3>1 DEF SendRefusal, AnswersInv, Queued
  <2> QED BY <1>3, <2>1, <2>2, <2>3 DEF SendRefusal
<1>4. ASSUME NEW f \in Frame(Len(frame) + 1), Read(f) PROVE AnswersInv'
  <2> DEFINE n == Len(frame) + 1
  <2>1. n \in Request /\ Len(frame') = n /\ pc[n] = "unread"
    BY <1>4, ReadEffect DEF HoldingInv, TypesInv
  <2>2. /\ reader = "read" /\ run = "running" /\ UNCHANGED <<queue, ending, writer, written, run>>
        /\ \A j \in Request : j # n => pc'[j] = pc[j]
        /\ \/ pc'[n] = "refused" /\ reader' = "send"
           \/ pc'[n] = "start" /\ reader' = "read"
    BY <1>4, <2>1 DEF Read, Goto, TypesInv
  <2>3. \A j \in Request : pc[j] # "refused" BY <2>2 DEF AnswersInv
  <2>4. writer # "ok" /\ (dropped => failures) BY <2>2 DEF AnswersInv
  <2>5. \A j \in Request : Queued(j)' <=> Queued(j) BY <2>2 DEF Queued
  <2> HIDE DEF n
  <2>6. ASSUME NEW j \in Request
        PROVE  /\ Queued(j)' => pc'[j] = "done" /\ written'[j] = 0
               /\ written'[j] \in {0, 1}
               /\ written'[j] = 1 => pc'[j] = "done"
               /\ pc'[j] = "done" /\ written'[j] = 0 /\ writer' # "failed" => Queued(j)'
               /\ pc'[j] = "refused" => j = Len(frame') /\ reader' \in {"send", "failed"}
               /\ run' = "running" /\ pc'[j] = "gone" => failures'
    <3>1. CASE j = n BY <2>1, <2>2, <2>5, <3>1 DEF AnswersInv
    <3>2. CASE j # n BY <2>2, <2>3, <2>5, <3>2 DEF AnswersInv
    <3> QED BY <3>1, <3>2
  <2> QED BY <2>2, <2>4, <2>6 DEF AnswersInv
<1>5. CASE Write
  <2> DEFINE h == Head(queue)
  <2>1. /\ queue # <<>> /\ queue' = Tail(queue) /\ UNCHANGED <<frame, pc, ending, reader, writer, run>>
        /\ written' = [written EXCEPT ![h] = @ + 1] /\ writer = "writing"
    BY <1>5 DEF Write
  <2>2. /\ h \in Request /\ Queued(h)
        /\ \A j, k \in DOMAIN queue' : queue'[j] = queue'[k] => j = k
        /\ \A j \in Request : Queued(j)' <=> Queued(j) /\ j # h
    BY <1>a, <2>1, Dequeued
  <2>3. pc[h] = "done" /\ written[h] = 0 BY <2>2 DEF AnswersInv
  <2>4. \A j \in Request : written'[j] = IF j = h THEN 1 ELSE written[j]
    BY <2>1, <2>2, <2>3 DEF TypesInv
  <2>5. Active' = Active BY <2>1 DEF Active
  <2> HIDE DEF h
  <2>6. ASSUME NEW j \in Request
        PROVE  /\ Queued(j)' => pc'[j] = "done" /\ written'[j] = 0
               /\ written'[j] \in {0, 1}
               /\ written'[j] = 1 => pc'[j] = "done"
               /\ pc'[j] = "done" /\ written'[j] = 0 /\ writer' # "failed" => Queued(j)'
               /\ pc'[j] = "refused" => j = Len(frame') /\ reader' \in {"send", "failed"}
               /\ run' = "running" /\ pc'[j] = "gone" => failures'
    <3>1. CASE j = h BY <2>1, <2>2, <2>3, <2>4, <3>1
    <3>2. CASE j # h BY <2>1, <2>2, <2>4, <3>2 DEF AnswersInv
    <3> QED BY <3>1, <3>2
  <2> QED BY <2>1, <2>2, <2>5, <2>6 DEF AnswersInv
<1>6. CASE WriterEnds
  <2>1. /\ queue = <<>> /\ Active = {} /\ reader \notin {"read", "send"} /\ writer = "writing"
        /\ UNCHANGED <<frame, pc, queue, written, ending, reader, run>> /\ writer' = "ok"
    BY <1>6 DEF WriterEnds, Senders
  <2>2. Active' = Active BY <2>1 DEF Active
  <2>3. \A j \in Request : Queued(j)' <=> Queued(j) BY <2>1 DEF Queued
  <2> QED BY <2>1, <2>2, <2>3 DEF AnswersInv
<1> QED BY <1>2, <1>3, <1>4, <1>5, <1>6, AnswersSilent, NextSteps

\* A step that leaves the sessions and their holders alone keeps the account of
\* the releases.
LEMMA ReleasesFrame ==
  ASSUME ReleasesInv, UNCHANGED <<held, slot, run>>, failures => failures',
         run = "running" => /\ Serving' <=> Serving
                            /\ reader = "release" => reader' = "release" \/ Releasing = {}
                            /\ reader' = "ok" => ~failures'
  PROVE  ReleasesInv'
  BY DEF ReleasesInv, Releasing

\* Letting go of a slot: a session that nobody holds any more and that is not
\* registered is given up, which cannot happen before something failed.
LEMMA ReleasesLetGo ==
  ASSUME TypesInv, HoldingInv, RegistryInv, ReleasesInv,
         NEW i \in Request, NEW label \in {"reply", "gone"}, LetGo(i, label)
  PROVE  ReleasesInv'
<1> DEFINE orphan(s) == /\ s = held[i] /\ slot[s].session = "live"
                        /\ s \notin Registered /\ Holders(s) \ {i} = {}
<1>1. /\ \A s \in Request : slot'[s].session = IF orphan(s) THEN "abandoned" ELSE slot[s].session
      /\ held' = [held EXCEPT ![i] = None]
      /\ run = "running" /\ UNCHANGED <<closed, reader, run, failures>>
  BY ReleaseEffect DEF LetGo, ending
<1>2. \A j \in Request : held'[j] = IF j = i THEN None ELSE held[j] BY <1>1 DEF TypesInv
<1>3. Serving' <=> Serving BY <1>1 DEF Serving
<1>4. \A s \in Request : s # None BY LimitAssumption DEF Request
<1>5. ASSUME NEW s \in Request, orphan(s) PROVE failures
  <2>1. Alive(s) /\ held[i] # None BY <1>4, <1>5 DEF Alive
  <2>2. Serving => registry[frame[s].log] = s /\ frame[s].log \in Log BY <2>1 DEF RegistryInv
  <2>3. ~Serving BY <1>4, <1>5, <2>2 DEF Registered
  <2> QED BY <1>1, <2>1, <2>3 DEF ReleasesInv
<1>6. ASSUME NEW s \in Request, ~Serving, slot'[s].session = "live"
      PROVE  \E j \in Request : held'[j] = s
  <2>1. slot[s].session = "live" /\ ~orphan(s) BY <1>1, <1>6
  <2>2. s \notin Registered BY <1>4, <1>6 DEF Registered, RegistryInv
  <2>3. PICK j \in Request : held[j] = s BY <1>1, <1>6, <2>1 DEF ReleasesInv
  <2>4. CASE j # i BY <1>2, <2>3, <2>4
  <2>5. CASE j = i
    <3>1. PICK k \in Holders(s) \ {i} : TRUE BY <2>1, <2>2, <2>3, <2>5
    <3> QED BY <1>2, <3>1 DEF Holders
  <2> QED BY <2>4, <2>5
<1> HIDE DEF orphan
<1>7. ASSUME NEW s \in Request
      PROVE  /\ slot'[s].session = "abandoned" => failures
             /\ slot'[s].session = "releasing" => reader = "release" \/ failures
  BY <1>1, <1>5 DEF ReleasesInv
<1>8. ~Serving /\ (\E j \in Request : held'[j] # None) => failures
  BY <1>1, <1>2 DEF ReleasesInv
<1> QED BY <1>1, <1>3, <1>6, <1>7, <1>8 DEF ReleasesInv

\* Bridge::close: what is not registered for release is held, and noted.
LEMMA ReleasesClose ==
  ASSUME TypesInv, RegistryInv, ReleasesInv, Close
  PROVE  ReleasesInv'
<1>1. /\ run = "running" /\ reader = "close" /\ reader' = "release"
      /\ failures' = (failures \/ Retained # {}) /\ UNCHANGED <<held, run>>
  BY DEF Close
<1>2. Serving BY <1>1 DEF Serving
<1>3. \A s \in Request : s # None BY LimitAssumption DEF Request
<1>4. ASSUME NEW s \in Request, Alive(s) PROVE s \in Registered
  BY <1>2, <1>3, <1>4 DEF RegistryInv, Registered
<1>5. \A s \in Request :
        slot'[s].session = IF s \in Registered /\ Holders(s) = {} /\ slot[s].session = "live"
                           THEN "releasing" ELSE slot[s].session
  BY DEF Close, TypesInv, SlotType
<1>6. failures => failures' BY <1>1, Zenon
<1>7. (\E i \in Request : held[i] # None) => failures'
  <2> SUFFICES ASSUME NEW i \in Request, held[i] # None PROVE failures' OBVIOUS
  <2>1. held[i] \in Request BY DEF TypesInv
  <2>2. held[i] \in Registered BY <1>4, <2>1 DEF Alive
  <2>3. held[i] \in Retained BY <2>2 DEF Retained, Holders
  <2> QED BY <1>1, <2>3, Zenon
<1>8. ASSUME NEW s \in Request, slot'[s].session = "live" PROVE \E i \in Request : held'[i] = s
  <2>1. slot[s].session = "live" BY <1>5, <1>8
  <2>2. s \in Registered BY <1>4, <2>1 DEF RegistryInv, Alive
  <2>3. Holders(s) # {} BY <1>5, <1>8, <2>1, <2>2
  <2> QED BY <1>1, <2>3 DEF Holders
<1>9. ASSUME NEW s \in Request
      PROVE  /\ slot'[s].session = "abandoned" => failures'
             /\ slot'[s].session = "releasing" => reader' = "release"
  BY <1>1, <1>5, <1>6 DEF ReleasesInv
<1> QED BY <1>1, <1>7, <1>8, <1>9 DEF ReleasesInv

\* The account of the releases.
LEMMA ReleasesStep ==
  TypesInv /\ HoldingInv /\ RegistryInv /\ AnswersInv /\ ReleasesInv /\ Next => ReleasesInv'
<1> SUFFICES ASSUME TypesInv, HoldingInv, RegistryInv, AnswersInv, ReleasesInv, Next
             PROVE  ReleasesInv'
  OBVIOUS
<1> USE DEF ending, serving
<1>1. ASSUME NEW i \in Request, Take(i) PROVE ReleasesInv'
  <2>1. run = "running" /\ ~closed /\ UNCHANGED <<slot, closed, reader, run, failures>>
    BY <1>1 DEF Take
  <2>2. Serving' BY <2>1 DEF Serving
  <2> QED BY <2>1, <2>2 DEF ReleasesInv
<1>2. ASSUME NEW i \in Request, NEW label \in Label, NEW to \in SlotType, Work(i, label, to)
      PROVE  ReleasesInv'
  <2>1. run = "running" /\ UNCHANGED <<held, closed, reader, run, failures>> BY <1>2 DEF Work
  <2>2. \A s \in Request : \/ slot'[s].session = slot[s].session
                           \/ s = held[i] /\ slot'[s].session = "live"
    BY <1>2 DEF Work, TypesInv
  <2>3. Serving' <=> Serving BY <2>1 DEF Serving
  <2>4. \A s \in Request : ~Serving /\ slot'[s].session = "live" => \E j \in Request : held'[j] = s
    BY <2>1, <2>2 DEF ReleasesInv
  <2> QED BY <2>1, <2>2, <2>3, <2>4 DEF ReleasesInv
<1>3. ASSUME \/ \E i \in Request : SendResponse(i)
             \/ \E f \in Frame(Len(frame) + 1) : Read(f)
             \/ SendRefusal \/ EndOfInput \/ Drained \/ GraceOver \/ DrainOver \/ Closed
             \/ Write \/ WriteFails \/ WriterEnds
      PROVE  ReleasesInv'
  <2>1. run = "running" /\ UNCHANGED <<held, slot, run>> /\ (failures => failures')
    BY <1>3 DEF SendResponse, Send, Read, SendRefusal, EndOfInput, Drained, GraceOver, DrainOver,
                Closed, Write, WriteFails, WriterEnds
  <2>2. \/ UNCHANGED <<closed, reader, failures>>
        \/ UNCHANGED closed /\ reader \in {"read", "send", "grace"}
           /\ reader' \in {"read", "send", "grace", "failed", "close"}
        \/ reader \in {"grace", "drain"} /\ reader' \in {"drain", "close"}
        \/ /\ reader = "release" /\ Releasing = {} /\ UNCHANGED <<closed, failures>>
           /\ reader' = IF failures THEN "failed" ELSE "ok"
    BY <1>3 DEF SendResponse, Send, Read, SendRefusal, EndOfInput, Drained, GraceOver, DrainOver,
                Closed, Write, WriteFails, WriterEnds
  <2>3. /\ reader \in {"read", "send", "grace"} => ~closed
        /\ reader = "release" => closed
    BY <2>1 DEF RegistryInv
  <2>4. Serving' <=> Serving BY <2>1, <2>2, <2>3 DEF Serving
  <2>5. reader = "release" => reader' = "release" \/ Releasing = {} BY <2>2
  <2>6. reader' = "ok" => ~failures' BY <2>1, <2>2 DEF ReleasesInv
  <2> QED BY <2>1, <2>4, <2>5, <2>6, ReleasesFrame
<1>4. ASSUME NEW s \in Request, ReleaseEnds(s) PROVE ReleasesInv'
  <2>1. /\ run = "running" /\ UNCHANGED <<held, closed, reader, run>>
        /\ slot[s].session = "releasing"
    BY <1>4 DEF ReleaseEnds, Releasing
  <2>2. PICK to \in {"released", "abandoned"} :
          /\ slot' = [slot EXCEPT ![s].session = to]
          /\ to = "released" => UNCHANGED failures
          /\ to = "abandoned" => failures'
    BY <1>4 DEF ReleaseEnds
  <2>3. failures => failures' BY <2>2
  <2>4. \A r \in Request : slot'[r].session = IF r = s THEN to ELSE slot[r].session
    BY <2>2 DEF TypesInv, SlotType
  <2>5. Serving' <=> Serving BY <2>1 DEF Serving
  <2>6. reader # "ok" BY <2>1 DEF ReleasesInv
  <2> QED BY <2>1, <2>2, <2>3, <2>4, <2>5, <2>6 DEF ReleasesInv
<1>5. CASE ReleaseOver
  <2>1. run = "running" /\ failures' /\ UNCHANGED <<held, closed, reader, run>> /\ Releasing # {}
    BY <1>5 DEF ReleaseOver
  <2>2. \A r \in Request :
          slot'[r].session = IF slot[r].session = "releasing" THEN "abandoned" ELSE slot[r].session
    BY <1>5 DEF ReleaseOver, Releasing, TypesInv, SlotType
  <2>3. Serving' <=> Serving BY <2>1 DEF Serving
  <2>4. reader # "ok" BY <2>1 DEF ReleasesInv, Releasing
  <2> QED BY <2>1, <2>2, <2>3, <2>4 DEF ReleasesInv
<1>6. ASSUME NEW result \in {"ok", "failed"}, Finish(result) PROVE ReleasesInv'
  BY <1>6 DEF Finish, ReleasesInv
<1> QED BY <1>1, <1>2, <1>3, <1>4, <1>5, <1>6, ReleasesLetGo, ReleasesClose, NextSteps

\* When both tasks have ended well, everything has been answered and released.
LEMMA ExitStep ==
  TypesInv /\ HoldingInv /\ RegistryInv /\ AnswersInv /\ ReleasesInv /\ CleanExit /\ Next => CleanExit'
<1> SUFFICES ASSUME TypesInv, HoldingInv, RegistryInv, AnswersInv, ReleasesInv, Next, run' = "ok"
             PROVE  /\ \A i \in DOMAIN frame' : written'[i] = 1
                    /\ \A s \in Request : slot'[s].session \in {"none", "released"}
  BY DEF CleanExit
<1>1. run = "running" /\ Finish("ok") /\ reader = "ok" /\ writer = "ok"
  <2> USE DEF serving, ending
  <2>1. run = "running" /\ run' # run
    BY DEF Next, Timer, Handle, Deadline, Read, EndOfInput, SendRefusal, Drained, Close, Closed,
           ReleaseEnds, Write, WriteFails, WriterEnds, Return, ShutdownOver, GraceOver, DrainOver,
           ReleaseOver
  <2>2. \E result \in {"ok", "failed"} :
          Finish(result) /\ (result = "ok" => reader = "ok" /\ writer = "ok")
    BY <2>1, NextSteps
       DEF LetGo, Take, Work, SendResponse, Read, EndOfInput, SendRefusal, Drained, Close, Closed,
           ReleaseEnds, Write, WriteFails, WriterEnds, GraceOver, DrainOver, ReleaseOver
  <2> QED BY <2>1, <2>2 DEF Finish
<1>2. ~failures /\ ~Serving BY <1>1 DEF ReleasesInv, RegistryInv, Serving
<1>3. Active = {} /\ queue = <<>> BY <1>1 DEF AnswersInv
<1>4. ASSUME NEW i \in DOMAIN frame PROVE written[i] = 1
  <2>1. i \in Request /\ i <= Len(frame) BY LimitAssumption DEF TypesInv, Request
  <2>2. pc[i] # "unread" BY <2>1 DEF HoldingInv
  <2>3. pc[i] # "refused" BY <1>1, <2>1 DEF AnswersInv
  <2>4. pc[i] # "gone" BY <1>1, <1>2, <2>1 DEF AnswersInv
  <2>5. pc[i] = "done" BY <1>3, <2>1, <2>2, <2>3, <2>4 DEF TypesInv, Label, Active
  <2>6. ~Queued(i) BY <1>3 DEF Queued
  <2> QED BY <1>1, <2>1, <2>5, <2>6 DEF AnswersInv
<1>5. ASSUME NEW s \in Request PROVE slot[s].session \in {"none", "released"}
  <2>1. \A i \in Request : held[i] # s
    BY <1>1, <1>2, LimitAssumption DEF ReleasesInv, Request
  <2> QED BY <1>1, <1>2, <2>1 DEF TypesInv, SlotType, ReleasesInv
<1>6. UNCHANGED <<frame, written>> /\ \A s \in Request : slot'[s].session = slot[s].session
  BY <1>1, <1>5 DEF Finish, Releasing, Abandoned, TypesInv, SlotType
<1> QED BY <1>4, <1>5, <1>6

\* The whole inductive invariant.
THEOREM BridgeInductive == Spec => []Inductive
<1>1. Inductive /\ [Next]_vars => Inductive'
  <2> SUFFICES ASSUME Inductive, [Next]_vars PROVE Inductive' OBVIOUS
  <2>1. CASE Next
    BY <2>1, TypesStep, HoldingStep, RegistryStep, AnswersStep, ReleasesStep, ExitStep DEF Inductive
  <2>2. CASE UNCHANGED vars
    BY <2>2 DEF vars, serving, ending, Inductive, TypesInv, HoldingInv, RefusalInv, RegistryInv,
                Unused, Alive, Serving, AnswersInv, Queued, Active, ReleasesInv, CleanExit
  <2> QED BY <2>1, <2>2
<1>2. Init => Inductive BY BridgeTypesInit, RegistryInit, AnswersInit DEF Inductive
<1> QED BY <1>1, <1>2, PTL DEF Spec

\* If run succeeds, every frame has been answered exactly once, and every session
\* that was made has given its lease back (stdio.rs run, handler.rs close).
THEOREM BridgeCleanExit == Spec => []CleanExit
<1>1. Inductive => CleanExit BY DEF Inductive
<1> QED BY <1>1, BridgeInductive, PTL
=============================================================================
