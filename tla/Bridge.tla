------------------------------- MODULE Bridge -------------------------------
(***************************************************************************)
(* The stdio bridge (crates/combctl/src/bridge: stdio.rs, handler.rs): one *)
(* task reads frames and starts a handler for each, handlers share the     *)
(* open feeds and their writer sessions through a registry, one task       *)
(* writes the responses, and after the end of input everything is drained, *)
(* cancelled and released against a series of timers.                      *)
(*                                                                         *)
(* Request i is the i-th frame.  A slot of the registry is named after the *)
(* request that created it; the Arc that counts its owners is the registry *)
(* together with the requests that hold it.  What a feed or a session does *)
(* with a call (modules Feed and Session) is one step that ends with a     *)
(* response; responses are told apart only by whom they answer.  Timers    *)
(* may fire at any moment, or never.                                       *)
(***************************************************************************)
EXTENDS Integers, Sequences, FiniteSets

CONSTANTS Log,
          Frame(_),    \* what a client may send as its n-th frame: [kind, log]
          MaxRequests, \* limits.max_concurrent_requests
          MaxQueued,   \* limits.max_queued_output
          MaxLogs,     \* MAX_OPEN_LOGS
          MaxFrames,   \* bound on the frames sent
          None

ASSUME LimitAssumption ==
  /\ MaxRequests \in Nat \ {0} /\ MaxQueued \in Nat \ {0}
  /\ MaxLogs \in Nat /\ MaxFrames \in Nat
  /\ None \notin 1..MaxFrames

\* A frame that is neither a greeting nor refused names a log.
ASSUME FrameAssumption ==
  \A n \in 1..MaxFrames : \A f \in Frame(n) :
    f.log \in Log \/ f.kind \in {"hello", "invalid", "oversized"}

VARIABLES
  frame,    \* the frames read so far
  pc,       \* per request: how far it has come
  held,     \* per request: the slot it holds
  registry, \* per log: its slot
  slot,     \* per slot: is the feed open, who is opening it, its session
  closed,   \* cancel_requests has been called
  dropped,  \* the set of handlers has been dropped, which aborts them
  reader,   \* the input task
  failures, \* has the input task noted a failure?
  queue,    \* responses waiting for the output task
  writer,   \* the output task
  written,  \* how many responses to each request have been written
  run       \* what run returned

serving == <<pc, held, registry, slot>>
ending  == <<closed, dropped, failures>>
vars    == <<frame, serving, ending, reader, queue, writer, written, run>>

Request == 1..MaxFrames

NewSlot == [open |-> FALSE, opener |-> None, session |-> "none"]

Init ==
  /\ frame = <<>>
  /\ pc   = [i \in Request |-> "unread"]
  /\ held = [i \in Request |-> None]
  /\ registry = [l \in Log |-> None]
  /\ slot = [i \in Request |-> NewSlot]
  /\ closed = FALSE /\ dropped = FALSE /\ failures = FALSE
  /\ reader = "read" /\ queue = <<>> /\ writer = "writing"
  /\ written = [i \in Request |-> 0]
  /\ run = "running"

\* Handlers in progress; each of them has a permit.
Active   == {i \in Request : pc[i] \in {"start", "wait", "open", "serve", "reply"}}
Holders(s) == {i \in Request : held[i] = s}
Registered == {registry[l] : l \in Log} \ {None}

(***************************************************************************)
(* The registry.                                                           *)
(***************************************************************************)
\* Mutant: an empty slot is removed although others are waiting for it.
VacantEager(s, holders) == ~slot[s].open

\* Mutant: the reference that is about to be dropped is still counted.
VacantLate(s, holders) == ~slot[s].open /\ Holders(s) = {}

\* A slot that its last holder leaves unopened.
Vacant(s, holders) == ~slot[s].open /\ holders = {}

\* Mutant: opening a feed is begun once, even if it fails.
OpenerStays(s, i) == slot[s].opener

\* When the request that opens the feed gives up, another may.
OpenerAfter(s, i) == IF slot[s].opener = i THEN None ELSE slot[s].opener

Abandoned(session) == IF session = "live" THEN "abandoned" ELSE session

\* The request lets go of its slot (FeedSlot::drop), and of opening it.
Release(i) ==
  LET s    == held[i]
      rest == Holders(s) \ {i}
      log  == frame[i].log
  IN
  /\ held' = [held EXCEPT ![i] = None]
  /\ IF s = None THEN UNCHANGED <<registry, slot>>
     ELSE /\ registry' = IF registry[log] = s /\ Vacant(s, rest)
                         THEN [registry EXCEPT ![log] = None] ELSE registry
          /\ slot' = [slot EXCEPT
               ![s].opener = OpenerAfter(s, i),
               ![s].session = IF s \notin Registered /\ rest = {} THEN Abandoned(@) ELSE @]

(***************************************************************************)
(* Handlers.                                                               *)
(***************************************************************************)
Goto(i, label) == pc' = [pc EXCEPT ![i] = label]

Respond(i) == Goto(i, "reply") /\ Release(i)

\* The answer to hello, and to what parse_request refuses, takes no feed.
Refused(f) == f.kind = "invalid"
Hello(f)   == f.kind = "hello"

Immediate(i) ==
  pc[i] = "start" /\ (Hello(frame[i]) \/ Refused(frame[i])) /\ Respond(i)

Dispatch(i) ==
  LET log == frame[i].log IN
  /\ pc[i] = "start" /\ ~Hello(frame[i]) /\ ~Refused(frame[i])
  /\ \/ closed /\ Respond(i)
     \/ ~closed /\ registry[log] = None /\ Cardinality(Registered) >= MaxLogs /\ Respond(i)
     \/ /\ ~closed /\ (registry[log] # None \/ Cardinality(Registered) < MaxLogs)
        /\ Goto(i, "wait")
        /\ registry' = IF registry[log] = None THEN [registry EXCEPT ![log] = i] ELSE registry
        /\ held' = [held EXCEPT ![i] = registry'[log]]
        /\ UNCHANGED slot

\* OnceCell::get_or_try_init: the feed is open, or one waiter opens it.
Obtain(i) ==
  LET s == held[i] IN
  /\ pc[i] = "wait"
  /\ \/ slot[s].open /\ Goto(i, "serve") /\ UNCHANGED slot
     \/ /\ ~slot[s].open /\ slot[s].opener = None
        /\ Goto(i, "open") /\ slot' = [slot EXCEPT ![s].opener = i]
  /\ UNCHANGED <<held, registry>>

\* CompleteFeed::open.
Open(i) ==
  /\ pc[i] = "open"
  /\ \/ /\ Goto(i, "serve")
        /\ slot' = [slot EXCEPT ![held[i]].open = TRUE, ![held[i]].opener = None]
        /\ UNCHANGED <<held, registry>>
     \/ Respond(i)

\* The first append to a feed makes its writer session.
MakeSession(i) ==
  LET s == held[i] IN
  /\ pc[i] = "serve" /\ frame[i].kind = "append" /\ slot[s].session = "none"
  /\ slot' = [slot EXCEPT ![s].session = "live"]
  /\ UNCHANGED <<pc, held, registry>>

Serve(i) ==
  /\ pc[i] = "serve"
  /\ frame[i].kind = "append" => slot[held[i]].session # "none"
  /\ Respond(i)

\* The select of handle_frame_with_context: the bridge is closing, or time is up.
Interrupt(i) == pc[i] \in {"start", "wait", "open", "serve"} /\ Respond(i)

Cancel(i) == closed /\ Interrupt(i)

\* A response is sent unless the output task is gone.
Send(i) ==
  /\ pc[i] = "reply" /\ Goto(i, "done")
  /\ \/ writer = "writing" /\ Len(queue) < MaxQueued /\ queue' = Append(queue, i)
     \/ writer # "writing" /\ UNCHANGED queue
  /\ UNCHANGED <<held, registry, slot>>

Abort(i) == dropped /\ i \in Active /\ Goto(i, "gone") /\ Release(i)

Handle(i) ==
  /\ run = "running"
  /\ UNCHANGED <<frame, ending, reader, writer, written, run>>
  /\ \/ Send(i)
     \/ /\ UNCHANGED queue
        /\ Immediate(i) \/ Dispatch(i) \/ Obtain(i) \/ Open(i) \/ MakeSession(i)
           \/ Serve(i) \/ Cancel(i) \/ Abort(i)

Deadline(i) ==
  /\ run = "running" /\ Interrupt(i)
  /\ UNCHANGED <<frame, ending, reader, queue, writer, written, run>>

(***************************************************************************)
(* The input task.                                                         *)
(***************************************************************************)
\* read_jsonl_frame: the line is longer than a frame may be.
Oversized(f) == f.kind = "oversized"

\* A frame gets a handler, or at once a refusal that the reader sends itself.
Read(f) ==
  LET i == Len(frame) + 1 IN
  /\ run = "running" /\ reader = "read" /\ Len(frame) < MaxFrames
  /\ frame' = Append(frame, f)
  /\ IF Oversized(f) \/ Cardinality(Active) = MaxRequests
     THEN Goto(i, "refused") /\ reader' = "send"
     ELSE Goto(i, "start") /\ UNCHANGED reader
  /\ UNCHANGED <<held, registry, slot, ending, queue, writer, written, run>>

SendRefusal ==
  LET i == Len(frame) IN
  /\ run = "running" /\ reader = "send"
  /\ \/ /\ writer = "writing" /\ Len(queue) < MaxQueued
        /\ queue' = Append(queue, i) /\ Goto(i, "done") /\ reader' = "read"
     \/ /\ writer # "writing" /\ reader' = "failed" /\ UNCHANGED <<queue, pc>>
  /\ UNCHANGED <<frame, held, registry, slot, ending, writer, written, run>>

EndOfInput ==
  /\ run = "running" /\ reader = "read" /\ reader' = "grace"
  /\ UNCHANGED <<frame, serving, ending, queue, writer, written, run>>

\* The handlers have finished: their set is dropped, and the bridge closed.
Drained ==
  /\ run = "running" /\ reader \in {"grace", "drain"} /\ Active = {}
  /\ reader' = "close" /\ dropped' = TRUE
  /\ UNCHANGED <<frame, serving, closed, failures, queue, writer, written, run>>

GraceOver ==
  /\ run = "running" /\ reader = "grace" /\ Active # {}
  /\ reader' = "drain" /\ closed' = TRUE /\ failures' = TRUE
  /\ UNCHANGED <<frame, serving, dropped, queue, writer, written, run>>

DrainOver ==
  /\ run = "running" /\ reader = "drain" /\ Active # {}
  /\ reader' = "close" /\ dropped' = TRUE
  /\ UNCHANGED <<frame, serving, closed, failures, queue, writer, written, run>>

\* Slots that cannot be closed, because a request still holds them.
Retained == {s \in Registered : Holders(s) # {}}

\* Bridge::close: no more requests, and a release for each session.
Close ==
  /\ run = "running" /\ reader = "close" /\ reader' = "release"
  /\ closed' = TRUE /\ failures' = (failures \/ Retained # {})
  /\ registry' = [l \in Log |-> None]
  /\ slot' = [s \in Request |->
       IF s \in Registered /\ Holders(s) = {} /\ slot[s].session = "live"
       THEN [slot[s] EXCEPT !.session = "releasing"] ELSE slot[s]]
  /\ UNCHANGED <<frame, pc, held, dropped, queue, writer, written, run>>

Releasing == {s \in Request : slot[s].session = "releasing"}

\* WriterSession::close of one session succeeds, or leaves it in doubt.
ReleaseEnds(s) ==
  /\ run = "running" /\ s \in Releasing
  /\ \/ slot' = [slot EXCEPT ![s].session = "released"] /\ UNCHANGED failures
     \/ slot' = [slot EXCEPT ![s].session = "abandoned"] /\ failures' = TRUE
  /\ UNCHANGED <<frame, pc, held, registry, closed, dropped, reader, queue, writer, written, run>>

ReleaseOver ==
  /\ run = "running" /\ Releasing # {} /\ failures' = TRUE
  /\ slot' = [s \in Request |->
       IF s \in Releasing THEN [slot[s] EXCEPT !.session = "abandoned"] ELSE slot[s]]
  /\ UNCHANGED <<frame, pc, held, registry, closed, dropped, reader, queue, writer, written, run>>

Closed ==
  /\ run = "running" /\ reader = "release" /\ Releasing = {}
  /\ reader' = IF failures THEN "failed" ELSE "ok"
  /\ UNCHANGED <<frame, serving, ending, queue, writer, written, run>>

(***************************************************************************)
(* The output task.                                                        *)
(***************************************************************************)
Write ==
  /\ run = "running" /\ writer = "writing" /\ queue # <<>>
  /\ written' = [written EXCEPT ![Head(queue)] = @ + 1] /\ queue' = Tail(queue)
  /\ UNCHANGED <<frame, serving, ending, reader, writer, run>>

\* The client does not read, or is gone.
WriteFails ==
  /\ run = "running" /\ writer = "writing" /\ queue # <<>> /\ writer' = "failed"
  /\ UNCHANGED <<frame, serving, ending, reader, queue, written, run>>

\* Mutant: only the input task counts.
SendersReading == IF reader \in {"read", "send"} THEN {0} ELSE {}

\* Who may still put something into the queue.
Senders == IF reader \in {"read", "send"} THEN Active \cup {0} ELSE Active

WriterEnds ==
  /\ run = "running" /\ writer = "writing" /\ queue = <<>> /\ Senders = {}
  /\ writer' = "ok"
  /\ UNCHANGED <<frame, serving, ending, reader, queue, written, run>>

(***************************************************************************)
(* run: both tasks, or the first to fail; then everything is dropped.      *)
(***************************************************************************)
Finish(result) ==
  /\ run' = result
  /\ closed' = TRUE /\ dropped' = TRUE
  /\ registry' = [l \in Log |-> None]
  /\ pc' = [i \in Request |-> IF i \in Active THEN "gone" ELSE pc[i]]
  /\ held' = [i \in Request |-> None]
  /\ slot' = [s \in Request |->
       IF s \in Releasing THEN [slot[s] EXCEPT !.session = "abandoned"]
       ELSE [slot[s] EXCEPT !.session = Abandoned(@), !.opener = None]]
  /\ UNCHANGED <<frame, failures, reader, queue, writer, written>>

Return ==
  /\ run = "running"
  /\ \/ reader = "ok" /\ writer = "ok" /\ Finish("ok")
     \/ "failed" \in {reader, writer} /\ Finish("failed")

ShutdownOver ==
  run = "running" /\ reader \notin {"read", "send"} /\ Finish("failed")

Timer == GraceOver \/ DrainOver \/ ReleaseOver \/ ShutdownOver \/ \E i \in Request : Deadline(i)

Next ==
  \/ \E f \in Frame(Len(frame) + 1) : Read(f)
  \/ EndOfInput \/ SendRefusal \/ Drained \/ Close \/ Closed
  \/ \E i \in Request : Handle(i) \/ ReleaseEnds(i)
  \/ Write \/ WriteFails \/ WriterEnds
  \/ Return \/ Timer

\* Tasks that can run are run, the backend answers, and the client reads; no
\* timer needs to fire.
Fairness ==
  /\ \A i \in Request : WF_vars(Handle(i)) /\ WF_vars(ReleaseEnds(i))
  /\ WF_vars(SendRefusal \/ Drained \/ Close \/ Closed)
  /\ WF_vars(Write) /\ WF_vars(WriterEnds) /\ WF_vars(Return)

Spec == Init /\ [][Next]_vars /\ Fairness
=============================================================================
