----------------------------- MODULE BridgeInv -----------------------------
(***************************************************************************)
(* Why the bridge keeps its promises: the inductive invariant.             *)
(***************************************************************************)
EXTENDS BridgeProps

FrameType   == UNION {Frame(n) : n \in Request}
Label       == {"unread", "start", "wait", "open", "serve", "reply", "refused", "done", "gone"}
SlotType    == [open : BOOLEAN, opener : Request \cup {None},
                session : {"none", "live", "releasing", "released", "abandoned"}]
ReaderLabel == {"read", "send", "grace", "drain", "close", "release", "ok", "failed"}

TypesInv ==
  /\ frame \in Seq(FrameType) /\ Len(frame) <= MaxFrames
  /\ pc \in [Request -> Label]
  /\ held \in [Request -> Request \cup {None}]
  /\ registry \in [Log -> Request \cup {None}]
  /\ slot \in [Request -> SlotType]
  /\ closed \in BOOLEAN /\ dropped \in BOOLEAN /\ failures \in BOOLEAN
  /\ reader \in ReaderLabel
  /\ queue \in Seq(Request)
  /\ writer \in {"writing", "ok", "failed"}
  /\ written \in [Request -> Nat]
  /\ run \in {"running", "ok", "failed"}

\* The refusal that the reader sends is that of the last frame.
RefusalInv == reader = "send" => Len(frame) > 0 /\ pc[Len(frame)] = "refused"

\* A request holds a slot from the moment it is dispatched until it has its
\* answer; the slot it holds, like the one that is registered for its log, was
\* created by a request for the same log.
HoldingInv ==
  /\ RefusalInv
  /\ \A l \in Log : registry[l] # None =>
       registry[l] <= Len(frame) /\ frame[registry[l]].log = l
  /\ \A i \in Request :
       /\ pc[i] # "unread" <=> i <= Len(frame)
       /\ held[i] # None <=> pc[i] \in {"wait", "open", "serve"}
       /\ held[i] # None => /\ held[i] <= Len(frame)
                            /\ frame[i].log \in Log
                            /\ frame[held[i]].log = frame[i].log
       /\ pc[i] = "serve" => slot[held[i]].open
       /\ pc[i] = "start" => \/ frame[i].log \in Log
                             \/ Hello(frame[i]) \/ Refused(frame[i])

\* The slot of a request that has not been dispatched is not in use.
Unused(s) == /\ ~slot[s].open /\ slot[s].session = "none"
             /\ \A i \in Request : held[i] # s
             /\ \A l \in Log : registry[l] # s

\* A slot that is worth keeping: its feed is open, or somebody holds it.
Alive(s) == slot[s].open \/ \E i \in Request : held[i] = s

\* Until close empties the registry.
Serving == run = "running" /\ (~closed \/ reader \in {"drain", "close"})

RegistryInv ==
  /\ \A l \in Log : registry[l] # None => Alive(registry[l]) /\ Serving
  /\ \A s \in Request :
       /\ pc[s] \in {"unread", "start"} => Unused(s)
       /\ slot[s].session # "none" => slot[s].open
       /\ Alive(s) => /\ s <= Len(frame) /\ frame[s].log \in Log
                      /\ Serving => registry[frame[s].log] = s
  /\ \A r, s \in Request : Alive(r) /\ Alive(s) /\ frame[r].log = frame[s].log => r = s
  /\ run # "running" => \A i \in Request : held[i] = None
  /\ reader \in {"release", "ok"} => closed
  /\ run = "running" /\ closed => reader \in {"drain", "close", "release", "ok", "failed"}

\* Where the response to a frame is.
Queued(i) == \E k \in DOMAIN queue : queue[k] = i

AnswersInv ==
  /\ \A j, k \in DOMAIN queue : queue[j] = queue[k] => j = k
  /\ \A i \in Request :
       /\ Queued(i) => pc[i] = "done" /\ written[i] = 0
       /\ written[i] \in {0, 1}
       /\ written[i] = 1 => pc[i] = "done"
       /\ pc[i] = "done" /\ written[i] = 0 /\ writer # "failed" => Queued(i)
       /\ pc[i] = "refused" => i = Len(frame) /\ reader \in {"send", "failed"}
       /\ run = "running" /\ pc[i] = "gone" => failures
  /\ writer = "ok" => queue = <<>> /\ Active = {} /\ reader \notin {"read", "send"}
  /\ run = "running" /\ dropped /\ ~failures => Active = {} /\ reader \notin {"read", "send"}
  /\ reader = "drain" => failures

ReleasesInv ==
  run = "running" =>
    /\ ~Serving /\ (\E i \in Request : held[i] # None) => failures
    /\ \A s \in Request :
         /\ slot[s].session = "abandoned" => failures
         /\ ~Serving /\ slot[s].session = "live" => \E i \in Request : held[i] = s
         /\ slot[s].session = "releasing" => reader = "release" \/ failures
    /\ reader = "ok" => ~failures

Inductive == TypesInv /\ HoldingInv /\ RegistryInv /\ AnswersInv /\ ReleasesInv /\ CleanExit
=============================================================================
