---------------------------- MODULE BridgeProps ----------------------------
(***************************************************************************)
(* What the bridge promises.                                               *)
(***************************************************************************)
EXTENDS Bridge

Sessions(log) == {s \in DOMAIN frame : frame[s].log = log /\ slot[s].session # "none"}

\* As long as the bridge is not closed, all requests for a log share the slot
\* that is registered, whatever fails or is cancelled while they wait for it; and
\* a log never gets a second session, which would replace one that is lost
\* (handler.rs FeedSlot::drop, dispatch).
OneSlotPerLog ==
  /\ \A i \in Request :
       held[i] # None /\ reader \notin {"release", "ok", "failed"} => registry[frame[i].log] = held[i]
  /\ \A log \in Log : Cardinality(Sessions(log)) <= 1

\* A feed that could not be opened does not keep its place in the registry: an
\* empty slot is there only for the requests that hold it (handler.rs FeedSlot::drop).
NoSlotLeaks ==
  \A log \in Log :
    registry[log] # None /\ ~slot[registry[log]].open => Holders(registry[log]) # {}

\* If run succeeds, every frame has been answered exactly once, and every session
\* that was made has released its lease (stdio.rs run, handler.rs close).
CleanExit ==
  run = "ok" =>
    /\ \A i \in DOMAIN frame : written[i] = 1
    /\ \A s \in Request : slot[s].session \in {"none", "released"}

\* After the end of input run returns by itself: requests, output and releases do
\* not wait for each other, so that the timers are needed only against a backend
\* or a client that does not answer (stdio.rs run).
EndsWithoutTimers == reader = "grace" ~> run # "running"
=============================================================================
