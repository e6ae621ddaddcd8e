-------------------------------- MODULE Feed --------------------------------
(***************************************************************************)
(* The complete feed (crates/combctl/src/feed.rs): what an append writes,  *)
(* and what readers make of it.                                            *)
(*                                                                         *)
(* An append extends the chunk catalog (module Catalog), the stable-key    *)
(* index (module Hamt) and the chain of commits (module SkipChain) of the  *)
(* snapshot it was prepared from, and takes effect when the ref moves on   *)
(* from just that snapshot; claims and releases extend the chain only.     *)
(* That a stale preparation is never published is the subject of module    *)
(* Publish, who may append that of module Session; here preparation and    *)
(* publication are one step.  All but the ref is immutable, so a page is a *)
(* function of the ref that its reader has seen.                           *)
(***************************************************************************)
EXTENDS Integers, Sequences, FiniteSets, Catalog, Hamt, SkipChain

CONSTANTS Key,      \* stable keys; a key also stands for the payload sent with it
          Size,     \* the size of each payload
          Reader,
          Limit,    \* the page limits readers ask for: [events, bytes]
          FullPage, \* one that admits every payload
          \* Bounds of the model: the length of the chain, and how many of its
          \* commits are claims and releases.
          MaxGeneration, MaxClaims

ASSUME LimitAssumption ==
  /\ FullPage \in Limit
  /\ \A l \in Limit : l.events \in Nat \ {0} /\ l.bytes \in Nat \ {0}
  /\ \A k \in Key : Size[k] \in Nat /\ Size[k] <= FullPage.bytes

\* The walks of the chain never give up: the square of 64 digits is far below
\* MAX_SEEK_HOPS.
ASSUME HopsAssumption ==
  /\ MaxGeneration \in Nat /\ MaxClaims \in Nat /\ MaxHops \in Nat
  /\ HopBound(Log2[MaxGeneration] + 1) <= MaxHops

ASSUME PathAssumption ==
  /\ Slot # {} /\ MaxDepth \in Nat
  /\ Path \in [Key -> [1..(MaxDepth + 1) -> Slot]]

VARIABLES
  chain,    \* the headers of the published commits
  ref,      \* generation, epoch and target of the ref
  manifest, \* the object that the target names
  reader,   \* per reader: where it began, its cursor and what it was given since
  log       \* history: the keys in the order in which they were published

store == <<chain, ref, manifest, log>>
vars  == <<store, reader>>

EmptyManifest ==
  [generation |-> 0, head |-> 0, catalog |-> {}, index |-> EmptyIndex]

StartAt(seq) == [start |-> seq, cursor |-> seq, got |-> <<>>]

Init ==
  /\ chain = <<>> /\ log = <<>> /\ manifest = EmptyManifest
  /\ ref = [generation |-> 0, epoch |-> 0, target |-> NoCommit]
  /\ reader = [r \in Reader |-> StartAt(1)]

(***************************************************************************)
(* Manifests.                                                              *)
(***************************************************************************)
\* bind_published_target: the head commit and the ref name the same target.
BoundTo(r) ==
  LET c == CommitView(chain, r.generation) IN
  c.generation = r.generation /\ c.epoch <= r.epoch /\ c.target = r.target

Published == ref.target # NoCommit

\* validate_complete_manifest.
ValidManifest(m) ==
  /\ IF m.catalog = {} THEN m.head = 0
     ELSE \A root \in m.catalog : /\ root.first = 1 /\ root.last = m.head
                                  /\ 1 <= root.chunks /\ root.chunks <= root.last
  /\ m.index.entries <= m.head
  /\ (m.head = 0) <=> (m.index.entries = 0)

\* load_manifest: the object that the target names, if it validates.
LoadManifest == {m \in {manifest} : ValidManifest(m)}

\* validated_publication: what everybody checks before relying on the ref.
Usable ==
  /\ ref.generation # 0 => BoundTo(ref)
  /\ Published => LoadManifest # {}

(***************************************************************************)
(* Writers.                                                                *)
(***************************************************************************)
\* Mutant: the index entry names the sequence number of the head before.
AppendedAtHead(m, key, g) ==
  LET seq   == m.head + 1
      entry == [key |-> key, first |-> m.head, last |-> m.head, generation |-> g]
      chunk == <<[seq |-> seq, payload |-> key]>>
  IN  {[generation |-> g, head |-> seq, catalog |-> {root}, index |-> index] :
         root \in CatalogAppend(m.catalog, ChunkRef(chunk, seq, 1)),
         index \in Insert(m.index, entry)}

\* CompleteAppendPlan.prepare: the manifest after one more event; none if the
\* catalog or the index refuses it.
Appended(m, key, g) ==
  LET seq   == m.head + 1
      entry == [key |-> key, first |-> seq, last |-> seq, generation |-> g]
      chunk == <<[seq |-> seq, payload |-> key]>>
  IN  {[generation |-> g, head |-> seq, catalog |-> {root}, index |-> index] :
         root \in CatalogAppend(m.catalog, ChunkRef(chunk, seq, 1)),
         index \in Insert(m.index, entry)}

\* commit_at_snapshot_inner: the next commit, in an object of its own or
\* carried by the manifest of an append, which then is the target; an object
\* cannot hold its own digest, so a carrier records no target.
Publish(epoch, carrier) ==
  LET g == ref.generation + 1 IN
  /\ g <= MaxGeneration
  /\ \E skip \in ComputeSkip(chain) :
       chain' = Append(chain, [generation |-> g, epoch |-> epoch, parent |-> ref.generation,
                               skip |-> skip, carrier |-> carrier,
                               target |-> IF carrier THEN NoCommit ELSE ref.target])
  /\ ref' = [generation |-> g, epoch |-> epoch, target |-> IF carrier THEN g ELSE ref.target]
  /\ UNCHANGED reader

AppendStable(key) ==
  /\ Usable
  /\ Lookup(manifest.index, key) = {}
  /\ manifest' \in Appended(manifest, key, ref.generation + 1)
  /\ log' = Append(log, key)
  /\ Publish(ref.epoch, TRUE)

\* A claim begins an epoch and repeats the target (a release repeats both).
Claim ==
  /\ Cardinality({g \in DOMAIN chain : ~chain[g].carrier}) < MaxClaims
  /\ Publish(ref.epoch + 1, FALSE)
  /\ UNCHANGED <<manifest, log>>

(***************************************************************************)
(* Pages.                                                                  *)
(***************************************************************************)
\* load_chunk: the frames are what the reference says.
ChunkOk(ref_, head) ==
  /\ Len(ref_.chunk) = ref_.count
  /\ \A i \in DOMAIN ref_.chunk : ref_.chunk[i].seq = ref_.first + i - 1
  /\ ref_.first + Len(ref_.chunk) - 1 = ref_.last /\ ref_.last <= head

\* The frame at seq, if the catalog leads to it.
FrameAt(m, seq) ==
  UNION {{frame \in {r.chunk[i] : i \in DOMAIN r.chunk} : frame.seq = seq} :
           r \in {r \in UNION {{refs[i] : i \in DOMAIN refs} : refs \in SeekLeaf(m.catalog, seq)} :
                    Covers(r, seq) /\ ChunkOk(r, m.head)}}

PageOf(outcome, got, next) == [outcome |-> outcome, got |-> got, next |-> next]

\* Where the loop of read_page_once is: its page so far, and the bytes in it.
Reading(page, raw) == [page |-> page, raw |-> raw, done |-> FALSE]
Done(page, raw)    == [page |-> page, raw |-> raw, done |-> TRUE]

\* Mutant: the cursor moves past an event that no longer fits.
RoundSkipping(m, limit, p, raw) ==
  IF p.next > m.head \/ Len(p.got) >= limit.events THEN {Done(p, raw)}
  ELSE {LET size == raw + Size[f.payload] IN
        IF size <= limit.bytes
        THEN Reading(PageOf("ok", Append(p.got, f.payload), p.next + 1), size)
        ELSE IF p.got = <<>> THEN Done(PageOf("too large", <<>>, p.next), raw)
        ELSE Done(PageOf("ok", p.got, p.next + 1), raw) : f \in FrameAt(m, p.next)}

\* One round: none if the frame is missing, otherwise one event more, as long as
\* both limits admit it.
Round(m, limit, p, raw) ==
  IF p.next > m.head \/ Len(p.got) >= limit.events THEN {Done(p, raw)}
  ELSE {LET size == raw + Size[f.payload] IN
        IF size <= limit.bytes
        THEN Reading(PageOf("ok", Append(p.got, f.payload), p.next + 1), size)
        ELSE IF p.got = <<>> THEN Done(PageOf("too large", <<>>, p.next), raw)
        ELSE Done(p, raw) : f \in FrameAt(m, p.next)}

\* The loop: it ends after an event for each that there is and one round more.
Collect(m, cursor, limit) ==
  LET loop[n \in 0..(m.head + 1)] ==
        IF n = 0 THEN {Reading(PageOf("ok", <<>>, cursor), 0)}
        ELSE UNION {IF s.done THEN {s} ELSE Round(m, limit, s.page, s.raw) : s \in loop[n - 1]}
  IN  {s.page : s \in {s \in loop[m.head + 1] : s.done}}

\* Mutant: a reader one event behind is taken to be at the head.
PageNearHead(cursor, limit) ==
  IF ~Usable THEN {}
  ELSE IF cursor \in {manifest.head, manifest.head + 1} THEN {PageOf("ok", <<>>, cursor)}
  ELSE IF cursor \in 1..manifest.head THEN Collect(manifest, cursor, limit)
  ELSE {PageOf("invalid cursor", <<>>, cursor)}

\* read_page_once: none when a check fails; at the head, an empty page.
Page(cursor, limit) ==
  IF ~Usable THEN {}
  ELSE IF cursor \in 1..(manifest.head + 1) THEN Collect(manifest, cursor, limit)
  ELSE {PageOf("invalid cursor", <<>>, cursor)}

Receive(r, page) ==
  reader' = [reader EXCEPT ![r] =
               [start |-> @.start, cursor |-> page.next, got |-> @.got \o page.got]]

ReadPage(r, limit) ==
  /\ UNCHANGED store
  /\ \E page \in Page(reader[r].cursor, limit) : Receive(r, page)

\* follow_page polls until there is something to return.
FollowPage(r) ==
  /\ UNCHANGED store
  /\ reader[r].cursor # manifest.head + 1
  /\ \E page \in Page(reader[r].cursor, FullPage) : page.got # <<>> /\ Receive(r, page)

\* head(): begin again after the last event there is.
SeekToHead(r) ==
  /\ Usable
  /\ reader' = [reader EXCEPT ![r] = StartAt(manifest.head + 1)]
  /\ UNCHANGED store

(***************************************************************************)
(* Specification.                                                          *)
(***************************************************************************)
Next ==
  \/ \E key \in Key : AppendStable(key)
  \/ Claim
  \/ \E r \in Reader : \/ \E limit \in Limit : ReadPage(r, limit)
                       \/ FollowPage(r) \/ SeekToHead(r)

\* A follower polls every 250 ms, and whenever a writer of its process wakes it.
Fairness == \A r \in Reader : WF_vars(FollowPage(r))

Spec == Init /\ [][Next]_vars /\ Fairness
=============================================================================
