# A TLA+ model of Comb

Comb keeps small mutable state — named refs and logs — on an object store that
offers put-if-absent and put-if-version-matches and nothing else. Every
mutation carries an operation id that its caller may present again after a
timeout, a crash or a lost reply, from any process. This directory models the
part of Comb that makes that safe, checks it with TLC on small instances, and
proves the central properties with TLAPS for every instance.

Paths below are relative to `src/crates/`.

## The system

| Component | State | Operations | What is hard | Status |
|---|---|---|---|---|
| Publication engine, `combctl/src/publish.rs` | the ref object, one intent row per operation id, the chain of commit objects | `publish` (load, resolve, attempt, ref CAS, finalize), `recover_without_intent`, `renew_lease`, `commit_at_snapshot` | two nested optimistic protocols (row CAS and ref CAS), lost replies, writes that arrive late, crashes between any two calls | most of it, in `Publish` |
| Ref mutations, `combctl/src/store.rs` | epoch, lease and target inside the ref | `set_target`, `claim`, `release`, `renew` | fence and lease are checked on a snapshot that may be stale when the CAS arrives | modelled, `Mutations`, `Register` |
| Operation ids, `comb-core/src/operation.rs` | none (the id carries its issue time) | `check_time` | a retry is gated again in each round, with a clock that moved | the gates, in `Publish` |
| Group commit, `combctl/src/log.rs` and `publish.rs` | rows of a leader and its companions, one commit for all of them | `commit_group`, `ensure_pending_intent`, `sync_companions` | a companion may be committed by somebody else after it was admitted to a batch | most of it, in `Group` |
| Log store, `combctl/src/log.rs` | a ref with a lease, the manifest it names, chunks, segments, stable-key index | `append`, `append_stable`, `steal`, `compact`, `trim_before`, `read`, `follow` | compaction and trimming change the representation under readers, appends and retries | modelled, `Log` |
| Writer sessions, `combctl/src/feed.rs` `WriterSession` | the published state, the loss token, the acquire mutex, a renewal task | `ready`, `acquire`, `append_stable`, renewal, `close` | a lease that expires by two different clocks while a publication is in flight, cancellation that takes effect later | modelled, `Session` |
| Complete feed, `combctl/src/feed.rs` `CompleteFeed` | manifest with a catalog root, an index root and the head | `open`, `head`, `read_page`, `follow_page`, `prepare_append` | three persistent structures that must agree after every append and claim | most of it, `Feed` |
| Catalog, `combctl/src/catalog.rs` | a path-copied B+tree of chunks | `append`, `seek_leaf` | node splits, sequence ranges that must tile the log | modelled, `Catalog` |
| Stable index, `combctl/src/hamt.rs` | a path-copied hash trie | `insert`, `lookup` | splits at depth, keys with one path | modelled, `Hamt` |
| Skip pointers, `comb-core/src/commit.rs`, `publish.rs` `seek_generation` | one extra digest per commit | `compute_skip`, `seek_generation`, `history_chain` | logarithmic, never overshooting | modelled, `SkipChain` |
| Bridge, `combctl/src/bridge/` | registry of feeds and sessions, requests in flight, a bounded output queue | input, output and handler tasks over stdio | limits, cancellation, failing opens, shutdown against timers | most of it, `Bridge` |
| Object cache and blobs, `combctl/src/store.rs` | local files named by digest | `put_blob`, `get_blob` | nothing is ever deleted, so nothing is stale | not modelled |
| Sweep, `combctl/src/sweep.rs` | none | `sweep` | deletion is disabled | not modelled |
| Backends, `comb-object/src/` | keys with versions | `put_create`, `put_update`, `get` | the conditional-write contract the rest relies on | the contract |
| Envelopes, digests, CLI, fault injection | none | encoding, printing | nothing concurrent | not modelled |

Callers interact only through the store. The order inside one publication is:
intent row (which base generation will be built on), uploads, the rows of
companions, the ref CAS (the only linearization point), and the rows again,
now `Applied`, as a cache. A retry that finds a pending row looks at the commit
of generation base + 1, and at no other. Stable appends have no intent row: they
are published against the very snapshot in which their key was not found
(`commit_at_snapshot`), under a lease that is looked at again before the put.

The layers: `Log` and `Session` use the engine, `Feed` is what an append of a
complete log writes (with `Catalog`, `Hamt`, `SkipChain`), and the bridge serves
feeds and one session per feed to a client. A model of one layer takes the layer
below at its word: a publication is one step in `Session`, `Log` and `Feed`
because `Publish` shows it happens at most once and answers truly, a call to a
session is one step in `Bridge`.

Correctness, component by component: an id takes effect at most once and its
receipts tell the truth (engine, group commit); effects obey fences and leases
on the content they replace (mutations); a receipt of an append names a range
that holds its events (logs); acknowledged events stay readable in order until
they are trimmed (log store); nobody appends after losing the lease, and no two
sessions believe they are the writer (sessions); lookups agree with the sequence
of appends (catalog, index, skip pointers); pages tile the log (feed); requests
for a log share one feed, shutdown ends, and success means that everything was
answered and released (bridge).

## Modules

| Module | What it is |
|---|---|
| `Mutations` | the plans of `store.rs` as functions: identity material, refusal, effect; lease renewal |
| `Register` | the abstract specification: a register whose mutations happen at once, at most once per id, admitted by the fencing rules on the content they find |
| `Publish`, `PublishProps`, `MCPublish` | the publication engine: callers, store, late writes, faults, renewals, clock; its properties and its refinement mapping to `Register`; small instances |
| `PublishInv`, `PublishProofs` | its inductive invariant and what the history of the ref adds; the proofs, that of the refinement among them |
| `Group`, `GroupProps`, `MCGroup` | group commit of the log |
| `GroupInv`, `GroupProofs` | its inductive invariant and the proofs |
| `FencedLog` | the abstract specification of writer sessions: a log behind a lock that expires |
| `Session`, `SessionProps`, `MCSession` | writer sessions, their properties and the refinement of `FencedLog` |
| `Log`, `LogProps`, `MCLog` | the log store over one ref |
| `LogInv`, `LogProofs` | its inductive invariant; the lemmas about its manifests and plans, and the proofs |
| `Recursion` | induction over the natural numbers without an operator parameter, and what it gives for flattened sequences |
| `Catalog`, `Hamt`, `SkipChain` | the pure algorithms, as recursive functions over depths, heights, positions and hops |
| `Feed`, `FeedProps`, `MCFeed` | the complete feed over the three of them, with readers and followers |
| `FeedInv`, `FeedProofs` | its inductive invariant, and the proofs about it and about the three algorithms |
| `Steps` | that a recursion from i - 1 to i, or from n to any smaller number, is well defined |
| `Bridge`, `BridgeProps`, `MCBridge` | the stdio bridge |
| `SessionInv`, `SessionProofs` | the inductive invariant of `Session` and the proofs |
| `BridgeInv`, `BridgeProofs` | the bridge's inductive invariant and the proofs |

### Publish

`ref`, `rows` and `objects` are the bucket; `refVersion` and `rowVersion` are the
backend's version tokens; `wire` holds conditional writes nobody waits for any
more (a lost reply, a dropped future, a dead process), each of which may reach
the store at any later time. `pc`, `call`, `seen`, `base`, `draft` and `result`
are the locals of each caller of `publish`; `reply` and `receipts` are what
callers were told.

There is one action per awaited backend call: `LoadIntent` (`load_intent`, the
time gate and `check_intent`), `TryCachedApplied`, `RecoverWithoutIntent`,
`ReadBase`, `CreateIntent`, `ResolvePending`, `BeginAttempt` (the second read of
the head and `prepare`), `WriteIntent`, `Upload`, `CasRef`, `FinalizeIntent`.
`Abandon` is a backend error, a dropped future, a crash, or the end of the 128
attempts. `Tamper` deletes or forges an intent row the way the drills in
`combctl/tests/retry_drills.rs` do.

Simplifications, beyond those at the top of the module:

* the clock read at the top of the loop and the read of the row that follows it
  are one step; so are, in `FinalizeIntent`, the reload of the row and its
  overwriting (another writer getting in between is the disjunct in which
  nothing is written);
* walking the commit chain is one step: commits are immutable, so what the walk
  finds is fixed by the head it starts from;
* a commit digest is the sequence of commits up to it, so two commits are equal
  exactly if their contents and their ancestors are. `by` stands for the
  timestamp that tells two attempts apart;
* rows are tampered with only while nobody works on their id and no write for
  it is under way. A row deleted under a running attempt is outside what the
  code promises: the row is what protects the attempt;
* ids of stable keys, which have no intent row, belong to the log store.

### Group

A task of `Group` runs `commit_group`: it admits the items of a batch one by one
(`ensure_pending_intent`), then runs the publish loop with the first pending
item as leader; `SyncLoad` and `SyncPut` are `sync_companions`. A plain append is
a task that starts with one pending item. The two loops share their actions and
differ where `Admitting` says so. `log` is the sequence of commits, each the
sequence of its admissions with their ranges; the chunks are derived from it
(`Events`).

### Session

One element of `Sessions` is one `WriterSession` of one process, with a clock
ahead of the common one by `Skew`. `Task`s are calls on it. `state`, `loss`,
`mutex` and `renewer` are the watch channel, the loss token, the acquire mutex
and the renewal task. A snapshot of the ref is the membership of its reader in
`fresh`: a put succeeds exactly if the reader is still in there, and every
successful put empties it, so the model needs no version numbers. `wire` holds
the values of puts whose caller has stopped waiting; `Land` lets one arrive.

| Code | Action |
|---|---|
| `append_stable`: lookup, second snapshot, `enforce_live_lease`, put | `Look`, `Check`, `Issue`, `AppendPut`, `Interrupted` |
| `acquire`, `active_epoch`, the claim loop with its budget | `Acquire`, `ClaimRead`, `ClaimPut`, `Confirm`, `GiveUp` |
| `spawn_renew`, `renew_owned_lease` | `Wake`, `RenewRead`, `RenewPut`, `RenewTimer`, `RenewFails`, `Notify` |
| `lose`, `close` | `Lose`, `Close`, `ReleaseRead`, `ReleasePut` |
| dropped futures, errors, process death, delayed puts | `Abandon`, `Crash`, `Land` |

An abort of the renewal task takes effect at its next await: a renewal that has
its answer in hand (`notify`) becomes `lastnotify` and still publishes.

### Log

The ref, the manifest it names (chunks, segments, trim point, feed mode, stable
index), and tasks that go through read, plan and put. Operations with an id are
looked up in the history of commits first, which is what the engine does with
one; stable appends use the index of the manifest. `Read`, and `Poll` with `FollowRead`, are
`read` and `follow`: the head is polled and the manifest read at different
instants. `Openable` and `Domain` decide what a complete and a trimmable handle
make of a manifest of either kind. The actions are `Publish` (an operation with
an id), `Inspect` and `Recover` (what `compact` does around it), `Look` and `Put`
(a stable append), `Land` and `Crash` for puts nobody waits for, and `Poll` and
`FollowRead`.

### Feed, Catalog, Hamt, SkipChain

`AppendStable` and `Claim` are one publication each: they extend the catalog, the
index and the commit chain of the current manifest by the operators of the three
modules, which follow the code's recursion (right-spine copy and split in
`catalog.rs`, `insert_at` and `split` in `hamt.rs`, `compute_skip` and
`seek_generation` in the chain). A loop or a recursion of the code is a function
from the number of its steps to where it is then, up to its bound: `Spine` goes
down to the last leaf and back up, `Along` gives the nodes of a walk by depth,
`Rebuilt` the copies on the way back, `Seek` the commit after each hop,
`Collect` the page after each round. The history variable `log` is what everything
is compared with. A reader pages through the feed with changing limits (`ReadPage`) and may begin
again at the head (`SeekToHead`); `FollowPage` is `follow_page`.

### Bridge

Request i is the i-th frame read. `pc` is how far its handler has come, `held`
the slot it has a reference to, `registry` and `slot` the registry with its
`OnceCell`s, `queue` the output channel. `reader` and `writer` are the two tasks
that `run` joins, and the stages of `reader` after `grace` are the shutdown:
drain, cancel, drop the handlers, close, release the sessions. Every timer is an
action that may be taken whenever its code is waiting (`Timer`).

## Runs

All configurations bound the number of calls, frames or publications, so a run
ends in states where nothing is left to do: `CHECK_DEADLOCK FALSE` throughout.

| Run | Instance | Shows |
|---|---|---|
| `publish_retry` | 2 callers, 3 calls over two ids, one of them also misused for another target; 2 faults, 1 tampered row | all safety properties and the refinement of `Register` |
| `publish_fence` | 2 callers, 3 calls: a claim, a steal, a fenced and an unfenced write; 1 renewal, clock 0..1, leases of length 1 | the refinement, so every effect obeys the fencing rules |
| `publish_live` | 2 callers, 3 calls: claims and releases; the window closes at clock 1 | every call returns |
| `group_race` | 2 group writers, 3 batches that share a companion, 1 fault, 2 rounds per loop | at most once, true ranges, nothing fails closed |
| `group_append` | 1 group writer, 1 appender with 2 appends that reuse the companion's id, 1 fault, 1 deleted row, a duplicate and a conflict inside the batch | the same, with rows that disappear |
| `group_serve` | 1 group writer, 3 batches, 2 foreign appends, 3 rounds per loop, no faults | a batch that never converges is served when it is submitted again |
| `group_reuse` | 1 batch, 1 append of the companion's id with the leader's payload | a violation, see below |
| `session` | 2 sessions, one ahead by the whole slack; 2 concurrent calls on the first, 1 on the second; 3 calls, 1 fault, leases of 3 ticks, slack and renewal period of 1 | mutual exclusion of writers, one append per key, silence after loss, the refinement of `FencedLog` |
| `session_lost` | the same | a violation, see below |
| `log` | 2 interchangeable tasks, 5 calls out of 9 (two appends, one of them through handles of either mode, two stable appends of one key, a takeover, a compaction through handles of either mode, a trim), 1 fault, 1 follower, clock 0..1 | reads, followers and answers are true, keys are appended once, epochs have one writer, a complete log stays complete |
| `feed` | 6 keys, two with the same path and one that differs from it only at the deepest level; nodes of 2 items, trees of height 2; 6 generations, 2 of them claims; 1 reader with 3 page limits | catalog, index and chain agree with the log, pages tile it, a follower catches up |
| `bridge` | 3 frames out of 9, 2 permits, 1 place in the queue, 2 open logs for 3 names | one slot and one session per log, no leaks, a clean exit is clean, shutdown without timers |

Properties of `Publish`: `AtMostOnce`, `ReceiptsAreCommits` (a receipt is what a
commit of the live history recorded), `FirstDeliveryOnce`, `HistoryIsDurable`
(no ref or commit points at something not uploaded), `NeverFailsClosed` (no
healthy store answers `RecoveryFailed`), `ConflictIsJustified`, `RegisterSpec`
(the refinement) and `EveryCallReturns`.

Properties of `Group`: `AdmittedOnce`, `AcksAreWritten` (the acknowledged range
holds exactly the submitted events), `NeverFailsClosed`, `ResubmissionServes`,
and `DifferentRequestConflicts`, which fails.

Properties of `Session`: `KeyOnce`, `OneActiveWriter` (no two sessions consider
themselves the writer at one instant), `ActiveBelief` (what a session believes
of its lease holds of the ref), `LostIsSilent` (a session whose token is
cancelled starts no publication), `FencedLogSpec` (the refinement), and
`LostStaysLost`, which fails.

Properties of `Log`: `ReadsAgree` (a read from anywhere returns the published
events, or is refused below the trim point), `FollowerTiles`, `AnswersStand`
(the answer to an id is what its publication recorded, also for a compaction
that leaves nothing to compact), `StableOnce`, `EpochHasOneWriter`,
`StaysComplete` (a complete log stays so, its floor stands, and its index, if it
has one, only gains entries, whatever handles appends, compactions and trims come
through; without an index no event is added to it).

Properties of `Feed`: `IndexAgrees`, `CatalogAgrees` and `ChainSeeks` compare the
three structures with the history (and bound the hops of a seek); `PublishedValidates` says that a reader's
validation accepts everything that was published, `RefusedOnlyForCause` that an
append is refused only where the code's limits say so; `PagesTile` and
`FollowerCatchesUp` are about readers.

Properties of `Bridge`: `OneSlotPerLog`, `NoSlotLeaks`, `CleanExit`,
`EndsWithoutTimers`.

Why the bounds are enough to be interesting: with two callers and two faults a
write can be abandoned, its id retried and committed by another caller, the row
tampered with, and the abandoned write can land at any of these points; the
third call is the retry that must notice. With three batches over a shared
companion each item is a leader, a companion, and a retry. In `session` a lease
can be renewed once and still expire within the horizon, the second session can
take over by its fast clock while the first believes in its slow one, and a put
abandoned by the fault can land before and after. In `log` five calls leave room
for appends, a trim or a compaction whose answer is lost, and its retry. In
`feed` five appends split the leaf, then the branch above it, and raise the tree
twice; the keys split the trie at each of its levels, and one of them must be
refused because another has its path. In `bridge` three frames are the fewest with which one opens a feed, one
waits for it and one is refused for each of the reasons the code has. `MaxClock`, the
window and lease lengths are the smallest that make a lease live at one instant
and expired at the next.

### Fairness

* `publish_live`: each caller's next step is weakly fair, which is what the
  runtime guarantees for a future that is polled. There is none on faults, late
  writes, renewals or the clock. A caller can lose races only to others that
  make progress, so with finitely many calls each returns; the 128-round cap of
  the code is not needed for that.
* `feed`: `FollowPage` is weakly fair for each reader, a follower that is polled.
  Nothing else is: the log may or may not grow.
* `bridge`: handlers, the two tasks, `Close` and the releases are weakly fair
  (tasks that can run are run, the backend answers, the client reads). No timer
  is, nor is the end of input: `EndsWithoutTimers` says that from the end of
  input on the bridge stops by itself.
* `session` and `log` are safety only.

### Findings

`group_reuse` violates `DifferentRequestConflicts`. `docs/protocol/retry.md` says
that under a used id "a different material request conflicts".
`recover_without_intent` decides this by comparing the request with the header's
request, which is the leader's, or with the id's own admission. A caller that
presents a companion's id with the leader's payload, and that loaded no row
because the group had not created it yet, finds the commit, passes the first
comparison, and is told the companion's range as its own. The rows catch every
other interleaving: with any other payload `group_append` holds.

`session_lost` violates `LostStaysLost`. `docs/testing/foundation-bridge.md:116`
says "A lost session stays lost for new publication", and `r2-contract.md:466`
(under `docs/implementation/reliable-log/`) "A lost session never silently
reacquires." `lose` cancels the token, aborts the renewal task and publishes
`Lost`; but a renewal task that holds the store's answer at that moment is not at
an await and goes on to send `Active` (`combctl/src/feed.rs:1289`). From then on
`state()` says `Active` and `ready()` hands out the epoch, until the deadline
passes or an append meets the cancelled token. Nothing is published meanwhile:
`LostIsSilent` and `OneActiveWriter`, which looks at the token too, hold.

A related behaviour is known and recorded as N1 in
`docs/review/reliable-log-r1-final.md`: a group publication whose companion rows
are at another base than its leader aborts every round until it gives up.
`group_serve` checks the sentence of N1 that makes it tolerable, that the next
submission is served.

Two observations that no document contradicts: `history_chain` reports the ref's
present target with every entry, not the target of its generation
(`publish.rs:1432`), and `compact`
called through a complete handle on a trimmable log (`combctl/src/log.rs:1067`)
leaves a complete log without an index, possibly one that has been trimmed, which
`prepare_events` refuses to append to from then on (`combctl/src/log.rs:731`).
`log` does call it that way, and `StaysComplete` states what becomes of such a
log: it is never written to, trimmed or opened as trimmable again. The command
line compacts through trimmable handles only (`main.rs:560`), which a complete log
refuses, so there a complete log is not compacted at all.

## Proofs

| Theorem | Statement |
|---|---|
| `PublishProofs!PublishTyped` | `Spec => []TypeOK` |
| `PublishProofs!PublishInductive` | `Spec => []Inductive` |
| `PublishProofs!PublishAtMostOnce` | `Spec => []AtMostOnce` |
| `PublishProofs!PublishNeverFailsClosed` | `Spec => []NeverFailsClosed` |
| `PublishProofs!PublishRecorded` | `Spec => []Recorded` |
| `PublishProofs!PublishReceiptsAreCommits` | `Spec => []ReceiptsAreCommits` |
| `PublishProofs!PublishFirstDeliveryOnce` | `Spec => []FirstDeliveryOnce` |
| `PublishProofs!PublishHistoryIsDurable` | `Spec => []HistoryIsDurable` |
| `PublishProofs!PublishHistoryGrows` | `Spec => [][Grows]_vars` |
| `PublishProofs!PublishConflictIsJustified` | `Spec => ConflictIsJustified` |
| `PublishProofs!PublishImplementsRegister` | `Spec => RegisterSpec` |
| `GroupProofs!GroupInvariant` | `Spec => []GroupInductive` |
| `GroupProofs!GroupTypeOK` | `Spec => []TypeOK` |
| `GroupProofs!GroupAdmittedOnce` | `Spec => []AdmittedOnce` |
| `GroupProofs!GroupNeverFailsClosed` | `Spec => []NeverFailsClosed` |
| `GroupProofs!GroupAcksAreWritten` | `NotTheLeaders` implies `Spec => []AcksAreWritten` |
| `GroupProofs!GroupConflicts` | `NotTheLeaders` implies `Spec => []DifferentRequestConflicts` |
| `LogProofs!LogInvariant` | `Spec => []LogInductive` |
| `LogProofs!WritersAreFenced` | `Spec => []EpochHasOneWriter` |
| `LogProofs!ReadsAreTheLog` | `Spec => []ReadsAgree` |
| `LogProofs!FollowersAreGivenTheLog` | `Spec => []FollowerTiles` |
| `LogProofs!AnswersAreRecorded` | `Spec => []AnswersStand` |
| `LogProofs!StableAppendsOnce` | `Spec => []StableOnce` |
| `LogProofs!CompleteStaysComplete` | `Spec => StaysComplete` |
| `BridgeProofs!BridgeTypeCorrectness` | `Spec => [](TypesInv /\ HoldingInv)` |
| `BridgeProofs!BridgeRegistry` | `Spec => [](TypesInv /\ HoldingInv /\ RegistryInv)` |
| `BridgeProofs!BridgeOneSlotPerLog` | `Spec => []OneSlotPerLog` |
| `BridgeProofs!BridgeNoSlotLeaks` | `Spec => []NoSlotLeaks` |
| `BridgeProofs!BridgeInductive` | `Spec => []Inductive` |
| `BridgeProofs!BridgeCleanExit` | `Spec => []CleanExit` |
| `SessionProofs!SessionInductive` | `Spec => []Inductive` |
| `SessionProofs!SessionTypeCorrectness` | `Spec => []TypeOK` |
| `SessionProofs!SessionKeyOnce` | `Spec => []KeyOnce` |
| `SessionProofs!SessionActiveBelief` | `Spec => []ActiveBelief` |
| `SessionProofs!SessionOneActiveWriter` | `Spec => []OneActiveWriter` |
| `SessionProofs!SessionImplementsFencedLog` | `Spec => FencedLogSpec` |
| `SessionProofs!SessionLostIsSilent` | `Spec => LostIsSilent` |
| `FeedProofs!FeedInvariant` | `Spec => []FeedIInv` |
| `FeedProofs!IndexIsPartialFunction` | `Spec => []IndexAgrees` |
| `FeedProofs!CatalogIsSequence` | `Spec => []CatalogAgrees` |
| `FeedProofs!PublishedIsAccepted` | `Spec => []PublishedValidates` |
| `FeedProofs!EveryCommitIsFound` | `Spec => []ChainSeeks` |
| `FeedProofs!RefusalsHaveCause` | `Spec => []RefusedOnlyForCause` |
| `FeedProofs!PagesTileTheLog` | `Spec => []PagesTile` |

They hold for every value of the constants that satisfies the named `ASSUME`s,
each of which the run of its module evaluates:

* `Publish`: any sets of callers, ids, requests, writers and targets, any
  time-to-live and any bounds. Requests are well typed, the bounds are naturals,
  the absent value is none of the present ones.
* `Group`: any sets of group writers, appenders and ids, any events, batches and
  single appends, and any bounds on rounds, batches, appends, faults and deleted
  rows. A payload list is not empty (`PayloadAssumption`; `check_payloads` refuses
  an empty one before anything else looks at it), nor is a batch
  (`BatchAssumption`; `spawn_feed` waits for the first submission).
* `Log`: any sets of invocations, followers, jobs, payloads, writers and
  timeouts. Jobs are well typed (`JobAssumption`) and come through handles of
  either mode, an operation id is no stable key (`OpAssumption`, two
  kinds of `OpIdentity`), and a follower starts at a sequence number
  (`StartAssumption`).
* `Bridge`: any number of logs, frames, permits, places in the queue and open
  feeds, and any frames a client may send (a frame that is neither a greeting nor
  refused names a log).
* `Session`: any sets of sessions and calls, any valid lease policy
  (`PolicyAssumption`, which is `LeasePolicy::validate` with a renewal period of
  one tick), and clocks that differ by no more than the slack (`SkewAssumption`);
  a call belongs to one session and is an append, a `ready` or a `close`
  (`TaskAssumption`).
* `Feed`: any sets of keys and readers, any payload sizes and page limits of which
  one admits every payload (`LimitAssumption`); nodes of at least two items and
  trees of any height (`WidthAssumption`; the code has 32 and 8); path digests of
  any length over any slots, keys with equal paths included (`PathAssumption`; 52
  slots of five bits); chains of any length for which the walks do not give up
  (`HopsAssumption`: half the square of the number of digits is at most
  `MaxHops`). The code's generations are u64, so a seek takes at most 64 * 65 / 2 =
  2080 hops, of the 10 000 that `MAX_SEEK_HOPS` allows.

The two theorems about receipts of `Group` have a hypothesis besides,
`NotTheLeaders`: no id of a batch is also presented with the payload of another
submission of that batch. The instances of `group_race`, `group_append` and
`group_serve` satisfy it; `group_reuse` does not, and shows that the statement is
false without it.

### Publish

`AtMostOnce` is not inductive: nothing in it speaks of the writes still under
way. The invariant `Inductive` adds, in order:

1. `TypesInv`: types, what each label knows of its caller's locals, and that a
   ref value counts its commits;
2. `RowsOK`: a pending row names a base at or below the head, and if its
   operation is committed then at base + 1 (`Covers`) — which is why looking
   there is enough;
3. `LiveCas`: a ref write that can still succeed, issued or on the wire, extends
   the current head by one commit of an operation that is not yet committed and
   whose row is pending at the current head;
4. `MayWrite` and `PutOK`: a row write that can still succeed keeps `RowsOK`;
   stale row writes are excluded by their version, which is why `CallerOK`
   relates the version a caller saw to what it concluded from the row.

`PublishProofs` proves 1 action by action, then shows how a row write and a ref
write change what the invariant says of everybody else, and takes the actions
one at a time; the ref CAS and the late ref write share one lemma, as do the
four row writes.

Receipts and the refinement need more than `Inductive` says, since it speaks of
the ref and the rows only. `Recorded` adds: the commits of the live history are
uploaded, and so are those below a ref write that can still succeed
(`Durable`); a caller at `finalize` holds a receipt that repeats what a commit of
the live history recorded, and the first delivery only of a commit it built
itself (`IsReceipt`); and every ref write that can still succeed, issued or on
the wire, is the effect of some caller's request on the very ref it replaces, at
a clock value that has been (`Effect`). `RefMoves` says what a step does to the
ref: nothing, a renewal, or such an effect. With it a step of `Publish` is a
mutation of `Register`, a renewal, or a stutter, which is
`PublishImplementsRegister`, and the history only grows (`PublishHistoryGrows`),
so receipts stay true. `PublishConflictIsJustified` needs only what a caller
found at the step in which it is refused.

### Group

`AdmittedOnce` is as far from inductive as `AtMostOnce`, and there are more
writes to account for: one for the row of each item, one for the commit.
`GroupInductive`, in `GroupInv`:

1. `Types`, and `LogOK`: `AdmittedOnce`; the head sequence is the number of
   events; a commit is of one batch or of one append (`OneSource`); an admitted
   range holds the request it was admitted for (`Written`);
2. `RowOK`: a row names a base at or below the head and the request of whatever
   admitted its id; if it is pending, its operation is committed at base + 1 or
   nowhere; if it is applied, somewhere;
3. `MayPut` and `MayCommit`, of each write on the wire and of each a task may
   issue from where it stands: a row write that still matches keeps the request,
   raises the base only of an operation that is not committed, and does not turn
   an applied row back; a commit that still matches is `Prepared` from the head,
   and the row of each of its items is pending at that head (`Synced`). The second
   half is what `sync_companions` is for;
4. `Shape` and `Phase`, of each task: the items are those of a batch, the pending
   ones have rows for their payloads, and each label's knowledge of the row it
   has seen, of the draft and of the companions already synced. It is worded so
   that it lapses as soon as the head moves (`Len(log) = base => ...`);
5. `Admitted`: a receipt is the range of an admission; and `NeverFailsClosed`.

`Stays` says what a step may do to the store as far as a set of ids is
concerned. Three lemmas show that it holds of a commit that lands, of a row write
that lands and of a row that is deleted (`CommitLands`, `RowLands`, `RowLoses`),
and that these keep 1 and 2; `TaskStays` and `MessageStays`, that whoever is not
concerned keeps what it knows. `Stepped` puts them together: one action of one
task preserves everything if its task ends in order and its receipts are
admitted. Then there is one lemma per action, `LoadIntentKeeps` to
`LoseKeeps`. The ranges are `FlattenSeq`s; what a prefix of them adds up to is
from `Recursion`.

`GroupReceipts` adds that the admission behind a receipt is of the payload the
producer presented (`Matched`). This is where `NotTheLeaders` comes in: a commit
is taken for an item's because the row says so, which is right by 2, or because
`SameRequest` does, and that compares with the leader's payload first.

### Log

No promise of `Log` is inductive, because appends and compaction replace the
very pieces a read is answered from. `LogInductive`, in `LogInv`:

1. `Types`, including which job an invocation may be at which label for;
2. `HeadInv`: segments and chunks lie side by side and hold the whole log
   (`Tiled`), and the head is its length;
3. `IndexInv`: a log with an index is complete and was never trimmed, each entry
   is an event and the commit that wrote it, and each keyed event has an entry; no
   key is in the log twice; a log without an index, be it trimmable or complete,
   has no keyed events;
4. `WriterInv` and `OnceInv`: no event is of a later epoch than the ref, those of
   its epoch are its lease holder's; commits are counted by the generation and
   no id has two;
5. `DraftInv`: a stable append that can still be put, by its caller or from the
   wire, was prepared against this very ref (`Fits`) and its key is not in the log;
6. `AnswerInv` and `FollowerInv`: an answer to an id is what its commit recorded,
   up to the commits it knew of; a follower has the log up to its cursor.

`LogProofs` first has one lemma for each operator on pieces and each plan, from the
shape of the data alone: what is read out of a tiling is the log from there on
(`ReadTiles`), merging the chunks into a segment keeps it a tiling
(`MergedTiles`, `TilesMerge`), and so does a chunk at the end (`TilesGrow`).
It then shows what one commit, whichever
plan made it, does to the store, to drafts, answers and followers, and what a
step without one leaves alone; the actions are then cases of one or the other.
`CompleteStaysComplete` takes the commits apart once more: an append to a complete
log finds an index or prepares nothing (`AppendsComplete`), and every other plan
keeps index, floor and mode (`Kept`), except that a compaction through a complete
handle makes the mode complete (`MergedInto`).

### Bridge

`HandlerSteps` sorts what a handler may do into four kinds, whatever the request:
let go of its slot (`LetGo`), take one (`Take`), work on the one it holds
(`Work`), send its response. All proofs go by these kinds and the actions of the
tasks (`NextSteps`). The invariant, in `BridgeInv`:

1. `HoldingInv`: a request holds a slot exactly from its dispatch to its answer,
   and the slot was created for the same log; what is registered for a log was
   too;
2. `RegistryInv`: call a slot alive if its feed is open or somebody holds it.
   At most one slot of a log is alive; until `close` empties the registry
   (`Serving`) it is the one registered, and nothing else is. This is what makes
   `FeedSlot::drop` right: it may remove a slot only as the last holder of one
   that was never opened, and then nobody can be left with a second one;
3. `AnswersInv`: where the response to each frame is: still to come, in the
   queue, or written, never in two of these places. The output task ends well
   only if no sender is left, and a handler that was aborted has left a failure;
4. `ReleasesInv`: once the registry is closed, a session that is still live is
   held by a request, and then a failure has been noted; a session is given up
   without a release only after a failure.

`CleanExit` follows at the step in which `run` returns: both tasks ended well, so
there is no failure, no active request and an empty queue.

### Session

None of the promises is inductive: they say nothing of the puts under way. The
invariant, in `SessionInv`:

1. `PhaseInv`: a session is acquired once, by the call that has the mutex; it has
   a renewal task only after that; a `close` is alone in its session;
2. `StoreInv`: every value that may still be put, whether its caller waits for it
   or not, continues the ref in one of four ways (`Puttable`). It takes over a
   lease that nobody relies on (`Takes`), prolongs the lease of the ref (`Keeps`),
   frees the lease of a session whose token is cancelled (`Frees`), or appends one
   entry with a new key under the lease of the ref (`Adds`). A session with a
   claim on the wire believes nothing yet (`Unsure`), so a claim that lands late
   cannot contradict a belief;
3. `BeliefInv`: what a session whose token is not cancelled believes of its lease
   is `Justified`: as long as the epoch is the one it acquired the lease is its
   own and lasts at least as long, and once the epoch has moved on the deadline
   it believes in is within the slack. This is where the clocks enter: whoever
   takes over has seen the lease expire on its own clock, which is ahead of the
   common one by at most the slack.

The first part of `SessionProofs` proves the types and 1, action by action, and
that every value put is `Puttable` (`ValuePuttable`). The second says once what any step may do to
a call, a renewal task and a session (`TaskStep`, `RenewerStep`, `StateStep`) and
to the store (`StoreSteps`: the ref stays, or becomes one puttable value and every
snapshot is void), and proves 2 and 3 from these.

`OneActiveWriter`: of two sessions that consider themselves the writer, both are
within their deadline less the slack, so both are of the present epoch, whose
lease is of one of them. `SessionImplementsFencedLog`: the four kinds of values are
the four steps of `FencedLog`, a receipt names an entry that is there, and all other
steps stutter. `SessionLostIsSilent`: a call issues its append only after a look at
the token, and what is silent has nothing on the wire.

### Feed, Catalog, Hamt, SkipChain

What the four properties of the structures say of a manifest is not enough to
append to it: that every event is found does not tell that the tree has room, nor
that no other key is on the path. `FeedIInv`, in `FeedInv`:

1. `TypeOK`, and `ChainInv`: every commit names the one before it and its skip
   target, the generation counts the commits, the head commit binds the ref;
2. `CatalogInv`: the catalog is the root of a tree over the chunks of the log
   (`Rooted`). `Trees` are built by height, from runs of at most `Items` children
   that lie side by side, all but the last of which are full (`Packed`). That is
   why a catalog that cannot grow holds `Capacity[MaxHeight]` chunks, and not
   merely some node of it is full;
3. `IndexInv`: on every path, at every depth, there is a branch of that depth
   and prefix, or a leaf of an event whose path agrees so far, or nothing
   (`Shaped`); and every event is on its own path (`Holds`). The events are those
   of the log with the generations that the chain gives them: the i-th event is
   by the i-th commit that carries a manifest;
4. `ReaderInv`: a reader has what lies between its start and its cursor.

`FeedProofs` goes from the algorithms to the feed.

* Skip pointers. A hop goes from g to g without its lowest bit, or, if that is
  below the target, to g - 1. In a block of 2^k generations any earlier one is
  reached within k (k + 1) / 2 hops: at most k down to the start of the upper half
  (`ClimbDown`), one across, the rest in the lower half (`SeekDown`).
  `ComputesSkip`: so the pointer of the next commit is found, for which the
  pointers of the earlier ones suffice.
* Catalog. A tree of height h has at most `Capacity[h]` chunks and its span is
  theirs (`TreesOk`); the search ends in the one leaf that covers a number
  (`SeekArrives`); the right spine grows level by level into one tree, or a full
  one and a sibling (`GrowsLeaf`, `GrowsBranch`, `SpineGrows`), so an append
  yields a tree over one chunk more, or the catalog was full (`CatalogGrows`).
* Index. An insertion copies the branches on the path of the entry and ends in
  its leaf (`RebuiltCopies`, `ThreadWalk`): below the last branch
  (`InsertsBelow`), or beside another leaf, from which it parts at the first slot
  in which the paths differ (`InsertsBeside`), or not at all if they are the same
  (`Inserts`). A walk down any path follows the copies as long as it shares the
  path, and then the old nodes (`PartsOff`), so the new index is `Shaped` and
  `Holds` one event more (`ExtendsShaped`, `ExtendsHolds`).
* Feed. Publication keeps the chain (`ChainStep`) and who wrote which event
  (`AppendedByStep`); `AppendKeeps`, `ClaimKeeps`, `ReceiveKeeps` and
  `SeekToHeadKeeps` take the actions one at a time. A page is an induction over
  the rounds of the loop (`RoundReads`, `Collects`).

A recursive function of TLA+ is a `CHOOSE` of which nothing is known until some
function satisfies its equation. `Steps` proves that one does, by induction over
sets of numbers, for any base and step, which are its constants; each recursion
is an instance of it, with the remaining parameters in `p`.

The bound of `ChainSeeks` is quadratic in the digits: from 15 to 1 the pointers
take 9 hops, more than twice the digits. Early designs promise O(log n) (for
instance `docs/implementation/reliable-log/candidate-a.md:140`);
`synthesis.md:22` there withdraws that in favour of a bound that is stated and
measured, and the code relies on no more than its 10 000.

### Flattened sequences

`FlattenSeq` is what ranges and reads are made of, and it is recursive. The
library's induction takes an operator as a parameter; `Recursion` does without,
by an induction over sets of numbers (`UpTo`: a subset of `0..n` that has 0 and
is closed under successor is all of it). It proves that `FlattenSeq` unfolds from
the left, what its elements are, that it appends, and that a prefix of the
sequences flattens to a prefix.

### Only model-checked

* Liveness: `EveryCallReturns`, `FollowerCatchesUp`, `EndsWithoutTimers`.
  Arguments from fairness need `ENABLED`, which the prover does not handle.
* `ResubmissionServes` of `Group`. It is a safety property about a run without
  faults in which everything has been submitted, and rests on counting: a round
  is lost only to another task's commit, and with `MaxAttempts` rounds there are
  not enough of them. The invariant would have to relate the rounds left of every
  task to the commits the others can still make, and it holds only for bounds in
  the right relation.

## Plan

What is left, in the order of what it would add:

1. A proof of `ResubmissionServes`.
2. The batching window and channel in front of `commit_group`.
3. Deadlines inside a page read, and the size caps of single objects in `Feed`.
4. Three tasks in `log`, a second follower.

## Not modelled

* The object cache and blobs: a read-through cache over content-addressed
  objects. An entry that does not hash to its name is read again from the
  backend, and nothing deletes objects, so no entry is ever stale.
* Sweep: deletion is disabled (`combctl/src/sweep.rs:45` refuses it); what is
  left reports.
* Envelope, digest and canonical encodings: pure; a digest is an injective name.
* CLI and configuration: parsing and printing around one library call each.
* The backends below their conditional-write contract: S3 signing, file locking.
  The local backend's version token is a hash of the content, the models take
  versions as counters. Ref values are never written twice, generations and
  timestamps see to that; but a row that is rewritten unchanged keeps its version
  there, so that a conditional write may succeed on that backend where the model
  lets it fail and its caller retry.
* The fault-injection backends: their faults are actions here.
* An own put of the ref that lands and is still answered with 412, because the S3
  client has sent it twice, is no action of its own: to `Publish` it is a lost
  reply and a new call (`Abandon`, `Land`, `Start`).
* In the bridge: fields of requests and responses and their codes; panics in a
  handler and errors of reading the input, which only lead to an exit with an
  error; what one call does to its feed or session is one step.
* In the session: the 16 rounds after which a renewal gives up; in the model a
  renewal ends without an answer by a fault.
* In the log store and the feed: payload bytes beyond the size a page limit
  looks at, object size caps, the in-process wake-up that only shortens the poll
  of a follower, `reject_v1`.
* u64 overflow, guarded by `checked_add` and out of reach.
