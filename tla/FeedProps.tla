------------------------------ MODULE FeedProps ------------------------------
(***************************************************************************)
(* What the complete feed promises.                                        *)
(***************************************************************************)
EXTENDS Feed

Logged == {log[i] : i \in DOMAIN log}

\* The hash trie is the partial function it stands for: a key is found exactly
\* if it was appended, with the position and the generation of that append,
\* whatever splits and copies of branches lie between (hamt.rs: lookup,
\* insert_at, split).
IndexAgrees ==
  /\ manifest.index.entries = Len(log)
  /\ \A key \in Key : LET found == Lookup(manifest.index, key) IN
       IF key \in Logged
       THEN \E i \in DOMAIN log, g \in DOMAIN chain :
              /\ log[i] = key
              /\ chain[g].carrier
              /\ Cardinality({h \in 1..g : chain[h].carrier}) = i
              /\ found = {[key |-> key, first |-> i, last |-> i, generation |-> g]}
       ELSE found = {}

\* The B+tree is the sequence it stands for: every event of the log is found
\* at its position, nothing outside of it, and every node on the way is one
\* that a reader accepts (catalog.rs: append_at, seek_leaf, validate_children).
CatalogAgrees ==
  /\ \A seq \in 1..Len(log) : FrameAt(manifest, seq) = {[seq |-> seq, payload |-> log[seq]]}
  /\ SeekLeaf(manifest.catalog, 0) = {} /\ SeekLeaf(manifest.catalog, Len(log) + 1) = {}
  /\ \A root \in manifest.catalog :
       ValidTree(root.node) /\ root = RootOf(root.node) /\ root.chunks = Len(log)

\* Nothing that was published is refused by the checks made on reading it:
\* the head commit binds the ref's target, also across claims and releases
\* that only repeat it, the manifest validates, and so does the whole index
\* (feed.rs: bind_published_target, validate_complete_manifest; hamt.rs:
\* load_node, check_root_shape).
PublishedValidates ==
  /\ Usable
  /\ ValidIndex(manifest.index, [seq |-> manifest.head, generation |-> ref.generation])

\* Any earlier commit is found from any later one, and never by giving up: the
\* hops are bounded by half the square of the number of binary digits, and
\* hence by MAX_SEEK_HOPS.  The parents list the most recent generations in
\* order (publish.rs: compute_skip, seek_generation, history_chain).
ChainSeeks ==
  \A start \in DOMAIN chain : \A target \in 1..start :
    /\ \E found \in Seek(chain, start, target) :
         found.digest = target /\ found.hops <= HopBound(Log2[start] + 1)
    /\ History(chain, start, target) = [i \in 1..target |-> start + 1 - i]

\* An append is refused for two reasons only: the catalog is as high and full
\* as it may get, or another key has the very same path (catalog.rs: append;
\* hamt.rs: split).
RefusedOnlyForCause ==
  \A key \in Key \ Logged :
    Appended(manifest, key, ref.generation + 1) = {} =>
      \/ \E other \in Logged : Path[other] = Path[key]
      \/ Len(log) >= Capacity[MaxHeight]

\* Pages tile the log: whatever the limits, and however the log grows between
\* two pages, a reader is given every event from where it began up to its
\* cursor, once and in order, and no read fails an integrity check or refuses
\* a cursor that an earlier page returned (feed.rs: read_page_once).
PagesTile ==
  \A r \in Reader :
    /\ \A limit \in Limit : \E page \in Page(reader[r].cursor, limit) :
         page.outcome \in {"ok", "too large"}
    /\ reader[r].got = SubSeq(log, reader[r].start, reader[r].cursor - 1)

\* A follower that is behind reaches the end of the log once writers pause
\* (feed.rs: follow_page; the bounds of the model make them pause).
FollowerCatchesUp ==
  \A r \in Reader : (reader[r].cursor <= Len(log)) ~> (reader[r].cursor = Len(log) + 1)
=============================================================================
