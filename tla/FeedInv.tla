------------------------------- MODULE FeedInv -------------------------------
(***************************************************************************)
(* The inductive invariant of the complete feed: how the commits, the      *)
(* catalog, the index and the readers of a feed relate to its log.         *)
(***************************************************************************)
EXTENDS FeedProps

Header == [generation : Nat, epoch : Nat, parent : Nat, skip : Nat, carrier : BOOLEAN, target : Nat]

TypeOK ==
  /\ chain \in Seq(Header)
  /\ log \in Seq(Key)
  /\ ref \in [generation : Nat, epoch : Nat, target : Nat]
  /\ reader \in [Reader -> [start : Nat, cursor : Nat, got : Seq(Key)]]

(***************************************************************************)
(* The chain: every commit names the one before it and its skip target,    *)
(* and the head binds the target of the ref.                               *)
(***************************************************************************)
ChainInv ==
  /\ Len(chain) = ref.generation /\ ref.generation <= MaxGeneration
  /\ \A g \in DOMAIN chain :
       /\ chain[g].generation = g /\ chain[g].parent = g - 1
       /\ chain[g].skip = SkipTarget(g) /\ chain[g].epoch <= ref.epoch
  /\ ref.generation # 0 => CommitView(chain, ref.generation).target = ref.target
  /\ (ref.target = NoCommit) <=> (log = <<>>)

(***************************************************************************)
(* The catalog: a tree over the chunks of the log, in which only the last  *)
(* node of a level may have room.                                          *)
(***************************************************************************)
RefAt(seq) == ChunkRef(<<[seq |-> seq, payload |-> log[seq]]>>, seq, 1)

Chunks == {RefAt(seq) : seq \in DOMAIN log}

Runs(S) == {s \in UNION {[1..n -> S] : n \in 1..Items} : Contiguous(s)}

Packed(spans, capacity) == \A i \in 1..(Len(spans) - 1) : spans[i].chunks = capacity

\* The trees over chunk references, by height.
Trees(refs) ==
  LET trees[h \in 0..MaxHeight] ==
        IF h = 0 THEN {Leaf(s) : s \in Runs(refs)}
        ELSE {Branch(h, s) : s \in {s \in Runs({ChildOf(n) : n \in trees[h - 1]}) :
                                      Packed(s, Capacity[h - 1])}}
  IN  trees

\* The catalog is the root of a tree over these references, up to the last.
Rooted(catalog, refs, last) ==
  \E h \in 0..MaxHeight : \E node \in Trees(refs)[h] :
    catalog = {RootOf(node)} /\ RootOf(node).first = 1 /\ RootOf(node).last = last

CatalogInv ==
  /\ manifest.head = Len(log)
  /\ log = <<>> => manifest.catalog = {}
  /\ log # <<>> => Rooted(manifest.catalog, Chunks, Len(log))

(***************************************************************************)
(* The index: on every path there are branches, then at most a leaf; every *)
(* leaf holds an event of the log, and every event is on its own path.     *)
(***************************************************************************)
AppendedBy(i, g) ==
  g \in DOMAIN chain /\ chain[g].carrier /\ Cardinality({h \in 1..g : chain[h].carrier}) = i

EntryOf(i, g) == [key |-> log[i], first |-> i, last |-> i, generation |-> g]

Events ==
  UNION {{EntryOf(i, g) : g \in {g \in DOMAIN chain : AppendedBy(i, g)}} : i \in DOMAIN log}

Paths  == [1..(MaxDepth + 1) -> Slot]
Depths == 0..(MaxDepth + 1)

BranchThere(n, path, d) ==
  /\ n.kind = "branch" /\ d <= MaxDepth /\ n = BranchAt(d, path, n.children)
  /\ n.children = [slot \in DOMAIN n.children |-> n.children[slot]]
  /\ DOMAIN n.children \subseteq Slot
  /\ \A slot \in DOMAIN n.children : n.children[slot] # Missing

Found(n, path, d, E) ==
  \E e \in E : n = LeafOf(e) /\ Prefix(Path[e.key], d) = Prefix(path, d)

ShapedAt(n, path, d, E) ==
  \/ n = Missing /\ d # 0
  \/ BranchThere(n, path, d)
  \/ Found(n, path, d, E) /\ d # 0

Shaped(root, E) == \A path \in Paths : \A d \in Depths : ShapedAt(Along(root, path)[d], path, d, E)

Holds(root, E) == \A e \in E : \E d \in Depths : Along(root, Path[e.key])[d] = LeafOf(e)

IndexInv ==
  /\ manifest.index.entries = Len(log)
  /\ Cardinality({g \in DOMAIN chain : chain[g].carrier}) = Len(log)
  /\ \A i \in DOMAIN log : \E g \in DOMAIN chain : AppendedBy(i, g)
  /\ Shaped(manifest.index.node, Events)
  /\ Holds(manifest.index.node, Events)
  /\ log = <<>> => manifest.index = EmptyIndex

(***************************************************************************)
(* The readers have what lies between their start and their cursor.        *)
(***************************************************************************)
ReaderInv ==
  \A r \in Reader :
    /\ reader[r].start \in 1..reader[r].cursor /\ reader[r].cursor \in 1..(Len(log) + 1)
    /\ reader[r].got = SubSeq(log, reader[r].start, reader[r].cursor - 1)

FeedIInv == TypeOK /\ ChainInv /\ CatalogInv /\ IndexInv /\ ReaderInv
=============================================================================
