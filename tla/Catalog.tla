------------------------------ MODULE Catalog ------------------------------
(***************************************************************************)
(* The chunk catalog of a complete feed (crates/combctl/src/catalog.rs):   *)
(* an immutable B+tree over the sequence numbers of the log, which grows   *)
(* at its right edge.  Every append copies the right spine.                *)
(*                                                                         *)
(* A digest stands for the one object it names, so a reference to a node   *)
(* or a chunk is that node or chunk.  An operation that the code may       *)
(* refuse returns a set: empty, or with its one result.                    *)
(***************************************************************************)
EXTENDS Integers, SequencesExt

CONSTANTS Items,    \* MAX_CATALOG_ITEMS: the width of a node
          MaxHeight \* MAX_CATALOG_HEIGHT

ASSUME WidthAssumption == Items \in Nat /\ Items >= 2 /\ MaxHeight \in Nat

\* A chunk reference repeats what the chunk says of itself.
ChunkRef(chunk, first, count) ==
  [chunk |-> chunk, first |-> first, last |-> first + count - 1, count |-> count]

Leaf(refs)               == [kind |-> "leaf", height |-> 0, refs |-> refs]
Branch(height, children) == [kind |-> "branch", height |-> height, children |-> children]

\* The sum of the counts, added up from the left.
ChunkSum(children) ==
  LET upTo[i \in 0..Len(children)] ==
        IF i = 0 THEN 0 ELSE upTo[i - 1] + children[i].chunks
  IN  upTo[Len(children)]

LeafSpan(refs) ==
  [first |-> Head(refs).first, last |-> Last(refs).last, chunks |-> Len(refs)]

ChildSpan(children) ==
  [first |-> Head(children).first, last |-> Last(children).last, chunks |-> ChunkSum(children)]

Span(node) == IF node.kind = "leaf" THEN LeafSpan(node.refs) ELSE ChildSpan(node.children)

\* What a parent, or the manifest's root, records of a node.
ChildOf(node) ==
  LET span == Span(node)
  IN  [first |-> span.first, last |-> span.last, chunks |-> span.chunks, node |-> node]

RootOf(node) ==
  LET span == Span(node)
  IN  [first |-> span.first, last |-> span.last, chunks |-> span.chunks,
       height |-> node.height, node |-> node]

(***************************************************************************)
(* Append.  A node that is full yields a right sibling: one node grown, or *)
(* two nodes after a split, come back.                                     *)
(***************************************************************************)
GrowLeaf(node, ref) ==
  IF Len(node.refs) < Items THEN <<Leaf(Append(node.refs, ref))>>
  ELSE <<node, Leaf(<<ref>>)>>

\* Mutant: the left half of a branch that splits loses its last child.
GrowLosing(node, below) ==
  LET children == Front(node.children) \o [i \in DOMAIN below |-> ChildOf(below[i])]
  IN  IF Len(children) <= Items THEN <<Branch(node.height, children)>>
      ELSE <<Branch(node.height, SubSeq(children, 1, Items - 1)),
             Branch(node.height, SubSeq(children, Items + 1, Len(children)))>>

\* The last child gives way to what it has grown into.
GrowBranch(node, below) ==
  LET children == Front(node.children) \o [i \in DOMAIN below |-> ChildOf(below[i])]
  IN  IF Len(children) <= Items THEN <<Branch(node.height, children)>>
      ELSE <<Branch(node.height, SubSeq(children, 1, Items)),
             Branch(node.height, SubSeq(children, Items + 1, Len(children)))>>

\* The last nodes, level by level, and what each of them grows into, from the
\* leaf upwards.
Spine(node, ref) ==
  LET h == node.height
      right[d \in 0..h] == IF d = 0 THEN node ELSE Last(right[d - 1].children).node
      grown[i \in 0..h] ==
        IF i = 0 THEN GrowLeaf(right[h], ref) ELSE GrowBranch(right[h - i], grown[i - 1])
  IN  grown[h]

\* A split of the root adds a level, as long as there is one.
Raised(grown, height) ==
  CASE Len(grown) = 1 -> {RootOf(grown[1])}
    [] Len(grown) = 2 /\ height < MaxHeight ->
         {RootOf(Branch(height + 1, [i \in 1..2 |-> ChildOf(grown[i])]))}
    [] Len(grown) = 2 /\ height >= MaxHeight -> {}

\* The number of chunks in a full tree, by height.
Capacity[h \in 0..MaxHeight] == IF h = 0 THEN Items ELSE Items * Capacity[h - 1]

\* Catalogs after appending to the catalog with this root; {} is the empty catalog.
CatalogAppend(root, ref) ==
  IF root = {}
  THEN IF ref.first = 1 THEN {RootOf(Leaf(<<ref>>))} ELSE {}
  ELSE UNION {IF ref.first = r.last + 1 THEN Raised(Spine(r.node, ref), r.height) ELSE {} : r \in root}

(***************************************************************************)
(* Search.                                                                 *)
(***************************************************************************)
Covers(span, seq) == span.first <= seq /\ seq <= span.last

\* From a branch to the child that covers the sequence number.
Deeper(nodes, seq) ==
  UNION {{c.node : c \in {c \in ToSet(n.children) : Covers(c, seq)}} :
           n \in {n \in nodes : n.kind = "branch"}}

\* The references of the leaf that covers seq.
SeekLeaf(root, seq) ==
  LET at[d \in 0..MaxHeight] ==
        IF d = 0 THEN {r.node : r \in {r \in root : Covers(r, seq)}} ELSE Deeper(at[d - 1], seq)
      leaves == {n \in UNION {at[d] : d \in 0..MaxHeight} : n.kind = "leaf"}
  IN  {n.refs : n \in {n \in leaves : Covers(LeafSpan(n.refs), seq)}}

(***************************************************************************)
(* What a node must look like to be written, or to be accepted when read.  *)
(***************************************************************************)
Contiguous(spans) ==
  /\ 1 <= Len(spans) /\ Len(spans) <= Items
  /\ \A i \in DOMAIN spans : 1 <= spans[i].first /\ spans[i].first <= spans[i].last
  /\ \A i \in 2..Len(spans) : spans[i].first = spans[i - 1].last + 1

ValidLeaf(refs) ==
  /\ Contiguous(refs)
  /\ \A i \in DOMAIN refs : refs[i].count = refs[i].last - refs[i].first + 1

ValidBranch(height, children) ==
  /\ Contiguous(children)
  /\ 1 <= height /\ height <= MaxHeight
  /\ \A c \in ToSet(children) : 1 <= c.chunks /\ c.chunks <= c.last - c.first + 1

ValidNode(node) ==
  IF node.kind = "leaf" THEN ValidLeaf(node.refs) ELSE ValidBranch(node.height, node.children)

\* Every node, level by level, would be accepted, and agrees with what its
\* parent says of its span and height.
ValidTree(node) ==
  LET level[d \in 0..node.height] ==
        IF d = 0 THEN {node}
        ELSE UNION {{c.node : c \in ToSet(n.children)} : n \in level[d - 1]}
  IN  \A d \in 0..node.height : \A n \in level[d] :
        /\ ValidNode(n) /\ n.height = node.height - d
        /\ n.kind = (IF d = node.height THEN "leaf" ELSE "branch")
        /\ n.kind = "branch" => \A c \in ToSet(n.children) : c = ChildOf(c.node)
=============================================================================
