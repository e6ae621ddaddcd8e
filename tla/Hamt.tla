-------------------------------- MODULE Hamt --------------------------------
(***************************************************************************)
(* The stable-key index of a complete feed (crates/combctl/src/hamt.rs): a *)
(* hash trie of immutable nodes.  A branch at depth d tells keys apart by  *)
(* the d-th slot of their path digest; a leaf sits as high as its path is  *)
(* unique.                                                                 *)
(*                                                                         *)
(* A digest stands for the node it names.  An insertion that the code      *)
(* refuses returns the empty set, otherwise the set of its one result.     *)
(***************************************************************************)
EXTENDS Integers, Sequences

CONSTANTS Slot,    \* the values of a slot
          Path,    \* the path digest of each key, as a sequence of slots
          MaxDepth \* MAX_DEPTH: the deepest level at which slots differ

Nibble(path, depth) == path[depth + 1]
Prefix(path, depth) == SubSeq(path, 1, depth)

\* Children are a function from the slots in use.
EmptyBranch == [kind |-> "branch", depth |-> 0, prefix |-> <<>>, children |-> <<>>]

BranchAt(depth, path, children) ==
  [kind |-> "branch", depth |-> depth, prefix |-> Prefix(path, depth), children |-> children]

LeafOf(entry) == [kind |-> "leaf", entry |-> entry]

Upsert(children, slot, node) ==
  [s \in DOMAIN children \cup {slot} |-> IF s = slot THEN node ELSE children[s]]

EmptyIndex == [node |-> EmptyBranch, entries |-> 0]

Missing == [kind |-> "missing"]

Child(node, slot) ==
  IF node.kind = "branch" /\ slot \in DOMAIN node.children THEN node.children[slot] ELSE Missing

\* The nodes that a walk down a path meets, by depth.
Along(root, path) ==
  LET at[d \in 0..(MaxDepth + 1)] ==
        IF d = 0 THEN root ELSE Child(at[d - 1], Nibble(path, d - 1))
  IN  at

(***************************************************************************)
(* Lookup: the set of entries found, at most one.                          *)
(***************************************************************************)
\* Mutant: a leaf on the way is taken for the key's own.
WalkTrusting(root, key) ==
  {n.entry : n \in {n \in {Along(root, Path[key])[d] : d \in 0..(MaxDepth + 1)} :
                     n.kind = "leaf"}}

Walk(root, key) ==
  {n.entry : n \in {n \in {Along(root, Path[key])[d] : d \in 0..(MaxDepth + 1)} :
                     n.kind = "leaf" /\ n.entry.key = key}}

Lookup(index, key) == IF index.entries = 0 THEN {} ELSE Walk(index.node, key)

(***************************************************************************)
(* Insertion.                                                              *)
(***************************************************************************)
\* The node at depth `bottom` of a path, and above it, up to depth `top`, a copy
\* of each branch, with these children and the copy below.
Rebuilt(path, children, top, bottom, node) ==
  LET up[i \in 0..(bottom - top)] ==
        IF i = 0 THEN node
        ELSE LET d == bottom - i
             IN  BranchAt(d, path, Upsert(children[d], Nibble(path, d), up[i - 1]))
  IN  up[bottom - top]

\* The depths at which two paths differ, and the branch at one of them.
Differ(a, b, depth) == {d \in depth..MaxDepth : Nibble(a, d) # Nibble(b, d)}

Fork(a, b, d) ==
  BranchAt(d, Path[a.key], Upsert(Upsert(<<>>, Nibble(Path[a.key], d), LeafOf(a)),
                                  Nibble(Path[b.key], d), LeafOf(b)))

\* Mutant: the last slot of the paths is not looked at.
SplitEarly(a, b, depth) ==
  {Rebuilt(Path[a.key], [d \in depth..MaxDepth |-> <<>>], depth, m, Fork(a, b, m)) :
     m \in {m \in Differ(Path[a.key], Path[b.key], depth) \ {MaxDepth} :
              \A d \in Differ(Path[a.key], Path[b.key], depth) : m <= d}}

\* Two leaves move down to the first depth at which their paths differ.
Split(a, b, depth) ==
  {Rebuilt(Path[a.key], [d \in depth..MaxDepth |-> <<>>], depth, m, Fork(a, b, m)) :
     m \in {m \in Differ(Path[a.key], Path[b.key], depth) :
              \A d \in Differ(Path[a.key], Path[b.key], depth) : m <= d}}

\* What takes the place of the last node on the path of the entry.
PlaceAt(node, entry, depth) ==
  IF depth > MaxDepth THEN {}
  ELSE IF node.kind = "leaf"
  THEN IF node.entry.key = entry.key THEN {} ELSE Split(node.entry, entry, depth)
  ELSE {BranchAt(depth, Path[entry.key],
                 Upsert(node.children, Nibble(Path[entry.key], depth), LeafOf(entry)))}

\* The depth of the last node on a path.
Reach(at) ==
  CHOOSE d \in 0..(MaxDepth + 1) :
    at[d] # Missing /\ (d <= MaxDepth => at[d + 1] = Missing)

Insert(index, entry) ==
  LET path == Path[entry.key]
      at   == Along(index.node, path)
      d    == Reach(at)
  IN  {[node    |-> Rebuilt(path, [i \in 0..(d - 1) |-> at[i].children], 0, d, node),
        entries |-> index.entries + 1] : node \in PlaceAt(at[d], entry, d)}

(***************************************************************************)
(* What a node must look like to be accepted when it is read.              *)
(***************************************************************************)
\* validate_leaf_range, against the head of the feed.
ValidEntry(entry, head) ==
  /\ 1 <= entry.first /\ entry.first <= entry.last /\ entry.last <= head.seq
  /\ 1 <= entry.generation /\ entry.generation <= head.generation

\* The nodes d slots down, each with the slots that lead to it.
NodesAt(root) ==
  LET level[d \in 0..(MaxDepth + 1)] ==
        IF d = 0 THEN {[walk |-> <<>>, node |-> root]}
        ELSE UNION {{[walk |-> Append(p.walk, slot), node |-> p.node.children[slot]] :
                       slot \in DOMAIN p.node.children} :
                      p \in {p \in level[d - 1] : p.node.kind = "branch"}}
  IN  level

\* The node is where the slots of the walk lead to.
ValidAt(node, walk, head) ==
  IF node.kind = "leaf"
  THEN Prefix(Path[node.entry.key], Len(walk)) = walk /\ ValidEntry(node.entry, head)
  ELSE node.depth = Len(walk) /\ node.depth <= MaxDepth /\ node.prefix = walk

ValidIndex(index, head) ==
  /\ index.entries <= head.seq
  /\ index.node.kind = "branch"
  /\ (index.entries = 0) <=> (DOMAIN index.node.children = {})
  /\ \A d \in 0..(MaxDepth + 1) : \A p \in NodesAt(index.node)[d] : ValidAt(p.node, p.walk, head)
=============================================================================
