----------------------------- MODULE SkipChain -----------------------------
(***************************************************************************)
(* The chain of commits of one ref and its skip pointers                   *)
(* (crates/comb-core/src/commit.rs, crates/combctl/src/publish.rs).        *)
(*                                                                         *)
(* A chain is the sequence of published commits; generation g is at        *)
(* position g, which also stands for its digest.  Each commit names its    *)
(* parent, and the commit at its skip target, found by walking the chain   *)
(* as it was.  The manifest of an append carries its own commit.           *)
(***************************************************************************)
EXTENDS Integers, Sequences

CONSTANT MaxHops \* MAX_SEEK_HOPS

NoCommit == 0 \* the absent digest

\* g & -g, the lowest bit that is set: that of an even number is twice that of
\* its half.
SkipDistance[g \in Nat] ==
  IF g = 0 THEN 0 ELSE IF g % 2 = 1 THEN 1 ELSE 2 * SkipDistance[g \div 2]

SkipTarget(g) == g - SkipDistance[g]

\* load_commit_view: the header, and the target, which for a carrier is itself.
CommitView(chain, g) ==
  [generation |-> chain[g].generation, epoch |-> chain[g].epoch, parent |-> chain[g].parent,
   skip |-> chain[g].skip, target |-> IF chain[g].carrier THEN g ELSE chain[g].target]

\* One round of the loop of history_chain.
Older(chain, walk) ==
  IF walk.next = NoCommit THEN walk
  ELSE LET view == CommitView(chain, walk.next)
       IN  [next |-> view.parent, seen |-> Append(walk.seen, view.generation)]

\* history_chain: from the head towards the root, at most max entries.
History(chain, head, max) ==
  LET walk[n \in 0..max] ==
        IF n = 0 THEN [next |-> head, seen |-> <<>>] ELSE Older(chain, walk[n - 1])
  IN  walk[max].seen

\* Mutant: the pointer is followed even when it leads below the target.
HopPast(chain, g, target) ==
  IF g < target \/ chain[g].skip \notin {NoCommit, SkipTarget(g)} THEN NoCommit
  ELSE IF chain[g].skip # NoCommit THEN chain[g].skip
  ELSE IF chain[g].parent + 1 = g THEN chain[g].parent ELSE NoCommit

\* One hop of seek_generation: over the skip pointer unless that overshoots,
\* otherwise to the parent.  It fails below the target, where a skip pointer
\* leads elsewhere than its generation says, and where a parent is missing or
\* not the generation before.
Hop(chain, g, target) ==
  IF g < target \/ chain[g].skip \notin {NoCommit, SkipTarget(g)} THEN NoCommit
  ELSE IF chain[g].skip # NoCommit /\ chain[g].skip >= target THEN chain[g].skip
  ELSE IF chain[g].parent + 1 = g THEN chain[g].parent ELSE NoCommit

\* The n-th round of its loop, which ends at the target or with a failure.
Nearer(chain, target, walk, n) ==
  IF walk.digest \in {target, NoCommit} THEN walk
  ELSE [digest |-> Hop(chain, walk.digest, target), hops |-> n]

\* seek_generation: the digest found and the number of hops.
Seek(chain, start, target) ==
  LET walk[n \in 0..MaxHops] ==
        IF n = 0 THEN [digest |-> start, hops |-> 0] ELSE Nearer(chain, target, walk[n - 1], n)
  IN  {found \in {walk[MaxHops]} : found.digest = target}

\* What the number of hops is bounded by, for a generation of so many binary
\* digits.
Log2[n \in Nat] == IF n < 2 THEN 0 ELSE 1 + Log2[n \div 2]

HopBound(digits) == (digits * (digits + 1)) \div 2

\* compute_skip for the commit that extends this chain.
ComputeSkip(chain) ==
  LET g == Len(chain) + 1  target == SkipTarget(g) IN
  CASE target = 0     -> {NoCommit}
    [] target = g - 1 -> {g - 1}
    [] OTHER          -> {found.digest : found \in Seek(chain, g - 1, target)}
=============================================================================
