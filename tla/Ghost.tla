-------------------------------- MODULE Ghost --------------------------------
(***************************************************************************)
(* The fork-choice tree of choreo/ghost/fd_ghost.c (LMD-GHOST): a tree of   *)
(* replayed blocks under the root, the stake each subtree holds, the latest *)
(* vote of each voter, and which blocks fork choice may pick.               *)
(*                                                                          *)
(* The tile calls several of these functions inside one handler, so they    *)
(* are operators from one tree to the next; TowerTile strings them          *)
(* together.  A block is <<slot, version>>: the block id is what tells the   *)
(* versions of an equivocated slot apart.                                   *)
(***************************************************************************)
EXTENDS Integers, Sequences, FiniteSetsExt

CONSTANTS Voter,       \* the vote accounts
          Stake        \* [Voter -> Nat], the stake of each

ASSUME StakeAssumption == IsFiniteSet(Voter) /\ Stake \in [Voter -> Nat \ {0}]

NoBlock == <<>>        \* blk_pool_idx_null, and a NULL block id
NoSlot  == -1          \* ULONG_MAX

Slot(b) == b[1]

(***************************************************************************)
(* fd_ghost_t: the parent and the children of each block in the tree (the   *)
(* left-child, right-sibling list in insertion order), its stake, whether   *)
(* it is valid for fork choice, and the vote each voter last counted.       *)
(***************************************************************************)
EmptyGhost == [root |-> NoBlock, width |-> 0, parent |-> <<>>, kids |-> <<>>,
               stake |-> <<>>, valid |-> <<>>,
               vtr |-> [v \in Voter |-> [slot |-> NoSlot, blk |-> NoBlock]]]

Nodes(g) == DOMAIN g.parent

\* fd_ghost_query
Has(g, b) == b \in Nodes(g)

\* A function extended with one argument and its value.
Put(f, k, x) == [j \in DOMAIN f \cup {k} |-> IF j = k THEN x ELSE f[j]]

-----------------------------------------------------------------------------
\* PREDICATE_ANCESTOR: the block itself and every block above it.
Ancestry(g, b) ==
  LET up[x \in Nodes(g)] ==
        {x} \cup IF g.parent[x] = NoBlock THEN {} ELSE up[g.parent[x]]
  IN  up[b]

Subtree(g, b) == {x \in Nodes(g) : b \in Ancestry(g, x)}

ancestor(g, descendant, b) == b \in Ancestry(g, descendant)

slot_ancestor(g, descendant, slot) ==
  LET found == {x \in Ancestry(g, descendant) : Slot(x) = slot}
  IN  IF found = {} THEN NoBlock ELSE CHOOSE x \in found : TRUE

invalid_ancestor(g, descendant) == \E x \in Ancestry(g, descendant) : ~g.valid[x]

\* The heaviest valid child; the lower slot wins a tie, then the older block.
Heaviest(g, kids) ==
  LET ok == {i \in DOMAIN kids : g.valid[kids[i]]}
      Beats(i, j) == LET a == kids[i]  b == kids[j] IN
                       \/ g.stake[a] > g.stake[b]
                       \/ g.stake[a] = g.stake[b] /\ Slot(a) < Slot(b)
                       \/ g.stake[a] = g.stake[b] /\ Slot(a) = Slot(b) /\ i <= j
  IN  IF ok = {} THEN NoBlock
      ELSE kids[CHOOSE i \in ok : \A j \in ok : Beats(i, j)]

\* fd_ghost_best: down the heaviest valid children until there is none.
best(g, from) ==
  LET walk[b \in Nodes(g)] ==
        LET next == Heaviest(g, g.kids[b])
        IN  IF next = NoBlock THEN b ELSE walk[next]
  IN  walk[from]

\* fd_ghost_deepest: the last block of a level-order traversal.
deepest(g, from) ==
  LET height[b \in Nodes(g)] ==
        Max({0} \cup {1 + height[k] : k \in Range(g.kids[b])})
      walk[b \in Nodes(g)] ==
        LET kids == g.kids[b]
            high == {i \in DOMAIN kids : 1 + height[kids[i]] = height[b]}
        IN  IF high = {} THEN b ELSE walk[kids[Max(high)]]
  IN  walk[from]

-----------------------------------------------------------------------------
\* insert, fd_ghost_init: the first block becomes the root.
ghost_init(g, b) ==
  [g EXCEPT !.root = b, !.width = 1, !.parent = Put(g.parent, b, NoBlock),
            !.kids = Put(g.kids, b, <<>>), !.stake = Put(g.stake, b, 0),
            !.valid = Put(g.valid, b, TRUE)]

\* fd_ghost_insert: a new block is the last child of its parent, and valid.
ghost_insert(g, b, parent) ==
  [g EXCEPT !.width = IF g.kids[parent] = <<>> THEN g.width ELSE g.width + 1,
            !.parent = Put(g.parent, b, parent),
            !.kids = [Put(g.kids, b, <<>>) EXCEPT ![parent] = Append(@, b)],
            !.stake = Put(g.stake, b, 0), !.valid = Put(g.valid, b, TRUE)]

\* Wrong variant: the stake stays on the fork the voter left.
ghost_count_vote_twice(g, blk, v, slot) ==
  IF slot < Slot(g.root) \/ (g.vtr[v].blk # NoBlock /\ slot <= g.vtr[v].slot)
  THEN g
  ELSE [g EXCEPT !.stake = [x \in DOMAIN @ |-> @[x] + IF x \in Ancestry(g, blk)
                                                     THEN Stake[v] ELSE 0],
                 !.vtr[v] = [slot |-> slot, blk |-> blk]]

\* fd_ghost_count_vote: only a voter's newest vote counts, and it moves the
\* voter's stake from the fork it was on to the fork of `blk'.
ghost_count_vote(g, blk, v, slot) ==
  LET prev == g.vtr[v].blk
      from == IF prev = NoBlock THEN {} ELSE Ancestry(g, prev)
      onto == Ancestry(g, blk)
      Moved(x) == g.stake[x] - (IF x \in from THEN Stake[v] ELSE 0)
                             + (IF x \in onto THEN Stake[v] ELSE 0)
  IN  IF slot < Slot(g.root) \/ (prev # NoBlock /\ slot <= g.vtr[v].slot)
      THEN g
      ELSE [g EXCEPT !.stake = [x \in Nodes(g) |-> Moved(x)],
                     !.vtr[v] = [slot |-> slot, blk |-> blk]]

\* fd_ghost_publish: everything outside the subtree of the new root goes, with
\* the voters parked on it; each pruned block gives back its extra children.
ghost_publish(g, newr) ==
  LET keep == Subtree(g, newr)
      gone == Nodes(g) \ keep
      extra == [b \in Nodes(g) |-> IF g.kids[b] = <<>> THEN 0 ELSE Len(g.kids[b]) - 1]
      Kept(f) == [b \in keep |-> f[b]]
  IN  IF newr = g.root THEN g
      ELSE [root |-> newr,
            width |-> g.width - SumFunctionOnSet(extra, gone),
            parent |-> [Kept(g.parent) EXCEPT ![newr] = NoBlock],
            kids |-> Kept(g.kids), stake |-> Kept(g.stake), valid |-> Kept(g.valid),
            vtr |-> [v \in Voter |-> IF g.vtr[v].blk \in keep THEN g.vtr[v]
                                     ELSE EmptyGhost.vtr[v]]]

\* fd_ghost_confirm: the block and its ancestors become valid, up to the first
\* one that already is.
ghost_confirm(g, b) ==
  LET line == Ancestry(g, b)
      Reached(x) == \A y \in line : x \in Ancestry(g, y) => ~g.valid[y]
  IN  IF ~Has(g, b) THEN g
      ELSE [g EXCEPT !.valid = [x \in DOMAIN @ |-> @[x] \/ (x \in line /\ Reached(x))]]

\* fd_ghost_eqvoc, mark_invalid: the whole subtree becomes invalid.
ghost_eqvoc(g, b) ==
  IF ~Has(g, b) THEN g
  ELSE LET below == Subtree(g, b)
       IN [g EXCEPT !.valid = [x \in DOMAIN @ |-> @[x] /\ x \notin below]]
=============================================================================
