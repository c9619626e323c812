------------------------------ MODULE TowerTile ------------------------------
(***************************************************************************)
(* The tower tile (discof/tower/fd_tower_tile.c): what it does when replay  *)
(* completes a block, when a vote transaction arrives and when a slot is    *)
(* proved equivocated, composed from fork choice (Ghost), the vote tower    *)
(* (Tower) and the vote tally of choreo/votes/fd_votes.c.                   *)
(*                                                                          *)
(* The cluster is fixed by Init: the tree of blocks, some slots having two  *)
(* versions, and the blocks each voter votes for.  Replay delivers blocks   *)
(* parents first, in any order otherwise; vote transactions and proofs      *)
(* arrive at any time, and again.                                           *)
(***************************************************************************)
EXTENDS Ghost, Tower

CONSTANTS Block,           \* the blocks of the cluster, <<slot, version>>
          Snapshot,        \* the block the tile boots from
          Trees,           \* the parent functions Init chooses from
          Ballots,         \* for each voter, the sets of blocks it may vote for
          Us,              \* our vote account, a member of Voter
          Leader,          \* the slots we lead
          SlotMax,         \* how far beyond the root the tally reaches
          ThresholdDepth   \* THRESHOLD_DEPTH

ASSUME TileAssumption == /\ Us \in Voter
                         /\ Snapshot \in Block
                         /\ SlotMax \in Nat /\ ThresholdDepth \in Nat \ {0}

\* A block builds on one of an older slot, and has an id; a voter has cast a
\* finite number of votes.
ASSUME ClusterAssumption ==
  /\ \A b \in Block : Slot(b) \in Nat /\ b # NoBlock
  /\ \A t \in Trees : \A b \in Block \ {Snapshot} : t[b] \in Block /\ Slot(t[b]) < Slot(b)
  /\ \A v \in Voter : \A S \in Ballots[v] : S \subseteq Block /\ IsFiniteSet(S)

VARIABLES tree,       \* the parent of each block of the cluster
          ballot,     \* the blocks each voter votes for
          replayed,   \* the blocks replay has handed to the tile
          ghost,      \* ctx->ghost
          votes,      \* ctx->tower->votes
          root,       \* ctx->tower->root
          blks,       \* the tower's block table, by slot
          tally,      \* ctx->votes, by block
          proved,     \* the slots eqvoc holds a verified proof for
          published,  \* the confirmations sent with fwd=0, <<block, level>>
          decision,   \* what the last replayed block made the tile do
          crit        \* the assertion that failed, "" while none has

cluster == <<tree, ballot>>
vars == <<tree, ballot, replayed, ghost, votes, root, blks, tally, proved,
          published, decision, crit>>

-----------------------------------------------------------------------------
(* The cluster.                                                             *)

Above(t, b) == LET up[x \in Block] == IF t[x] = NoBlock THEN {} ELSE {t[x]} \cup up[t[x]]
               IN  up[b]

Chain(b) == {b} \cup Above(tree, b)

Newest(S) == CHOOSE x \in S : \A y \in S : Slot(y) <= Slot(x)

\* The tower, with its root, that voting for the blocks of S leaves.
Rooting(p, old) == [votes |-> p.votes, root |-> IF p.root = NoSlot THEN old ELSE p.root]

TowerOf(S) ==
  MapThenFoldSet(LAMBDA b, t : Rooting(push_vote(t.votes, Slot(b)), t.root),
                 [votes |-> <<>>, root |-> NoSlot], LAMBDA b : b, Newest, S)

UpTo(S, b) == {x \in S : Slot(x) <= Slot(b)}

\* A voter that keeps the tower rules votes once per slot, and each vote
\* descends from every vote still in the tower it leaves.
Honest(t, S) ==
  \A b \in S :
    LET slots == {x.slot : x \in Range(TowerOf(UpTo(S, b)).votes)}
    IN  \A x \in S : /\ Slot(x) = Slot(b) => x = b
                     /\ Slot(x) < Slot(b) /\ Slot(x) \in slots => x \in Above(t, b)

\* The vote account of v as block b leaves it: the tower of the newest vote
\* that could land above b.
VoteAccount(v, b) ==
  LET landed == ballot[v] \cap Above(tree, b)
  IN  TowerOf(IF landed = {} THEN {} ELSE UpTo(ballot[v], Newest(landed)))

TotalStake == SumFunction(Stake)
StakeOf(S) == SumFunctionOnSet(Stake, S)

\* stake / total > num / den
Exceeds(stake, num, den) == stake * den > TotalStake * num

-----------------------------------------------------------------------------
(* fd_tower_blk_t and the checks of fd_tower.c.                             *)

NewBlk(b, parent_slot, prev_leader) ==
  [parent_slot |-> parent_slot, replayed |-> b, voted |-> NoBlock, confirmed |-> NoBlock,
   propagated |-> FALSE, prev_leader |-> prev_leader]

\* The blocks of the breadth-first search that skips superseded versions.
is_purged(t, b) == Slot(b) \in DOMAIN t.blks /\ t.blks[Slot(b)].confirmed \notin {NoBlock, b}

Visited(t, g) ==
  {b \in Nodes(g) : \A x \in Ancestry(g, b) \ {g.root} : ~is_purged(t, x)}

Leaves(t, g) == {b \in Visited(t, g) : \A k \in Visited(t, g) : g.parent[k] # b}

\* The search reads the table entry of every child and of every leaf.
Unsearchable(t, g) ==
  \E b \in Visited(t, g) : Slot(b) \notin DOMAIN t.blks /\ (b # g.root \/ b \in Leaves(t, g))

\* A vote account holds a vote off the fork of our last vote, and is locked out
\* of that fork by it.
ExcludesLast(t, acct) ==
  \E i \in DOMAIN acct : /\ expiration_slot(acct[i]) >= last_vote(t.votes)
                         /\ ~is_ancestor(t.blks, last_vote(t.votes), acct[i].slot)
                         /\ acct[i].slot > t.root

\* Wrong variant: the share is taken of the stake that has voted, not of all.
switch_check_voted(t, g, slot) ==
  LET last == last_vote(t.votes)
      Counts(b) == LET lca == lowest_common_ancestor(t.blks, Slot(b), last)
                   IN  /\ Slot(b) \in DOMAIN t.blks \ {last}
                       /\ lca # NoSlot
                       /\ is_ancestor(t.blks, slot, lca)
      LockedOut(v, b) == ExcludesLast(t, VoteAccount(v, t.blks[Slot(b)].replayed).votes)
  IN  StakeOf({v \in Voter : \E b \in Leaves(t, g) : Counts(b) /\ LockedOut(v, b)}) * 100
        > 38 * g.stake[g.root]

\* The voters locked out of our last vote by a vote on the other side of a
\* fork that the switch slot is on too.
switch_check(t, g, slot) ==
  LET last == last_vote(t.votes)
      Counts(b) == LET lca == lowest_common_ancestor(t.blks, Slot(b), last)
                   IN  /\ Slot(b) \in DOMAIN t.blks \ {last}
                       /\ lca # NoSlot
                       /\ is_ancestor(t.blks, slot, lca)
      LockedOut(v, b) == ExcludesLast(t, VoteAccount(v, t.blks[Slot(b)].replayed).votes)
  IN  Exceeds(StakeOf({v \in Voter : \E b \in Leaves(t, g) : Counts(b) /\ LockedOut(v, b)}), 38, 100)

\* The vote ThresholdDepth back must be below the vote of 2/3 of the stake, by
\* the vote accounts of the block `now' that was just replayed.
threshold_check(t, now, slot) ==
  LET cnt == simulate_vote(t.votes, slot)
      threshold_slot == t.votes[cnt - ThresholdDepth + 1].slot
      Agrees(acct) == LET left == simulate_vote(acct, slot)
                      IN  left # 0 /\ acct[left].slot >= threshold_slot
  IN  cnt < ThresholdDepth
      \/ Exceeds(StakeOf({v \in Voter : Agrees(VoteAccount(v, now).votes)}), 2, 3)

propagated_check(t, slot) ==
  LET lead == t.blks[slot].prev_leader
  IN  \/ slot \in Leader
      \/ lead \notin DOMAIN t.blks
      \/ t.blks[lead].propagated

-----------------------------------------------------------------------------
(* choreo/votes/fd_votes.c: the voters counted for each block, one vote per *)
(* voter and slot, and the levels already published for the block, in order *)
(* with its ancestors (conf) or ahead of its replay (fwd).                  *)

Levels == {"propagated", "duplicate", "optimistic", "super"}

LevelReached(stake, level) ==
  CASE level = "propagated" -> Exceeds(stake, 1, 3)
    [] level = "duplicate"  -> Exceeds(stake, 52, 100)
    [] level = "optimistic" -> Exceeds(stake, 2, 3)
    [] level = "super"      -> Exceeds(stake, 4, 5)

NoTally == [by |-> {}, conf |-> {}, fwd |-> {}]

votes_count_ok(t, v, b) ==
  /\ Slot(b) < Slot(t.ghost.root) + SlotMax
  /\ \A x \in DOMAIN t.tally : Slot(x) = Slot(b) => v \notin t.tally[x].by

votes_count_vote(tl, v, b) ==
  LET old == IF b \in DOMAIN tl THEN tl[b] ELSE NoTally
  IN  Put(tl, b, [old EXCEPT !.by = @ \cup {v}])

votes_publish(tl, slot) == [b \in {x \in DOMAIN tl : Slot(x) >= slot} |-> tl[b]]

-----------------------------------------------------------------------------
(* The handlers work on a record of the tile's state, so that the calls a   *)
(* handler makes follow each other.  Once `crit' is set the tile is dead    *)
(* and the rest of the handler does not matter.                             *)

tile == [ghost |-> ghost, votes |-> votes, root |-> root, blks |-> blks, tally |-> tally,
         published |-> published, decision |-> decision, crit |-> crit]

Die(t, why) == [t EXCEPT !.crit = why]
Dead(t) == t.crit # ""

\* Wrong variant: the version that lost stays in fork choice.
ForwardLevelOnly(t, b, level) ==
  LET sent == [t EXCEPT !.tally[b].fwd = @ \cup {level},
                        !.published = @ \cup {<<b, level, "fwd">>}]
  IN  IF level # "duplicate" \/ Slot(b) \notin DOMAIN t.blks THEN sent
      ELSE [sent EXCEPT !.blks[Slot(b)].confirmed = b]

\* A block replay has not completed: the level is only sent forward.  At the
\* duplicate level the version that was replayed loses to this one.
ForwardLevel(t, b, level) ==
  LET sent == [t EXCEPT !.tally[b].fwd = @ \cup {level},
                        !.published = @ \cup {<<b, level, "fwd">>}]
      slot == Slot(b)
  IN  IF level # "duplicate" \/ slot \notin DOMAIN t.blks THEN sent
      ELSE IF t.blks[slot].replayed = b THEN Die(sent, "replayed_is_confirmed")
      ELSE [sent EXCEPT !.blks[slot].confirmed = b,
                        !.ghost = ghost_eqvoc(@, t.blks[slot].replayed)]

\* The ancestors the walk up from b reaches: it stops at the first one that
\* the tower or the tally does not know, or that has the level already.
Confirmed(t, b, level) ==
  LET line == Ancestry(t.ghost, b)
      Goes(x) == /\ Slot(x) \in DOMAIN t.blks
                 /\ x \in DOMAIN t.tally
                 /\ level \notin t.tally[x].conf
  IN  {x \in line : \A y \in line : x \in Ancestry(t.ghost, y) => Goes(y)}

\* A block of the path is confirmed, and the version of its slot that was
\* replayed loses if it is another.
Resolve(t, x, g) ==
  IF t.blks[Slot(x)].replayed = x THEN ghost_confirm(g, x)
  ELSE ghost_eqvoc(ghost_confirm(g, x), t.blks[Slot(x)].replayed)

\* The versions that lose do not lie on the path, so the order in which the
\* path is confirmed does not matter.
ResolveAll(t, g, path) == FoldSet(LAMBDA x, h : Resolve(t, x, h), g, path)

ConfirmPath(t, path, level) ==
  LET slots == {Slot(x) : x \in path}
      At(slot) == CHOOSE x \in path : Slot(x) = slot
      Marked(s) == CASE level = "propagated" -> [t.blks[s] EXCEPT !.propagated = TRUE]
                     [] level = "duplicate"  -> [t.blks[s] EXCEPT !.confirmed = At(s)]
                     [] OTHER                -> t.blks[s]
  IN  [t EXCEPT !.tally = [x \in DOMAIN @ |-> IF x \in path
                                              THEN [@[x] EXCEPT !.conf = @ \cup {level}] ELSE @[x]],
                !.published = @ \cup {<<x, level, "conf">> : x \in path},
                !.blks = [s \in DOMAIN @ |-> IF s \in slots THEN Marked(s) ELSE @[s]],
                !.ghost = IF level = "duplicate" THEN ResolveAll(t, @, path) ELSE @]

\* publish_slot_confirmed
PublishLevel(t, b, level) ==
  IF level \in t.tally[b].conf \/ ~LevelReached(StakeOf(t.tally[b].by), level) THEN t
  ELSE IF Has(t.ghost, b) THEN ConfirmPath(t, Confirmed(t, b, level), level)
  ELSE IF level \in t.tally[b].fwd THEN t
  ELSE ForwardLevel(t, b, level)

publish_slot_confirmed(t, b) ==
  PublishLevel(PublishLevel(PublishLevel(PublishLevel(t, b, "propagated"),
                                         b, "duplicate"), b, "optimistic"), b, "super")

CountSlot(t, v, b) ==
  IF votes_count_ok(t, v, b)
  THEN publish_slot_confirmed([t EXCEPT !.tally = votes_count_vote(@, v, b)], b)
  ELSE t

\* count_vote_txn: the last vote counts for the block it names.  The older ones
\* count only if that block is our version of its slot, and then for our
\* version of theirs.
Older(t, v, slot) ==
  IF slot <= t.root \/ slot \notin DOMAIN t.blks THEN t
  ELSE CountSlot(t, v, canonical_block_id(t.blks[slot]))

\* The votes at the indices S, newest first: the fold applies its choice last.
OlderVotes(t, v, acct, S) ==
  MapThenFoldSet(LAMBDA i, u : Older(u, v, acct[i].slot), t, LAMBDA i : i, Min, S)

CountOlder(t, v, b) ==
  IF Slot(b) \notin DOMAIN t.blks \/ canonical_block_id(t.blks[Slot(b)]) # b THEN t
  ELSE LET acct == TowerOf(UpTo(ballot[v], b)).votes
       IN  OlderVotes(t, v, acct, 1..(Len(acct) - 1))

count_vote_txn(t, v, b) ==
  IF Slot(b) <= t.root THEN t ELSE CountOlder(CountSlot(t, v, b), v, b)

-----------------------------------------------------------------------------
(* replay_slot_completed, in the order of its calls.                        *)

\* The block enters ghost and the tower's table.  A second version of a slot
\* was confirmed before replay took it up; a first one is confirmed or refused
\* by what the tally and eqvoc already know of the slot.
InsertSecond(t, b) ==
  LET old == t.blks[Slot(b)].replayed
  IN  [t EXCEPT !.ghost = ghost_eqvoc(ghost_confirm(@, b), old),
                !.blks[Slot(b)].parent_slot = Slot(tree[b]),
                !.blks[Slot(b)].replayed = b]

InsertFirst(t, b, prev_leader) ==
  LET slot == Slot(b)
      blk  == NewBlk(b, IF tree[b] = NoBlock THEN NoSlot ELSE Slot(tree[b]), prev_leader)
      fwd  == {x \in DOMAIN t.tally : Slot(x) = slot /\ "duplicate" \in t.tally[x].fwd}
      winner == CHOOSE x \in fwd : TRUE
  IN  IF fwd # {}
      THEN [t EXCEPT !.blks = Put(@, slot, [blk EXCEPT !.confirmed = winner]),
                     !.ghost = IF winner = b THEN ghost_confirm(@, b) ELSE ghost_eqvoc(@, b)]
      ELSE [t EXCEPT !.blks = Put(@, slot, blk),
                     !.ghost = IF slot \in proved THEN ghost_eqvoc(@, b) ELSE @]

InsertBlock(t, b) ==
  LET slot == Slot(b)
      up == IF b = Snapshot THEN NoSlot ELSE Slot(tree[b])
  IN  IF slot \in DOMAIN t.blks THEN InsertSecond(t, b)
      ELSE IF slot \in Leader THEN InsertFirst(t, b, slot)
      ELSE IF b = t.ghost.root THEN InsertFirst(t, b, NoSlot)
      ELSE IF up \notin DOMAIN t.blks THEN Die(t, "no_parent_on_insert")
      ELSE InsertFirst(t, b, t.blks[up].prev_leader)

\* count_vote_acc: the newest vote of each vote account goes to the block of
\* that slot on the fork just replayed.
CountAcct(t, b, v, slot) ==
  LET blk == slot_ancestor(t.ghost, b, slot)
  IN  IF slot = NoSlot \/ slot < Slot(t.ghost.root) THEN t
      ELSE IF blk = NoBlock THEN Die(t, "missing_ancestor")
      ELSE [t EXCEPT !.ghost = ghost_count_vote(@, blk, v, slot)]

CountEach(t, b, S) ==
  FoldSet(LAMBDA v, u : CountAcct(u, b, v, last_vote(VoteAccount(v, b).votes)), t, S)

CountAccts(t, b) == IF Dead(t) THEN t ELSE CountEach(t, b, Voter)

\* fd_tower_reconcile: a newer on-chain tower replaces ours.  The tower's root
\* and table move to the on-chain root; ghost stays where it was.
reconcile(t, acct) ==
  LET newroot == IF acct.root = NoSlot \/ t.root > acct.root THEN t.root ELSE acct.root
      kept    == SelectSeq(acct.votes, LAMBDA x : newroot # t.root \/ x.slot > t.root)
      ours    == {t.votes[i].slot : i \in DOMAIN t.votes}
      theirs  == {kept[i].slot : i \in DOMAIN kept}
      slots   == {s \in DOMAIN t.blks : s >= newroot \/ s < t.root}
      Voted(s) == IF s \notin theirs THEN IF s \in ours THEN NoBlock ELSE t.blks[s].voted
                  ELSE IF s \in ours \/ t.blks[s].voted = NoBlock THEN t.blks[s].replayed
                  ELSE t.blks[s].voted
  IN  IF Dead(t) \/ last_vote(acct.votes) <= last_vote(t.votes) THEN t
      ELSE IF ~(ours \subseteq DOMAIN t.blks /\ theirs \subseteq slots) THEN Die(t, "reconcile")
      ELSE [t EXCEPT !.votes = kept, !.root = newroot,
                     !.blks = [s \in slots |-> [t.blks[s] EXCEPT !.voted = Voted(s)]]]

-----------------------------------------------------------------------------
(* fd_tower_vote_and_reset: which block to build on, and whether to vote    *)
(* for it.                                                                  *)

\* Where to reset to and which block to try to vote for (NoBlock: none).
Choice(t, bst) ==
  LET g    == t.ghost
      prev == last_vote(t.votes)
      fork == t.blks[prev]
      pv   == fork.voted
      invalid  == Has(g, pv) /\ invalid_ancestor(g, pv)
      rollback == Has(g, pv) /\ pv # bst /\ ancestor(g, pv, bst)
      sibling  == fork.confirmed \notin {NoBlock, pv}
      same     == Slot(bst) = prev \/ is_ancestor(t.blks, Slot(bst), prev)
      Pick(kind, reset, vote) == [kind |-> kind, reset |-> reset, vote |-> vote]
      Unvoted == IF ~lockout_check(t, Slot(bst)) THEN Pick("not_recent", bst, NoBlock)
                 ELSE Pick("empty_tower", bst, bst)
      Elsewhere ==
        IF Unsearchable(t, g) THEN Pick("null", NoBlock, NoBlock)
        ELSE IF switch_check(t, g, Slot(bst)) THEN Pick("switch_pass", bst, bst)
        ELSE IF ~Has(g, pv) THEN Pick("null", NoBlock, NoBlock)
        ELSE IF invalid THEN Pick("switch_fail_invalid", deepest(g, pv), NoBlock)
        ELSE Pick("switch_fail", best(g, pv), NoBlock)
  IN  IF t.votes = <<>> THEN Unvoted
      ELSE IF prev \notin DOMAIN t.blks THEN Pick("null", NoBlock, NoBlock)
      ELSE IF invalid /\ rollback THEN Pick("ancestor_rollback", bst, NoBlock)
      ELSE IF invalid /\ sibling THEN Pick("sibling_confirmed", bst, bst)
      ELSE IF same THEN Pick("same_fork", bst, bst)
      ELSE Elsewhere

MayVote(t, now, slot) == /\ lockout_check(t, slot)
                         /\ threshold_check(t, now, slot)
                         /\ propagated_check(t, slot)

\* Wrong variant: ghost is published and the tower keeps its root.
AdvanceRootGhost(t, slot) ==
  LET blk  == t.blks[slot]
      newr == IF blk.confirmed # NoBlock THEN blk.confirmed ELSE blk.voted
  IN  IF ~Has(t.ghost, newr) THEN Die(t, "root_not_in_ghost")
      ELSE [t EXCEPT !.tally = votes_publish(@, slot),
                     !.blks = [s \in {x \in DOMAIN @ : x >= slot} |-> @[s]],
                     !.ghost = ghost_publish(@, newr)]

\* Wrong variant: the entry of the new root goes with the old ones.
AdvanceRootPrunes(t, slot) ==
  LET blk  == t.blks[slot]
      newr == IF blk.confirmed # NoBlock THEN blk.confirmed ELSE blk.voted
  IN  IF t.root \notin DOMAIN t.blks THEN Die(t, "no_old_root")
      ELSE IF ~Has(t.ghost, newr) THEN Die(t, "root_not_in_ghost")
      ELSE [t EXCEPT !.tally = votes_publish(@, slot),
                     !.blks = [s \in {x \in DOMAIN @ : x > slot} |-> @[s]],
                     !.ghost = ghost_publish(@, newr),
                     !.root = slot]

\* The root a vote brings: the confirmed version of the slot, or else ours.
AdvanceRoot(t, slot) ==
  LET blk  == t.blks[slot]
      newr == IF blk.confirmed # NoBlock THEN blk.confirmed ELSE blk.voted
  IN  IF t.root \notin DOMAIN t.blks THEN Die(t, "no_old_root")
      ELSE IF ~Has(t.ghost, newr) THEN Die(t, "root_not_in_ghost")
      ELSE [t EXCEPT !.tally = votes_publish(@, slot),
                     !.blks = [s \in {x \in DOMAIN @ : x < t.root \/ x >= slot} |-> @[s]],
                     !.ghost = ghost_publish(@, newr),
                     !.root = slot]

Pushed(t, b, pushed) ==
  LET voted == [t EXCEPT !.votes = pushed.votes, !.blks[Slot(b)].voted = b]
  IN  IF pushed.root = NoSlot THEN voted
      ELSE IF pushed.root \notin DOMAIN t.blks THEN Die(voted, "no_new_root")
      ELSE AdvanceRoot(voted, pushed.root)

CastVote(t, b) == IF b = NoBlock THEN t ELSE Pushed(t, b, push_vote(t.votes, Slot(b)))

\* publish_slot_done needs the parent of the replayed block for a blockhash.
Done(t, now, choice) ==
  IF choice.vote # NoBlock /\ ~Dead(t) /\ Slot(tree[now]) \notin DOMAIN t.blks
  THEN Die(t, "no_parent_on_vote")
  ELSE [t EXCEPT !.decision = [now |-> now, kind |-> choice.kind,
                               reset |-> choice.reset, vote |-> choice.vote]]

Carry(t, now, choice) == Done(CastVote(t, choice.vote), now, choice)

Settle(t, now, choice) ==
  LET want == choice.vote
  IN  IF choice.kind = "null" \/ (want # NoBlock /\ Slot(want) \notin DOMAIN t.blks)
      THEN Die(t, "null_block")
      ELSE Carry(t, now, [choice EXCEPT !.vote =
                            IF want # NoBlock /\ (t.votes = <<>> \/ MayVote(t, now, Slot(want)))
                            THEN want ELSE NoBlock])

VoteAndReset(t, now) ==
  IF Dead(t) THEN t ELSE Settle(t, now, Choice(t, best(t.ghost, t.ghost.root)))

\* publish_slot_ignored: the block builds on a fork the root has pruned.
Ignored(b) == [now |-> b, kind |-> "ignored", reset |-> NoBlock, vote |-> NoBlock]

replay_slot_completed(t, b) ==
  LET boot == b = Snapshot
      inghost == [t EXCEPT !.ghost = IF boot THEN ghost_init(@, b) ELSE ghost_insert(@, b, tree[b]),
                           !.root = IF boot THEN Slot(b) ELSE @]
  IN  IF ~boot /\ ~Has(t.ghost, tree[b]) THEN [t EXCEPT !.decision = Ignored(b)]
      ELSE VoteAndReset(reconcile(CountAccts(InsertBlock(inghost, b), b), VoteAccount(Us, b)), b)

\* publish_slot_duplicate: unless our version is the confirmed one, fork choice
\* may no longer pick it.
publish_slot_duplicate(t, slot) ==
  IF slot \in DOMAIN t.blks /\ t.blks[slot].confirmed # t.blks[slot].replayed
  THEN [t EXCEPT !.ghost = ghost_eqvoc(@, t.blks[slot].replayed)]
  ELSE t

-----------------------------------------------------------------------------
NoDecision == [now |-> NoBlock, kind |-> "none", reset |-> NoBlock, vote |-> NoBlock]

Init == /\ tree \in Trees
        /\ ballot \in [Voter -> UNION {Ballots[v] : v \in Voter}]
        /\ \A v \in Voter : ballot[v] \in Ballots[v] /\ Honest(tree, ballot[v])
        /\ replayed = {} /\ proved = {} /\ published = {} /\ crit = ""
        /\ ghost = EmptyGhost /\ votes = <<>> /\ root = NoSlot
        /\ blks = <<>> /\ tally = <<>> /\ decision = NoDecision

Become(t) == /\ ghost' = t.ghost /\ votes' = t.votes /\ root' = t.root /\ blks' = t.blks
             /\ tally' = t.tally /\ published' = t.published
             /\ decision' = t.decision /\ crit' = t.crit

\* Replay completes a block after its parent, and a second version of a slot
\* only once the tile has told it that this version is confirmed.
Replay(b) ==
  /\ b \notin replayed
  /\ b = Snapshot \/ tree[b] \in replayed
  /\ \A x \in replayed : Slot(x) = Slot(b) => <<b, "duplicate", "fwd">> \in published
  /\ replayed' = replayed \cup {b}
  /\ Become(replay_slot_completed(tile, b))
  /\ UNCHANGED <<cluster, proved>>

\* Before the first replay the tower's root is ULONG_MAX and every vote is too
\* old.
VoteTxn(v, b) ==
  /\ replayed # {}
  /\ b \in ballot[v]
  /\ Become(count_vote_txn(tile, v, b))
  /\ UNCHANGED <<cluster, replayed, proved>>

Duplicate(slot) ==
  /\ slot \notin proved
  /\ proved' = proved \cup {slot}
  /\ Become(publish_slot_duplicate(tile, slot))
  /\ UNCHANGED <<cluster, replayed>>

Equivocated == {s \in {Slot(b) : b \in Block} : Cardinality({b \in Block : Slot(b) = s}) > 1}

Next == /\ crit = ""
        /\ \/ \E b \in Block : Replay(b)
           \/ \E v \in Voter : \E b \in ballot[v] : VoteTxn(v, b)
           \/ \E slot \in Equivocated : Duplicate(slot)

Spec == Init /\ [][Next]_vars

-----------------------------------------------------------------------------
\* fd_tower_t, fd_ghost_t and the tally hold what their types allow: the table
\* and ghost only hold replayed blocks, votes are in the tower's order.
TypeOK ==
  /\ replayed \subseteq Block /\ proved \subseteq Equivocated
  /\ root \in Nat \cup {NoSlot}
  /\ DOMAIN blks \subseteq {Slot(b) : b \in replayed}
  /\ Nodes(ghost) \subseteq replayed
  /\ DOMAIN tally \subseteq Block
  /\ \A b \in DOMAIN tally : tally[b].conf \cup tally[b].fwd \subseteq Levels
  /\ InOrder(votes)

\* No FD_TEST, FD_LOG_CRIT or NULL entry is reached in any handler: every
\* block of ghost has its table entry, every vote account names blocks ghost
\* knows, and every root is a block of ghost.  It does not hold when our own
\* on-chain tower has a newer root than ours (see reconcile).
NoAssertionFails == crit = ""

\* What fork choice weighs is right however votes move between forks and roots
\* prune them: the stake of a block is that of the voters whose newest vote is
\* in its subtree, no voter is parked on a pruned block, and the width that is
\* reported as the number of forks is the number of leaves.
GhostStakes ==
  /\ \A b \in Nodes(ghost) :
       ghost.stake[b] = StakeOf({v \in Voter : ghost.vtr[v].blk \in Subtree(ghost, b)})
  /\ \A v \in Voter : ghost.vtr[v].blk \in Nodes(ghost) \cup {NoBlock}
  /\ ghost.width = Cardinality({b \in Nodes(ghost) : ghost.kids[b] = <<>>})

\* Lockout: the tower's votes lie on one fork of the real block tree, though
\* lockout_check only compares the slot of the top vote left.  The exception is
\* a vote for a version of a slot that lost to a confirmed one.
VotesOnOneFork ==
  \A i, j \in DOMAIN votes : i < j =>
    LET older == blks[votes[i].slot]
        newer == blks[votes[j].slot]
    IN  \/ older.voted \in Above(tree, newer.voted)
        \/ older.confirmed \notin {NoBlock, older.voted}

\* The versions of a slot: once the tower knows which one the cluster confirmed,
\* fork choice can pick no other, whether the proof, the votes or the replay of
\* either version came first.
ConfirmedWins ==
  \A b \in Nodes(ghost) :
    blks[Slot(b)].confirmed \notin {NoBlock, b} => ~ghost.valid[b]

\* The root never goes back or changes forks, and the tower and ghost keep the
\* same one.
RootAdvances ==
  [][crit' = "" /\ replayed' # {} =>
       /\ root' = Slot(ghost'.root)
       /\ ghost.root \in {NoBlock, ghost'.root} \cup Above(tree, ghost'.root)]_vars

\* Switching: a vote that leaves the fork of our last vote is cast only when more
\* than 38% of the stake really voted on forks that exclude that vote.
LastVoted == blks[last_vote(votes)].voted

SwitchesOnProof ==
  [][replayed' # replayed /\ decision'.kind = "switch_pass" /\ decision'.vote # NoBlock
       => Exceeds(StakeOf({v \in Voter : \E x \in ballot[v] : /\ x \notin Chain(LastVoted)
                                                              /\ LastVoted \notin Chain(x)}), 38, 100)]_vars
==============================================================================
