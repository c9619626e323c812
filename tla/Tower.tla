-------------------------------- MODULE Tower --------------------------------
(***************************************************************************)
(* The vote tower of choreo/tower/fd_tower.c: the stack of votes with their *)
(* lockouts, what pushing a vote does to it, and the order between slots    *)
(* that the tower's block table records.                                    *)
(***************************************************************************)
EXTENDS Integers, Sequences

CONSTANT VoteMax       \* FD_TOWER_VOTE_MAX

ASSUME VoteMaxAssumption == VoteMax \in Nat \ {0}

\* fd_tower_vote_t
Vote == [slot : Nat, conf : Nat]

\* The last vote slot, -1 (ULONG_MAX) when the tower is empty.
last_vote(votes) == IF votes = <<>> THEN -1 ELSE votes[Len(votes)].slot

\* A tower: slots go up towards the top, confirmations go down.
InOrder(votes) ==
  /\ votes \in Seq(Vote) /\ Len(votes) <= VoteMax
  /\ \A i \in DOMAIN votes : votes[i].conf \in 1..VoteMax
  /\ \A i, j \in DOMAIN votes :
       i < j => votes[i].slot < votes[j].slot /\ votes[i].conf > votes[j].conf

\* 1UL << conf, as a function so that it has a value in every proof.
lockout[conf \in Nat] == IF conf = 0 THEN 1 ELSE 2 * lockout[conf - 1]

expiration_slot(vote) == vote.slot + lockout[vote.conf]

\* The votes a vote for `slot' leaves: expired votes are popped off the top
\* until one is met that has not expired.
simulate_vote(votes, slot) ==
  LET live == {i \in 1..Len(votes) : expiration_slot(votes[i]) >= slot}
  IN  IF live = {} THEN 0 ELSE CHOOSE i \in live : \A j \in live : j <= i

\* Wrong variant: every vote gains a confirmation, consecutive or not.
push_vote_all(votes, slot) ==
  LET kept == SubSeq(votes, 1, simulate_vote(votes, slot))
      full == Len(kept) = VoteMax
      rest == IF full THEN Tail(kept) ELSE kept
  IN  [votes |-> Append([i \in 1..Len(rest) |-> [rest[i] EXCEPT !.conf = @ + 1]],
                        [slot |-> slot, conf |-> 1]),
       root  |-> IF full THEN kept[1].slot ELSE -1]

\* The new votes, and the vote that reached max lockout and left the bottom
\* (-1 if none).  Lockouts double while the confirmations are consecutive.
push_vote(votes, slot) ==
  LET kept == SubSeq(votes, 1, simulate_vote(votes, slot))
      full == Len(kept) = VoteMax
      rest == IF full THEN Tail(kept) ELSE kept
      n    == Len(rest)
      Consecutive(i) == \A j \in i..n : rest[j].conf = n - j + 1
      Bumped(i) == IF Consecutive(i) THEN [slot |-> rest[i].slot, conf |-> rest[i].conf + 1]
                   ELSE rest[i]
  IN  [votes |-> Append([i \in 1..n |-> Bumped(i)], [slot |-> slot, conf |-> 1]),
       root  |-> IF full THEN kept[1].slot ELSE -1]

-----------------------------------------------------------------------------
\* is_ancestor: `anc' is a parent slot on the way up from `slot' through the
\* block table, by slot number only.
is_ancestor(blks, slot, anc) ==
  LET up[s \in DOMAIN blks] ==
        LET p == blks[s].parent_slot
        IN  p = anc \/ (p \in DOMAIN blks /\ up[p])
  IN  slot \in DOMAIN blks /\ up[slot]

\* Wrong variant: only the slot number is compared with the tower.
lockout_check_newer(t, slot) == slot > IF t.votes = <<>> THEN t.root ELSE last_vote(t.votes)

\* A vote is recent and descends from the top vote it would leave.
lockout_check(t, slot) ==
  IF t.votes = <<>> THEN slot > t.root
  ELSE /\ slot > last_vote(t.votes)
       /\ LET cnt == simulate_vote(t.votes, slot)
          IN  cnt = 0 \/ is_ancestor(t.blks, slot, t.votes[cnt].slot)

\* fd_tower_blocks_lowest_common_ancestor; -1 when the forks do not meet.
lowest_common_ancestor(blks, slot1, slot2) ==
  LET Line(s) == {x \in DOMAIN blks : x = s \/ is_ancestor(blks, s, x)}
      both == Line(slot1) \cap Line(slot2)
  IN  IF both = {} THEN -1 ELSE CHOOSE x \in both : \A y \in both : y <= x

\* fd_tower_blocks_canonical_block_id
canonical_block_id(blk) ==
  IF blk.confirmed # <<>> THEN blk.confirmed
  ELSE IF blk.voted # <<>> THEN blk.voted ELSE blk.replayed
=============================================================================
