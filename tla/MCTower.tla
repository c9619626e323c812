------------------------------- MODULE MCTower -------------------------------
(***************************************************************************)
(* Small clusters for TowerTile: three voters, slots 0 to 5, slot 2 with    *)
(* two versions.                                                            *)
(***************************************************************************)
EXTENDS TowerTile

\* a alone is more than 38%, a with us is a duplicate confirmation, a with b is
\* every level.
MCVoter == {"us", "a", "b"}
MCStake == [v \in MCVoter |-> CASE v = "us" -> 1 [] v = "a" -> 3 [] v = "b" -> 2]

B(slot) == <<slot, 0>>
Twin == <<2, 1>>
MCSnapshot == B(0)
MCBlock == {B(s) : s \in 0..5} \cup {Twin}

\* The tree in which slot s > 0 builds on up[s], and the second version of slot
\* 2 on `twin'.
Tree(up, twin) ==
  [b \in MCBlock |-> IF b = B(0) THEN NoBlock ELSE IF b = Twin THEN twin ELSE up[b[1]]]

\* A chain whose slot 2 is forked in two versions, with and without a block on
\* the second; a minority fork that starts at the snapshot; and two forks of
\* equal length that both use slot 2.
MCTrees == {Tree(<<B(0), B(1), B(2), B(3), B(4)>>, B(1)),
            Tree(<<B(0), B(1), B(2), B(3), Twin>>, B(1)),
            Tree(<<B(0), B(1), B(2), B(0), B(3)>>, B(0)),
            Tree(<<B(0), B(0), B(1), B(2), B(3)>>, B(1))}

MCBallots ==
  [us |-> {{}, {B(3)}},
   a  |-> {{B(1), B(2)}, {B(2), B(4)}, {Twin}, {B(1), B(3)}},
   b  |-> {{B(1)}, {B(2)}, {Twin}, {B(2), B(3)}}]

\* We restart with an on-chain tower whose votes for slots 1 to 3 have rooted
\* slot 1, and a fork from the snapshot is replayed after that.
MCAheadTrees == {Tree(<<B(0), B(1), B(2), B(3), B(0)>>, B(1))}
MCAheadBallots == [us |-> {{B(1), B(2), B(3)}}, a |-> {{B(5)}}, b |-> {{B(5)}}]
=============================================================================
