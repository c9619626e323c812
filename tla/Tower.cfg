CONSTANTS
  Voter <- MCVoter
  Stake <- MCStake
  Block <- MCBlock
  Snapshot <- MCSnapshot
  Trees <- MCTrees
  Ballots <- MCBallots
  Us = "us"
  Leader = {1}
  SlotMax = 8
  ThresholdDepth = 2
  VoteMax = 2
SPECIFICATION Spec
INVARIANTS TypeOK NoAssertionFails GhostStakes VotesOnOneFork ConfirmedWins
PROPERTIES RootAdvances SwitchesOnProof
CHECK_DEADLOCK FALSE
