CONSTANTS
  Voter <- MCVoter
  Stake <- MCStake
  Block <- MCBlock
  Snapshot <- MCSnapshot
  Trees <- MCAheadTrees
  Ballots <- MCAheadBallots
  Us = "us"
  Leader = {}
  SlotMax = 8
  ThresholdDepth = 2
  VoteMax = 2
SPECIFICATION Spec
INVARIANT NoAssertionFails
CHECK_DEADLOCK FALSE
