SPECIFICATION Spec
CONSTANTS
  N = 2
  Capacity = 1
  Limit = 1000
  InjectDuplicate = FALSE
  InjectMalformed = TRUE
  FailAt = 1
  MayStop = TRUE
  Observers = {"tkdiag"}
INVARIANTS TypeOK MatchMeansComplete
PROPERTIES VerdictFinal LastDiagShowsCrash
CHECK_DEADLOCK FALSE
