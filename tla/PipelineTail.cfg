SPECIFICATION Spec
CONSTANTS
  N = 2
  Capacity = 1
  Limit = 1000
  InjectDuplicate = FALSE
  InjectMalformed = FALSE
  FailAt = 2
  MayStop = FALSE
  Observers = {}
INVARIANT CleanRunAuditsAll
CHECK_DEADLOCK FALSE
