SPECIFICATION Spec
CONSTANTS
  N = 5
  Capacity = 2
  Limit = 1000
  InjectDuplicate = TRUE
  InjectMalformed = TRUE
  FailAt = 5
  MayStop = FALSE
  Observers = {"tkmetr", "tkdiag"}
INVARIANTS AuditPrefix TablesFit CompleteMatches 
PROPERTIES LastMetricsFinal AllReturn
CHECK_DEADLOCK FALSE
