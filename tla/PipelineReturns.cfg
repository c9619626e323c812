SPECIFICATION Spec
CONSTANTS
  N = 3
  Capacity = 1
  Limit = 1000
  InjectDuplicate = FALSE
  InjectMalformed = FALSE
  FailAt = 2
  MayStop = FALSE
  Observers = {}
PROPERTIES AllReturn
CHECK_DEADLOCK FALSE
