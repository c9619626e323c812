SPECIFICATION Spec
CONSTANTS
  Depth = 2
  Events = 6
  Lossy = TRUE
  Oversized = {}
INVARIANT DroppedCoversLoss
PROPERTIES LossyNeverWaits
CHECK_DEADLOCK FALSE
