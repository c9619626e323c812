SPECIFICATION Spec
CHECK_DEADLOCK FALSE
CONSTANTS
  Tiles = {1}
  StopEarly = TRUE
  Stuck = {}
  Crashing = {}
PROPERTY StopReturns
