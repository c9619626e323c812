SPECIFICATION Spec
CHECK_DEADLOCK FALSE
CONSTANTS
  Tiles = {1, 2}
  StopEarly = FALSE
  Stuck = {1, 2}
  Crashing = {2}
INVARIANTS NoOrphans VerdictsTrue
PROPERTIES GraceHonoured StaleTilesEnd StopReturns
