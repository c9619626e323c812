SPECIFICATION Spec
CONSTANTS
  t1 = t1
  t2 = t2
  Threads = {t1, t2}
  EleMax = 2
  VerMod = 16
  MaxOps = 5
  LazyModes = {TRUE, FALSE}
INVARIANTS
  OnePlaceEach
  LinksAreStack
  NeverCritical
PROPERTIES
  NullMeansEmpty
  CallsReturn
CHECK_DEADLOCK FALSE
