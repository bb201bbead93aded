SPECIFICATION Spec
CONSTANTS
  t1 = t1
  t2 = t2
  t3 = t3
  Tasks <- ThreeTasks
  LastVersion = 2
  Advertised <- OnlySecond
  Preflight = TRUE
SYMMETRY Symmetry
INVARIANTS
  CheckedOnceKnown
  RefreshIsFresh
PROPERTIES
  OnlyOverlapRegresses
CHECK_DEADLOCK FALSE
