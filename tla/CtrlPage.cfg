CONSTANTS
  m = m
  t1 = t1
  t2 = t2
  Thread <- MCThread
  Main = m
  NULL = NULL
  MAP_FAILED = MAP_FAILED
  MaxNest = 2
  InitAfterFork = TRUE
  MmapMayFail = TRUE
\* A killed process stops for good.
CHECK_DEADLOCK FALSE
SPECIFICATION Spec
SYMMETRY ThreadSymmetry
INVARIANTS
  TypeOK
  NoStuckFlag
  GetCtrlPageOwn
PROPERTY OwnFlagOnly
