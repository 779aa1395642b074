CONSTANTS
  t1 = t1
  t2 = t2
  Task <- MCTask
  Idle = Idle
  MaxNest = 1
  FlagMod = 2
  SbCap = 2
  SharedWord = TRUE
\* Every task may be killed by its MAP_FAILED page: the processor then stays idle.
CHECK_DEADLOCK FALSE
SPECIFICATION Spec
INVARIANT NoLostPreemption
