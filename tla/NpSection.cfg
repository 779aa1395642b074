CONSTANTS
  t1 = t1
  t2 = t2
  Task <- MCTask
  Idle = Idle
  MaxNest = 2
  FlagMod = 3
  SbCap = 3
  SharedWord = FALSE
\* Every task may be killed by its MAP_FAILED page: the processor then stays idle.
CHECK_DEADLOCK FALSE
SPECIFICATION FairSpec
INVARIANTS
  TypeOK
  NpExclusion
  NoLostPreemption
  RequestedIffOwed
PROPERTIES
  ImplementsPromise
  PreemptionServed
