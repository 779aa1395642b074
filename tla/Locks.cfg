\* Every lock test under every plugin it is for, and three rtspin on a lock.
SPECIFICATION FairSpec
CONSTANTS
  Spinners = 3
  MaxOd = 1
\* Programs end.
CHECK_DEADLOCK FALSE
INVARIANTS LocksInv TestsPass
PROPERTY EverybodyEnds
