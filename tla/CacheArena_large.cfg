CONSTANTS
  NumArenaElem = 6
  NumHotElem = 0
  RAND_MAX = 7

SPECIFICATION Spec
INVARIANT EnumeratesArena
\* A program that leaves the arena has no defined behaviour.
CHECK_DEADLOCK FALSE
