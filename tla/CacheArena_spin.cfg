CONSTANTS
  NumArenaElem = 6
  NumHotElem = 4
  RAND_MAX = 40

SPECIFICATION Spec
INVARIANTS
  EnumeratesArena
  EnumeratesHot
  NoOverrun
