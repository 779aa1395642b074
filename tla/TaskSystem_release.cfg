CONSTANTS
  t1 = t1
  t2 = t2
  t3 = t3
  Task <- MCTask
  Program <- Campaign
  Releasers = {"release_ts", "test"}
  Operands = {0, 3}
  CallsMayFail = TRUE
  StatsMayFail = TRUE

SPECIFICATION FairSpec
INVARIANTS
  TypeOK
  NobodyLeftBehind
  JobsInRealTime
  SeenAreReleased
PROPERTIES
  ReleasesTogether
  EndsUnlessFailed
\* A campaign is over, or waits for ever for a task that failed.
CHECK_DEADLOCK FALSE
