\* Every program; files of up to three lines, and columns of which a line has two
\* at most, so that two lines which are too short make one job and the run aborts.
SPECIFICATION FairSpec
CONSTANTS
  Programs <- AllPrograms
  Lines <- MCLines
  MaxLines = 3
  Columns = {1, 2, 3}
  Value <- MCValue
  Wcet = 4
  Period = 5
  Duration = 5
  CsLengths = {0, 4}
  Scales = {1, 2}
  Second = 3
  LoopTimes = {1, 2}
  MaxDelay = 2
  Loops = 3
  Masks <- MCMasks
  Param = 2
\* Programs end.
CHECK_DEADLOCK FALSE
INVARIANTS
  SpinInv ReadsFile AllJobsRun MarksJustified
PROPERTY ProgramEnds
