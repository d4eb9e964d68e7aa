SPECIFICATION Spec
CONSTANTS
  Routine = {r1, r2}
  Failing = {r2}
  Worker = {w1, w2}
  MaxMsg <- MCMaxMsg
  Ending <- MCEnding
  ChanCap = 2
  BatchSize = 1
  ProcCap = 1
  MaxLogLines = 1
INVARIANT EveryRoutineShown
CHECK_DEADLOCK FALSE
