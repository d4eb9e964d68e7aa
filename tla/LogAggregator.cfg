SPECIFICATION FairSpec
CONSTANTS
  Routine = {r1, r2}
  Failing = {r2}
  Worker = {w1, w2}
  MaxMsg <- MCMaxMsg
  Ending <- MCEnding
  ChanCap = 2
  BatchSize = 2
  ProcCap = 1
  MaxLogLines = 1
INVARIANTS TypeOK Conserved
PROPERTIES Delivered FlushReturns
CHECK_DEADLOCK FALSE
