\* Breakpoints, single steps, edits and resets against the worker.
CONSTANTS
  MAX_MEM = 8
  Pcs = {0, 1}
  Base = 1
  Handler = 0
  Sps = {0, 1}
  CallSize = 2
  Batch = 2
  None = None
SPECIFICATION FairSpec
INVARIANT TypeOK
PROPERTY NeverRunsPast
PROPERTY JoinReturns
PROPERTY StartedRuns
CHECK_DEADLOCK FALSE
