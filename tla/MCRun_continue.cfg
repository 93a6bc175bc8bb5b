\* Continuing from a breakpoint while an interrupt is pending.
CONSTANTS
  MAX_MEM = 8
  Pcs = {0, 1, 3}
  Base = 2
  Handler = 0
  Sps = {0}
  CallSize = 2
  Batch = 2
  None = None
SPECIFICATION Spec
PROPERTY ContinueExecutesOnce
CHECK_DEADLOCK FALSE
