\* Breakpoints at the physical addresses of user code.
CONSTANTS
  MAX_MEM = 8
  Pcs = {0, 1}
  Base = 2
  Handler = 0
  Sps = {0}
  CallSize = 2
  Batch = 2
  None = None
SPECIFICATION Spec
PROPERTY StopsAtPhysical
CHECK_DEADLOCK FALSE
