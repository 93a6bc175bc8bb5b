\* Every unprivileged instruction under two settings of the MTU; the bytes remembered
\* are a vector and those next to the limits on the outside.
CONSTANTS
  MAX_MEM = 46
  ROM_ADDR = 40
  SYS_LO = 14
  SYS_HI = 14
  SLOT_BP = 22
  SLOT_SP = 24
  Tracked = {0,25,32,40}
  Data = {0, 5, 13, 14, 42}
  Program <- UserProgram
  Sizes = {0}
SPECIFICATION UserSpec
PROPERTY UserConfined
CHECK_DEADLOCK FALSE
