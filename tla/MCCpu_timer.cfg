\* A timer expiry that meets another interrupt.
CONSTANTS
  MAX_MEM = 40
  ROM_ADDR = 34
  SYS_LO = 14
  SYS_HI = 14
  SLOT_BP = 22
  SLOT_SP = 24
  Tracked = {12,13,14,15,16,17,18,19,20,21,22,23,24,25}
  Data = {0, 14, 15, 36}
  Program <- TrapProgram
  Sizes = {0}
SPECIFICATION MCSpec
PROPERTY TimerExpiryDelivered
CHECK_DEADLOCK FALSE
