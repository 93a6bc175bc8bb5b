\* Resets and sessions of the card reader, two in all, at any byte; sessions of two commands.
CONSTANTS
  N = 2
  D = 2
  NAME = 2
  DIRNAME = 1
  HEAD_CAP = 1
  CONT_CAP = 2
  RADIX = 2
  Chars = {1}
  Data = {0}
  Paths <- MCPaths
  Buffers <- MCBuffers
  MaxRead = 1
  MaxResets = 2
  Shared = FALSE
  HostPaths <- MCHostPaths
  Contents <- MCContents
  MaxCommands = 2
  Above = Above
  Bad = Bad
  Long = Long
  Absent = Absent
  Folder = Folder
  Refusal = Refusal
SPECIFICATION MCSpec
VIEW MCView
INVARIANTS TypeOK ChainsSound NoneStranded SessionSound NothingUnmarked KernelOpensAccepted
PROPERTIES WholeFilesKeepBytes OrphansInert ImplementsHostTree
