\* Every service on a volume of three clusters and one directory, without resets.
CONSTANTS
  N = 3
  D = 1
  NAME = 2
  DIRNAME = 1
  HEAD_CAP = 1
  CONT_CAP = 1
  RADIX = 2
  Chars = {1}
  Data = {0, 1}
  Paths <- MCPaths
  Buffers <- MCBuffers
  MaxRead = 1
  MaxResets = 0
  Shared = FALSE
  Absent = Absent
  Folder = Folder
  Nothing = Nothing
SPECIFICATION MCSpec
VIEW MCView
INVARIANTS IdleVolumeValid CursorsFresh
PROPERTY ImplementsFileTree
