\* The redirection and the descriptor on the same file.
CONSTANTS
  N = 2
  D = 0
  NAME = 2
  DIRNAME = 1
  HEAD_CAP = 2
  CONT_CAP = 2
  RADIX = 2
  Chars = {1}
  Data = {0}
  Paths <- FilePaths
  Buffers <- OneByte
  MaxRead = 1
  MaxResets = 0
  Shared = TRUE
  Absent = Absent
  Folder = Folder
  Nothing = Nothing
\* The model stops where a stale cursor leaves the clusters of its use (InRole).
CHECK_DEADLOCK FALSE
SPECIFICATION MCSpec
PROPERTY FilesNeverShrink
