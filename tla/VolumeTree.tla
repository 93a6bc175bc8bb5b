----------------------------- MODULE VolumeTree -----------------------------
(***************************************************************************)
(* The file tree a volume holds: what each path names, and the bytes of    *)
(* each file, read along its chain.                                        *)
(***************************************************************************)
EXTENDS Volume

CONSTANTS Absent, Folder   (* what a path names if not a file's bytes       *)

Content(h) ==
  LET chain == ChainOf(h)
      upTo[k \in 0 .. Len(chain)] ==
        IF k = 0 THEN <<>>
        ELSE LET c == chain[k]
             IN  upTo[k - 1] \o [j \in 1 .. Length(c) |-> cluster[c].data[j - 1]]
  IN  upTo[Len(chain)]
FilesAt(path) ==
  IF path = <<>> THEN {} ELSE LET up == Walk(Up(path)) IN {c \in Heads : IsFile(c, up, Leaf(path))}
Named(path) ==
  LET files == FilesAt(path)
  IN  IF files # {} THEN Content(CHOOSE c \in files : TRUE)
      ELSE IF Walk(path) \in Parents THEN Folder ELSE Absent
TreeOf(paths) == [path \in paths |-> Named(path)]
=============================================================================
