-------------------------------- MODULE MCFs --------------------------------
(***************************************************************************)
(* The services seen from outside.  The history variable remembers the      *)
(* file tree, the descriptor and the redirection as the last service left   *)
(* them: what a program can know between two services.                     *)
(***************************************************************************)
EXTENDS KernelFs, VolumeTree

CONSTANT Nothing

(* Paths that share names, one of them too long for a directory record.    *)
MCDir   == <<1, 0>>
MCFile  == <<1, 1>>
MCPaths == {<<>>, <<MCDir>>, <<MCFile>>, <<MCDir, MCFile>>}
FilePaths == {<<>>, <<MCDir>>, <<MCFile>>}
MCBuffers == {<<1, 1>>}
OneByte   == {<<0>>}

VARIABLE seen  (* the file tree, descriptor, redirection and result, between services *)

mcvars == <<vars, seen>>

(* A cursor as a file and a position in it.                                *)
Stale(cursor) ==
  \A i \in DOMAIN ChainOf(cursor.head) : ChainOf(cursor.head)[i] # cursor.cluster
Place[cursor \in Cursors] ==
  LET before[chain \in Seq(Clusters)] ==
        IF Head(chain) = cursor.cluster THEN 0
        ELSE Length(Head(chain)) + before[Tail(chain)]
      isFor(path) == path # <<>> /\ IsFile(cursor.head, Walk(Up(path)), Leaf(path))
  IN  IF \/ cursor.head = 0 \/ (Shared /\ Stale(cursor))
         \/ \A path \in Paths : ~ isFor(path)
      THEN Nothing
      ELSE [path |-> CHOOSE path \in Paths : isFor(path),
            at |-> before[ChainOf(cursor.head)] + cursor.offset]
Files == TreeOf(Paths)
Seen(tree) ==
  [tree |-> tree, fd |-> Place[fs],
   redirect |-> IF redirect.on THEN Place[redirect.cursor] ELSE Nothing, result |-> result]

MCInit == Init /\ seen = Seen(Files)

(* Callers that never ask for a directory where a file has the name.  The  *)
(* kernel answers such a call as it should, but leaves the file open (see  *)
(* MkdirOnFile), which the interface does not promise.                     *)
Sensible ==
  result'.status = FS_EXISTS => ~ \E path \in Paths : MkdirOnFile(path)

MCNext ==
  /\ Next /\ Sensible
  /\ \/ work' # Idle /\ seen' = [seen EXCEPT !.result = Nothing]
     \/ work' = Idle /\ disk' = disk /\ work = Idle /\ seen' = [Seen(0)' EXCEPT !.tree = seen.tree]
     \/ work' = Idle /\ (disk' # disk \/ work # Idle) /\ seen' = Seen(Files)'

(* No action reads what the last service returned, and every step is       *)
(* checked, also one to a state already seen: states that differ in no     *)
(* more than that are explored once.                                       *)
MCView == <<table, dirs, cluster, fs, redirect, work, [seen EXCEPT !.result = Nothing]>>

MCSpec == MCInit /\ [][MCNext]_mcvars
-----------------------------------------------------------------------------
Tree == INSTANCE FileTree WITH
  Nameable <- {path \in Paths : path = <<>> \/ NamesDir(Leaf(path))},
  tree <- seen.tree, fd <- seen.fd, redirect <- seen.redirect, result <- seen.result

(* Every service, from its call to its return, does to the files what the  *)
(* interface promises, as if at once.                                      *)
ImplementsFileTree == Tree!Spec

(* Writing never shortens a file: a write overwrites from its cursor and    *)
(* grows the file at its end (os/SYSCALLS.md), so from one service to the  *)
(* next a file that is still there has at least the bytes it had.          *)
FilesNeverShrink ==
  [][\A path \in Paths :
       seen.tree[path] \notin {Absent, Folder} /\ seen.tree[path]' \notin {Absent, Folder} =>
         Len(seen.tree[path]') >= Len(seen.tree[path])]_seen
=============================================================================
