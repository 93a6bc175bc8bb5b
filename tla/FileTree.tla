------------------------------ MODULE FileTree ------------------------------
(***************************************************************************)
(* What the filesystem services promise a program (os/SYSCALLS.md): a tree *)
(* of named files and directories, one descriptor and one redirection, each *)
(* a position in a named file, and services that happen all at once.       *)
(* Nothing here speaks of clusters, records or cached cursors; a volume    *)
(* may be full at any time.                                                *)
(***************************************************************************)
EXTENDS Integers, Sequences

CONSTANTS
  Paths,       (* the paths of the tree, with all their prefixes           *)
  Nameable,    (* those whose last name fits a directory record            *)
  Buffers, MaxRead,
  Absent, Folder, Nothing

VARIABLES
  tree,      (* what each path names: Absent, Folder or the file's bytes *)
  fd,        (* the descriptor: Nothing, or a file and a position in it    *)
  redirect,  (* the redirection, likewise                                  *)
  result     (* the status and count of the last service, Nothing while one runs *)

vars == <<tree, fd, redirect, result>>

SUCCESS       == 0
INVALID       == 1
NOT_FOUND     == 3
NO_DESCRIPTOR == 4
CAPACITY      == 6
EXISTS        == 10
NOT_EMPTY     == 11
Statuses      == {SUCCESS, INVALID, NOT_FOUND, NO_DESCRIPTOR, CAPACITY, EXISTS, NOT_EMPTY}

Up(path)      == SubSeq(path, 1, Len(path) - 1)
IsDir(path)   == tree[path] = Folder
IsFile(path)  == tree[path] \notin {Absent, Folder}
Creatable(path) == tree[path] = Absent /\ IsDir(Up(path))

(* The status of a path that cannot be resolved: a name that cannot be a    *)
(* directory's where a directory is needed is refused before it is sought. *)
Unresolved(path, status) ==
  \E k \in 1 .. Len(path) :
    /\ \A j \in 1 .. k - 1 : IsDir(SubSeq(path, 1, j))
    /\ ~ IsDir(SubSeq(path, 1, k))
    /\ status = IF SubSeq(path, 1, k) \in Nameable THEN NOT_FOUND ELSE INVALID

(* A file is sought in the directory above it.                             *)
NoFile(path, status) ==
  \/ path = <<>> /\ status = INVALID
  \/ path # <<>> /\ Unresolved(Up(path), status)
  \/ path # <<>> /\ IsDir(Up(path)) /\ ~ IsFile(path) /\ status = NOT_FOUND

Start(path) == [path |-> path, at |-> 0]
Replies(status, count) == result' = [status |-> status, count |-> count]
Refuses(status) == Replies(status, 0) /\ UNCHANGED <<tree, redirect>>

Overwritten(file, at, bytes) ==
  [i \in 1 .. (IF at + Len(bytes) > Len(file) THEN at + Len(bytes) ELSE Len(file)) |->
     IF i \in at + 1 .. at + Len(bytes) THEN bytes[i - at] ELSE file[i]]

Init ==
  /\ tree = [path \in Paths |-> IF path = <<>> THEN Folder ELSE Absent]
  /\ fd = Nothing /\ redirect = Nothing
  /\ result = [status |-> SUCCESS, count |-> 0]
-----------------------------------------------------------------------------
Open(path) ==
  \/ IsFile(path) /\ fd' = Start(path) /\ Refuses(SUCCESS)
  \/ \E status \in Statuses : NoFile(path, status) /\ fd' = Nothing /\ Refuses(status)

Find(path) ==
  /\ fd' = Nothing
  /\ \/ IsDir(path) /\ Refuses(SUCCESS)
     \/ \E status \in Statuses : Unresolved(path, status) /\ Refuses(status)

Close ==
  fd' = Nothing /\ \E status \in {SUCCESS, NO_DESCRIPTOR} : Refuses(status)

Rewind ==
  \/ fd = Nothing /\ fd' = fd /\ Refuses(NO_DESCRIPTOR)
  \/ fd # Nothing /\ fd' = Start(fd.path) /\ Refuses(SUCCESS)

Redirect(path) ==
  /\ UNCHANGED <<tree, fd>>
  /\ \/ IsFile(path) /\ redirect' = Start(path) /\ Replies(SUCCESS, 0)
     \/ \E status \in Statuses :
          NoFile(path, status) /\ redirect' = redirect /\ Replies(status, 0)
RedirectOff == redirect' = Nothing /\ Replies(SUCCESS, 0) /\ UNCHANGED <<tree, fd>>

(* A read stops at the end of the file, successfully.                      *)
Read(count) ==
  \/ fd = Nothing /\ fd' = fd /\ Refuses(NO_DESCRIPTOR)
  \/ /\ fd # Nothing /\ UNCHANGED <<tree, redirect>>
     /\ LET left == Len(tree[fd.path]) - fd.at
            n == IF count < left THEN count ELSE left
        IN  fd' = [fd EXCEPT !.at = @ + n] /\ Replies(SUCCESS, n)

(* A write overwrites from the position and grows the file at its end; a   *)
(* full volume cuts short what extends the file.  That holds of an empty    *)
(* file that touch has made as well: os/SYSCALLS.md says so of every file  *)
(* (line 57) and the contrary of these (line 83), and the kernel does the  *)
(* former.                                                                 *)
Put(cursor, bytes, n) ==
  /\ tree' = [tree EXCEPT ![cursor.path] = Overwritten(@, cursor.at, SubSeq(bytes, 1, n))]
  /\ \/ n = Len(bytes) /\ Replies(SUCCESS, n)
     \/ n < Len(bytes) /\ cursor.at + n >= Len(tree[cursor.path]) /\ Replies(CAPACITY, n)

Write(bytes) ==
  \/ fd = Nothing /\ fd' = fd /\ Refuses(NO_DESCRIPTOR)
  \/ \E n \in 0 .. Len(bytes) :
       /\ fd # Nothing /\ Put(fd, bytes, n)
       /\ fd' = [fd EXCEPT !.at = @ + n] /\ redirect' = redirect
PrintRedirected(bytes) ==
  \E n \in 0 .. Len(bytes) :
    /\ redirect # Nothing /\ Put(redirect, bytes, n)
    /\ redirect' = [redirect EXCEPT !.at = @ + n] /\ fd' = fd

Becomes(path, what) ==
  /\ tree' = [tree EXCEPT ![path] = what] /\ Replies(SUCCESS, 0) /\ redirect' = redirect
Taken(path)   == path # <<>> /\ IsDir(path)
NoParent(path, status) ==
  IF path = <<>> THEN status = INVALID ELSE Unresolved(Up(path), status)

Touch(path) ==
  /\ fd' = Nothing
  /\ \/ IsFile(path) /\ Refuses(SUCCESS)
     \/ Taken(path) /\ Refuses(EXISTS)
     \/ Creatable(path) /\ (Becomes(path, <<>>) \/ Refuses(CAPACITY))
     \/ \E status \in Statuses : NoParent(path, status) /\ Refuses(status)

(* A namespace service closes the descriptor, and a name that is taken, by *)
(* a directory or a file, is refused.                                      *)
Mkdir(path) ==
  /\ fd' = Nothing
  /\ \/ (IsFile(path) \/ Taken(path)) /\ Refuses(EXISTS)
     \/ Creatable(path) /\ path \notin Nameable /\ Refuses(INVALID)
     \/ /\ Creatable(path) /\ path \in Nameable
        /\ Becomes(path, Folder) \/ Refuses(CAPACITY)
     \/ \E status \in Statuses : NoParent(path, status) /\ Refuses(status)

HasChildren(path) ==
  \E other \in Paths : other # <<>> /\ Up(other) = path /\ tree[other] # Absent

RemovePath(path) ==
  /\ fd' = Nothing
  /\ \/ IsFile(path) /\ Becomes(path, Absent)
     \/ path = <<>> /\ Refuses(INVALID)
     \/ Taken(path) /\ HasChildren(path) /\ Refuses(NOT_EMPTY)
     \/ Taken(path) /\ ~ HasChildren(path) /\ Becomes(path, Absent)
     \/ \E status \in Statuses :
          ~ IsFile(path) /\ Unresolved(path, status) /\ Refuses(status)

(* A service takes its time; then it does what it does at once.            *)
Begin == result' = Nothing /\ UNCHANGED <<tree, fd, redirect>>

Next ==
  \/ Begin \/ Close \/ Rewind \/ RedirectOff
  \/ \E path \in Paths :
       Open(path) \/ Find(path) \/ Redirect(path) \/ Touch(path) \/ Mkdir(path) \/ RemovePath(path)
  \/ \E count \in 0 .. MaxRead : Read(count)
  \/ \E bytes \in Buffers : Write(bytes) \/ PrintRedirected(bytes)

Spec == Init /\ [][Next]_vars
=============================================================================
