------------------------------- MODULE Volume -------------------------------
(***************************************************************************)
(* An AFS v1 volume: the allocation table, the directory records and the   *)
(* clusters of one MPME card, and what the kernel's lookup and validation  *)
(* read from them (os/kernel/fs_lookup, fs_chain).  HostValid is the test  *)
(* the card reader applies to an image (cardreader/include/afs.hh).        *)
(*                                                                         *)
(* The three parts of the volume are kept as the format lays them out:     *)
(*                                                                         *)
(*    table[c]    the owner directory and the use of cluster c             *)
(*    dirs[d]     the upper directory and the name of directory d, a       *)
(*                record whose name starts with 0 being free               *)
(*    cluster[c]  the name (of a head), the next cluster, the two bytes    *)
(*                of the length, and the payload                           *)
(*                                                                         *)
(* A name is a zero-padded function, as in its fixed field; the separate   *)
(* field of the extension is the part of it beyond DIRNAME, which a        *)
(* directory record has no room for.  The two layouts of a cluster's bytes *)
(* (a head: name 0-19, link 20, length 21-22, payload from 23; a           *)
(* continuation: link 0, length 1-2, payload from 3) are not overlaid, so  *)
(* a cluster must only be read and written as what its use says it is: see *)
(* InRole in KernelFs for the one case in which the code does otherwise.   *)
(***************************************************************************)
EXTENDS Integers, Sequences, FiniteSets

CONSTANTS
  N,        (* FS_CLUSTER_COUNT: 196                                       *)
  D,        (* FS_DIRECTORY_COUNT: 96                                      *)
  NAME,     (* FS_NAME_FIELDS: 20                                          *)
  DIRNAME,  (* FS_MAX_DIRNAME_LEN: 15                                      *)
  HEAD_CAP, (* FS_HEAD_CAPACITY: 300                                       *)
  CONT_CAP, (* FS_CONT_CAPACITY: 320                                       *)
  RADIX,    (* values of a byte of a length: 256                           *)
  Chars,    (* the nonzero bytes names are made of                         *)
  Data      (* the bytes payloads are made of                              *)

ASSUME FormatAssumption ==
  /\ N \in Nat \ {0} /\ D \in Nat /\ RADIX \in Nat \ {0}
  /\ DIRNAME \in Nat \ {0} /\ NAME \in Nat /\ DIRNAME <= NAME
  /\ HEAD_CAP \in Nat \ {0} /\ CONT_CAP \in Nat \ {0}
  /\ HEAD_CAP <= CONT_CAP /\ CONT_CAP < RADIX * RADIX
  /\ Chars \subseteq Nat \ {0} /\ 0 \in Data

VARIABLES table, dirs, cluster

disk == <<table, dirs, cluster>>

Clusters == 1 .. N
Dirs     == 1 .. D
Parents  == 0 .. D     (* 0 is the root *)

(* The uses of a cluster.                                                  *)
FREE == 0
HEAD == 1
CONT == 2

FS_SUCCESS       == 0
FS_INVALID_INPUT == 1
FS_NOT_FOUND     == 3
FS_NO_DESCRIPTOR == 4
FS_CORRUPT_CHAIN == 5
FS_DISK_CAPACITY == 6
FS_EXISTS        == 10
FS_NOT_EMPTY     == 11
Statuses == {FS_SUCCESS, FS_INVALID_INPUT, FS_NOT_FOUND, FS_NO_DESCRIPTOR,
             FS_CORRUPT_CHAIN, FS_DISK_CAPACITY, FS_EXISTS, FS_NOT_EMPTY}

Bytes     == {0} \cup Chars
Names     == {n \in [1 .. NAME -> Bytes] : n[1] # 0}
FileNames == [1 .. NAME -> Bytes]
DirNames  == [1 .. DIRNAME -> Bytes]
NoName    == [i \in 1 .. NAME |-> 0]
Places    == 0 .. CONT_CAP - 1

Entry   == [dir : Parents, used : {FREE, HEAD, CONT}]
Record  == [upper : Parents, name : DirNames]
Cluster == [name : FileNames, next : 0 .. N, hi : 0 .. RADIX - 1, lo : 0 .. RADIX - 1,
            data : [Places -> Data]]

VolumeOK ==
  /\ table \in [Clusters -> Entry]
  /\ dirs \in [Dirs -> Record]
  /\ cluster \in [Clusters -> Cluster]

(* An empty volume, as the card reader formats it.                         *)
Formatted ==
  /\ table = [c \in Clusters |-> [dir |-> 0, used |-> FREE]]
  /\ dirs = [d \in Dirs |-> [upper |-> 0, name |-> [i \in 1 .. DIRNAME |-> 0]]]
  /\ cluster = [c \in Clusters |->
                  [name |-> NoName, next |-> 0, hi |-> 0, lo |-> 0,
                   data |-> [i \in Places |-> 0]]]

LiveHead(c) == table[c].used = HEAD   \* mutant: a continuation counts as free
Live(c)     == table[c].used # FREE
Length(c)   == RADIX * cluster[c].hi + cluster[c].lo
Capacity(c) == IF table[c].used = HEAD THEN HEAD_CAP ELSE CONT_CAP

FirstFree(c) == ~ Live(c) /\ \A b \in Clusters : b < c => Live(b)
Full         == \A c \in Clusters : Live(c)

IsDir(d)        == dirs[d].name[1] # 0
FirstFreeDir(d) == ~ IsDir(d) /\ \A e \in Dirs : e < d => IsDir(e)
NoFreeDir       == \A d \in Dirs : IsDir(d)
-----------------------------------------------------------------------------
(* fs_lookup: a path is a sequence of names, resolved from the root by      *)
(* scanning the directory records for each component in turn; the first    *)
(* record that matches is taken.                                           *)

NoEntry == -1   (* a component is missing: FS_NOT_FOUND                    *)
BadName == -2   (* it cannot name a directory: FS_INVALID_INPUT            *)

NamesDir(n) == \A i \in DIRNAME + 1 .. NAME : n[i] = 0
Matches(d, up, n) == dirs[d].upper = up /\ \A i \in 1 .. DIRNAME : dirs[d].name[i] = n[i]
Child(up, n) ==
  IF ~ NamesDir(n) THEN BadName
  ELSE IF \E d \in Dirs : Matches(d, up, n)
       THEN CHOOSE d \in Dirs : Matches(d, up, n) /\ \A e \in Dirs : Matches(e, up, n) => d <= e
       ELSE NoEntry

(* The directory a sequence of names leads to.                             *)
Walk(path) ==
  LET at[i \in 0 .. Len(path)] ==
        IF i = 0 THEN 0
        ELSE LET up == at[i - 1] IN IF up \in Parents THEN Child(up, path[i]) ELSE up
  IN  at[Len(path)]

Up(path)   == SubSeq(path, 1, Len(path) - 1)
Leaf(path) == path[Len(path)]

IsFile(c, up, n) == table[c] = [dir |-> up, used |-> HEAD] /\ cluster[c].name = n
FileAt(path, up, c) ==
  /\ path # <<>> /\ Walk(Up(path)) = up
  /\ IsFile(c, up, Leaf(path)) /\ \A b \in Clusters : IsFile(b, up, Leaf(path)) => c <= b

(* All parents exist and only the file is absent: fs_missing_final.        *)
MissingLeaf(path, up) ==
  path # <<>> /\ Walk(Up(path)) = up /\ \A c \in Clusters : ~ IsFile(c, up, Leaf(path))
-----------------------------------------------------------------------------
(* fs_validate: the chain of a head, cut after as many clusters as there   *)
(* are, so that a cycle shows as a repetition.                             *)
ChainOf(h) ==
  LET walk[k \in Clusters] ==
        IF k = 1 THEN <<h>>
        ELSE LET chain == walk[k - 1]
                 next  == cluster[chain[Len(chain)]].next
             IN  IF next = 0 THEN chain ELSE Append(chain, next)
  IN  walk[N]

Sound(chain) ==
  /\ \A i, j \in 1 .. Len(chain) : chain[i] = chain[j] => i = j
  /\ cluster[chain[Len(chain)]].next = 0

Valid(h, up) ==
  LET chain == ChainOf(h)
  IN  /\ Sound(chain)
      /\ \A i \in 1 .. Len(chain) :
           /\ table[chain[i]] = [dir |-> up, used |-> IF i = 1 THEN HEAD ELSE CONT]
           /\ Length(chain[i]) <= Capacity(chain[i])

(* fs_open finds the file and accepts its chain, or fails with a status    *)
(* that leaves no descriptor.                                              *)
Opens(path, up, c) == FileAt(path, up, c) /\ Valid(c, up)
OpenFails(path, status) ==
  \/ /\ status = FS_CORRUPT_CHAIN
     /\ \E up \in Parents, c \in Clusters : FileAt(path, up, c) /\ ~ Valid(c, up)
  \/ status = FS_NOT_FOUND /\ \E up \in Parents : MissingLeaf(path, up)
  \/ status = FS_NOT_FOUND /\ path # <<>> /\ Walk(Up(path)) = NoEntry
  \/ status = FS_INVALID_INPUT /\ path # <<>> /\ Walk(Up(path)) = BadName
  \/ status = FS_INVALID_INPUT /\ path = <<>>

(* fs_directory, which also finds the root.                                *)
DirectoryFails(path, status) ==
  \/ status = FS_NOT_FOUND /\ Walk(path) = NoEntry
  \/ status = FS_INVALID_INPUT /\ Walk(path) = BadName
-----------------------------------------------------------------------------
(* What the card reader accepts when it opens an image.                    *)
ValidDir(d) == d = 0 \/ IsDir(d)
FileText(c) == cluster[c].name
DirText(d)  == [i \in 1 .. NAME |-> IF i <= DIRNAME THEN dirs[d].name[i] ELSE 0]
Heads       == {c \in Clusters : table[c].used = HEAD}

HostValid ==
  /\ \A d \in Dirs : IsDir(d) => ValidDir(dirs[d].upper)
  /\ \E depth \in [Dirs -> Dirs] : \A d \in Dirs :
       IsDir(d) /\ dirs[d].upper # 0 => depth[dirs[d].upper] < depth[d]
  /\ \A d, e \in Dirs : IsDir(d) /\ IsDir(e) /\ dirs[d] = dirs[e] => d = e
  /\ \A b \in Heads :
       /\ ValidDir(table[b].dir) /\ FileText(b)[1] # 0
       /\ \A c \in Heads : table[b].dir = table[c].dir /\ FileText(b) = FileText(c) => b = c
       /\ \A d \in Dirs : IsDir(d) => dirs[d].upper # table[b].dir \/ DirText(d) # FileText(b)
       /\ Sound(ChainOf(b))
       /\ \A i \in 1 .. Len(ChainOf(b)) :
            /\ table[ChainOf(b)[i]].used = IF i = 1 THEN HEAD ELSE CONT
            /\ Length(ChainOf(b)[i]) <= Capacity(ChainOf(b)[i])
  /\ \A b \in Heads, c \in Heads : b # c =>
       \A i \in 1 .. Len(ChainOf(b)), j \in 1 .. Len(ChainOf(c)) : ChainOf(b)[i] # ChainOf(c)[j]
  /\ \A c \in Clusters : table[c].used = CONT =>
       \E b \in Heads : \E i \in 1 .. Len(ChainOf(b)) : ChainOf(b)[i] = c
=============================================================================
