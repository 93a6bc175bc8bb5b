------------------------------ MODULE KernelFs ------------------------------
(***************************************************************************)
(* The filesystem services of the ANC216 kernel on one mounted volume      *)
(* (os/kernel/fs_*.anc216 and the syscalls of syscall_files,               *)
(* syscall_namespace and syscall_console that use them).  Interrupts are   *)
(* masked during a syscall, so services never overlap; but each writes the *)
(* card one byte at a time, every byte is persistent at once, and a soft   *)
(* reset (an NMI, which nothing masks) abandons the service after any of   *)
(* them.  A service is therefore the action that looks everything up and   *)
(* makes its first write, followed by one action per later write; Reset    *)
(* may come in between.  Writes to a cluster nobody can reach yet (the     *)
(* name, link and length of a free cluster) are taken together.            *)
(*                                                                         *)
(*   fs        the descriptor: the words fs_head .. fs_offset              *)
(*   redirect  the private cursor that redirected printing uses, whether   *)
(*             it is on, and whether it is swapped with the descriptor     *)
(*   work      where the running service is, and its scratch registers     *)
(*   result    the status (R7) and byte count (R6) of the last service     *)
(***************************************************************************)
EXTENDS Volume

CONSTANTS
  Paths,     (* the paths programs use                                     *)
  Buffers,   (* the byte sequences they write                              *)
  MaxRead,   (* the longest read                                           *)
  MaxResets, (* bound on the number of resets                              *)
  Shared     (* whether programs open or remove the redirection target     *)

ASSUME ServiceAssumption ==
  /\ Paths \subseteq Seq(Names) /\ Buffers \subseteq Seq(Data)
  /\ MaxRead \in Nat /\ MaxResets \in Nat /\ Shared \in BOOLEAN

VARIABLES fs, redirect, work, result, resets

vars == <<table, dirs, cluster, fs, redirect, work, result, resets>>

(* A closed descriptor; fs_head = 0 says so, the rest is scratch.          *)
Closed == [head |-> 0, parent |-> 0, cluster |-> 0, next |-> 0,
           remaining |-> 0, offset |-> 0]
Cursors == [head : 0 .. N, parent : Parents, cluster : 0 .. N, next : 0 .. N,
            remaining : Nat, offset : Nat]

(* fs_cluster_info; offsets count from the first payload byte.             *)
At(cursor, c) ==
  [cursor EXCEPT !.cluster = c, !.next = cluster[c].next,
                 !.remaining = Length(c), !.offset = 0]
Opened(up, c) == [head |-> c, parent |-> up, cluster |-> c, next |-> cluster[c].next,
                  remaining |-> Length(c), offset |-> 0]

Room(cursor) == IF cursor.cluster = cursor.head THEN HEAD_CAP ELSE CONT_CAP
Advanced(cursor) ==
  [cursor EXCEPT !.offset = @ + 1, !.remaining = IF @ = 0 THEN 0 ELSE @ - 1]

Steps == {"idle", "transfer", "length hi", "length lo", "cont owner", "cont type",
          "cont link", "head owner", "head type", "dir name", "dir upper",
          "free owner", "free type", "zero upper", "zero name"}
Works == [step : Steps, slot : Nat, parent : Parents, index : 0 .. DIRNAME,
          name : FileNames, bytes : Seq(Data), count : Nat, writes : BOOLEAN]
Results == [status : Statuses, count : Nat]
Idle  == [step |-> "idle", slot |-> 0, parent |-> 0, index |-> 0, name |-> NoName,
          bytes |-> <<>>, count |-> 0, writes |-> FALSE]

Returns(status, count) == work' = Idle /\ result' = [status |-> status, count |-> count]

(* A service that takes more steps has no result until it returns.         *)
Starts(begun) == work' = begun /\ result' = [status |-> FS_SUCCESS, count |-> 0]

(* A service that fails or only looks returns without touching the disk.   *)
Quietly(status) == Returns(status, 0) /\ UNCHANGED <<table, dirs, cluster, redirect, resets>>

(* The file the redirection writes.  Unless programs share it, they leave  *)
(* it alone until they switch the redirection off.                         *)
Redirected(c) == redirect.on /\ redirect.cursor.head = c
MayUse(c)     == Shared \/ ~ Redirected(c)

(* If they do share it, a cursor may be left in a cluster that has since   *)
(* been freed, or that has become a head instead of a continuation or the  *)
(* other way round.  The bytes it then writes fall across the other        *)
(* layout's name, link and length, which are not overlaid here (Volume):   *)
(* a stale cursor is followed only while its cluster has the use the       *)
(* cursor takes it to have, and the service is not modelled past that.     *)
(* Without sharing that is always so: CursorsFresh.                        *)
InRole(cursor, c) == Shared => table[c].used = IF c = cursor.head THEN HEAD ELSE CONT

(* fs_mount after boot: an empty volume, nothing open.                     *)
Init ==
  /\ Formatted
  /\ fs = Closed /\ redirect = [on |-> FALSE, swapped |-> FALSE, cursor |-> Closed]
  /\ work = Idle /\ result = [status |-> FS_SUCCESS, count |-> 0] /\ resets = 0
-----------------------------------------------------------------------------
(* Descriptor services.                                                     *)

Open(path) ==
  /\ work = Idle
  /\ \/ \E up \in Parents, c \in Clusters :
          /\ Opens(path, up, c) /\ MayUse(c)
          /\ fs' = Opened(up, c) /\ Quietly(FS_SUCCESS)
     \/ \E status \in Statuses :
          OpenFails(path, status) /\ fs' = Closed /\ Quietly(status)

(* fs_directory leaves no descriptor behind, whatever it finds; nor do      *)
(* mounting a volume and the end of a process.                             *)
Find(path) ==
  /\ work = Idle /\ fs' = Closed
  /\ \/ Walk(path) \in Parents /\ Quietly(FS_SUCCESS)
     \/ \E status \in Statuses : DirectoryFails(path, status) /\ Quietly(status)
Mount == work = Idle /\ fs' = Closed /\ Quietly(FS_SUCCESS)

Close ==
  /\ work = Idle /\ fs' = Closed
  /\ Quietly(IF fs.head = 0 THEN FS_NO_DESCRIPTOR ELSE FS_SUCCESS)

Rewind ==
  /\ work = Idle
  /\ \/ fs.head = 0 /\ fs' = fs /\ Quietly(FS_NO_DESCRIPTOR)
     \/ /\ fs.head # 0 /\ InRole(fs, fs.head)
        /\ fs' = At(fs, fs.head) /\ Quietly(FS_SUCCESS)

(* redct: the target is opened on a saved descriptor, which is restored;   *)
(* a failure keeps the previous redirection.                               *)
Redirect(path) ==
  /\ work = Idle /\ fs' = fs /\ UNCHANGED <<table, dirs, cluster, resets>>
  /\ \/ \E up \in Parents, c \in Clusters :
          /\ Opens(path, up, c) /\ (Shared \/ fs.head # c)
          /\ redirect' = [on |-> TRUE, swapped |-> FALSE, cursor |-> Opened(up, c)]
          /\ Returns(FS_SUCCESS, 0)
     \/ \E status \in Statuses :
          OpenFails(path, status) /\ redirect' = redirect /\ Returns(status, 0)

RedirectOff ==
  /\ work = Idle /\ fs' = fs
  /\ redirect' = [on |-> FALSE, swapped |-> FALSE, cursor |-> Closed]
  /\ Returns(FS_SUCCESS, 0) /\ UNCHANGED <<table, dirs, cluster, resets>>
-----------------------------------------------------------------------------
(* fs_transfer.                                                             *)

Transferring(bytes, writes) ==
  /\ Starts([Idle EXCEPT !.step = "transfer", !.bytes = bytes, !.writes = writes])
  /\ UNCHANGED <<table, dirs, cluster, resets>>

Read(count) ==
  /\ work = Idle
  /\ \/ fs.head = 0 /\ fs' = fs /\ Quietly(FS_NO_DESCRIPTOR)
     \/ /\ fs.head # 0 /\ InRole(fs, fs.cluster) /\ UNCHANGED <<fs, redirect>>
        /\ Transferring([i \in 1 .. count |-> 0], FALSE)
Write(bytes) ==
  /\ work = Idle
  /\ \/ fs.head = 0 /\ fs' = fs /\ Quietly(FS_NO_DESCRIPTOR)
     \/ /\ fs.head # 0 /\ InRole(fs, fs.cluster) /\ UNCHANGED <<fs, redirect>>
        /\ Transferring(bytes, TRUE)

(* print while redirected: the descriptor and the private cursor change    *)
(* places until the transfer returns.                                      *)
PrintRedirected(bytes) ==
  /\ work = Idle /\ redirect.on /\ InRole(redirect.cursor, redirect.cursor.cluster)
  /\ Transferring(bytes, TRUE)
  /\ fs' = redirect.cursor /\ redirect' = [redirect EXCEPT !.swapped = TRUE, !.cursor = fs]

(* Mutant: a failed print returns before the cursors change places again.   *)
TransferReturnsSwapped(status) ==
  /\ Returns(status, work.count) /\ UNCHANGED <<table, dirs, cluster, resets>>
  /\ IF redirect.swapped /\ status = FS_SUCCESS
     THEN fs' = redirect.cursor /\ redirect' = [redirect EXCEPT !.swapped = FALSE, !.cursor = fs]
     ELSE fs' = fs /\ redirect' = [redirect EXCEPT !.swapped = FALSE]

TransferReturns(status) ==
  /\ Returns(status, work.count) /\ UNCHANGED <<table, dirs, cluster, resets>>
  /\ IF redirect.swapped
     THEN fs' = redirect.cursor /\ redirect' = [redirect EXCEPT !.swapped = FALSE, !.cursor = fs]
     ELSE UNCHANGED <<fs, redirect>>

AtEnd == fs.remaining = 0 /\ fs.next = 0

(* The requested bytes are done, or a read is at the end of the file.      *)
TransferDone ==
  /\ work.step = "transfer"
  /\ work.bytes = <<>> \/ (AtEnd /\ ~ work.writes)
  /\ TransferReturns(FS_SUCCESS)

NextCluster ==
  /\ work.step = "transfer" /\ work.bytes # <<>> /\ fs.remaining = 0 /\ fs.next # 0
  /\ InRole(fs, fs.next) /\ fs' = At(fs, fs.next)
  /\ UNCHANGED <<table, dirs, cluster, redirect, work, result, resets>>

Transferred == [work EXCEPT !.step = "transfer", !.bytes = Tail(@), !.count = @ + 1]

ReadByte ==
  /\ work.step = "transfer" /\ work.bytes # <<>> /\ ~ work.writes /\ fs.remaining # 0
  /\ fs' = Advanced(fs) /\ work' = Transferred
  /\ UNCHANGED <<table, dirs, cluster, redirect, result, resets>>

(* fs_transfer_write: the payload byte; then, if it extends the payload,   *)
(* the two bytes of the length, the high one first.                        *)
WriteByte ==
  /\ work.step = "transfer" /\ work.bytes # <<>> /\ work.writes
  /\ fs.remaining # 0 \/ (AtEnd /\ fs.offset < Room(fs))
  /\ cluster' = [cluster EXCEPT ![fs.cluster].data[fs.offset] = Head(work.bytes)]
  /\ IF fs.remaining # 0
     THEN fs' = Advanced(fs) /\ work' = Transferred
     ELSE fs' = fs /\ work' = [work EXCEPT !.step = "length hi"]
  /\ UNCHANGED <<table, dirs, redirect, result, resets>>

(* Mutant: the whole length goes into the high byte.                        *)
LengthHiWhole ==
  /\ work.step = "length hi" /\ work' = [work EXCEPT !.step = "length lo"]
  /\ cluster' = [cluster EXCEPT ![fs.cluster].hi = fs.offset + 1]
  /\ UNCHANGED <<table, dirs, fs, redirect, result, resets>>

(* Mutant: only the low byte of a length is written.                        *)
LengthHiSkipped ==
  /\ work.step = "length hi" /\ work' = [work EXCEPT !.step = "length lo"]
  /\ UNCHANGED <<table, dirs, cluster, fs, redirect, result, resets>>

LengthHi ==
  /\ work.step = "length hi" /\ work' = [work EXCEPT !.step = "length lo"]
  /\ cluster' = [cluster EXCEPT ![fs.cluster].hi = (fs.offset + 1) \div RADIX]
  /\ UNCHANGED <<table, dirs, fs, redirect, result, resets>>

LengthLo ==
  /\ work.step = "length lo" /\ work' = Transferred
  /\ cluster' = [cluster EXCEPT ![fs.cluster].lo = (fs.offset + 1) % RADIX]
  /\ fs' = Advanced(fs)
  /\ UNCHANGED <<table, dirs, redirect, result, resets>>

(* fs_transfer_grow: the tail is full.  The lowest free cluster gets an     *)
(* empty header, its owner, its use, and is linked last.                   *)
MustGrow ==
  /\ work.step = "transfer" /\ work.bytes # <<>> /\ work.writes
  /\ AtEnd /\ fs.offset >= Room(fs)

GrowFull == MustGrow /\ Full /\ TransferReturns(FS_DISK_CAPACITY)

(* Mutant: the link of the cluster's former life is kept.                   *)
ContHeaderKeepsLink ==
  /\ MustGrow
  /\ \E c \in Clusters :
       /\ FirstFree(c)
       /\ cluster' = [cluster EXCEPT ![c].hi = 0, ![c].lo = 0]
       /\ work' = [work EXCEPT !.step = "cont owner", !.slot = c]
  /\ UNCHANGED <<table, dirs, fs, redirect, result, resets>>

ContHeader ==
  /\ MustGrow
  /\ \E c \in Clusters :
       /\ FirstFree(c)
       /\ cluster' = [cluster EXCEPT ![c].next = 0, ![c].hi = 0, ![c].lo = 0]
       /\ work' = [work EXCEPT !.step = "cont owner", !.slot = c]
  /\ UNCHANGED <<table, dirs, fs, redirect, result, resets>>

ContOwner ==
  /\ work.step = "cont owner" /\ work' = [work EXCEPT !.step = "cont type"]
  /\ table' = [table EXCEPT ![work.slot].dir = fs.parent]
  /\ UNCHANGED <<dirs, cluster, fs, redirect, result, resets>>

ContType ==
  /\ work.step = "cont type" /\ work' = [work EXCEPT !.step = "cont link"]
  /\ table' = [table EXCEPT ![work.slot].used = CONT]
  /\ UNCHANGED <<dirs, cluster, fs, redirect, result, resets>>

(* Mutant: the cursor moves without reading the new cluster's header.       *)
ContLinkStale ==
  /\ work.step = "cont link" /\ work' = [work EXCEPT !.step = "transfer", !.slot = 0]
  /\ cluster' = [cluster EXCEPT ![fs.cluster].next = work.slot]
  /\ fs' = [fs EXCEPT !.cluster = work.slot]
  /\ UNCHANGED <<table, dirs, redirect, result, resets>>

ContLink ==
  /\ work.step = "cont link" /\ work' = [work EXCEPT !.step = "transfer", !.slot = 0]
  /\ cluster' = [cluster EXCEPT ![fs.cluster].next = work.slot]
  /\ fs' = [fs EXCEPT !.cluster = work.slot, !.next = cluster'[work.slot].next,
                      !.remaining = Length(work.slot), !.offset = 0]
  /\ UNCHANGED <<table, dirs, redirect, result, resets>>
-----------------------------------------------------------------------------
(* fs_touch and fs_mkdir share ns_create: the path is first opened as a    *)
(* file, then, its leaf being absent, looked up as a directory.            *)

Creates(step, slot, up, name) ==
  Starts([Idle EXCEPT !.step = step, !.slot = slot, !.parent = up, !.name = name])

(* touch: the name, link and length of the lowest free cluster, then its   *)
(* owner, and its use last.                                                *)
TouchNew(path, up) ==
  /\ MissingLeaf(path, up) /\ Walk(path) \in {NoEntry, BadName} /\ fs' = Closed
  /\ \/ /\ Full /\ Quietly(FS_DISK_CAPACITY)
     \/ \E c \in Clusters :
          /\ FirstFree(c)
          /\ cluster' = [cluster EXCEPT ![c].name = Leaf(path), ![c].next = 0,
                                        ![c].hi = 0, ![c].lo = 0]
          /\ Creates("head owner", c, up, NoName)
          /\ UNCHANGED <<table, dirs, redirect, resets>>

Touch(path) ==
  /\ work = Idle
  /\ \/ \E up \in Parents, c \in Clusters :
          Opens(path, up, c) /\ fs' = Closed /\ Quietly(FS_SUCCESS)
     \/ \E status \in Statuses :
          /\ OpenFails(path, status) /\ \A up \in Parents : ~ MissingLeaf(path, up)
          /\ fs' = Closed /\ Quietly(status)
     \/ \E up \in Parents :
          MissingLeaf(path, up) /\ Walk(path) \in Parents /\ fs' = Closed /\ Quietly(FS_EXISTS)
     \/ \E up \in Parents : TouchNew(path, up)

HeadOwner ==
  /\ work.step = "head owner" /\ work' = [work EXCEPT !.step = "head type"]
  /\ table' = [table EXCEPT ![work.slot].dir = work.parent]
  /\ UNCHANGED <<dirs, cluster, fs, redirect, result, resets>>

HeadType ==
  /\ work.step = "head type" /\ Returns(FS_SUCCESS, 0)
  /\ table' = [table EXCEPT ![work.slot].used = HEAD]
  /\ UNCHANGED <<dirs, cluster, fs, redirect, resets>>

(* mkdir: the bytes of the name, the first of which takes the record, then *)
(* the upper directory.                                                    *)
MkdirNew(path, up) ==
  /\ MissingLeaf(path, up) /\ fs' = Closed
  /\ \/ Walk(path) = BadName /\ Quietly(FS_INVALID_INPUT)
     \/ Walk(path) \in Parents /\ Quietly(FS_EXISTS)
     \/ Walk(path) = NoEntry /\ NoFreeDir /\ Quietly(FS_DISK_CAPACITY)
     \/ /\ Walk(path) = NoEntry
        /\ \E d \in Dirs : FirstFreeDir(d) /\ Creates("dir name", d, up, Leaf(path))
        /\ UNCHANGED <<table, dirs, cluster, redirect, resets>>

(* On a path that names a file it reports EXISTS and leaves the descriptor  *)
(* that fs_open made.                                                      *)
MkdirOnFile(path) ==
  /\ work = Idle
  /\ \E up \in Parents, c \in Clusters :
       Opens(path, up, c) /\ MayUse(c) /\ fs' = Opened(up, c) /\ Quietly(FS_EXISTS)

Mkdir(path) ==
  \/ MkdirOnFile(path)
  \/ /\ work = Idle
     /\ \/ \E status \in Statuses :
             /\ OpenFails(path, status) /\ \A up \in Parents : ~ MissingLeaf(path, up)
             /\ fs' = Closed /\ Quietly(status)
        \/ \E up \in Parents : MkdirNew(path, up)

DirName ==
  /\ work.step = "dir name"
  /\ dirs' = [dirs EXCEPT ![work.slot].name[work.index + 1] = work.name[work.index + 1]]
  /\ work' = [work EXCEPT !.index = @ + 1,
                          !.step = IF work.index + 1 = DIRNAME THEN "dir upper" ELSE @]
  /\ UNCHANGED <<table, cluster, fs, redirect, result, resets>>

DirUpper ==
  /\ work.step = "dir upper" /\ Returns(FS_SUCCESS, 0)
  /\ dirs' = [dirs EXCEPT ![work.slot].upper = work.parent]
  /\ UNCHANGED <<table, cluster, fs, redirect, resets>>
-----------------------------------------------------------------------------
(* Mutant: files are not children.                                          *)
HasChildrenDirectories(d) == \E e \in Dirs : IsDir(e) /\ dirs[e].upper = d

(* fs_remove: a validated file, cluster by cluster from the head, or an     *)
(* empty directory.                                                        *)
HasChildren(d) ==
  \/ \E e \in Dirs : IsDir(e) /\ dirs[e].upper = d
  \/ \E c \in Clusters : table[c] = [dir |-> d, used |-> HEAD]

RemoveDirectory(path) ==
  /\ \E status \in {FS_NOT_FOUND, FS_INVALID_INPUT} : OpenFails(path, status)
  /\ fs' = Closed
  /\ \/ \E status \in Statuses : DirectoryFails(path, status) /\ Quietly(status)
     \/ Walk(path) = 0 /\ Quietly(FS_INVALID_INPUT)
     \/ \E d \in Dirs : Walk(path) = d /\ HasChildren(d) /\ Quietly(FS_NOT_EMPTY)
     \/ \E d \in Dirs :
          /\ Walk(path) = d /\ ~ HasChildren(d) /\ Creates("zero upper", d, 0, NoName)
          /\ UNCHANGED <<table, dirs, cluster, redirect, resets>>

RemovePath(path) ==
  /\ work = Idle
  /\ \/ \E up \in Parents, c \in Clusters :
          /\ Opens(path, up, c) /\ MayUse(c)
          /\ fs' = Opened(up, c) /\ Creates("free owner", c, 0, NoName)
          /\ UNCHANGED <<table, dirs, cluster, redirect, resets>>
     \/ OpenFails(path, FS_CORRUPT_CHAIN) /\ fs' = Closed /\ Quietly(FS_CORRUPT_CHAIN)
     \/ RemoveDirectory(path)

(* The next cluster is read before the allocation is cleared.              *)
FreeOwner ==
  /\ work.step = "free owner" /\ work' = [work EXCEPT !.step = "free type"]
  /\ fs' = At(fs, work.slot)
  /\ table' = [table EXCEPT ![work.slot].dir = 0]
  /\ UNCHANGED <<dirs, cluster, redirect, result, resets>>

(* Mutant: only the head of a file is freed.                                *)
FreeTypeHeadOnly ==
  /\ work.step = "free type"
  /\ table' = [table EXCEPT ![work.slot].used = FREE]
  /\ fs' = Closed /\ Returns(FS_SUCCESS, 0)
  /\ UNCHANGED <<dirs, cluster, redirect, resets>>

FreeType ==
  /\ work.step = "free type"
  /\ table' = [table EXCEPT ![work.slot].used = FREE]
  /\ \/ fs.next = 0 /\ fs' = Closed /\ Returns(FS_SUCCESS, 0)
     \/ /\ fs.next # 0 /\ fs' = fs /\ result' = result
        /\ work' = [work EXCEPT !.step = "free owner", !.slot = fs.next]
  /\ UNCHANGED <<dirs, cluster, redirect, resets>>

(* The sixteen bytes of the record, the upper directory first.             *)
ZeroUpper ==
  /\ work.step = "zero upper" /\ work' = [work EXCEPT !.step = "zero name"]
  /\ dirs' = [dirs EXCEPT ![work.slot].upper = 0]
  /\ UNCHANGED <<table, cluster, fs, redirect, result, resets>>

ZeroName ==
  /\ work.step = "zero name"
  /\ dirs' = [dirs EXCEPT ![work.slot].name[work.index + 1] = 0]
  /\ \/ work.index + 1 = DIRNAME /\ Returns(FS_SUCCESS, 0)
     \/ work.index + 1 < DIRNAME /\ work' = [work EXCEPT !.index = @ + 1] /\ result' = result
  /\ UNCHANGED <<table, cluster, fs, redirect, resets>>
-----------------------------------------------------------------------------
(* Soft reset: the NMI handler drops the frame and reruns the firmware,    *)
(* which loads the kernel image afresh and mounts the card as it is.       *)
Reset ==
  /\ resets < MaxResets /\ resets' = resets + 1
  /\ fs' = Closed /\ redirect' = [on |-> FALSE, swapped |-> FALSE, cursor |-> Closed]
  /\ Returns(FS_SUCCESS, 0) /\ UNCHANGED <<table, dirs, cluster>>

Call ==
  \/ \E path \in Paths :
       Open(path) \/ Find(path) \/ Redirect(path) \/ Touch(path) \/ Mkdir(path) \/ RemovePath(path)
  \/ Mount \/ Close \/ Rewind \/ RedirectOff
  \/ \E count \in 0 .. MaxRead : Read(count)
  \/ \E bytes \in Buffers : Write(bytes) \/ PrintRedirected(bytes)

Service ==
  \/ TransferDone \/ NextCluster \/ ReadByte \/ WriteByte \/ LengthHi \/ LengthLo
  \/ GrowFull \/ ContHeader \/ ContOwner \/ ContType \/ ContLink
  \/ HeadOwner \/ HeadType \/ DirName \/ DirUpper
  \/ FreeOwner \/ FreeType \/ ZeroUpper \/ ZeroName

Next == Call \/ Service \/ Reset
Spec == Init /\ [][Next]_vars
-----------------------------------------------------------------------------
TypeOK ==
  /\ VolumeOK
  /\ fs \in Cursors
  /\ redirect \in [on : BOOLEAN, swapped : BOOLEAN, cursor : Cursors]
  /\ work \in Works /\ result \in Results /\ resets \in 0 .. MaxResets

(* At every byte the card ever holds, also after a service was abandoned,   *)
(* a cluster in use links only to a continuation in use, and no two link   *)
(* to the same one: no file ever runs into another file's bytes, into free *)
(* space or into itself (the order of the writes of fs_transfer_grow,      *)
(* ns_create and fs_remove).                                               *)
ChainsSound ==
  /\ \A c \in Clusters :
       Live(c) /\ cluster[c].next # 0 => table[cluster[c].next].used = CONT
  /\ \A b, c \in Clusters :
       Live(b) /\ Live(c) /\ cluster[b].next = cluster[c].next /\ cluster[b].next # 0 => b = c

(* Likewise no directory or file is ever in a directory that is gone: it is *)
(* still found by a walk up to the root.                                   *)
NoneStranded ==
  /\ \A d \in Dirs : IsDir(d) => ValidDir(dirs[d].upper)
  /\ \A c \in Heads : ValidDir(table[c].dir)

(* What a cursor caches of the cluster it stands in (its link, and where    *)
(* its payload ends) is what the card holds, for the descriptor and for    *)
(* the redirection, whichever is in use and whatever the other one does:   *)
(* a stale end would make the next write cut the file short.  The          *)
(* descriptor is scratch while its length is half written or it is freed.  *)
Fresh(cursor) ==
  cursor.head # 0 =>
    /\ table[cursor.head] = [dir |-> cursor.parent, used |-> HEAD]
    /\ Live(cursor.cluster) /\ cursor.next = cluster[cursor.cluster].next
    /\ cursor.offset + cursor.remaining = Length(cursor.cluster)
    /\ Length(cursor.cluster) <= Room(cursor)
CursorsFresh ==
  /\ redirect.on => Fresh(redirect.cursor)
  /\ work.step \notin {"length lo", "free owner", "free type"} => Fresh(fs)

(* As long as no service has been abandoned, the volume between services is *)
(* one the card reader accepts: fs_touch, fs_mkdir, fs_remove and           *)
(* fs_transfer together keep names unique, directories without a cycle and *)
(* every continuation in the chain of exactly one file.                    *)
IdleVolumeValid == work = Idle /\ resets = 0 => HostValid
=============================================================================
