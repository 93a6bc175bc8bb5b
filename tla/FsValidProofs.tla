---------------------------- MODULE FsValidProofs ----------------------------
(***************************************************************************)
(* Proof that the services leave a volume the card reader accepts           *)
(* (IdleVolumeValid) as long as none is abandoned and programs leave the    *)
(* redirection target alone (~ Shared), on volumes of every size.          *)
(***************************************************************************)
EXTENDS FsProofs, FiniteSetTheorems

(* The clusters no other links to: the heads, and the continuation that is  *)
(* about to be linked or to be freed.                                      *)
Detached == IF work.step \in {"free owner", "free type", "cont link"} THEN {work.slot} ELSE {}
Roots    == Heads \cup Detached

(* Every continuation in use is linked to, and the links go up to a root:   *)
(* o gives the root of a cluster, p grows by one along each link.           *)
Lay(R, o, p, t, k) ==
  /\ \A c \in R : o[c] = c
  /\ \A c \in Clusters \ R : t[c].used = CONT =>
       \E b \in Clusters : t[b].used # FREE /\ k[b].next = c /\ o[b] = o[c] /\ p[c] = p[b] + 1
Covered ==
  \E o \in [Clusters -> Clusters], p \in [Clusters -> Nat] : Lay(Roots, o, p, table, cluster)

(* No cluster in use is longer than it has room for, except while the       *)
(* second byte of its length is missing.                                   *)
HalfLong(c) == work.step = "length lo" /\ c = fs.cluster
LengthsFit ==
  /\ \A c \in Clusters : Live(c) /\ ~ HalfLong(c) => Length(c) <= Capacity(c)
  /\ work.step \in {"head owner", "head type"} => Length(work.slot) = 0

(* What the running service has not settled: the record it is naming or     *)
(* clearing, and the file whose owner it has cleared.                      *)
Unsettled   == IF work.step \in {"dir name", "dir upper", "zero name"} THEN {work.slot} ELSE {}
Unnamed     == IF work.step = "free type" THEN {work.slot} ELSE {}
Directories == {d \in Dirs : IsDir(d)} \ Unsettled
Files       == Heads \ Unnamed

(* Nothing in directory up has the name n, records of S aside.              *)
Vacant(up, n, S) ==
  /\ \A c \in Clusters : ~ IsFile(c, up, n)
  /\ \A d \in Dirs \ S : dirs[d].upper = up => DirText(d) # n

NamesApart ==
  /\ \A d, e \in Directories : dirs[d].upper = dirs[e].upper /\ DirText(d) = DirText(e) => d = e
  /\ \A b, c \in Files : table[b].dir = table[c].dir /\ FileText(b) = FileText(c) => b = c
  /\ \A b \in Files, d \in Directories : table[b].dir = dirs[d].upper => FileText(b) # DirText(d)
  /\ \A b \in Heads : FileText(b)[1] # 0

(* The name of an entry that is being made is still to be had, and the      *)
(* record of a new directory stands apart from the directory it will be in. *)
Coming ==
  /\ work.step \in {"head owner", "head type"} =>
       FileText(work.slot)[1] # 0 /\ Vacant(work.parent, FileText(work.slot), {})
  /\ work.step \in {"dir name", "dir upper"} =>
       /\ NamesDir(work.name) /\ Vacant(work.parent, work.name, {work.slot})
       /\ work.parent # work.slot /\ ~ HasChildren(work.slot)
  /\ work.step = "dir name" => \A i \in 1 .. work.index : dirs[work.slot].name[i] = work.name[i]
  /\ work.step = "dir upper" => \A i \in 1 .. DIRNAME : dirs[work.slot].name[i] = work.name[i]
  /\ work.step = "zero upper" => work.index = 0
  /\ work.step = "zero name" /\ work.index # 0 => ~ IsDir(work.slot)

(* No directory is inside itself.                                           *)
Deeper(depth, ds) ==
  \A d \in Dirs : ds[d].name[1] # 0 /\ ds[d].upper # 0 => depth[ds[d].upper] < depth[d]
Nested == \E depth \in [Dirs -> Nat] : Deeper(depth, dirs)

ValidInv == Covered /\ LengthsFit /\ NamesApart /\ Coming /\ Nested
-----------------------------------------------------------------------------
(* What a call does before its service goes on.                             *)

(* touch and mkdir have found that the name is to be had.                   *)
NewFile ==
  \E path \in Paths, up \in Parents :
    /\ MissingLeaf(path, up) /\ Walk(path) \in {NoEntry, BadName}
    /\ work'.step = "head owner" /\ work'.slot \in Clusters /\ ~ Live(work'.slot)
    /\ work'.parent = up /\ FileText(work.slot)' = Leaf(path) /\ Length(work.slot)' = 0
NewDirectory ==
  \E path \in Paths, up \in Parents :
    /\ MissingLeaf(path, up) /\ Walk(path) = NoEntry
    /\ work'.step = "dir name" /\ work'.slot \in Dirs /\ ~ IsDir(work'.slot)
    /\ work'.parent = up /\ work'.name = Leaf(path) /\ work'.index = 0
Outline ==
  /\ UNCHANGED <<table, dirs, resets>>
  /\ \A c \in Clusters : Live(c) => cluster'[c] = cluster[c]
  /\ \/ work'.step \in {"idle", "transfer"}
     \/ work'.step = "zero upper" /\ work'.index = 0
     \/ work'.step = "free owner" /\ work'.slot \in Heads
     \/ NewFile \/ NewDirectory

LEMMA QuietOutline == ASSUME NEW status, Quietly(status) PROVE Outline
BY IdleFields DEF Quietly, Returns, Outline

LEMMA TransferOutline ==
  ASSUME NEW bytes, NEW writes, Transferring(bytes, writes) PROVE Outline
BY Transferral DEF Transferring, Outline

LEMMA TouchOutline ==
  ASSUME TypeOK, NEW path \in Paths, NEW up \in Parents, TouchNew(path, up) PROVE Outline
<1>1. ASSUME NEW c \in Clusters, FirstFree(c), Creates("head owner", c, up, NoName),
             cluster' = [cluster EXCEPT ![c].name = Leaf(path), ![c].next = 0,
                                        ![c].hi = 0, ![c].lo = 0],
             UNCHANGED <<table, dirs, resets>>
      PROVE  Outline
  <2>1. cluster \in [Clusters -> Cluster] /\ cluster[c] \in Cluster
    BY DEF TypeOK, VolumeOK
  <2>2. /\ \A b \in Clusters : b # c => cluster'[b] = cluster[b]
        /\ cluster'[c].name = Leaf(path) /\ cluster'[c].hi = 0 /\ cluster'[c].lo = 0
    BY <1>1, <2>1 DEF Cluster
  <2>3. work'.step = "head owner" /\ work'.slot = c /\ work'.parent = up
    BY <1>1, CreatesFields
  <2>4. ~ Live(c)
    BY <1>1 DEF FirstFree
  <2>5. FileText(work.slot)' = Leaf(path) /\ Length(work.slot)' = 0
    <3>1. \A r \in Nat : r * 0 + 0 = 0
      OBVIOUS
    <3> QED
      BY <2>2, <2>3, <3>1, FormatAssumption DEF FileText, Length
  <2>6. NewFile
    BY <2>3, <2>4, <2>5 DEF NewFile, TouchNew
  <2> QED
    BY <1>1, <2>2, <2>4, <2>6 DEF Outline
<1> QED
  BY <1>1, QuietOutline DEF TouchNew

LEMMA MkdirOutline ==
  ASSUME NEW path \in Paths, NEW up \in Parents, MkdirNew(path, up) PROVE Outline
<1>1. ASSUME NEW d \in Dirs, FirstFreeDir(d), Creates("dir name", d, up, Leaf(path)),
             Walk(path) = NoEntry, UNCHANGED <<table, dirs, cluster, resets>>
      PROVE  Outline
  <2>1. /\ work'.step = "dir name" /\ work'.slot = d /\ work'.parent = up
        /\ work'.name = Leaf(path) /\ work'.index = 0
    BY <1>1, CreatesFields
  <2>2. NewDirectory
    BY <1>1, <2>1 DEF NewDirectory, MkdirNew, FirstFreeDir
  <2> QED
    BY <1>1, <2>2 DEF Outline
<1> QED
  BY <1>1, QuietOutline DEF MkdirNew

LEMMA RemoveOutline == ASSUME NEW path \in Paths, RemovePath(path) PROVE Outline
<1>1. ASSUME NEW up \in Parents, NEW c \in Clusters, Opens(path, up, c),
             Creates("free owner", c, 0, NoName), UNCHANGED <<table, dirs, cluster, resets>>
      PROVE  Outline
  <2>1. c \in Heads
    <3>1. table[c] = [dir |-> up, used |-> HEAD]
      BY <1>1 DEF Opens, FileAt, IsFile
    <3> QED
      BY <3>1 DEF Heads
  <2>2. work'.step = "free owner" /\ work'.slot = c
    BY <1>1, CreatesFields
  <2> QED
    BY <1>1, <2>1, <2>2 DEF Outline
<1>2. ASSUME NEW d \in Dirs, Creates("zero upper", d, 0, NoName),
             UNCHANGED <<table, dirs, cluster, resets>>
      PROVE  Outline
  <2>1. work'.step = "zero upper" /\ work'.index = 0
    BY <1>2, CreatesFields
  <2> QED
    BY <1>2, <2>1 DEF Outline
<1>3. ASSUME RemoveDirectory(path) PROVE Outline
  BY <1>2, <1>3, QuietOutline DEF RemoveDirectory
<1> QED
  BY <1>1, <1>3, QuietOutline DEF RemovePath

LEMMA CallOutline == ASSUME TypeOK, Call PROVE work = Idle /\ Outline
<1>1. ASSUME NEW path \in Paths, Open(path) \/ Find(path) PROVE work = Idle /\ Outline
  BY <1>1, QuietOutline DEF Open, Find
<1>2. ASSUME RedirectOff \/ \E path \in Paths : Redirect(path) PROVE work = Idle /\ Outline
  <2>1. work = Idle /\ UNCHANGED <<table, dirs, cluster, resets>> /\ work' = Idle
    BY <1>2 DEF Redirect, RedirectOff, Returns
  <2> QED
    BY <2>1, IdleFields DEF Outline
<1>3. ASSUME NEW path \in Paths, Touch(path) PROVE work = Idle /\ Outline
  BY <1>3, QuietOutline, TouchOutline DEF Touch
<1>4. ASSUME NEW path \in Paths, Mkdir(path) PROVE work = Idle /\ Outline
  BY <1>4, QuietOutline, MkdirOutline DEF Mkdir, MkdirOnFile
<1>5. ASSUME NEW path \in Paths, RemovePath(path) PROVE work = Idle /\ Outline
  BY <1>5, RemoveOutline DEF RemovePath
<1>6. ASSUME Mount \/ Close \/ Rewind PROVE work = Idle /\ Outline
  BY <1>6, QuietOutline DEF Mount, Close, Rewind
<1>7. ASSUME NEW count \in 0 .. MaxRead, Read(count) PROVE work = Idle /\ Outline
  BY <1>7, QuietOutline, TransferOutline DEF Read
<1>8. ASSUME NEW bytes \in Buffers, Write(bytes) \/ PrintRedirected(bytes)
      PROVE  work = Idle /\ Outline
  BY <1>8, QuietOutline, TransferOutline DEF Write, PrintRedirected
<1> QED
  BY <1>1, <1>2, <1>3, <1>4, <1>5, <1>6, <1>7, <1>8 DEF Call
-----------------------------------------------------------------------------
(* Continuations stay covered.                                              *)

LEMMA LayStays ==
  ASSUME Covered, Roots' = Roots,
         \A c \in Clusters : /\ table'[c].used = table[c].used
                             /\ Live(c) => cluster'[c].next = cluster[c].next
  PROVE  Covered'
<1>1. PICK o \in [Clusters -> Clusters], p \in [Clusters -> Nat] : Lay(Roots, o, p, table, cluster)
  BY DEF Covered
<1>2. Lay(Roots, o, p, table', cluster')
  BY <1>1 DEF Lay, Live
<1> QED
  BY <1>2 DEF Covered

LEMMA SameHeads ==
  ASSUME \A c \in Clusters : table'[c].used = table[c].used PROVE Heads' = Heads
BY DEF Heads

LEMMA Attached ==
  ASSUME work.step \notin {"free owner", "free type", "cont link"} PROVE Roots = Heads
BY DEF Roots, Detached

LEMMA CallCovered == ASSUME IInv, Covered, Call PROVE Covered'
<1>1. work.step = "idle" /\ Outline
  BY CallOutline, IdleFields DEF IInv
<1>2. Heads' = Heads
  BY <1>1, SameHeads DEF Outline
<1>3. Roots = Heads
  BY <1>1, Attached
<1>4. Roots' = Heads'
  BY <1>1, <1>2 DEF Outline, NewFile, NewDirectory, Roots, Detached
<1> QED
  BY <1>1, <1>2, <1>3, <1>4, LayStays DEF Outline

LEMMA StableRoots ==
  ASSUME TypeOK, WriteByte \/ LengthHi \/ LengthLo \/ NextCluster \/ ReadByte \/ TransferDone
                 \/ GrowFull \/ ContOwner \/ HeadOwner \/ FreeOwner
                 \/ DirName \/ DirUpper \/ ZeroUpper \/ ZeroName
  PROVE  Detached' = Detached
<1>1. work \in Works
  BY DEF TypeOK
<1>2. CASE FreeOwner
  <2>1. work.step = "free owner" /\ work'.step = "free type" /\ work'.slot = work.slot
    BY <1>1, <1>2 DEF FreeOwner, Works
  <2> QED
    BY <2>1 DEF Detached
<1>3. CASE ~ FreeOwner
  <2>1. work.step \notin {"free owner", "free type", "cont link"}
    BY <1>3 DEF WriteByte, LengthHi, LengthLo, NextCluster, ReadByte, TransferDone, GrowFull,
                MustGrow, ContOwner, HeadOwner, DirName, DirUpper, ZeroUpper, ZeroName
  <2>2. work'.step \in {"idle", "transfer", "length hi", "length lo", "cont type", "head type",
                        "dir name", "dir upper", "zero name"}
    BY <1>1, <1>3, IdleFields, TransferFields
       DEF WriteByte, LengthHi, LengthLo, NextCluster, ReadByte, TransferDone, GrowFull, MustGrow,
           TransferReturns, Returns, ContOwner, HeadOwner, DirName, DirUpper, ZeroUpper, ZeroName,
           Works
  <2> QED
    BY <2>1, <2>2 DEF Detached
<1> QED
  BY <1>2, <1>3

LEMMA StableCovered ==
  ASSUME IInv, Covered, WriteByte \/ LengthHi \/ LengthLo \/ NextCluster \/ ReadByte \/ TransferDone
                 \/ GrowFull \/ ContOwner \/ HeadOwner \/ FreeOwner
                 \/ DirName \/ DirUpper \/ ZeroUpper \/ ZeroName
  PROVE  Covered'
<1>1. \A c \in Clusters : table'[c].used = table[c].used /\ cluster'[c].next = cluster[c].next
  BY LinkStable DEF SameLinks
<1>2. Heads' = Heads
  BY <1>1, SameHeads
<1>3. Detached' = Detached
  BY StableRoots DEF IInv
<1>4. Roots' = Roots
  BY <1>2, <1>3 DEF Roots
<1> QED
  BY <1>1, <1>4, LayStays

LEMMA ContHeaderCovered == ASSUME IInv, Covered, ContHeader PROVE Covered'
<1>1. PICK c \in Clusters :
        /\ FirstFree(c) /\ table' = table
        /\ cluster' = [cluster EXCEPT ![c].next = 0, ![c].hi = 0, ![c].lo = 0]
        /\ work' = [work EXCEPT !.step = "cont owner", !.slot = c]
  BY DEF ContHeader
<1>2. work.step = "transfer" /\ work'.step = "cont owner"
  BY <1>1 DEF ContHeader, MustGrow, IInv, TypeOK, Works
<1>3. ~ Live(c)
  BY <1>1 DEF FirstFree
<1>4. \A b \in Clusters : b # c => cluster'[b] = cluster[b]
  BY <1>1 DEF IInv, TypeOK, VolumeOK
<1>5. Roots' = Roots
  BY <1>1, <1>2 DEF Roots, Detached, Heads
<1> QED
  BY <1>1, <1>3, <1>4, <1>5, LayStays

(* A cluster that is taken into use is a root, as long as nothing links to  *)
(* it.                                                                     *)
LEMMA TypeCovered == ASSUME IInv, Covered, ContType \/ HeadType PROVE Covered'
<1> DEFINE c == work.slot
<1>1. c \in Clusters /\ ~ Live(c) /\ work \in Works
  BY DEF ContType, HeadType, IInv, StepOK, TypeOK
<1>2. PICK use \in {HEAD, CONT} :
        /\ table' = [table EXCEPT ![c].used = use] /\ cluster' = cluster
        /\ use = CONT => work'.step = "cont link" /\ work'.slot = c
        /\ use = HEAD => work'.step = "idle"
  <2>1. HEAD # CONT
    BY DEF HEAD, CONT
  <2>2. CASE ContType
    <3>1. /\ table' = [table EXCEPT ![c].used = CONT] /\ cluster' = cluster
          /\ work'.step = "cont link" /\ work'.slot = c
      BY <1>1, <2>2 DEF ContType, Works
    <3> HIDE DEF c
    <3> QED
      BY <2>1, <3>1
  <2>3. CASE HeadType
    <3>1. /\ table' = [table EXCEPT ![c].used = HEAD] /\ cluster' = cluster
          /\ work'.step = "idle"
      BY <2>3, IdleFields DEF HeadType, Returns
    <3> HIDE DEF c
    <3> QED
      BY <2>1, <3>1
  <2> QED
    BY <2>2, <2>3
<1>3. work.step \notin {"free owner", "free type", "cont link"}
  BY DEF ContType, HeadType
<1>4. table'[c].used = use /\ \A b \in Clusters : b # c => table'[b].used = table[b].used
  BY <1>1, <1>2 DEF IInv, TypeOK, VolumeOK, Entry
<1>5. PICK o \in [Clusters -> Clusters], p \in [Clusters -> Nat] : Lay(Heads, o, p, table, cluster)
  BY <1>3, Attached DEF Covered
<1> DEFINE o2 == [o EXCEPT ![c] = c]
<1>6. Roots' = Heads \cup {c}
  <2>1. HEAD # CONT /\ FREE # HEAD
    BY DEF HEAD, CONT, FREE
  <2>2. CASE use = HEAD
    BY <1>1, <1>2, <1>4, <2>1, <2>2 DEF Roots, Detached, Heads, Live
  <2>3. CASE use = CONT
    BY <1>1, <1>2, <1>4, <2>1, <2>3 DEF Roots, Detached, Heads, Live
  <2> QED
    BY <2>2, <2>3
<1>7. c \notin Heads
  BY <1>1 DEF Heads, Live, HEAD, FREE
<1> HIDE DEF c
<1>8. Lay(Heads \cup {c}, o2, p, table', cluster')
  <2>1. \A b \in Heads \cup {c} : o2[b] = b
    BY <1>1, <1>5, <1>7 DEF Lay, Heads
  <2>2. ASSUME NEW b \in Clusters \ (Heads \cup {c}), table'[b].used = CONT
        PROVE  \E a \in Clusters : /\ table'[a].used # FREE /\ cluster'[a].next = b
                                   /\ o2[a] = o2[b] /\ p[b] = p[a] + 1
    <3>1. table[b].used = CONT
      BY <1>4, <2>2
    <3>2. PICK a \in Clusters : /\ table[a].used # FREE /\ cluster[a].next = b
                                /\ o[a] = o[b] /\ p[b] = p[a] + 1
      BY <1>5, <2>2, <3>1 DEF Lay
    <3>3. a # c /\ b # c
      BY <1>1, <2>2, <3>2 DEF Live
    <3> QED
      BY <1>2, <1>4, <3>2, <3>3
  <2> QED
    BY <2>1, <2>2 DEF Lay
<1>9. o2 \in [Clusters -> Clusters]
  BY <1>1, <1>5
<1> QED
  BY <1>5, <1>6, <1>8, <1>9 DEF Covered

LEMMA ContLinkCovered == ASSUME IInv, CursorInv, Covered, ContLink PROVE Covered'
<1> DEFINE c == work.slot
           tail == fs.cluster
<1>1. work.step = "cont link" /\ work'.step = "transfer" /\ table' = table
  BY DEF ContLink, IInv, TypeOK, Works
<1>2. /\ c \in Clusters /\ table[c].used = CONT /\ cluster[c].next = 0 /\ Unlinked(c)
  BY <1>1 DEF IInv, StepOK
<1>3. tail \in Clusters /\ Live(tail) /\ tail # c /\ cluster[tail].next = 0
  <2>1. TypeOK /\ "cont link" \in ContSteps
    BY DEF IInv, ContSteps
  <2>2. PICK S, T \in SUBSET Clusters :
          Holds(S, fs, table, cluster) /\ tail \in S /\ work.slot \notin S \cup T
    BY <1>1, <2>1, InTransfer
  <2>3. AtEnd
    BY <1>1, <2>1 DEF CursorInv, Registers
  <2> QED
    BY <2>2, <2>3, HeldLive DEF AtEnd, Holds
<1>4. cluster'[tail].next = c /\ \A b \in Clusters : b # tail => cluster'[b] = cluster[b]
  BY <1>3, LinksPut DEF ContLink, IInv, TypeOK
<1>5. Roots = Heads \cup {c} /\ Roots' = Heads
  BY <1>1 DEF Roots, Detached, Heads
<1>6. PICK o \in [Clusters -> Clusters], p \in [Clusters -> Nat] :
        Lay(Heads \cup {c}, o, p, table, cluster)
  BY <1>5 DEF Covered
<1> DEFINE o2 == [o EXCEPT ![c] = o[tail]]
           p2 == [p EXCEPT ![c] = p[tail] + 1]
<1> HIDE DEF c, tail
<1>7. c \notin Heads /\ c # 0
  <2>1. HEAD # CONT
    BY DEF HEAD, CONT
  <2> QED
    BY <1>2, <2>1 DEF Heads, Clusters
<1>8. Lay(Heads, o2, p2, table', cluster')
  <2>1. \A b \in Heads : o2[b] = b
    BY <1>2, <1>6, <1>7 DEF Lay, Heads
  <2>2. ASSUME NEW b \in Clusters \ Heads, table'[b].used = CONT
        PROVE  \E a \in Clusters : /\ table'[a].used # FREE /\ cluster'[a].next = b
                                   /\ o2[a] = o2[b] /\ p2[b] = p2[a] + 1
    <3>1. CASE b = c
      <4>1. o2[tail] = o2[c] /\ p2[c] = p2[tail] + 1
        BY <1>2, <1>3, <1>6
      <4> QED
        BY <1>1, <1>3, <1>4, <3>1, <4>1 DEF Live
    <3>2. CASE b # c
      <4>1. PICK a \in Clusters : /\ table[a].used # FREE /\ cluster[a].next = b
                                  /\ o[a] = o[b] /\ p[b] = p[a] + 1
        BY <1>1, <1>6, <2>2, <3>2 DEF Lay
      <4>2. b # 0
        BY FormatAssumption DEF Clusters
      <4>3. a # c /\ a # tail
        BY <1>2, <1>3, <4>1, <4>2
      <4> QED
        BY <1>1, <1>4, <3>2, <4>1, <4>3
    <3> QED
      BY <3>1, <3>2
  <2> QED
    BY <2>1, <2>2 DEF Lay
<1>9. o2 \in [Clusters -> Clusters] /\ p2 \in [Clusters -> Nat]
  BY <1>2, <1>3, <1>6
<1> QED
  BY <1>5, <1>8, <1>9 DEF Covered

(* The cluster after the one that is freed is the root of what is left.     *)
LEMMA FreeTypeCovered == ASSUME IInv, Covered, FreeType PROVE Covered'
<1> DEFINE c == work.slot
           next == cluster[c].next
<1>1. work.step = "free type" /\ cluster' = cluster /\ fs.next = next
  BY DEF FreeType, IInv, StepOK
<1>2. c \in Clusters /\ Live(c) /\ Unlinked(c)
  BY <1>1 DEF IInv, StepOK
<1>3. /\ table'[c].used = FREE
      /\ \A b \in Clusters : b # c => table'[b].used = table[b].used
  BY <1>2 DEF FreeType, IInv, TypeOK, VolumeOK, Entry
<1>4. IF next = 0 THEN work'.step = "idle"
      ELSE work'.step = "free owner" /\ work'.slot = next
  BY <1>1, IdleFields DEF FreeType, Returns, IInv, TypeOK, Works
<1>5. Roots = Heads \cup {c} /\ Heads' = Heads \ {c}
  <2>1. Roots = Heads \cup {c}
    BY <1>1 DEF Roots, Detached
  <2>2. HEAD # FREE
    BY DEF HEAD, FREE
  <2> HIDE DEF c
  <2> QED
    BY <1>2, <1>3, <2>1, <2>2 DEF Heads
<1>6. PICK o \in [Clusters -> Clusters], p \in [Clusters -> Nat] :
        Lay(Heads \cup {c}, o, p, table, cluster)
  BY <1>5 DEF Covered
<1>7. o[c] = c
  BY <1>6 DEF Lay
<1>8. \A a, b \in Clusters : Live(a) /\ cluster[a].next = b => a = c \/ b # c
  BY <1>2 DEF Unlinked
<1>9. CASE next = 0
  <2>1. Roots' = Heads \ {c}
    BY <1>4, <1>5, <1>9 DEF Roots, Detached
  <2> HIDE DEF c
  <2>2. Lay(Heads \ {c}, o, p, table', cluster')
    <3>1. \A b \in Heads \ {c} : o[b] = b
      BY <1>6 DEF Lay
    <3>2. ASSUME NEW b \in Clusters \ (Heads \ {c}), table'[b].used = CONT
          PROVE  \E a \in Clusters : /\ table'[a].used # FREE /\ cluster'[a].next = b
                                     /\ o[a] = o[b] /\ p[b] = p[a] + 1
      <4>1. b # c
        BY <1>3, <3>2 DEF CONT, FREE
      <4>2. PICK a \in Clusters : /\ table[a].used # FREE /\ cluster[a].next = b
                                  /\ o[a] = o[b] /\ p[b] = p[a] + 1
        BY <1>3, <1>6, <3>2, <4>1 DEF Lay
      <4>3. b # 0
        BY DEF Clusters
      <4>4. a # c
        BY <1>9, <4>2, <4>3
      <4> QED
        BY <1>1, <1>3, <4>2, <4>4
    <3> QED
      BY <3>1, <3>2 DEF Lay
  <2> QED
    BY <2>1, <2>2 DEF Covered
<1>10. CASE next # 0
  <2>1. Roots' = (Heads \ {c}) \cup {next}
    BY <1>4, <1>5, <1>10 DEF Roots, Detached
  <2>2. next \in Clusters /\ table[next].used = CONT /\ next # c
    <3>1. next \in Clusters
      <4>1. cluster[c] \in Cluster
        BY <1>2 DEF IInv, TypeOK, VolumeOK
      <4>2. next \in 0 .. N
        BY <4>1 DEF Cluster
      <4>3. N \in Nat
        BY FormatAssumption
      <4> QED
        BY <1>10, <4>2, <4>3 DEF Clusters
    <3>2. table[next].used = CONT
      BY <1>2, <1>10 DEF IInv, ChainsSound
    <3>3. next # c
      BY <1>2, <1>2 DEF Unlinked
    <3> QED
      BY <3>1, <3>2, <3>3
  <2>3. next \notin Heads
    BY <2>2 DEF Heads, HEAD, CONT
  <2> DEFINE o2 == [b \in Clusters |-> IF o[b] = c THEN next ELSE o[b]]
  <2> HIDE DEF c, next
  <2>4. o[next] = c
    <3>1. PICK a \in Clusters : /\ table[a].used # FREE /\ cluster[a].next = next /\ o[a] = o[next]
      BY <1>6, <2>2, <2>3 DEF Lay
    <3>2. a = c
      BY <1>2, <1>10, <3>1 DEF IInv, ChainsSound, Live, next
    <3> QED
      BY <1>7, <3>1, <3>2
  <2>5. Lay((Heads \ {c}) \cup {next}, o2, p, table', cluster')
    <3>1. \A b \in (Heads \ {c}) \cup {next} : o2[b] = b
      <4>1. \A b \in Heads \ {c} : o[b] = b /\ b # c /\ b \in Clusters
        BY <1>6 DEF Lay, Heads
      <4> QED
        BY <2>2, <2>4, <4>1
    <3>2. ASSUME NEW b \in Clusters \ ((Heads \ {c}) \cup {next}), table'[b].used = CONT
          PROVE  \E a \in Clusters : /\ table'[a].used # FREE /\ cluster'[a].next = b
                                     /\ o2[a] = o2[b] /\ p[b] = p[a] + 1
      <4>1. b # c
        BY <1>3, <3>2 DEF CONT, FREE
      <4>2. PICK a \in Clusters : /\ table[a].used # FREE /\ cluster[a].next = b
                                  /\ o[a] = o[b] /\ p[b] = p[a] + 1
        BY <1>3, <1>6, <3>2, <4>1 DEF Lay
      <4>3. a # c
        BY <3>2, <4>2 DEF next
      <4> QED
        BY <1>1, <1>3, <4>2, <4>3
    <3> QED
      BY <3>1, <3>2 DEF Lay
  <2>6. o2 \in [Clusters -> Clusters]
    BY <1>6, <2>2
  <2> QED
    BY <2>1, <2>5, <2>6 DEF Covered
<1> QED
  BY <1>9, <1>10

LEMMA CoveredStep == ASSUME IInv, CursorInv, Covered, Call \/ Service PROVE Covered'
BY CallCovered, StableCovered, ContHeaderCovered, TypeCovered, ContLinkCovered, FreeTypeCovered
   DEF Service
-----------------------------------------------------------------------------
(* Lengths stay within the capacity.                                        *)

LEMMA LengthsKept ==
  ASSUME LengthsFit, ~ (work.step = "length lo"),
         \A c \in Clusters : Live(c)' => /\ Live(c) /\ table'[c].used = table[c].used
                                         /\ cluster'[c].hi = cluster[c].hi
                                         /\ cluster'[c].lo = cluster[c].lo,
         work'.step \in {"head owner", "head type"} => Length(work.slot)' = 0
  PROVE  LengthsFit'
<1>1. ASSUME NEW c \in Clusters, Live(c)' PROVE (Length(c) <= Capacity(c))'
  <2>1. Length(c) <= Capacity(c)
    BY <1>1 DEF LengthsFit, HalfLong
  <2>2. Length(c)' = Length(c) /\ Capacity(c)' = Capacity(c)
    BY <1>1 DEF Length, Capacity
  <2> QED
    BY <2>1, <2>2
<1> QED
  BY <1>1 DEF LengthsFit

LEMMA CallLengths == ASSUME IInv, LengthsFit, Call PROVE LengthsFit'
<1>1. work.step = "idle" /\ Outline
  BY CallOutline, IdleFields DEF IInv
<1>2. work'.step \in {"head owner", "head type"} => Length(work.slot)' = 0
  BY <1>1 DEF Outline, NewFile, NewDirectory
<1>3. \A c \in Clusters : Live(c)' => Live(c) /\ table'[c].used = table[c].used
                                      /\ cluster'[c] = cluster[c]
  BY <1>1 DEF Outline, Live
<1> QED
  BY <1>1, <1>2, <1>3, LengthsKept

(* Steps that write no length and take no cluster into use.                 *)
LEMMA OtherLengths ==
  ASSUME IInv, CursorInv, LengthsFit,
         NextCluster \/ ReadByte \/ TransferDone \/ WriteByte \/ GrowFull \/ ContHeader \/ ContOwner
         \/ ContLink \/ HeadOwner \/ DirName \/ DirUpper \/ FreeOwner \/ FreeType
         \/ ZeroUpper \/ ZeroName
  PROVE  LengthsFit'
<1>1. work \in Works /\ VolumeOK
  BY DEF IInv, TypeOK
<1>2. work.step # "length lo"
  BY DEF NextCluster, ReadByte, TransferDone, WriteByte, GrowFull, ContHeader, MustGrow, ContOwner,
         ContLink, HeadOwner, DirName, DirUpper, FreeOwner, FreeType, ZeroUpper, ZeroName
<1>3. CASE HeadOwner
  <2>1. /\ work.step = "head owner" /\ work'.slot = work.slot /\ cluster' = cluster
        /\ \E d : table' = [table EXCEPT ![work.slot].dir = d]
    BY <1>1, <1>3 DEF HeadOwner, Works
  <2>2. \A c \in Clusters : table'[c].used = table[c].used
    BY <1>3, LinkStable DEF SameLinks
  <2>3. Length(work.slot)' = 0
    BY <2>1 DEF LengthsFit, Length
  <2> QED
    BY <1>2, <2>1, <2>2, <2>3, LengthsKept DEF Live
<1>4. CASE ~ HeadOwner
  <2>1. work'.step \notin {"head owner", "head type"}
    BY <1>1, <1>4, IdleFields, TransferFields
       DEF NextCluster, ReadByte, TransferDone, WriteByte, GrowFull, ContHeader, MustGrow,
           ContOwner, ContLink, DirName, DirUpper, FreeOwner, FreeType, ZeroUpper, ZeroName,
           TransferReturns, Returns, Works, IInv
  <2>2. \A c \in Clusters : Live(c)' => Live(c) /\ table'[c].used = table[c].used
    <3>1. CASE FreeType
      <4>1. work.slot \in Clusters
        BY <3>1 DEF FreeType, IInv, StepOK
      <4>2. /\ table'[work.slot].used = FREE
            /\ \A c \in Clusters : c # work.slot => table'[c] = table[c]
        BY <3>1, <4>1, EntryWrites DEF FreeType, IInv
      <4> QED
        BY <4>2 DEF Live
    <3>2. CASE ContOwner \/ FreeOwner
      BY <3>2, LinkStable DEF SameLinks, Live
    <3>3. CASE ~ FreeType /\ ~ ContOwner /\ ~ FreeOwner
      <4>1. table' = table
        BY <1>4, <3>3 DEF NextCluster, ReadByte, TransferDone, WriteByte, GrowFull, ContHeader,
              ContLink, DirName, DirUpper, ZeroUpper, ZeroName, TransferReturns
      <4> QED
        BY <4>1 DEF Live
    <3> QED
      BY <3>1, <3>2, <3>3
  <2>3. \A c \in Clusters : Live(c) => /\ cluster'[c].hi = cluster[c].hi
                                       /\ cluster'[c].lo = cluster[c].lo
    <3>1. CASE WriteByte
      <4>1. work.step = "transfer"
        BY <3>1 DEF WriteByte
      <4>2. fs.cluster \in Clusters
        BY <4>1, InTransfer DEF IInv
      <4> QED
        BY <1>1, <3>1, <4>2, LinksPut DEF WriteByte
    <3>2. CASE ContHeader
      BY <1>1, <3>2 DEF ContHeader, FirstFree, VolumeOK
    <3>3. CASE ContLink
      <4>1. work.step \in ContSteps
        BY <3>3 DEF ContLink, ContSteps
      <4>2. fs.cluster \in Clusters
        BY <4>1, InTransfer DEF IInv
      <4> QED
        BY <1>1, <3>3, <4>2, LinksPut DEF ContLink
    <3>4. CASE ~ WriteByte /\ ~ ContHeader /\ ~ ContLink
      BY <1>4, <3>4 DEF NextCluster, ReadByte, TransferDone, GrowFull, ContOwner, DirName,
            DirUpper, FreeOwner, FreeType, ZeroUpper, ZeroName, TransferReturns
    <3> QED
      BY <3>1, <3>2, <3>3, <3>4
  <2> QED
    BY <1>2, <2>1, <2>2, <2>3, LengthsKept
<1> QED
  BY <1>3, <1>4

LEMMA TypeLengths ==
  ASSUME IInv, CursorInv, LengthsFit, ContType \/ HeadType PROVE LengthsFit'
<1> DEFINE c == work.slot
<1>1. c \in Clusters /\ work.step \in {"cont type", "head type"} /\ Length(c) = 0
  <2>1. work.step \in {"cont type", "head type"}
    BY DEF ContType, HeadType
  <2> QED
    BY <2>1 DEF IInv, StepOK, LengthsFit, CursorInv, Registers, ContSteps
<1>2. /\ cluster' = cluster /\ work'.step \in {"cont link", "idle"}
      /\ \E use : table' = [table EXCEPT ![c].used = use]
  BY IdleFields DEF ContType, HeadType, Returns, IInv, TypeOK, Works
<1>3. \A b \in Clusters : b # c => table'[b] = table[b]
  BY <1>2 DEF IInv, TypeOK, VolumeOK
<1>4. ASSUME NEW b \in Clusters, Live(b)' PROVE (Length(b) <= Capacity(b))'
  <2>1. CASE b = c
    <3>1. Length(b)' = 0
      BY <1>1, <1>2, <2>1 DEF Length
    <3>2. Capacity(b)' \in Nat /\ 0 <= Capacity(b)'
      BY Sizes DEF Capacity
    <3> QED
      BY <3>1, <3>2
  <2>2. CASE b # c
    <3>1. Length(b) <= Capacity(b)
      BY <1>1, <1>3, <1>4, <2>2 DEF LengthsFit, HalfLong, Live
    <3> QED
      BY <1>2, <1>3, <2>2, <3>1 DEF Length, Capacity
  <2> QED
    BY <2>1, <2>2
<1> QED
  BY <1>2, <1>4 DEF LengthsFit

(* The first byte is written: the length does not count until the second.   *)
LEMMA LengthHiFits == ASSUME IInv, CursorInv, LengthsFit, LengthHi PROVE LengthsFit'
<1>1. TypeOK /\ VolumeOK /\ work.step = "length hi" /\ work'.step = "length lo"
  BY DEF LengthHi, IInv, TypeOK, Works
<1>2. fs.cluster \in Clusters
  BY <1>1, InTransfer
<1>3. fs' = fs /\ table' = table /\ \A c \in Clusters : c # fs.cluster => cluster'[c] = cluster[c]
  BY <1>1, <1>2, LinksPut DEF LengthHi
<1>4. ASSUME NEW c \in Clusters, Live(c)', ~ HalfLong(c)' PROVE (Length(c) <= Capacity(c))'
  <2>1. c # fs.cluster
    BY <1>1, <1>3, <1>4 DEF HalfLong
  <2>2. Length(c) <= Capacity(c)
    BY <1>1, <1>3, <1>4 DEF LengthsFit, HalfLong, Live
  <2> QED
    BY <1>3, <2>1, <2>2 DEF Length, Capacity
<1> QED
  BY <1>1, <1>4 DEF LengthsFit

(* The second byte completes the length of a cluster with room for it.      *)
LEMMA LengthLoFits == ASSUME IInv, CursorInv, LengthsFit, LengthLo PROVE LengthsFit'
<1>1. TypeOK /\ VolumeOK /\ work.step = "length lo" /\ work'.step = "transfer" /\ table' = table
  BY TransferFields DEF LengthLo, IInv, TypeOK
<1>2. PICK S, T \in SUBSET Clusters : Apart(S, T)
  BY DEF CursorInv
<1>3. Torn(S, fs, table, cluster)
  BY <1>1, <1>2 DEF Apart
<1>4. fs.cluster \in S /\ fs.cluster \in Clusters /\ Holds(S, fs, table, cluster)
  BY <1>3 DEF Torn, Holds
<1>5. /\ \A b \in Clusters : b # fs.cluster => cluster'[b] = cluster[b]
      /\ cluster'[fs.cluster].hi = (fs.offset + 1) \div RADIX
      /\ cluster'[fs.cluster].lo = (fs.offset + 1) % RADIX
  BY <1>1, <1>3, <1>4, LinksPut DEF LengthLo, Torn
<1>6. fs.offset \in Nat /\ fs.offset < Room(fs)
  BY <1>1 DEF TypeOK, Cursors, CursorInv, Registers, LengthSteps
<1>7. RADIX * cluster'[fs.cluster].hi + cluster'[fs.cluster].lo = fs.offset + 1
  BY <1>5, <1>6, TwoBytes
<1>8. Room(fs) = Capacity(fs.cluster) /\ Room(fs) \in Nat
  <2>1. table[fs.cluster].used = IF fs.cluster = fs.head THEN HEAD ELSE CONT
    BY <1>4 DEF Holds
  <2>2. HEAD # CONT
    BY DEF HEAD, CONT
  <2> QED
    BY <2>1, <2>2, Sizes DEF Room, Capacity
<1>9. ASSUME NEW c \in Clusters, Live(c)' PROVE (Length(c) <= Capacity(c))'
  <2>1. CASE c = fs.cluster
    <3>1. Length(c)' = fs.offset + 1
      BY <1>7, <2>1 DEF Length
    <3>2. Capacity(c)' = Room(fs)
      BY <1>1, <1>8, <2>1 DEF Capacity
    <3> QED
      BY <1>6, <1>8, <3>1, <3>2
  <2>2. CASE c # fs.cluster
    <3>1. Length(c) <= Capacity(c)
      BY <1>1, <1>9, <2>2 DEF LengthsFit, HalfLong, Live
    <3> QED
      BY <1>1, <1>5, <2>2, <3>1 DEF Length, Capacity
  <2> QED
    BY <2>1, <2>2
<1> QED
  BY <1>1, <1>9 DEF LengthsFit

LEMMA LengthsStep == ASSUME IInv, CursorInv, LengthsFit, Call \/ Service PROVE LengthsFit'
BY CallLengths, OtherLengths, TypeLengths, LengthHiFits, LengthLoFits DEF Service
-----------------------------------------------------------------------------
(* Chains that are covered are the chains the card reader wants.            *)

(* The walk along a chain is only cut when it has as many clusters as there *)
(* are.                                                                    *)
LEMMA ChainEnds ==
  ASSUME VolumeOK, NEW h \in Clusters
  PROVE  \/ cluster[ChainOf(h)[Len(ChainOf(h))]].next = 0
         \/ Len(ChainOf(h)) = N
<1> DEFINE Whole(chain, k) ==
             /\ chain \in Seq(Clusters) /\ chain # <<>>
             /\ cluster[chain[Len(chain)]].next = 0 \/ Len(chain) = k
<1>1. PICK walk : Follows(h, N, walk) /\ ChainOf(h) = walk[N]
  BY ChainUnfolds
<1>2. \A k \in 1 .. N : walk[k] = ChainStep(h, k, walk[k - 1])
  BY <1>1 DEF Follows
<1> DEFINE T == {k \in 1 .. N : ~ Whole(walk[k], k)}
<1>3. SUFFICES T = {}
  BY <1>1, FormatAssumption
<1>4. SUFFICES ASSUME T # {} PROVE FALSE
  OBVIOUS
<1>5. PICK k \in T : \A m \in T : k <= m
  <2>1. T \in SUBSET Nat
    BY FormatAssumption
  <2> HIDE DEF T
  <2> QED
    BY <1>4, <2>1, Least
<1>6. k \in 1 .. N /\ ~ Whole(walk[k], k) /\ N \in Nat
  BY <1>5, FormatAssumption
<1>7. CASE k = 1
  <2>1. walk[k] = <<h>>
    BY <1>2, <1>6, <1>7 DEF ChainStep
  <2>2. Whole(<<h>>, 1)
    OBVIOUS
  <2> QED
    BY <1>6, <1>7, <2>1, <2>2
<1>8. CASE k # 1
  <2> DEFINE prev == walk[k - 1]
             next == cluster[prev[Len(prev)]].next
  <2>1. k - 1 \in 1 .. N /\ ~ (k <= k - 1)
    BY <1>6, <1>8
  <2>2. Whole(prev, k - 1)
    BY <1>5, <2>1
  <2>3. walk[k] = IF next = 0 THEN prev ELSE Append(prev, next)
    BY <1>2, <1>6, <1>8 DEF ChainStep
  <2>4. next # 0 /\ Len(prev) = k - 1
    BY <1>6, <2>2, <2>3
  <2> HIDE DEF prev
  <2>5. prev \in Seq(Clusters) /\ Len(prev) \in Nat \ {0} /\ prev[Len(prev)] \in Clusters
    BY <2>2
  <2>6. next \in Clusters
    <3>1. cluster[prev[Len(prev)]] \in Cluster
      BY <2>5 DEF VolumeOK
    <3>2. next \in 0 .. N
      BY <3>1 DEF Cluster
    <3> QED
      BY <1>6, <2>4, <3>2 DEF Clusters
  <2> HIDE DEF next
  <2>7. Append(prev, next) \in Seq(Clusters) /\ Len(Append(prev, next)) = k
    BY <1>6, <2>4, <2>5, <2>6
  <2>8. Append(prev, next) # <<>>
    BY <1>6, <2>7
  <2> QED
    BY <1>6, <2>3, <2>4, <2>7, <2>8
<1> QED
  BY <1>7, <1>8

LEMMA LinkOwned ==
  ASSUME TypeOK, ChainsSound, NEW o, NEW p, Lay(Heads, o, p, table, cluster),
         NEW b \in Clusters, Live(b), cluster[b].next # 0
  PROVE  LET c == cluster[b].next
         IN  c \in Clusters /\ table[c].used = CONT /\ Live(c) /\ o[c] = o[b] /\ p[c] = p[b] + 1
<1> DEFINE c == cluster[b].next
<1>1. c \in Clusters /\ table[c].used = CONT
  BY UsedType DEF ChainsSound
<1>2. c \notin Heads /\ Live(c)
  BY <1>1 DEF Heads, HEAD, CONT, Live, FREE
<1>3. PICK a \in Clusters : /\ table[a].used # FREE /\ cluster[a].next = c
                            /\ o[a] = o[c] /\ p[c] = p[a] + 1
  BY <1>1, <1>2 DEF Lay
<1>4. a = b
  BY <1>1, <1>3 DEF ChainsSound, Live
<1> QED
  BY <1>1, <1>2, <1>3, <1>4

LEMMA ChainOwned ==
  ASSUME TypeOK, ChainsSound, NEW o, NEW p \in [Clusters -> Nat], Lay(Heads, o, p, table, cluster),
         NEW h \in Heads
  PROVE  \A i \in 1 .. Len(ChainOf(h)) :
           /\ table[ChainOf(h)[i]].used = IF i = 1 THEN HEAD ELSE CONT
           /\ o[ChainOf(h)[i]] = h /\ p[ChainOf(h)[i]] = p[h] + i - 1
<1> DEFINE chain == ChainOf(h)
           Owned(i) == /\ table[chain[i]].used = IF i = 1 THEN HEAD ELSE CONT
                       /\ o[chain[i]] = h /\ p[chain[i]] = p[h] + i - 1
           T == {i \in 1 .. Len(chain) : ~ Owned(i)}
<1>1. h \in Clusters /\ table[h].used = HEAD /\ o[h] = h /\ p[h] \in Nat
  BY DEF Heads, Lay
<1>2. Linked(chain, h)
  BY <1>1, ChainLinked DEF TypeOK
<1> HIDE DEF chain
<1>3. SUFFICES ASSUME T # {} PROVE FALSE
  BY DEF chain
<1>4. Len(chain) \in Nat \ {0} /\ \A i \in 1 .. Len(chain) : chain[i] \in Clusters
  BY <1>2 DEF Linked
<1>5. PICK i \in T : \A m \in T : i <= m
  <2>1. T \in SUBSET Nat
    OBVIOUS
  <2> HIDE DEF T
  <2> QED
    BY <1>3, <2>1, Least
<1>6. i \in 1 .. Len(chain) /\ ~ Owned(i)
  BY <1>5
<1>7. CASE i = 1
  BY <1>1, <1>2, <1>6, <1>7 DEF Linked
<1>8. CASE i # 1
  <2>1. i - 1 \in 1 .. Len(chain) - 1 /\ i - 1 \in 1 .. Len(chain) /\ ~ (i <= i - 1) /\ i \in Nat
        /\ (i - 1) + 1 = i
    BY <1>4, <1>6, <1>8
  <2>2. Owned(i - 1)
    BY <1>5, <2>1
  <2>3. chain[i] = cluster[chain[i - 1]].next
    BY <1>2, <2>1 DEF Linked
  <2>4. chain[i - 1] \in Clusters /\ Live(chain[i - 1]) /\ chain[i] # 0
    <3>1. chain[i] # 0
      BY <1>4, <1>6 DEF Clusters
    <3>2. Live(chain[i - 1])
      BY <2>2 DEF Live, HEAD, CONT, FREE
    <3> QED
      BY <1>4, <2>1, <3>1, <3>2
  <2>5. table[chain[i]].used = CONT /\ o[chain[i]] = h /\ p[chain[i]] = (p[h] + (i - 1) - 1) + 1
    BY <2>2, <2>3, <2>4, LinkOwned
  <2>6. (p[h] + (i - 1) - 1) + 1 = p[h] + i - 1
    BY <1>1, <2>1
  <2> QED
    BY <1>6, <1>8, <2>5, <2>6
<1> QED
  BY <1>7, <1>8

LEMMA ChainWhole ==
  ASSUME TypeOK, ChainsSound, NEW o, NEW p \in [Clusters -> Nat], Lay(Heads, o, p, table, cluster),
         NEW h \in Heads
  PROVE  Sound(ChainOf(h))
<1> DEFINE chain == ChainOf(h)
           last  == Len(chain)
<1>1. h \in Clusters /\ p[h] \in Nat /\ N \in Nat
  BY FormatAssumption DEF Heads
<1>2. Linked(chain, h) /\ (cluster[chain[last]].next = 0 \/ last = N)
  BY <1>1, ChainLinked, ChainEnds DEF TypeOK
<1>3. last \in Nat \ {0} /\ \A i \in 1 .. last : chain[i] \in Clusters
  BY <1>2 DEF Linked
<1>4. \A i \in 1 .. last : /\ table[chain[i]].used = IF i = 1 THEN HEAD ELSE CONT
                           /\ p[chain[i]] = p[h] + i - 1
  BY ChainOwned
<1> HIDE DEF chain
<1>5. \A i, j \in 1 .. last : chain[i] = chain[j] => i = j
  <2> SUFFICES ASSUME NEW i \in 1 .. last, NEW j \in 1 .. last, chain[i] = chain[j] PROVE i = j
    OBVIOUS
  <2>1. p[h] + i - 1 = p[h] + j - 1
    BY <1>4
  <2> QED
    BY <1>1, <1>3, <2>1
<1>6. SUFFICES ASSUME cluster[chain[last]].next # 0 PROVE FALSE
  BY <1>5 DEF Sound, chain
<1> DEFINE next == cluster[chain[last]].next
           f    == [i \in 1 .. N + 1 |-> IF i = N + 1 THEN next ELSE chain[i]]
<1>7. last = N /\ Live(chain[last])
  BY <1>2, <1>3, <1>4, <1>6 DEF Live, HEAD, CONT, FREE
<1>8. next \in Clusters /\ p[next] = (p[h] + N - 1) + 1
  BY <1>3, <1>4, <1>6, <1>7, LinkOwned
<1> HIDE DEF next
<1>9. f \in [1 .. N + 1 -> Clusters]
  <2>1. \A i \in 1 .. N + 1 : i # N + 1 => i \in 1 .. last
    BY <1>1, <1>7
  <2> QED
    BY <1>3, <1>8, <2>1
<1>10. \A i \in 1 .. N + 1 : p[f[i]] = p[h] + i - 1
  <2> SUFFICES ASSUME NEW i \in 1 .. N + 1 PROVE p[f[i]] = p[h] + i - 1
    OBVIOUS
  <2>1. CASE i = N + 1
    BY <1>1, <1>8, <2>1
  <2>2. CASE i # N + 1
    <3>1. i \in 1 .. last
      BY <1>1, <1>7, <2>2
    <3> QED
      BY <1>4, <2>2, <3>1
  <2> QED
    BY <2>1, <2>2
<1>11. PICK i, j \in 1 .. N + 1 : i # j /\ f[i] = f[j]
  <2>1. IsFiniteSet(1 .. N + 1) /\ Cardinality(1 .. N + 1) = N + 1
    BY <1>1, FS_Interval
  <2>2. IsFiniteSet(Clusters) /\ Cardinality(Clusters) = N
    BY <1>1, FS_Interval DEF Clusters
  <2> HIDE DEF f
  <2> QED
    BY <1>1, <1>9, <2>1, <2>2, FS_PigeonHole
<1> HIDE DEF f
<1>12. p[h] + i - 1 = p[h] + j - 1
  BY <1>10, <1>11
<1> QED
  BY <1>1, <1>11, <1>12

(* Every continuation is reached from a head.                               *)
LEMMA AllReached ==
  ASSUME TypeOK, ChainsSound, NEW o, NEW p \in [Clusters -> Nat], Lay(Heads, o, p, table, cluster)
  PROVE  \A c \in Clusters : table[c].used = CONT =>
           \E h \in Heads : \E i \in 1 .. Len(ChainOf(h)) : ChainOf(h)[i] = c
<1> DEFINE Reached(c) == \E h \in Heads : \E i \in 1 .. Len(ChainOf(h)) : ChainOf(h)[i] = c
           T == {p[c] : c \in {x \in Clusters : table[x].used = CONT /\ ~ Reached(x)}}
<1>1. SUFFICES ASSUME T # {} PROVE FALSE
  OBVIOUS
<1>2. PICK n \in T : \A m \in T : n <= m
  <2>1. T \in SUBSET Nat
    OBVIOUS
  <2> HIDE DEF T
  <2> QED
    BY <1>1, <2>1, Least
<1>3. PICK c \in Clusters : table[c].used = CONT /\ ~ Reached(c) /\ n = p[c]
  BY <1>2
<1>4. c \notin Heads /\ c # 0
  BY <1>3 DEF Heads, HEAD, CONT, Clusters
<1>5. PICK b \in Clusters : table[b].used # FREE /\ cluster[b].next = c /\ p[c] = p[b] + 1
  BY <1>3, <1>4 DEF Lay
<1>6. \E h \in Heads : \E i \in 1 .. Len(ChainOf(h)) : ChainOf(h)[i] = b
  <2>1. CASE table[b].used = HEAD
    <3>1. Linked(ChainOf(b), b)
      BY ChainLinked DEF TypeOK
    <3>2. 1 \in 1 .. Len(ChainOf(b)) /\ ChainOf(b)[1] = b
      BY <3>1 DEF Linked
    <3> QED
      BY <2>1, <3>2 DEF Heads
  <2>2. CASE table[b].used # HEAD
    <3>1. table[b].used = CONT
      BY <1>5, <2>2, UsedType DEF Entry
    <3>2. p[b] \in Nat /\ ~ (p[c] <= p[b])
      BY <1>5
    <3> QED
      BY <1>2, <1>3, <3>1, <3>2
  <2> QED
    BY <2>1, <2>2
<1>7. PICK h \in Heads : \E i \in 1 .. Len(ChainOf(h)) : ChainOf(h)[i] = b
  BY <1>6
<1> DEFINE chain == ChainOf(h)
<1>8. PICK i \in 1 .. Len(chain) : chain[i] = b
  BY <1>7
<1>9. Linked(chain, h) /\ cluster[chain[Len(chain)]].next = 0
  BY ChainLinked, ChainWhole DEF TypeOK, Heads, Sound
<1>10. Len(chain) \in Nat /\ i \in Nat
  BY <1>9 DEF Linked
<1>11. i # Len(chain)
  BY <1>4, <1>5, <1>8, <1>9
<1>12. i \in 1 .. Len(chain) - 1 /\ i + 1 \in 1 .. Len(chain)
  BY <1>10, <1>11
<1>13. chain[i + 1] = c
  BY <1>5, <1>8, <1>9, <1>12 DEF Linked
<1> QED
  BY <1>3, <1>12, <1>13
-----------------------------------------------------------------------------
(* Names: what the lookup of a path says of its leaf.                       *)

LEMMA WalkLast ==
  ASSUME NEW path \in Paths, path # <<>>, NEW up \in Parents, Walk(Up(path)) = up
  PROVE  Walk(path) = Child(up, Leaf(path))
<1> DEFINE n == Len(path)
<1>1. /\ path \in Seq(Names) /\ n \in Nat /\ n # 0 /\ n - 1 \in Nat
      /\ Up(path) \in Seq(Names) /\ Len(Up(path)) = n - 1
      /\ \A i \in 1 .. n - 1 : Up(path)[i] = path[i]
  <2>1. path \in Seq(Names) /\ n \in Nat /\ n # 0 /\ n - 1 \in Nat
    BY ServiceAssumption
  <2>2. Up(path) \in Seq(Names)
    BY UpType
  <2>3. \A i \in 1 .. n - 1 : path[i] \in Names
    BY <2>1
  <2> HIDE DEF n
  <2>4. /\ Len(SubSeq(path, 1, n - 1)) = IF 1 <= n - 1 THEN (n - 1) - 1 + 1 ELSE 0
        /\ \A i \in 1 .. (n - 1) - 1 + 1 : SubSeq(path, 1, n - 1)[i] = path[1 + i - 1]
    BY <2>1, <2>3, SubSeqProperties
  <2>5. Up(path) = SubSeq(path, 1, n - 1)
    BY DEF Up, n
  <2>6. \A i \in 1 .. n - 1 : i \in 1 .. (n - 1) - 1 + 1 /\ 1 + i - 1 = i
    BY <2>1
  <2>7. (IF 1 <= n - 1 THEN (n - 1) - 1 + 1 ELSE 0) = n - 1
    BY <2>1
  <2> QED
    BY <2>1, <2>2, <2>4, <2>5, <2>6, <2>7
<1>2. PICK at : Walks(path, n, at) /\ Walk(path) = at[n]
  BY <1>1, WalkUnfolds
<1>3. PICK bt : Walks(Up(path), n - 1, bt) /\ Walk(Up(path)) = bt[n - 1]
  BY <1>1, WalkUnfolds
<1> DEFINE T == {i \in 0 .. n - 1 : at[i] # bt[i]}
<1>4. T = {}
  <2>1. SUFFICES ASSUME T # {} PROVE FALSE
    OBVIOUS
  <2>2. PICK i \in T : \A m \in T : i <= m
    <3>1. T \in SUBSET Nat
      BY <1>1
    <3> HIDE DEF T
    <3> QED
      BY <2>1, <3>1, Least
  <2>3. i \in 0 .. n - 1 /\ i \in 0 .. n /\ at[i] # bt[i]
    BY <1>1, <2>2
  <2>4. at[i] = WalkStep(path, i, at[i - 1]) /\ bt[i] = WalkStep(Up(path), i, bt[i - 1])
    BY <1>2, <1>3, <2>3 DEF Walks
  <2>5. i # 0
    BY <2>3, <2>4 DEF WalkStep
  <2>6. i - 1 \in 0 .. n - 1 /\ ~ (i <= i - 1) /\ Up(path)[i] = path[i]
    BY <1>1, <2>3, <2>5
  <2>7. at[i - 1] = bt[i - 1]
    BY <2>2, <2>6
  <2> QED
    BY <2>3, <2>4, <2>5, <2>6, <2>7 DEF WalkStep
<1>5. at[n - 1] = up
  <2>1. n - 1 \in 0 .. n - 1
    BY <1>1
  <2> QED
    BY <1>3, <1>4, <2>1
<1>6. at[n] = WalkStep(path, n, at[n - 1])
  BY <1>1, <1>2 DEF Walks
<1> QED
  BY <1>1, <1>2, <1>5, <1>6 DEF WalkStep, Leaf

LEMMA NoChild ==
  ASSUME NEW up, NEW n, Child(up, n) \in {NoEntry, BadName}, NamesDir(n)
  PROVE  \A d \in Dirs : ~ Matches(d, up, n)
<1> DEFINE S == {d \in Dirs : Matches(d, up, n)}
<1>1. SUFFICES ASSUME S # {} PROVE FALSE
  OBVIOUS
<1>2. PICK e \in S : \A b \in S : e <= b
  <2>1. S \in SUBSET Nat
    BY DEF Dirs
  <2> HIDE DEF S
  <2> QED
    BY <1>1, <2>1, Least
<1>3. \E d \in Dirs : Matches(d, up, n) /\ \A b \in Dirs : Matches(b, up, n) => d <= b
  BY <1>2
<1>4. Child(up, n) \in Dirs
  BY <1>3 DEF Child
<1> QED
  BY <1>4, FormatAssumption DEF Dirs, NoEntry, BadName

LEMMA TextMatches ==
  ASSUME NEW d, NEW n, DirText(d) = n
  PROVE  NamesDir(n) /\ Matches(d, dirs[d].upper, n)
<1>1. DIRNAME \in Nat /\ NAME \in Nat /\ DIRNAME <= NAME
  BY FormatAssumption
<1>2. \A i \in 1 .. NAME : n[i] = IF i <= DIRNAME THEN dirs[d].name[i] ELSE 0
  BY DEF DirText
<1>3. NamesDir(n)
  BY <1>1, <1>2 DEF NamesDir
<1>4. \A i \in 1 .. DIRNAME : dirs[d].name[i] = n[i]
  BY <1>1, <1>2
<1> QED
  BY <1>3, <1>4 DEF Matches

LEMMA LeafVacant ==
  ASSUME NEW path \in Paths, NEW up \in Parents, MissingLeaf(path, up),
         Walk(path) \in {NoEntry, BadName}
  PROVE  /\ Vacant(up, Leaf(path), {}) /\ Leaf(path)[1] # 0
         /\ Walk(path) = NoEntry => NamesDir(Leaf(path))
<1> DEFINE n == Leaf(path)
<1>1. Walk(path) = Child(up, n)
  BY WalkLast DEF MissingLeaf
<1>2. \A d \in Dirs : dirs[d].upper = up => DirText(d) # n
  BY <1>1, NoChild, TextMatches
<1>3. Walk(path) = NoEntry => NamesDir(n)
  BY <1>1 DEF Child, NoEntry, BadName
<1>4. n[1] # 0
  BY MissingValid DEF Names
<1> QED
  BY <1>2, <1>3, <1>4 DEF Vacant, MissingLeaf
-----------------------------------------------------------------------------
(* Names stay apart.                                                        *)

LEMMA NamesKeep ==
  ASSUME NamesApart,
         \A d \in Directories' : d \in Directories /\ dirs'[d] = dirs[d],
         \A b \in Files' : b \in Files /\ table'[b].dir = table[b].dir,
         \A b \in Heads' : b \in Heads /\ FileText(b)' = FileText(b)
  PROVE  NamesApart'
<1>1. \A d \in Directories' : DirText(d)' = DirText(d)
  BY DEF DirText
<1>2. \A b \in Files' : FileText(b)' = FileText(b)
  BY DEF Files
<1>3. (\A d, e \in Directories :
         dirs[d].upper = dirs[e].upper /\ DirText(d) = DirText(e) => d = e)'
  BY <1>1 DEF NamesApart
<1>4. (\A b, c \in Files : table[b].dir = table[c].dir /\ FileText(b) = FileText(c) => b = c)'
  BY <1>2 DEF NamesApart
<1>5. (\A b \in Files, d \in Directories :
         table[b].dir = dirs[d].upper => FileText(b) # DirText(d))'
  BY <1>1, <1>2 DEF NamesApart
<1>6. (\A b \in Heads : FileText(b)[1] # 0)'
  BY DEF NamesApart
<1> QED
  BY <1>3, <1>4, <1>5, <1>6 DEF NamesApart

LEMMA CallNames ==
  ASSUME IInv, TreeInv, NamesApart, Call PROVE NamesApart' /\ Coming'
<1>1. work.step = "idle" /\ Outline
  BY CallOutline, IdleFields DEF IInv
<1>2. /\ table' = table /\ dirs' = dirs /\ Heads' = Heads
      /\ \A b \in Heads : FileText(b)' = FileText(b)
  <2>1. table' = table /\ dirs' = dirs
    BY <1>1 DEF Outline
  <2>2. \A b \in Heads : b \in Clusters /\ Live(b)
    BY DEF Heads, Live, HEAD, FREE
  <2>3. \A b \in Heads : cluster'[b] = cluster[b]
    BY <1>1, <2>2 DEF Outline
  <2> QED
    BY <2>1, <2>3 DEF Heads, FileText
<1>3. NamesApart'
  <2>1. Files = Heads /\ \A d \in Dirs : IsDir(d) => d \in Directories
    BY <1>1 DEF Files, Unnamed, Directories, Unsettled
  <2>2. \A d \in Directories' : d \in Directories /\ dirs'[d] = dirs[d]
    BY <1>2, <2>1 DEF Directories, IsDir
  <2>3. \A b \in Files' : b \in Files /\ table'[b].dir = table[b].dir
    BY <1>2, <2>1 DEF Files
  <2> QED
    BY <1>2, <2>2, <2>3, NamesKeep
<1>4. ASSUME NEW up, NEW n, Vacant(up, n, {})
      PROVE  Vacant(up, n, {})' /\ Vacant(up, n, {work.slot})'
  <2>1. \A c \in Clusters : ~ IsFile(c, up, n)'
    BY <1>2, <1>4 DEF Vacant, IsFile, Heads, FileText
  <2> QED
    BY <1>2, <1>4, <2>1 DEF Vacant, DirText
<1>5. CASE NewFile
  <2>1. PICK path \in Paths, up \in Parents :
          /\ MissingLeaf(path, up) /\ Walk(path) \in {NoEntry, BadName}
          /\ work'.step = "head owner" /\ work'.parent = up /\ FileText(work.slot)' = Leaf(path)
    BY <1>5 DEF NewFile
  <2>2. Vacant(up, Leaf(path), {})' /\ Leaf(path)[1] # 0
    BY <1>4, <2>1, LeafVacant
  <2>3. (FileText(work.slot)[1] # 0 /\ Vacant(work.parent, FileText(work.slot), {}))'
    BY <2>1, <2>2
  <2>4. Coming'
    BY <2>1, <2>3 DEF Coming
  <2> QED
    BY <1>3, <2>4
<1>6. CASE NewDirectory
  <2>1. PICK path \in Paths, up \in Parents :
          /\ MissingLeaf(path, up) /\ Walk(path) = NoEntry
          /\ work'.step = "dir name" /\ work'.slot \in Dirs /\ ~ IsDir(work'.slot)
          /\ work'.parent = up /\ work'.name = Leaf(path) /\ work'.index = 0
    BY <1>6 DEF NewDirectory
  <2>2. Vacant(up, Leaf(path), {work.slot})' /\ NamesDir(Leaf(path))
    BY <1>4, <2>1, LeafVacant
  <2>3. work'.slot # 0
    <3>1. \A d \in Dirs : d # 0
      BY DEF Dirs
    <3> QED
      BY <2>1, <3>1
  <2>4. up # work'.slot
    BY <2>1, <2>3, MissingValid DEF ValidDir
  <2>5. ~ HasChildren(work'.slot)
    <3>1. ~ ValidDir(work'.slot)
      BY <2>1, <2>3 DEF ValidDir
    <3>2. \A c \in Clusters : table[c] # [dir |-> work'.slot, used |-> HEAD]
      BY <3>1 DEF TreeInv, NoneStranded, Heads
    <3> QED
      BY <3>1, <3>2 DEF HasChildren, TreeInv, NoneStranded
  <2>6. ~ HasChildren(work.slot)'
    BY <1>2, <2>5 DEF HasChildren, IsDir
  <2>7. Vacant(work.parent, work.name, {work.slot})' /\ NamesDir(work.name)'
    BY <2>1, <2>2 DEF NamesDir
  <2>8. (\A i \in 1 .. work.index : dirs[work.slot].name[i] = work.name[i])'
    <3>1. \A i \in 1 .. 0 : FALSE
      OBVIOUS
    <3> QED
      BY <2>1, <3>1
  <2>9. Coming'
    BY <2>1, <2>4, <2>6, <2>7, <2>8 DEF Coming
  <2> QED
    BY <1>3, <2>9
<1>7. CASE \/ work'.step \in {"idle", "transfer", "free owner"}
           \/ work'.step = "zero upper" /\ work'.index = 0
  BY <1>3, <1>7 DEF Coming
<1> QED
  BY <1>1, <1>5, <1>6, <1>7 DEF Outline

LEMMA NamePut ==
  ASSUME VolumeOK, NEW c \in Clusters, NEW i, NEW x,
         \/ cluster' = [cluster EXCEPT ![c].data[i] = x]
         \/ cluster' = [cluster EXCEPT ![c].hi = x]
         \/ cluster' = [cluster EXCEPT ![c].lo = x]
         \/ cluster' = [cluster EXCEPT ![c].next = x]
  PROVE  \A b \in Clusters : cluster'[b].name = cluster[b].name
<1>1. cluster \in [Clusters -> Cluster] /\ cluster[c] \in Cluster
  BY DEF VolumeOK
<1>2. CASE cluster' = [cluster EXCEPT ![c].data[i] = x]
  <2>1. /\ \A b \in Clusters : b # c => cluster'[b] = cluster[b]
        /\ cluster'[c] = [cluster[c] EXCEPT !.data[i] = x]
    BY <1>1, <1>2
  <2>2. cluster'[c].name = cluster[c].name
    BY <1>1, <2>1 DEF Cluster
  <2> QED
    BY <2>1, <2>2
<1>3. CASE cluster' = [cluster EXCEPT ![c].hi = x]
  BY <1>1, <1>3 DEF Cluster
<1>4. CASE cluster' = [cluster EXCEPT ![c].lo = x]
  BY <1>1, <1>4 DEF Cluster
<1>5. CASE cluster' = [cluster EXCEPT ![c].next = x]
  BY <1>1, <1>5 DEF Cluster
<1> QED
  BY <1>2, <1>3, <1>4, <1>5

(* A transfer, and the freeing of a file, write no name and no owner of a   *)
(* file that keeps its own.                                                *)
LEMMA NamesUnwritten ==
  ASSUME IInv, CursorInv,
         NextCluster \/ ReadByte \/ TransferDone \/ WriteByte \/ LengthHi \/ LengthLo \/ GrowFull
         \/ ContHeader \/ ContLink
  PROVE  /\ table' = table /\ \A b \in Heads : FileText(b)' = FileText(b)
<1>1. TypeOK /\ VolumeOK /\ \A b \in Heads : b \in Clusters /\ Live(b)
  BY DEF IInv, TypeOK, Heads, Live, HEAD, FREE
<1>2. CASE NextCluster \/ ReadByte \/ TransferDone \/ GrowFull
  BY <1>2 DEF NextCluster, ReadByte, TransferDone, GrowFull, TransferReturns, FileText
<1>3. CASE WriteByte \/ LengthHi \/ ContLink
  <2>1. work.step \in {"transfer", "length hi"} \cup ContSteps
    BY <1>3 DEF WriteByte, LengthHi, ContLink, ContSteps
  <2>2. fs.cluster \in Clusters
    BY <1>1, <2>1, InTransfer
  <2>3. \A b \in Clusters : cluster'[b].name = cluster[b].name
    <3>1. PICK i, x : \/ cluster' = [cluster EXCEPT ![fs.cluster].data[i] = x]
                      \/ cluster' = [cluster EXCEPT ![fs.cluster].hi = x]
                      \/ cluster' = [cluster EXCEPT ![fs.cluster].next = x]
      <4>1. CASE WriteByte
        BY <4>1 DEF WriteByte
      <4>2. CASE LengthHi
        BY <4>2 DEF LengthHi
      <4>3. CASE ContLink
        BY <4>3 DEF ContLink
      <4> QED
        BY <1>3, <4>1, <4>2, <4>3
    <3> QED
      BY <1>1, <2>2, <3>1, NamePut
  <2> QED
    BY <1>1, <1>3, <2>3 DEF FileText, WriteByte, LengthHi, ContLink
<1>4. CASE LengthLo
  <2>1. PICK S, T \in SUBSET Clusters : Apart(S, T)
    BY DEF CursorInv
  <2>2. fs.cluster \in Clusters
    BY <1>4, <2>1 DEF LengthLo, Apart, Torn, Holds
  <2>3. \A b \in Clusters : cluster'[b].name = cluster[b].name
    BY <1>1, <1>4, <2>2, NamePut DEF LengthLo
  <2> QED
    BY <1>1, <1>4, <2>3 DEF FileText, LengthLo
<1>5. CASE ContHeader
  <2>1. PICK c \in Clusters :
          /\ ~ Live(c) /\ table' = table
          /\ cluster' = [cluster EXCEPT ![c].next = 0, ![c].hi = 0, ![c].lo = 0]
    BY <1>5 DEF ContHeader, FirstFree
  <2>2. \A b \in Clusters : b # c => cluster'[b] = cluster[b]
    BY <1>1, <2>1 DEF VolumeOK
  <2> QED
    BY <1>1, <2>1, <2>2 DEF FileText
<1> QED
  BY <1>2, <1>3, <1>4, <1>5

LEMMA TransferNames ==
  ASSUME IInv, CursorInv, NamesApart,
         NextCluster \/ ReadByte \/ TransferDone \/ WriteByte \/ LengthHi \/ LengthLo \/ GrowFull
         \/ ContHeader \/ ContOwner \/ ContType \/ ContLink \/ FreeOwner \/ FreeType
  PROVE  NamesApart' /\ Coming'
<1> DEFINE c == work.slot
<1>1. /\ work.step \notin {"head owner", "head type", "dir name", "dir upper", "zero name"}
      /\ dirs' = dirs /\ work \in Works
  BY DEF NextCluster, ReadByte, TransferDone, WriteByte, LengthHi, LengthLo, GrowFull, MustGrow,
         TransferReturns, ContHeader, ContOwner, ContType, ContLink, FreeOwner, FreeType, IInv, TypeOK
<1>2. work'.step \notin {"head owner", "head type", "dir name", "dir upper", "zero upper",
                        "zero name"}
  BY <1>1, IdleFields, TransferFields
     DEF NextCluster, ReadByte, TransferDone, WriteByte, LengthHi, LengthLo, GrowFull, MustGrow,
         TransferReturns, ContHeader, ContOwner, ContType, ContLink, FreeOwner, FreeType,
         Returns, Works, IInv
<1>3. Coming'
  BY <1>2 DEF Coming
<1>4. \A d \in Directories' : d \in Directories /\ dirs'[d] = dirs[d]
  BY <1>1, <1>2 DEF Directories, Unsettled, IsDir
<1>5. SUFFICES /\ \A b \in Files' : b \in Files /\ table'[b].dir = table[b].dir
               /\ \A b \in Heads' : b \in Heads /\ FileText(b)' = FileText(b)
  BY <1>3, <1>4, NamesKeep
<1>6. CASE ContOwner \/ ContType \/ FreeOwner \/ FreeType
  <2>1. c \in Clusters /\ cluster' = cluster
    BY <1>6 DEF ContOwner, ContType, FreeOwner, FreeType, IInv, StepOK
  <2>2. \A b \in Clusters : b # c => table'[b] = table[b]
    <3>1. PICK x : \/ table' = [table EXCEPT ![c].dir = x]
                   \/ table' = [table EXCEPT ![c].used = x]
      BY <1>6 DEF ContOwner, ContType, FreeOwner, FreeType
    <3>2. TypeOK
      BY DEF IInv
    <3> HIDE DEF c
    <3> QED
      BY <2>1, <3>1, <3>2, EntryWrites
  <2>3. CASE ContOwner \/ ContType
    <3>1. work.step \in {"cont owner", "cont type"} /\ work'.step \in {"cont type", "cont link"}
      BY <1>1, <2>3 DEF ContOwner, ContType, Works
    <3>2. ~ Live(c)
      BY <3>1 DEF IInv, StepOK
    <3>3. table'[c].used \in {FREE, CONT}
      BY <2>1, <2>3, <3>2, EntryWrites DEF ContOwner, ContType, IInv, Live
    <3>4. HEAD \notin {FREE, CONT}
      BY DEF HEAD, FREE, CONT
    <3>5. Files = Heads /\ Files' = Heads'
      BY <3>1 DEF Files, Unnamed
    <3> HIDE DEF c
    <3>6. \A b \in Heads' : b \in Heads /\ table'[b] = table[b]
      BY <2>2, <3>3, <3>4 DEF Heads
    <3> QED
      BY <2>1, <3>5, <3>6 DEF FileText
  <2>4. CASE FreeOwner
    <3>1. work.step = "free owner" /\ work'.step = "free type" /\ work'.slot = c
      BY <1>1, <2>4 DEF FreeOwner, Works
    <3>2. table'[c].used = table[c].used
      BY <2>1, <2>4, EntryWrites DEF FreeOwner, IInv
    <3>3. Files = Heads /\ Files' = Heads' \ {c}
      BY <3>1 DEF Files, Unnamed
    <3> HIDE DEF c
    <3>4. \A b \in Heads' : b \in Heads
      BY <2>2, <3>2 DEF Heads
    <3>5. \A b \in Files' : b \in Clusters
      BY <3>3 DEF Heads
    <3> QED
      BY <2>1, <2>2, <3>3, <3>4, <3>5 DEF FileText
  <2>5. CASE FreeType
    <3>1. work.step = "free type"
      BY <2>5 DEF FreeType
    <3>2. table'[c].used = FREE
      BY <2>1, <2>5, EntryWrites DEF FreeType, IInv
    <3>3. Files = Heads \ {c}
      BY <3>1 DEF Files, Unnamed
    <3>4. HEAD # FREE
      BY DEF HEAD, FREE
    <3> HIDE DEF c
    <3>5. \A b \in Heads' : b \in Heads /\ b # c /\ table'[b] = table[b]
      BY <2>2, <3>2, <3>4 DEF Heads
    <3>6. \A b \in Files' : b \in Heads'
      BY DEF Files
    <3> QED
      BY <2>1, <3>3, <3>5, <3>6 DEF FileText
  <2> QED
    BY <1>6, <2>3, <2>4, <2>5
<1>7. CASE ~ (ContOwner \/ ContType \/ FreeOwner \/ FreeType)
  <2>1. table' = table /\ \A b \in Heads : FileText(b)' = FileText(b)
    BY <1>7, NamesUnwritten
  <2>2. Heads' = Heads
    BY <2>1 DEF Heads
  <2>3. work.step # "free type" /\ work'.step # "free type"
    BY <1>1, <1>7, IdleFields, TransferFields
       DEF NextCluster, ReadByte, TransferDone, WriteByte, LengthHi, LengthLo, GrowFull, MustGrow,
           TransferReturns, ContHeader, ContLink, Returns, Works, IInv
  <2>4. Files = Heads /\ Files' = Heads'
    BY <2>3 DEF Files, Unnamed
  <2> QED
    BY <2>1, <2>2, <2>4
<1> QED
  BY <1>6, <1>7

(* A new file gets the name that touch has found to be had.                 *)
LEMMA HeadNames ==
  ASSUME IInv, TreeInv, NamesApart, Coming, HeadOwner \/ HeadType PROVE NamesApart' /\ Coming'
<1> DEFINE c == work.slot
           n == FileText(c)
<1>1. /\ work.step \in {"head owner", "head type"} /\ dirs' = dirs /\ cluster' = cluster
      /\ work \in Works /\ TypeOK
  BY DEF HeadOwner, HeadType, IInv, TypeOK
<1>2. c \in Clusters /\ ~ Live(c) /\ n[1] # 0 /\ Vacant(work.parent, n, {})
  BY <1>1 DEF IInv, StepOK, Coming
<1>3. \A b \in Clusters : b # c => table'[b] = table[b]
  <2>1. PICK x : \/ table' = [table EXCEPT ![c].dir = x]
                 \/ table' = [table EXCEPT ![c].used = x]
    BY DEF HeadOwner, HeadType
  <2> HIDE DEF c
  <2> QED
    BY <1>1, <1>2, <2>1, EntryWrites
<1>4. \A b : FileText(b)' = FileText(b)
  BY <1>1 DEF FileText
<1>5. c \notin Heads
  BY <1>2 DEF Heads, Live, HEAD, FREE
<1>6. CASE HeadOwner
  <2>1. /\ work.step = "head owner" /\ work'.step = "head type" /\ work'.slot = c
        /\ work'.parent = work.parent
    BY <1>1, <1>6 DEF HeadOwner, Works
  <2>2. table'[c].used = table[c].used
    <3>1. PICK x : table' = [table EXCEPT ![c].dir = x]
      BY <1>6 DEF HeadOwner
    <3> HIDE DEF c
    <3> QED
      BY <1>1, <1>2, <3>1, EntryWrites
  <2> HIDE DEF c
  <2>3. Heads' = Heads /\ c \notin Heads'
    BY <1>3, <1>5, <2>2 DEF Heads
  <2>4. NamesApart'
    <3>1. \A d \in Directories' : d \in Directories /\ dirs'[d] = dirs[d]
      BY <1>1, <2>1 DEF Directories, Unsettled, IsDir
    <3>2. \A b \in Files' : b \in Files /\ table'[b].dir = table[b].dir
      BY <1>3, <1>5, <2>1, <2>3 DEF Files, Unnamed, Heads
    <3> QED
      BY <1>4, <2>3, <3>1, <3>2, NamesKeep
  <2>5. Vacant(work.parent, FileText(work.slot), {})'
    <3>1. \A b \in Clusters : ~ IsFile(b, work.parent, n)'
      <4> SUFFICES ASSUME NEW b \in Clusters, IsFile(b, work.parent, n)' PROVE FALSE
        OBVIOUS
      <4>1. b \in Heads'
        BY DEF IsFile, Heads
      <4>2. table'[b] = table[b]
        BY <1>3, <2>3, <4>1
      <4>3. IsFile(b, work.parent, n)
        BY <1>1, <2>1, <4>2 DEF IsFile, FileText, c
      <4> QED
        BY <1>2, <4>3 DEF Vacant
    <3>2. \A d \in Dirs : (dirs[d].upper = work.parent => DirText(d) # n)'
      BY <1>1, <1>2, <1>4, <2>1 DEF Vacant, DirText, c
    <3> QED
      BY <3>1, <3>2 DEF Vacant, c
  <2>6. Coming'
    BY <1>2, <1>4, <2>1, <2>5 DEF Coming, c
  <2> QED
    BY <2>4, <2>6
<1>7. CASE HeadType
  <2>1. work.step = "head type" /\ work'.step = "idle" /\ table[c].dir = work.parent
    BY <1>7, IdleFields DEF HeadType, Returns, TreeInv, Prepared
  <2>2. table'[c].used = HEAD /\ table'[c].dir = work.parent
    <3>1. table' = [table EXCEPT ![c].used = HEAD]
      BY <1>7 DEF HeadType
    <3> HIDE DEF c
    <3> QED
      BY <1>1, <1>2, <2>1, <3>1, EntryWrites
  <2> HIDE DEF c
  <2>3. Heads' = Heads \cup {c}
    BY <1>2, <1>3, <2>2 DEF Heads
  <2>4. Files = Heads /\ Files' = Heads \cup {c}
    BY <2>1, <2>3 DEF Files, Unnamed
  <2>5. Directories' = Directories /\ \A d : DirText(d)' = DirText(d)
    BY <1>1, <2>1 DEF Directories, Unsettled, IsDir, DirText
  <2>6. \A b \in Heads : table'[b] = table[b] /\ b \in Clusters
    BY <1>3, <1>5 DEF Heads
  <2>7. \A b \in Heads : ~ (table[b].dir = work.parent /\ FileText(b) = n)
    <3> SUFFICES ASSUME NEW b \in Heads, table[b].dir = work.parent, FileText(b) = n PROVE FALSE
      OBVIOUS
    <3>1. table[b] = [dir |-> work.parent, used |-> HEAD]
      BY <1>1, <2>6 DEF TypeOK, VolumeOK, Entry, Heads
    <3>2. IsFile(b, work.parent, n)
      BY <3>1 DEF IsFile, FileText
    <3> QED
      BY <1>2, <2>6, <3>2 DEF Vacant
  <2>8. \A d \in Directories : dirs[d].upper = work.parent => DirText(d) # n
    BY <1>2 DEF Vacant, Directories
  <2>9. (\A d, e \in Directories :
           dirs[d].upper = dirs[e].upper /\ DirText(d) = DirText(e) => d = e)'
    BY <1>1, <2>5 DEF NamesApart
  <2>10. \A b \in Heads \cup {c} :
            /\ table'[b].dir = IF b = c THEN work.parent ELSE table[b].dir
            /\ FileText(b)' = IF b = c THEN n ELSE FileText(b)
    BY <1>4, <2>2, <2>6
  <2> HIDE DEF n
  <2>11. ASSUME NEW b \in Heads \cup {c}, NEW e \in Heads \cup {c},
                table'[b].dir = table'[e].dir, FileText(b)' = FileText(e)'
         PROVE  b = e
    <3>1. CASE b # c /\ e # c
      <4>1. b \in Heads /\ e \in Heads /\ table[b].dir = table[e].dir /\ FileText(b) = FileText(e)
        BY <2>10, <2>11, <3>1
      <4> QED
        BY <2>4, <4>1 DEF NamesApart
    <3>2. CASE b # c /\ e = c
      <4>1. b \in Heads /\ table[b].dir = work.parent /\ FileText(b) = n
        BY <2>10, <2>11, <3>2
      <4> QED
        BY <2>7, <4>1
    <3>3. CASE b = c /\ e # c
      <4>1. e \in Heads /\ table[e].dir = work.parent /\ FileText(e) = n
        BY <2>10, <2>11, <3>3
      <4> QED
        BY <2>7, <4>1
    <3> QED
      BY <3>1, <3>2, <3>3
  <2>12. ASSUME NEW b \in Heads \cup {c}, NEW d \in Directories, table'[b].dir = dirs[d].upper
         PROVE  FileText(b)' # DirText(d)
    <3>1. CASE b # c
      <4>1. b \in Files /\ table[b].dir = dirs[d].upper /\ FileText(b)' = FileText(b)
        BY <2>4, <2>10, <2>12, <3>1
      <4> QED
        BY <4>1 DEF NamesApart
    <3>2. CASE b = c
      BY <2>8, <2>10, <2>12, <3>2
    <3> QED
      BY <3>1, <3>2
  <2>14. (\A b, e \in Files : table[b].dir = table[e].dir /\ FileText(b) = FileText(e) => b = e)'
    BY <2>4, <2>11
  <2>15. (\A b \in Files, d \in Directories :
            table[b].dir = dirs[d].upper => FileText(b) # DirText(d))'
    BY <1>1, <2>4, <2>5, <2>12
  <2>16. (\A b \in Heads : FileText(b)[1] # 0)'
    BY <1>2, <2>3, <2>10 DEF NamesApart
  <2>17. NamesApart'
    BY <2>9, <2>14, <2>15, <2>16 DEF NamesApart
  <2>18. Coming'
    BY <2>1 DEF Coming
  <2> QED
    BY <2>17, <2>18
<1> QED
  BY <1>6, <1>7

(* The step of a directory service: which record it writes, and where.      *)
LEMMA NamingStep ==
  ASSUME IInv, TreeInv, DirName \/ ZeroName
  PROVE  /\ work.slot \in Dirs /\ dirs[work.slot].upper = 0 /\ dirs'[work.slot].upper = 0
         /\ work.index + 1 \in 1 .. DIRNAME /\ work.index \in Nat
         /\ \A e \in Dirs : e # work.slot => dirs'[e] = dirs[e]
         /\ \A i \in 1 .. DIRNAME :
              dirs'[work.slot].name[i] = IF i # work.index + 1 THEN dirs[work.slot].name[i]
                                         ELSE IF DirName THEN work.name[i] ELSE 0
         /\ UNCHANGED <<table, cluster>>
<1>1. /\ work.step \in {"dir name", "zero name"} /\ work \in Works /\ TypeOK
      /\ UNCHANGED <<table, cluster>>
  BY DEF DirName, ZeroName, IInv, TypeOK
<1>2. work.slot \in Dirs /\ dirs[work.slot].upper = 0
  BY <1>1 DEF TreeInv, Prepared
<1>3. work.index \in Nat /\ work.index < DIRNAME /\ DIRNAME \in Nat
  <2>1. work.index < DIRNAME
    BY <1>1 DEF IInv, StepOK
  <2>2. work.index \in 0 .. DIRNAME
    BY <1>1 DEF Works
  <2> QED
    BY <2>1, <2>2, Sizes
<1>4. work.index + 1 \in 1 .. DIRNAME
  BY <1>3
<1>5. PICK d, j, x : /\ d = work.slot /\ j = work.index + 1
                     /\ x = IF DirName THEN work.name[j] ELSE 0
  OBVIOUS
<1>6. dirs' = [dirs EXCEPT ![d].name[j] = x]
  BY <1>5 DEF DirName, ZeroName
<1>7. d \in Dirs /\ j \in 1 .. DIRNAME
  BY <1>2, <1>4, <1>5
<1>8. /\ \A e \in Dirs : e # d => dirs'[e] = dirs[e]
      /\ dirs'[d].upper = dirs[d].upper
      /\ \A i \in 1 .. DIRNAME : dirs'[d].name[i] = IF i = j THEN x ELSE dirs[d].name[i]
  <2>1. dirs \in [Dirs -> Record] /\ dirs[d].name \in [1 .. DIRNAME -> Bytes]
    BY <1>1, <1>7 DEF TypeOK, VolumeOK, Record, DirNames
  <2>2. \A e \in Dirs : dirs'[e].upper = dirs[e].upper /\ (e # d => dirs'[e] = dirs[e])
    BY <1>6, <2>1 DEF Record
  <2> DEFINE name == dirs[d].name
  <2>3. dirs'[d].name = [name EXCEPT ![j] = x]
    BY <1>6, <1>7, <2>1 DEF Record
  <2>4. name \in [1 .. DIRNAME -> Bytes]
    BY <2>1
  <2> HIDE DEF name
  <2>5. \A i \in 1 .. DIRNAME : [name EXCEPT ![j] = x][i] = IF i = j THEN x ELSE name[i]
    BY <2>4
  <2> QED
    BY <1>7, <2>2, <2>3, <2>5 DEF name
<1> QED
  BY <1>1, <1>2, <1>3, <1>4, <1>5, <1>8

LEMMA DirNameNames ==
  ASSUME IInv, TreeInv, NamesApart, Coming, DirName PROVE NamesApart' /\ Coming'
<1>0. PICK d : d = work.slot
  OBVIOUS
<1>1. /\ work.step = "dir name" /\ work \in Works
      /\ work'.slot = d /\ work'.parent = work.parent /\ work'.name = work.name
      /\ work'.index = work.index + 1
      /\ work'.step = IF work.index + 1 = DIRNAME THEN "dir upper" ELSE "dir name"
  BY <1>0 DEF DirName, IInv, TypeOK, Works
<1>2. /\ d \in Dirs /\ dirs[d].upper = 0 /\ dirs'[d].upper = 0
      /\ work.index + 1 \in 1 .. DIRNAME /\ work.index \in Nat
      /\ \A e \in Dirs : e # d => dirs'[e] = dirs[e]
      /\ \A i \in 1 .. DIRNAME :
           dirs'[d].name[i] = IF i # work.index + 1 THEN dirs[d].name[i] ELSE work.name[i]
      /\ UNCHANGED <<table, cluster>>
  <2>1. DirName
    OBVIOUS
  <2> QED
    BY <1>0, <2>1, NamingStep
<1>3. Heads' = Heads /\ Files' = Files /\ \A b : FileText(b)' = FileText(b)
  BY <1>1, <1>2 DEF Heads, Files, Unnamed, FileText
<1>4. \A e \in Directories' : e \in Directories /\ dirs'[e] = dirs[e]
  BY <1>0, <1>1, <1>2 DEF Directories, Unsettled, IsDir
<1>5. NamesApart'
  BY <1>2, <1>3, <1>4, NamesKeep
<1>6. /\ NamesDir(work.name) /\ Vacant(work.parent, work.name, {d})
      /\ work.parent # d /\ ~ HasChildren(d)
      /\ \A i \in 1 .. work.index : dirs[d].name[i] = work.name[i]
  BY <1>0, <1>1 DEF Coming
<1>7. NamesDir(work.name)' /\ (work.parent # work.slot)'
  BY <1>1, <1>6 DEF NamesDir
<1>8. Vacant(work.parent, work.name, {work.slot})'
  <2>1. \A c \in Clusters : ~ IsFile(c, work.parent, work.name)'
    BY <1>1, <1>2, <1>6 DEF Vacant, IsFile
  <2>2. \A e \in Dirs \ {d} : dirs'[e] = dirs[e] /\ DirText(e)' = DirText(e)
    BY <1>2 DEF DirText
  <2>3. \A e \in Dirs \ {d} : (dirs[e].upper = work.parent => DirText(e) # work.name)'
    BY <1>1, <1>6, <2>2 DEF Vacant
  <2> QED
    BY <1>1, <2>1, <2>3 DEF Vacant
<1>9. ~ HasChildren(work.slot)'
  <2>1. d # 0
    BY <1>2 DEF Dirs
  <2>2. \A e \in Dirs : ~ (IsDir(e)' /\ dirs'[e].upper = d)
    BY <1>2, <1>6, <2>1 DEF HasChildren, IsDir
  <2> QED
    BY <1>1, <1>2, <1>6, <2>2 DEF HasChildren
<1>10. \A i \in 1 .. work.index + 1 : dirs'[d].name[i] = work.name[i]
  <2> SUFFICES ASSUME NEW i \in 1 .. work.index + 1 PROVE dirs'[d].name[i] = work.name[i]
    OBVIOUS
  <2>1. i \in 1 .. DIRNAME
    BY <1>2, Sizes
  <2>2. CASE i = work.index + 1
    BY <1>2, <2>1, <2>2
  <2>3. CASE i # work.index + 1
    <3>1. i \in 1 .. work.index
      BY <1>2, <2>3
    <3> QED
      BY <1>2, <1>6, <2>1, <2>3, <3>1
  <2> QED
    BY <2>2, <2>3
<1>11. Coming'
  <2>1. work'.step \in {"dir name", "dir upper"}
    BY <1>1
  <2>2. (work.step = "dir name" =>
           \A i \in 1 .. work.index : dirs[work.slot].name[i] = work.name[i])'
    BY <1>1, <1>10
  <2>3. (work.step = "dir upper" =>
           \A i \in 1 .. DIRNAME : dirs[work.slot].name[i] = work.name[i])'
    BY <1>1, <1>10
  <2> QED
    BY <1>7, <1>8, <1>9, <2>1, <2>2, <2>3 DEF Coming
<1> QED
  BY <1>5, <1>11

(* The record that is complete gets its place.                              *)
LEMMA DirUpperNames ==
  ASSUME IInv, TreeInv, NamesApart, Coming, DirUpper PROVE NamesApart' /\ Coming'
<1>0. PICK d, up, n : d = work.slot /\ up = work.parent /\ n = work.name
  OBVIOUS
<1>1. /\ work.step = "dir upper" /\ work'.step = "idle" /\ work \in Works /\ TypeOK
      /\ UNCHANGED <<table, cluster>> /\ dirs' = [dirs EXCEPT ![d].upper = up]
  BY <1>0, IdleFields DEF DirUpper, Returns, IInv, TypeOK
<1>2. /\ d \in Dirs /\ NamesDir(n) /\ Vacant(up, n, {d})
      /\ \A i \in 1 .. DIRNAME : dirs[d].name[i] = n[i]
  BY <1>0, <1>1 DEF TreeInv, Prepared, Coming
<1>3. /\ \A e \in Dirs : e # d => dirs'[e] = dirs[e]
      /\ dirs'[d].upper = up /\ dirs'[d].name = dirs[d].name
  <2>1. dirs \in [Dirs -> Record]
    BY <1>1 DEF TypeOK, VolumeOK
  <2> QED
    BY <1>1, <1>2, <2>1 DEF Record
<1>4. DirText(d)' = n
  <2>1. n \in [1 .. NAME -> Bytes] /\ DIRNAME \in Nat /\ NAME \in Nat
    BY <1>0, <1>1, FormatAssumption DEF Works, FileNames
  <2>2. \A i \in 1 .. NAME : (IF i <= DIRNAME THEN dirs'[d].name[i] ELSE 0) = n[i]
    BY <1>2, <1>3, <2>1 DEF NamesDir
  <2> QED
    BY <2>1, <2>2 DEF DirText
<1>5. \A e \in Dirs \ {d} : DirText(e)' = DirText(e) /\ dirs'[e] = dirs[e]
  BY <1>3 DEF DirText
<1>6. \A e \in Directories' : e = d \/ e \in Directories
  BY <1>0, <1>1, <1>5 DEF Directories, Unsettled, IsDir
<1>7. Heads' = Heads /\ Files' = Heads /\ Files = Heads /\ \A b : FileText(b)' = FileText(b)
  BY <1>1 DEF Heads, Files, Unnamed, FileText
<1>8. \A e \in Directories' : e \in Dirs
  BY DEF Directories
<1>9. ASSUME NEW a \in Directories', NEW e \in Directories',
             dirs'[a].upper = dirs'[e].upper, DirText(a)' = DirText(e)'
      PROVE  a = e
  <2>1. CASE a # d /\ e # d
    <3>1. /\ a \in Directories /\ e \in Directories
          /\ dirs[a].upper = dirs[e].upper /\ DirText(a) = DirText(e)
      BY <1>5, <1>6, <1>8, <1>9, <2>1
    <3> QED
      BY <3>1 DEF NamesApart
  <2>2. CASE a # d /\ e = d
    BY <1>2, <1>3, <1>4, <1>5, <1>8, <1>9, <2>2 DEF Vacant
  <2>3. CASE a = d /\ e # d
    BY <1>2, <1>3, <1>4, <1>5, <1>8, <1>9, <2>3 DEF Vacant
  <2> QED
    BY <2>1, <2>2, <2>3
<1>10. ASSUME NEW b \in Heads, NEW e \in Directories', table[b].dir = dirs'[e].upper
       PROVE  FileText(b) # DirText(e)'
  <2>1. CASE e # d
    <3>1. e \in Directories /\ table[b].dir = dirs[e].upper /\ DirText(e)' = DirText(e)
      BY <1>5, <1>6, <1>8, <1>10, <2>1
    <3> QED
      BY <1>7, <3>1 DEF NamesApart
  <2>2. CASE e = d
    <3>1. b \in Clusters /\ table[b].dir = up /\ table[b].used = HEAD
      BY <1>3, <1>10, <2>2 DEF Heads
    <3>2. table[b] = [dir |-> up, used |-> HEAD]
      BY <1>1, <3>1 DEF TypeOK, VolumeOK, Entry
    <3>3. FileText(b) # n
      BY <1>2, <3>1, <3>2 DEF Vacant, IsFile, FileText
    <3> QED
      BY <1>4, <2>2, <3>3
  <2> QED
    BY <2>1, <2>2
<1>11. NamesApart'
  <2>1. (\A a, e \in Directories :
           dirs[a].upper = dirs[e].upper /\ DirText(a) = DirText(e) => a = e)'
    BY <1>9
  <2>2. (\A b, c \in Files : table[b].dir = table[c].dir /\ FileText(b) = FileText(c) => b = c)'
    BY <1>1, <1>7 DEF NamesApart
  <2>3. (\A b \in Files, e \in Directories :
           table[b].dir = dirs[e].upper => FileText(b) # DirText(e))'
    BY <1>1, <1>7, <1>10
  <2>4. (\A b \in Heads : FileText(b)[1] # 0)'
    BY <1>7 DEF NamesApart
  <2> QED
    BY <2>1, <2>2, <2>3, <2>4 DEF NamesApart
<1>12. Coming'
  BY <1>1 DEF Coming
<1> QED
  BY <1>11, <1>12

(* The record that is cleared has left the others before it changes.        *)
LEMMA ZeroNames ==
  ASSUME IInv, TreeInv, NamesApart, Coming, ZeroUpper \/ ZeroName PROVE NamesApart' /\ Coming'
<1>0. PICK d : d = work.slot
  OBVIOUS
<1>1. /\ work \in Works /\ TypeOK /\ UNCHANGED <<table, cluster>>
      /\ work.step \in {"zero upper", "zero name"} /\ work'.step \in {"zero name", "idle"}
  BY IdleFields DEF ZeroUpper, ZeroName, Returns, IInv, TypeOK, Works
<1>2. Heads' = Heads /\ Files' = Files /\ \A b : FileText(b)' = FileText(b)
  BY <1>1 DEF Heads, Files, Unnamed, FileText
<1>3. CASE ZeroUpper
  <2>1. work.step = "zero upper" /\ work'.step = "zero name" /\ work'.slot = d
        /\ work'.index = work.index
    BY <1>0, <1>1, <1>3 DEF ZeroUpper, Works
  <2>2. \A e \in Dirs : e # d => dirs'[e] = dirs[e]
    BY <1>0, <1>1, <1>3 DEF ZeroUpper, TypeOK, VolumeOK
  <2>3. \A e \in Directories' : e \in Directories /\ dirs'[e] = dirs[e]
    BY <1>0, <2>1, <2>2 DEF Directories, Unsettled, IsDir
  <2>4. NamesApart'
    BY <1>1, <1>2, <2>3, NamesKeep
  <2>5. work.index = 0
    BY <2>1 DEF Coming
  <2>6. Coming'
    BY <2>1, <2>5 DEF Coming
  <2> QED
    BY <2>4, <2>6
<1>4. CASE ZeroName
  <2>1. /\ d \in Dirs /\ work.index \in Nat /\ work.index + 1 \in 1 .. DIRNAME
        /\ \A e \in Dirs : e # d => dirs'[e] = dirs[e]
        /\ \A i \in 1 .. DIRNAME :
             dirs'[d].name[i] = IF i # work.index + 1 THEN dirs[d].name[i] ELSE 0
    <3>1. ~ DirName
      BY <1>4 DEF DirName, ZeroName
    <3> QED
      BY <1>0, <1>4, <3>1, NamingStep
  <2>2. ~ IsDir(d)'
    <3>1. CASE work.index = 0
      BY <2>1, <3>1 DEF IsDir
    <3>2. CASE work.index # 0
      <4>1. ~ IsDir(d)
        BY <1>0, <1>4, <3>2 DEF Coming, ZeroName
      <4>2. 1 # work.index + 1 /\ 1 \in 1 .. DIRNAME
        BY <2>1, <3>2, Sizes
      <4> QED
        BY <2>1, <4>1, <4>2 DEF IsDir
    <3> QED
      BY <3>1, <3>2
  <2>3. work.step = "zero name" /\ work'.step \in {"idle", "zero name"}
        /\ (work'.step = "zero name" => work'.slot = d)
    BY <1>0, <1>1, <1>4, IdleFields DEF ZeroName, Returns, Works
  <2>4. \A e \in Directories' : e \in Directories /\ dirs'[e] = dirs[e]
    <3>1. \A e \in Directories' : e \in Dirs /\ IsDir(e)' /\ e # d
      BY <2>2 DEF Directories
    <3> QED
      BY <1>0, <2>1, <2>3, <3>1 DEF Directories, Unsettled, IsDir
  <2>5. NamesApart'
    BY <1>1, <1>2, <2>4, NamesKeep
  <2>6. Coming'
    BY <2>2, <2>3 DEF Coming
  <2> QED
    BY <2>5, <2>6
<1> QED
  BY <1>3, <1>4

LEMMA NamesStep ==
  ASSUME IInv, TreeInv, CursorInv, NamesApart, Coming, Call \/ Service
  PROVE  NamesApart' /\ Coming'
BY CallNames, TransferNames, HeadNames, DirNameNames, DirUpperNames, ZeroNames DEF Service
-----------------------------------------------------------------------------
(* No directory comes to be inside itself.                                  *)

LEMMA DepthKept ==
  ASSUME Nested,
         \A d \in Dirs : dirs'[d].name[1] # 0 /\ dirs'[d].upper # 0 =>
           dirs[d].name[1] # 0 /\ dirs'[d].upper = dirs[d].upper
  PROVE  Nested'
<1>1. PICK depth \in [Dirs -> Nat] : Deeper(depth, dirs)
  BY DEF Nested
<1>2. Deeper(depth, dirs')
  BY <1>1 DEF Deeper
<1> QED
  BY <1>2 DEF Nested

(* A directory gets its place when nothing is in it yet.                    *)
LEMMA PlacedNested == ASSUME IInv, TreeInv, Coming, Nested, DirUpper PROVE Nested'
<1>1. PICK d, up : d = work.slot /\ up = work.parent
  OBVIOUS
<1>2. /\ work.step = "dir upper" /\ work \in Works /\ VolumeOK
      /\ dirs' = [dirs EXCEPT ![d].upper = up]
  BY <1>1 DEF DirUpper, IInv, TypeOK
<1>3. d \in Dirs /\ up # d /\ ~ HasChildren(d) /\ up \in Parents
  BY <1>1, <1>2 DEF TreeInv, Prepared, Coming, Works
<1>4. /\ \A e \in Dirs : e # d => dirs'[e] = dirs[e]
      /\ dirs'[d].upper = up
  BY <1>2, <1>3 DEF VolumeOK, Record
<1>5. CASE up = 0
  BY <1>4, <1>5, DepthKept
<1>6. CASE up # 0
  <2>1. PICK depth \in [Dirs -> Nat] : Deeper(depth, dirs)
    BY DEF Nested
  <2>2. up \in Dirs
    BY <1>3, <1>6, FormatAssumption DEF Parents, Dirs
  <2> DEFINE depth2 == [depth EXCEPT ![d] = depth[up] + 1]
  <2>3. depth2 \in [Dirs -> Nat]
    <3>1. depth[up] + 1 \in Nat
      BY <2>1, <2>2
    <3> QED
      BY <2>1, <3>1
  <2>4. ASSUME NEW e \in Dirs, dirs'[e].name[1] # 0, dirs'[e].upper # 0
        PROVE  depth2[dirs'[e].upper] < depth2[e]
    <3>1. CASE e = d
      BY <1>3, <1>4, <2>1, <2>2, <3>1
    <3>2. CASE e # d
      <4>1. IsDir(e) /\ dirs[e].upper # 0 /\ dirs'[e].upper = dirs[e].upper
        BY <1>4, <2>4, <3>2 DEF IsDir
      <4>2. dirs[e].upper # d
        BY <1>3, <4>1 DEF HasChildren
      <4>3. dirs[e].upper \in Dirs
        <5>1. dirs[e].upper \in Parents
          BY <1>2 DEF VolumeOK, Record
        <5> QED
          BY <4>1, <5>1, Sizes DEF Parents, Dirs
      <4>4. depth[dirs[e].upper] < depth[e]
        BY <2>1, <4>1 DEF Deeper, IsDir
      <4> QED
        BY <3>2, <4>1, <4>2, <4>3, <4>4
    <3> QED
      BY <3>1, <3>2
  <2>5. Deeper(depth2, dirs')
    BY <2>4 DEF Deeper
  <2> QED
    BY <2>3, <2>5 DEF Nested
<1> QED
  BY <1>5, <1>6

LEMMA NestedStep ==
  ASSUME IInv, TreeInv, Coming, Nested, Call \/ Service PROVE Nested'
<1>1. CASE Call
  BY <1>1, CallOutline, DepthKept DEF IInv, Outline
<1>2. ASSUME DirName \/ ZeroName PROVE Nested'
  <2>1. \A d \in Dirs : dirs'[d].upper # 0 => dirs'[d] = dirs[d]
    BY <1>2, NamingStep
  <2> QED
    BY <2>1, DepthKept
<1>3. ASSUME ZeroUpper PROVE Nested'
  <2>1. PICK d : d = work.slot
    OBVIOUS
  <2>2. dirs' = [dirs EXCEPT ![d].upper = 0] /\ dirs \in [Dirs -> Record] /\ d \in Dirs
    BY <1>3, <2>1 DEF ZeroUpper, IInv, TypeOK, VolumeOK, TreeInv, Prepared
  <2>3. \A e \in Dirs : IF e = d THEN dirs'[e].upper = 0 ELSE dirs'[e] = dirs[e]
    BY <2>2 DEF Record
  <2> QED
    BY <2>3, DepthKept
<1>4. ASSUME Service, ~ (DirName \/ DirUpper \/ ZeroUpper \/ ZeroName) PROVE Nested'
  <2>1. ASSUME TransferDone \/ NextCluster \/ ReadByte \/ WriteByte \/ LengthHi \/ LengthLo \/ GrowFull
        PROVE  dirs' = dirs
    BY <2>1 DEF TransferDone, NextCluster, ReadByte, WriteByte, LengthHi, LengthLo, GrowFull,
                TransferReturns
  <2>2. ASSUME ContHeader \/ ContOwner \/ ContType \/ ContLink \/ HeadOwner \/ HeadType
               \/ FreeOwner \/ FreeType
        PROVE  dirs' = dirs
    BY <2>2 DEF ContHeader, ContOwner, ContType, ContLink, HeadOwner, HeadType, FreeOwner, FreeType
  <2>3. dirs' = dirs
    BY <1>4, <2>1, <2>2 DEF Service
  <2> QED
    BY <2>3, DepthKept
<1> QED
  BY <1>1, <1>2, <1>3, <1>4, PlacedNested
-----------------------------------------------------------------------------
(* The invariant.                                                           *)

LEMMA ValidStep ==
  ASSUME IInv, TreeInv, CursorInv, ValidInv, Call \/ Service PROVE ValidInv'
BY CoveredStep, LengthsStep, NamesStep, NestedStep DEF ValidInv

LEMMA ValidInit == Init => ValidInv
<1> SUFFICES ASSUME Init PROVE ValidInv
  OBVIOUS
<1>1. /\ work.step = "idle"
      /\ \A c \in Clusters : table[c].used = FREE
      /\ \A d \in Dirs : ~ IsDir(d)
  BY IdleFields, FormatAssumption DEF Init, Formatted, IsDir
<1>2. Heads = {} /\ Directories = {} /\ \A c \in Clusters : ~ Live(c) /\ table[c].used # CONT
  BY <1>1 DEF Heads, Directories, Live, FREE, HEAD, CONT
<1>3. Covered
  <2> DEFINE o == [c \in Clusters |-> c]
             p == [c \in Clusters |-> 0]
  <2>1. Lay(Roots, o, p, table, cluster)
    <3>1. Roots = {}
      BY <1>1, <1>2, Attached
    <3> QED
      BY <1>2, <3>1 DEF Lay
  <2>2. o \in [Clusters -> Clusters] /\ p \in [Clusters -> Nat]
    OBVIOUS
  <2> QED
    BY <2>1, <2>2 DEF Covered
<1>4. LengthsFit
  BY <1>1, <1>2 DEF LengthsFit
<1>5. NamesApart /\ Coming
  BY <1>1, <1>2 DEF NamesApart, Coming, Files
<1>6. Nested
  <2> DEFINE depth == [d \in Dirs |-> 0]
  <2>1. Deeper(depth, dirs)
    BY <1>1 DEF Deeper, IsDir
  <2>2. depth \in [Dirs -> Nat]
    OBVIOUS
  <2> QED
    BY <2>1, <2>2 DEF Nested
<1> QED
  BY <1>3, <1>4, <1>5, <1>6 DEF ValidInv

(* There are at most D depths: the rank of a directory's depth does.        *)
LEMMA RanksNest ==
  ASSUME TypeOK, Nested
  PROVE  \E depth \in [Dirs -> Dirs] : \A d \in Dirs :
           IsDir(d) /\ dirs[d].upper # 0 => depth[dirs[d].upper] < depth[d]
<1>1. PICK depth \in [Dirs -> Nat] : Deeper(depth, dirs)
  BY DEF Nested
<1> DEFINE above(d) == {e \in Dirs : depth[e] <= depth[d]}
           rank == [d \in Dirs |-> Cardinality(above(d))]
<1>2. IsFiniteSet(Dirs) /\ Cardinality(Dirs) = D /\ D \in Nat
  <2>1. D \in Nat
    BY FormatAssumption
  <2>2. IsFiniteSet(1 .. D) /\ Cardinality(1 .. D) = IF 1 > D THEN 0 ELSE D - 1 + 1
    BY <2>1, FS_Interval
  <2> QED
    BY <2>1, <2>2 DEF Dirs
<1>3. ASSUME NEW d \in Dirs
      PROVE  /\ above(d) \in SUBSET Dirs /\ IsFiniteSet(above(d)) /\ d \in above(d)
             /\ Cardinality(above(d)) \in 1 .. D
  <2>1. above(d) \in SUBSET Dirs /\ d \in above(d)
    BY <1>1
  <2> HIDE DEF above
  <2>2. IsFiniteSet(above(d)) /\ Cardinality(above(d)) <= D
    BY <1>2, <2>1, FS_Subset
  <2>3. Cardinality(above(d)) \in Nat /\ Cardinality(above(d)) # 0
    BY <2>1, <2>2, FS_CardinalityType, FS_EmptySet
  <2> QED
    BY <1>2, <2>1, <2>2, <2>3
<1>4. ASSUME NEW d \in Dirs, NEW e \in Dirs, depth[e] < depth[d]
      PROVE  Cardinality(above(e)) < Cardinality(above(d))
  <2>1. above(e) \in SUBSET above(d) /\ d \notin above(e)
    BY <1>1, <1>4
  <2>2. /\ IsFiniteSet(above(d)) /\ d \in above(d)
        /\ Cardinality(above(e)) \in Nat /\ Cardinality(above(d)) \in Nat
    BY <1>2, <1>3
  <2> HIDE DEF above
  <2>3. Cardinality(above(e)) <= Cardinality(above(d))
        /\ Cardinality(above(d)) # Cardinality(above(e))
    BY <2>1, <2>2, FS_Subset
  <2> QED
    BY <2>2, <2>3
<1>5. rank \in [Dirs -> Dirs]
  BY <1>3 DEF Dirs
<1>6. ASSUME NEW d \in Dirs, IsDir(d), dirs[d].upper # 0 PROVE rank[dirs[d].upper] < rank[d]
  <2>1. dirs[d].upper \in Dirs
    <3>1. dirs[d].upper \in Parents
      BY DEF TypeOK, VolumeOK, Record
    <3> QED
      BY <1>2, <1>6, <3>1 DEF Parents, Dirs
  <2>2. depth[dirs[d].upper] < depth[d]
    BY <1>1, <1>6 DEF Deeper, IsDir
  <2> HIDE DEF above
  <2> QED
    BY <1>4, <2>1, <2>2
<1> QED
  BY <1>5, <1>6

(* Between services the card reader accepts the volume.                     *)
LEMMA ValidVolume ==
  ASSUME IInv, TreeInv, ValidInv, work = Idle PROVE HostValid
<1>1. work.step = "idle" /\ TypeOK /\ ChainsSound
  BY IdleFields DEF IInv
<1>2. PICK o \in [Clusters -> Clusters], p \in [Clusters -> Nat] : Lay(Heads, o, p, table, cluster)
  BY <1>1, Attached DEF ValidInv, Covered
<1>3. Files = Heads /\ Directories = {d \in Dirs : IsDir(d)}
  BY <1>1 DEF Files, Unnamed, Directories, Unsettled
<1>4. \A d, e \in Dirs : IsDir(d) /\ IsDir(e) /\ dirs[d] = dirs[e] => d = e
  <2> SUFFICES ASSUME NEW d \in Dirs, NEW e \in Dirs, IsDir(d), IsDir(e), dirs[d] = dirs[e]
               PROVE  d = e
    OBVIOUS
  <2>1. DirText(d) = DirText(e)
    BY DEF DirText
  <2> QED
    BY <1>3, <2>1 DEF ValidInv, NamesApart
<1>5. ASSUME NEW b \in Heads
      PROVE  /\ ValidDir(table[b].dir) /\ FileText(b)[1] # 0
             /\ \A c \in Heads : table[b].dir = table[c].dir /\ FileText(b) = FileText(c) => b = c
             /\ \A d \in Dirs : IsDir(d) =>
                  dirs[d].upper # table[b].dir \/ DirText(d) # FileText(b)
  BY <1>3 DEF TreeInv, NoneStranded, ValidInv, NamesApart
<1>6. ASSUME NEW b \in Heads
      PROVE  /\ Sound(ChainOf(b))
             /\ \A i \in 1 .. Len(ChainOf(b)) :
                  /\ table[ChainOf(b)[i]].used = IF i = 1 THEN HEAD ELSE CONT
                  /\ Length(ChainOf(b)[i]) <= Capacity(ChainOf(b)[i])
  <2>1. Sound(ChainOf(b))
    BY <1>1, <1>2, ChainWhole
  <2>2. ASSUME NEW i \in 1 .. Len(ChainOf(b))
        PROVE  /\ table[ChainOf(b)[i]].used = IF i = 1 THEN HEAD ELSE CONT
               /\ Length(ChainOf(b)[i]) <= Capacity(ChainOf(b)[i])
    <3>1. table[ChainOf(b)[i]].used = IF i = 1 THEN HEAD ELSE CONT
      BY <1>1, <1>2, ChainOwned
    <3>2. ChainOf(b)[i] \in Clusters
      <4>1. Linked(ChainOf(b), b)
        BY <1>1, ChainLinked DEF TypeOK, Heads
      <4> QED
        BY <4>1 DEF Linked
    <3>3. Live(ChainOf(b)[i])
      BY <3>1 DEF Live, FREE, HEAD, CONT
    <3> QED
      BY <1>1, <3>1, <3>2, <3>3 DEF ValidInv, LengthsFit, HalfLong
  <2> QED
    BY <2>1, <2>2
<1>7. ASSUME NEW b \in Heads, NEW c \in Heads, b # c,
             NEW i \in 1 .. Len(ChainOf(b)), NEW j \in 1 .. Len(ChainOf(c))
      PROVE  ChainOf(b)[i] # ChainOf(c)[j]
  <2>1. o[ChainOf(b)[i]] = b /\ o[ChainOf(c)[j]] = c
    BY <1>1, <1>2, ChainOwned
  <2> QED
    BY <1>7, <2>1
<1>8. \A c \in Clusters : table[c].used = CONT =>
        \E b \in Heads : \E i \in 1 .. Len(ChainOf(b)) : ChainOf(b)[i] = c
  BY <1>1, <1>2, AllReached
<1>9. \A d \in Dirs : IsDir(d) => ValidDir(dirs[d].upper)
  BY DEF TreeInv, NoneStranded
<1>10. \E depth \in [Dirs -> Dirs] : \A d \in Dirs :
         IsDir(d) /\ dirs[d].upper # 0 => depth[dirs[d].upper] < depth[d]
  BY <1>1, RanksNest DEF ValidInv
<1> QED
  BY <1>4, <1>5, <1>6, <1>7, <1>8, <1>9, <1>10 DEF HostValid

(* The invariant is about a volume on which no service was abandoned.       *)
NoneAbandoned == resets = 0 => ValidInv

LEMMA ServiceResets == ASSUME Service PROVE resets' = resets
<1>1. ASSUME TransferDone \/ NextCluster \/ ReadByte \/ WriteByte \/ LengthHi \/ LengthLo \/ GrowFull
      PROVE  resets' = resets
  BY <1>1 DEF TransferDone, NextCluster, ReadByte, WriteByte, LengthHi, LengthLo, GrowFull,
              TransferReturns
<1>2. ASSUME ContHeader \/ ContOwner \/ ContType \/ ContLink \/ HeadOwner \/ HeadType
             \/ FreeOwner \/ FreeType
      PROVE  resets' = resets
  BY <1>2 DEF ContHeader, ContOwner, ContType, ContLink, HeadOwner, HeadType, FreeOwner, FreeType
<1>3. ASSUME DirName \/ DirUpper \/ ZeroUpper \/ ZeroName PROVE resets' = resets
  BY <1>3 DEF DirName, DirUpper, ZeroUpper, ZeroName
<1> QED
  BY <1>1, <1>2, <1>3 DEF Service

LEMMA NoneAbandonedStep ==
  IInv /\ TreeInv /\ CursorInv /\ NoneAbandoned /\ [Next]_vars => NoneAbandoned'
<1> SUFFICES ASSUME IInv, TreeInv, CursorInv, NoneAbandoned, [Next]_vars, resets' = 0 PROVE ValidInv'
  BY DEF NoneAbandoned
<1>1. resets \in Nat
  BY DEF IInv, TypeOK
<1>2. ASSUME Reset PROVE FALSE
  BY <1>1, <1>2 DEF Reset
<1>3. ASSUME Call PROVE ValidInv'
  <2>1. resets = 0
    BY <1>3, CallOutline DEF IInv, Outline
  <2> QED
    BY <1>3, <2>1, ValidStep DEF NoneAbandoned
<1>4. ASSUME Service PROVE ValidInv'
  <2>1. resets = 0
    BY <1>4, ServiceResets
  <2> QED
    BY <1>4, <2>1, ValidStep DEF NoneAbandoned
<1>5. ASSUME UNCHANGED vars PROVE ValidInv'
  <2>1. ValidInv /\ UNCHANGED <<table, dirs, cluster, fs, work>>
    BY <1>5 DEF vars, NoneAbandoned
  <2>2. Covered'
    BY <2>1 DEF ValidInv, Covered, Roots, Detached, Heads
  <2>3. LengthsFit'
    <3>1. \A c : Live(c)' = Live(c) /\ HalfLong(c)' = HalfLong(c) /\ Length(c)' = Length(c)
                 /\ Capacity(c)' = Capacity(c)
      BY <2>1 DEF Live, HalfLong, Length, Capacity
    <3> QED
      BY <2>1, <3>1 DEF ValidInv, LengthsFit
  <2>4. \A c, up, n, S : /\ FileText(c)' = FileText(c) /\ DirText(c)' = DirText(c)
                         /\ IsFile(c, up, n)' = IsFile(c, up, n) /\ IsDir(c)' = IsDir(c)
                         /\ HasChildren(c)' = HasChildren(c)
    BY <2>1 DEF FileText, DirText, IsFile, IsDir, HasChildren
  <2>5. NamesApart'
    <3>1. Heads' = Heads /\ Files' = Files /\ Directories' = Directories
      BY <2>1 DEF Heads, Files, Unnamed, Directories, Unsettled, IsDir
    <3> QED
      BY <2>1, <2>4, <3>1, NamesKeep DEF ValidInv
  <2>6. Coming'
    <3>1. \A up, n, S : Vacant(up, n, S)' = Vacant(up, n, S)
      BY <2>1, <2>4 DEF Vacant
    <3> QED
      BY <2>1, <2>4, <3>1 DEF ValidInv, Coming, NamesDir
  <2>7. Nested'
    BY <2>1, DepthKept DEF ValidInv
  <2> QED
    BY <2>2, <2>3, <2>5, <2>6, <2>7 DEF ValidInv
<1> QED
  BY <1>2, <1>3, <1>4, <1>5 DEF Next
-----------------------------------------------------------------------------
(* Between two services the volume is one the card reader accepts, whatever *)
(* was created, written, extended and removed before, as long as no service *)
(* has been abandoned to a reset and programs leave the redirection target  *)
(* alone (IdleVolumeValid).                                                 *)
THEOREM VolumeStaysValid == ~ Shared /\ Spec => []IdleVolumeValid
<1> DEFINE Inv == IInv /\ TreeInv /\ CursorInv /\ NoneAbandoned
<1>1. Init => Inv
  BY InitType, InitSafe, TreeInit, CursorInit, ValidInit DEF IInv, NoneAbandoned
<1>2. ~ Shared /\ Inv /\ [Next]_vars => Inv'
  BY TypeStep, SafeStep, TreeStep, CursorStep, NoneAbandonedStep DEF IInv
<1>3. Inv => IdleVolumeValid
  BY ValidVolume DEF NoneAbandoned, IdleVolumeValid
<1>4. CASE ~ Shared
  <2>1. Inv /\ [Next]_vars => Inv'
    BY <1>2, <1>4
  <2> QED
    BY <1>1, <1>3, <2>1, PTL DEF Spec
<1> QED
  BY <1>4
=============================================================================
