------------------------------ MODULE FsProofs ------------------------------
(***************************************************************************)
(* Proofs about the filesystem services: their types, and that no byte      *)
(* they write, and no reset between two of them, ever leaves a link that    *)
(* leads out of a file (ChainsSound) or a directory or file in a directory  *)
(* that is gone (NoneStranded), on volumes of every size and with paths of  *)
(* every length; and that what the descriptor and the redirection cache of  *)
(* the card never goes stale (CursorsFresh) as long as programs leave the   *)
(* file that the redirection writes alone (~ Shared).                       *)
(***************************************************************************)
EXTENDS KernelFs, SequenceTheorems, WellFoundedInduction, TLAPS

(* No cluster in use links to c.                                           *)
Unlinked(c) == \A b \in Clusters : Live(b) => cluster[b].next # c

(* What a running service relies on between two of its writes: a cluster   *)
(* being prepared is free and ends its chain, until it is linked nothing   *)
(* leads to it, and the next cluster to free has lost the only link to it. *)
StepOK ==
  /\ work.step \in {"length hi", "length lo"} => fs.offset < CONT_CAP /\ work.bytes # <<>>
  /\ work.step \in {"cont owner", "cont type", "head owner", "head type"} =>
       work.slot \in Clusters /\ ~ Live(work.slot) /\ cluster[work.slot].next = 0
  /\ work.step = "cont link" =>
       /\ work.slot \in Clusters /\ table[work.slot].used = CONT
       /\ cluster[work.slot].next = 0 /\ Unlinked(work.slot)
  /\ work.step \in {"free owner", "free type"} =>
       work.slot \in Clusters /\ Live(work.slot) /\ Unlinked(work.slot)
  /\ work.step = "free type" => fs.next = cluster[work.slot].next
  /\ work.step \in {"dir name", "zero name", "zero upper"} => work.index < DIRNAME

IInv == TypeOK /\ ChainsSound /\ StepOK
-----------------------------------------------------------------------------
LEMMA Sizes ==
  /\ DIRNAME \in Nat /\ 0 < DIRNAME
  /\ HEAD_CAP \in Nat /\ CONT_CAP \in Nat /\ HEAD_CAP <= CONT_CAP
<1>1. /\ DIRNAME \in Nat \ {0} /\ HEAD_CAP \in Nat \ {0} /\ CONT_CAP \in Nat \ {0}
      /\ HEAD_CAP <= CONT_CAP
  BY FormatAssumption
<1> QED
  BY <1>1

LEMMA ProductNat == \A a, b \in Nat : a * b \in Nat
OBVIOUS

LEMMA LengthNat == ASSUME VolumeOK, NEW c \in Clusters PROVE Length(c) \in Nat
<1>1. RADIX \in Nat
  BY FormatAssumption
<1>2. cluster[c] \in Cluster
  BY DEF VolumeOK
<1>3. cluster[c].hi \in Nat /\ cluster[c].lo \in Nat
  BY <1>1, <1>2 DEF Cluster
<1>4. RADIX * cluster[c].hi \in Nat
  BY <1>1, <1>3, ProductNat
<1> DEFINE product == RADIX * cluster[c].hi
<1>5. product \in Nat /\ Length(c) = product + cluster[c].lo
  BY <1>4 DEF Length
<1> HIDE DEF product
<1> QED
  BY <1>3, <1>5

LEMMA AtType ==
  ASSUME VolumeOK, NEW cursor \in Cursors, NEW c \in Clusters
  PROVE  At(cursor, c) \in Cursors
<1>1. Length(c) \in Nat
  BY LengthNat
<1>2. cluster[c].next \in 0 .. N /\ c \in 0 .. N
  BY FormatAssumption DEF VolumeOK, Cluster, Clusters
<1> QED
  BY <1>1, <1>2 DEF At, Cursors

LEMMA ClosedType == Closed \in Cursors
  BY FormatAssumption DEF Closed, Cursors, Parents

LEMMA OpenedType ==
  ASSUME VolumeOK, NEW up \in Parents, NEW c \in Clusters
  PROVE  Opened(up, c) \in Cursors
<1>1. Length(c) \in Nat
  BY LengthNat
<1>2. cluster[c].next \in 0 .. N /\ c \in 0 .. N
  BY FormatAssumption DEF VolumeOK, Cluster, Clusters
<1> QED
  BY <1>1, <1>2 DEF Opened, Cursors

LEMMA NamesAreFileNames == Names \subseteq FileNames /\ NoName \in FileNames
  BY DEF Names, FileNames, NoName, Bytes

LEMMA LeafType ==
  ASSUME NEW path \in Paths, path # <<>> PROVE Leaf(path) \in FileNames
<1>1. path \in Seq(Names)
  BY ServiceAssumption
<1>2. Len(path) \in 1 .. Len(path)
  BY <1>1
<1> QED
  BY <1>1, <1>2, NamesAreFileNames DEF Leaf

LEMMA IdleType == Idle \in Works
  BY FormatAssumption, NamesAreFileNames DEF Idle, Works, Steps, Parents

LEMMA HighByte ==
  ASSUME NEW x \in Nat, x < CONT_CAP
  PROVE  (x + 1) \div RADIX \in 0 .. RADIX - 1 /\ (x + 1) % RADIX \in 0 .. RADIX - 1
<1> DEFINE y == x + 1
           q == y \div RADIX
<1>1. RADIX \in Nat /\ RADIX > 0 /\ y \in Nat /\ y < RADIX * RADIX
  BY FormatAssumption
<1>2. q \in Nat /\ y % RADIX \in 0 .. RADIX - 1 /\ y = (q * RADIX) + (y % RADIX)
  <2>1. \A r, n \in Nat : r > 0 => n % r \in 0 .. r - 1
    OBVIOUS
  <2>2. \A r, n \in Nat : r > 0 => n \div r \in Nat
    OBVIOUS
  <2>3. \A r, n \in Nat : r > 0 => n = ((n \div r) * r) + (n % r)
    OBVIOUS
  <2> QED
    BY <1>1, <2>1, <2>2, <2>3
<1>3. q < RADIX
  <2>1. SUFFICES ASSUME q >= RADIX PROVE FALSE
    BY <1>1, <1>2
  <2>2. q * RADIX >= RADIX * RADIX
    BY <1>1, <1>2, <2>1
  <2> QED
    BY <1>1, <1>2, <2>2
<1> QED
  BY <1>1, <1>2, <1>3

LEMMA IdleFields == Idle.step = "idle" /\ Idle.slot = 0 /\ Idle.index = 0
  BY DEF Idle

LEMMA StatusTypes ==
  /\ FS_SUCCESS \in Statuses /\ FS_INVALID_INPUT \in Statuses /\ FS_NOT_FOUND \in Statuses
  /\ FS_NO_DESCRIPTOR \in Statuses /\ FS_CORRUPT_CHAIN \in Statuses
  /\ FS_DISK_CAPACITY \in Statuses /\ FS_EXISTS \in Statuses /\ FS_NOT_EMPTY \in Statuses
  BY DEF Statuses

(* A service that returns without a write.                                  *)
LEMMA QuietType ==
  ASSUME TypeOK, NEW status \in Statuses, Quietly(status), fs' \in Cursors
  PROVE  TypeOK'
<1>1. VolumeOK'
  BY DEF TypeOK, VolumeOK, Quietly
<1>2. work' \in Works /\ result' \in Results
  BY IdleType DEF Quietly, Returns, Results
<1> QED
  BY <1>1, <1>2 DEF TypeOK, Quietly

(* A service that starts.                                                   *)
LEMMA StartType ==
  ASSUME TypeOK, NEW begun \in Works, Starts(begun), fs' \in Cursors,
         redirect' \in [on : BOOLEAN, swapped : BOOLEAN, cursor : Cursors],
         VolumeOK', resets' = resets
  PROVE  TypeOK'
<1>1. result' \in Results
  BY StatusTypes DEF Starts, Results
<1> QED
  BY <1>1 DEF TypeOK, Starts

LEMMA ResultType ==
  ASSUME TypeOK, result' = result \/ Returns(FS_SUCCESS, 0) PROVE result' \in Results
<1>1. ASSUME Returns(FS_SUCCESS, 0) PROVE result' \in Results
  BY <1>1, StatusTypes DEF Returns, Results
<1> QED
  BY <1>1 DEF TypeOK

LEMMA CreateType ==
  ASSUME NEW step \in Steps, NEW slot \in Nat, NEW up \in Parents, NEW name \in FileNames
  PROVE  [Idle EXCEPT !.step = step, !.slot = slot, !.parent = up, !.name = name] \in Works
  BY IdleType DEF Works

LEMMA InitType == Init => TypeOK
<1> SUFFICES ASSUME Init PROVE TypeOK
  OBVIOUS
<1>1. VolumeOK
  <2>1. table \in [Clusters -> Entry]
    BY FormatAssumption DEF Init, Formatted, Entry, Parents
  <2>2. dirs \in [Dirs -> Record]
    BY FormatAssumption DEF Init, Formatted, Record, Parents, DirNames, Bytes
  <2>3. cluster \in [Clusters -> Cluster]
    <3>1. [i \in Places |-> 0] \in [Places -> Data]
      BY FormatAssumption
    <3>2. 0 \in 0 .. N /\ 0 \in 0 .. RADIX - 1
      BY FormatAssumption
    <3> QED
      BY <3>1, <3>2, NamesAreFileNames DEF Init, Formatted, Cluster
  <2> QED
    BY <2>1, <2>2, <2>3 DEF VolumeOK
<1>2. fs \in Cursors /\ redirect \in [on : BOOLEAN, swapped : BOOLEAN, cursor : Cursors]
  BY ClosedType DEF Init
<1>3. work \in Works /\ result \in Results
  BY IdleType, StatusTypes DEF Init, Results
<1>4. resets \in 0 .. MaxResets
  BY ServiceAssumption DEF Init
<1> QED
  BY <1>1, <1>2, <1>3, <1>4 DEF TypeOK
-----------------------------------------------------------------------------
LEMMA OpenType == ASSUME TypeOK, NEW path \in Paths, Open(path) PROVE TypeOK'
<1>1. ASSUME NEW up \in Parents, NEW c \in Clusters, fs' = Opened(up, c), Quietly(FS_SUCCESS)
      PROVE  TypeOK'
  BY <1>1, OpenedType, QuietType, StatusTypes DEF TypeOK
<1>2. ASSUME NEW status \in Statuses, fs' = Closed, Quietly(status) PROVE TypeOK'
  BY <1>2, ClosedType, QuietType
<1> QED
  BY <1>1, <1>2 DEF Open

LEMMA FindType == ASSUME TypeOK, NEW path \in Paths, Find(path) PROVE TypeOK'
<1>1. fs' \in Cursors /\ \E status \in Statuses : Quietly(status)
  BY ClosedType, StatusTypes DEF Find
<1> QED
  BY <1>1, QuietType

LEMMA DescriptorType ==
  ASSUME TypeOK, Mount \/ Close \/ Rewind \/ RedirectOff PROVE TypeOK'
<1>1. ASSUME Mount \/ Close PROVE TypeOK'
  <2>1. fs' \in Cursors /\ \E status \in Statuses : Quietly(status)
    BY <1>1, ClosedType, StatusTypes DEF Mount, Close
  <2> QED
    BY <2>1, QuietType
<1>2. ASSUME Rewind PROVE TypeOK'
  <2>1. fs.head # 0 => fs.head \in Clusters
    BY FormatAssumption DEF TypeOK, Cursors, Clusters
  <2>2. fs.head # 0 => At(fs, fs.head) \in Cursors
    BY <2>1, AtType DEF TypeOK
  <2>3. fs' \in Cursors /\ \E status \in Statuses : Quietly(status)
    BY <1>2, <2>2, StatusTypes DEF Rewind, TypeOK
  <2> QED
    BY <2>3, QuietType
<1>3. ASSUME RedirectOff PROVE TypeOK'
  <2>1. VolumeOK'
    BY <1>3 DEF TypeOK, VolumeOK, RedirectOff
  <2>2. work' \in Works /\ result' \in Results
    BY <1>3, IdleType, StatusTypes DEF RedirectOff, Returns, Results
  <2> QED
    BY <1>3, <2>1, <2>2, ClosedType DEF RedirectOff, TypeOK
<1> QED
  BY <1>1, <1>2, <1>3

LEMMA RedirectType == ASSUME TypeOK, NEW path \in Paths, Redirect(path) PROVE TypeOK'
<1>1. VolumeOK'
  BY DEF TypeOK, VolumeOK, Redirect
<1>2. work' \in Works /\ result' \in Results
  BY IdleType, StatusTypes DEF Redirect, Returns, Results
<1>3. redirect' \in [on : BOOLEAN, swapped : BOOLEAN, cursor : Cursors]
  <2>1. ASSUME NEW up \in Parents, NEW c \in Clusters PROVE Opened(up, c) \in Cursors
    BY OpenedType DEF TypeOK
  <2>2. \/ redirect' = redirect
        \/ \E up \in Parents, c \in Clusters :
             redirect' = [on |-> TRUE, swapped |-> FALSE, cursor |-> Opened(up, c)]
    BY DEF Redirect
  <2>3. ASSUME NEW up \in Parents, NEW c \in Clusters,
               redirect' = [on |-> TRUE, swapped |-> FALSE, cursor |-> Opened(up, c)]
        PROVE  redirect' \in [on : BOOLEAN, swapped : BOOLEAN, cursor : Cursors]
    BY <2>1, <2>3
  <2> QED
    BY <2>2, <2>3 DEF TypeOK
<1> QED
  BY <1>1, <1>2, <1>3 DEF Redirect, TypeOK

LEMMA TransferStartType ==
  ASSUME TypeOK, NEW bytes \in Seq(Data), NEW writes \in BOOLEAN,
         Transferring(bytes, writes), fs' \in Cursors,
         redirect' \in [on : BOOLEAN, swapped : BOOLEAN, cursor : Cursors]
  PROVE  TypeOK'
<1>1. [Idle EXCEPT !.step = "transfer", !.bytes = bytes, !.writes = writes] \in Works
  BY IdleType DEF Works, Steps
<1>2. VolumeOK'
  BY DEF TypeOK, VolumeOK, Transferring
<1> QED
  BY <1>1, <1>2, StartType DEF Transferring

LEMMA ReadType == ASSUME TypeOK, NEW count \in 0 .. MaxRead, Read(count) PROVE TypeOK'
<1>1. ASSUME fs' = fs, Quietly(FS_NO_DESCRIPTOR) PROVE TypeOK'
  BY <1>1, QuietType, StatusTypes DEF TypeOK
<1>2. ASSUME UNCHANGED <<fs, redirect>>, Transferring([i \in 1 .. count |-> 0], FALSE)
      PROVE  TypeOK'
  <2>1. [i \in 1 .. count |-> 0] \in Seq(Data)
    BY FormatAssumption, ServiceAssumption
  <2> QED
    BY <1>2, <2>1, TransferStartType DEF TypeOK
<1> QED
  BY <1>1, <1>2 DEF Read

LEMMA WriteType == ASSUME TypeOK, NEW bytes \in Buffers, Write(bytes) PROVE TypeOK'
<1>1. ASSUME fs' = fs, Quietly(FS_NO_DESCRIPTOR) PROVE TypeOK'
  BY <1>1, QuietType, StatusTypes DEF TypeOK
<1>2. ASSUME UNCHANGED <<fs, redirect>>, Transferring(bytes, TRUE) PROVE TypeOK'
  <2>1. bytes \in Seq(Data)
    BY ServiceAssumption
  <2> QED
    BY <1>2, <2>1, TransferStartType DEF TypeOK
<1> QED
  BY <1>1, <1>2 DEF Write

LEMMA PrintType == ASSUME TypeOK, NEW bytes \in Buffers, PrintRedirected(bytes) PROVE TypeOK'
<1>1. bytes \in Seq(Data)
  BY ServiceAssumption
<1>2. /\ fs' \in Cursors
      /\ redirect' \in [on : BOOLEAN, swapped : BOOLEAN, cursor : Cursors]
  BY DEF TypeOK, PrintRedirected
<1> QED
  BY <1>1, <1>2, TransferStartType DEF PrintRedirected

LEMMA ReturnType ==
  ASSUME TypeOK, NEW status \in Statuses, TransferReturns(status) PROVE TypeOK'
<1>1. VolumeOK'
  BY DEF TypeOK, VolumeOK, TransferReturns
<1>2. work' \in Works
  BY IdleType DEF TransferReturns, Returns
<1>3. result' \in Results
  BY DEF TransferReturns, Returns, Results, TypeOK, Works
<1>4. /\ fs' \in Cursors
      /\ redirect' \in [on : BOOLEAN, swapped : BOOLEAN, cursor : Cursors]
  BY DEF TypeOK, TransferReturns
<1> QED
  BY <1>1, <1>2, <1>3, <1>4 DEF TransferReturns, TypeOK

(* The cursor moves on.                                                    *)
LEMMA AdvancedType == ASSUME TypeOK PROVE Advanced(fs) \in Cursors
<1>1. fs \in Cursors /\ fs.offset + 1 \in Nat
      /\ (IF fs.remaining = 0 THEN 0 ELSE fs.remaining - 1) \in Nat
  BY DEF TypeOK, Cursors
<1>2. Advanced(fs) = [fs EXCEPT !.offset = fs.offset + 1,
                                !.remaining = IF fs.remaining = 0 THEN 0 ELSE fs.remaining - 1]
  BY DEF Advanced
<1> QED
  BY <1>1, <1>2 DEF Cursors

LEMMA TransferredType ==
  ASSUME TypeOK, work.bytes # <<>> PROVE Transferred \in Works
<1>1. work \in Works /\ "transfer" \in Steps /\ work.count + 1 \in Nat
  <2>1. work \in Works
    BY DEF TypeOK
  <2>2. work.count \in Nat
    BY <2>1 DEF Works
  <2> QED
    BY <2>1, <2>2 DEF Steps
<1>2. Tail(work.bytes) \in Seq(Data)
  BY <1>1, HeadTailProperties DEF Works
<1>3. Transferred = [work EXCEPT !.step = "transfer", !.bytes = Tail(work.bytes),
                                 !.count = work.count + 1]
  BY DEF Transferred
<1> QED
  BY <1>1, <1>2, <1>3 DEF Works

LEMMA StepType ==
  ASSUME TypeOK, NEW step \in Steps PROVE [work EXCEPT !.step = step] \in Works
  BY DEF TypeOK, Works

(* A step that leaves the volume alone, and one that writes a cluster.     *)
LEMMA WalkType ==
  ASSUME TypeOK, NextCluster \/ ReadByte \/ TransferDone \/ GrowFull PROVE TypeOK'
<1>1. ASSUME NextCluster PROVE TypeOK'
  <2>1. fs.next \in Clusters
    BY <1>1, FormatAssumption DEF NextCluster, TypeOK, Cursors, Clusters
  <2>2. fs' \in Cursors
    BY <1>1, <2>1, AtType DEF NextCluster, TypeOK
  <2> QED
    BY <1>1, <2>2 DEF NextCluster, TypeOK, VolumeOK
<1>2. ASSUME ReadByte PROVE TypeOK'
  <2>1. fs' \in Cursors /\ work' \in Works
    BY <1>2, AdvancedType, TransferredType DEF ReadByte
  <2> QED
    BY <1>2, <2>1 DEF ReadByte, TypeOK, VolumeOK
<1> QED
  BY <1>1, <1>2, ReturnType, StatusTypes DEF TransferDone, GrowFull

(* Writing one field of one entry, record or header keeps the table typed.  *)
LEMMA PutType ==
  ASSUME NEW S, NEW T, NEW f \in [S -> T], NEW c, NEW v, c \in S => v \in T
  PROVE  [f EXCEPT ![c] = v] \in [S -> T]
OBVIOUS

LEMMA EntryPut ==
  ASSUME NEW t \in [Clusters -> Entry], NEW c
  PROVE  /\ \A d \in Parents : [t EXCEPT ![c].dir = d] \in [Clusters -> Entry]
         /\ \A u \in {FREE, HEAD, CONT} : [t EXCEPT ![c].used = u] \in [Clusters -> Entry]
<1>1. ASSUME NEW d \in Parents PROVE [t EXCEPT ![c].dir = d] \in [Clusters -> Entry]
  <2>1. c \in Clusters => [t[c] EXCEPT !.dir = d] \in Entry
    BY DEF Entry
  <2> QED
    BY <2>1, PutType
<1>2. ASSUME NEW u \in {FREE, HEAD, CONT}
      PROVE  [t EXCEPT ![c].used = u] \in [Clusters -> Entry]
  <2>1. c \in Clusters => [t[c] EXCEPT !.used = u] \in Entry
    BY DEF Entry
  <2> QED
    BY <2>1, PutType
<1> QED
  BY <1>1, <1>2

LEMMA UpperPut ==
  ASSUME NEW r \in [Dirs -> Record], NEW d, NEW up \in Parents
  PROVE  [r EXCEPT ![d].upper = up] \in [Dirs -> Record]
<1>1. d \in Dirs => [r[d] EXCEPT !.upper = up] \in Record
  BY DEF Record
<1> QED
  BY <1>1, PutType

LEMMA HeaderPut ==
  ASSUME NEW k \in [Clusters -> Cluster], NEW c
  PROVE  /\ \A x \in FileNames : [k EXCEPT ![c].name = x] \in [Clusters -> Cluster]
         /\ \A x \in 0 .. N : [k EXCEPT ![c].next = x] \in [Clusters -> Cluster]
         /\ \A x \in 0 .. RADIX - 1 : [k EXCEPT ![c].hi = x] \in [Clusters -> Cluster]
         /\ \A x \in 0 .. RADIX - 1 : [k EXCEPT ![c].lo = x] \in [Clusters -> Cluster]
<1> DEFINE Digits == 0 .. RADIX - 1
           Links == 0 .. N
           Payloads == [Places -> Data]
<1>1. Cluster = [name : FileNames, next : Links, hi : Digits, lo : Digits, data : Payloads]
  BY DEF Cluster
<1> HIDE DEF Digits, Links, Payloads
<1>2. c \in Clusters => k[c] \in Cluster
  OBVIOUS
<1>3. ASSUME NEW x \in FileNames PROVE [k EXCEPT ![c].name = x] \in [Clusters -> Cluster]
  <2>1. c \in Clusters => [k[c] EXCEPT !.name = x] \in Cluster
    BY <1>1, <1>2
  <2> QED
    BY <2>1, PutType
<1>4. ASSUME NEW x \in Links PROVE [k EXCEPT ![c].next = x] \in [Clusters -> Cluster]
  <2>1. c \in Clusters => [k[c] EXCEPT !.next = x] \in Cluster
    BY <1>1, <1>2
  <2> QED
    BY <2>1, PutType
<1>5. ASSUME NEW x \in Digits PROVE [k EXCEPT ![c].hi = x] \in [Clusters -> Cluster]
  <2>1. c \in Clusters => [k[c] EXCEPT !.hi = x] \in Cluster
    BY <1>1, <1>2
  <2> QED
    BY <2>1, PutType
<1>6. ASSUME NEW x \in Digits PROVE [k EXCEPT ![c].lo = x] \in [Clusters -> Cluster]
  <2>1. c \in Clusters => [k[c] EXCEPT !.lo = x] \in Cluster
    BY <1>1, <1>2
  <2> QED
    BY <2>1, PutType
<1> QED
  BY <1>3, <1>4, <1>5, <1>6 DEF Digits, Links

(* A new header: an empty payload that links to nothing.                    *)
LEMMA EmptyPut ==
  ASSUME NEW k \in [Clusters -> Cluster], NEW c
  PROVE  [k EXCEPT ![c].next = 0, ![c].hi = 0, ![c].lo = 0] \in [Clusters -> Cluster]
<1>1. 0 \in 0 .. N /\ 0 \in 0 .. RADIX - 1
  BY FormatAssumption
<1> DEFINE k1 == [k EXCEPT ![c].next = 0]
           k2 == [k1 EXCEPT ![c].hi = 0]
           k3 == [k2 EXCEPT ![c].lo = 0]
<1>2. k1 \in [Clusters -> Cluster]
  BY <1>1, HeaderPut
<1> HIDE DEF k1
<1>3. k2 \in [Clusters -> Cluster]
  BY <1>1, <1>2, HeaderPut
<1> HIDE DEF k2
<1>4. k3 \in [Clusters -> Cluster]
  BY <1>1, <1>3, HeaderPut
<1> QED
  BY <1>4 DEF k1, k2

LEMMA BytePut ==
  ASSUME NEW k \in [Clusters -> Cluster], NEW c, NEW i, NEW x \in Data
  PROVE  [k EXCEPT ![c].data[i] = x] \in [Clusters -> Cluster]
<1>1. ASSUME c \in Clusters PROVE [k[c] EXCEPT !.data[i] = x] \in Cluster
  <2> DEFINE Digits == 0 .. RADIX - 1
             Links == 0 .. N
             Payloads == [Places -> Data]
  <2>1. Cluster = [name : FileNames, next : Links, hi : Digits, lo : Digits, data : Payloads]
    BY DEF Cluster
  <2>2. k[c] \in Cluster /\ k[c].data \in Payloads
    BY <1>1 DEF Cluster
  <2>3. [k[c].data EXCEPT ![i] = x] \in Payloads
    BY <2>2, PutType
  <2> HIDE DEF Digits, Links, Payloads
  <2> QED
    BY <2>1, <2>2, <2>3
<1> QED
  BY <1>1, PutType

LEMMA WriteByteType == ASSUME TypeOK, WriteByte PROVE TypeOK'
<1>1. Head(work.bytes) \in Data
  <2>1. work.bytes \in Seq(Data) /\ work.bytes # <<>>
    BY DEF WriteByte, TypeOK, Works
  <2> QED
    BY <2>1, HeadTailProperties
<1>2. cluster' \in [Clusters -> Cluster]
  BY <1>1, BytePut DEF WriteByte, TypeOK, VolumeOK
<1>3. fs' \in Cursors /\ work' \in Works
  BY AdvancedType, TransferredType, StepType DEF WriteByte, Steps, TypeOK
<1> QED
  BY <1>2, <1>3 DEF WriteByte, TypeOK, VolumeOK

LEMMA LengthType == ASSUME TypeOK, StepOK, LengthHi \/ LengthLo PROVE TypeOK'
<1>1. fs.offset \in Nat /\ fs.offset < CONT_CAP
  BY DEF TypeOK, StepOK, Cursors, LengthHi, LengthLo
<1>2. cluster' \in [Clusters -> Cluster]
  <2>1. /\ (fs.offset + 1) \div RADIX \in 0 .. RADIX - 1
        /\ (fs.offset + 1) % RADIX \in 0 .. RADIX - 1
    BY <1>1, HighByte
  <2>2. cluster \in [Clusters -> Cluster]
    BY DEF TypeOK, VolumeOK
  <2>3. ASSUME LengthHi PROVE cluster' \in [Clusters -> Cluster]
    BY <2>1, <2>2, <2>3, HeaderPut DEF LengthHi
  <2>4. ASSUME LengthLo PROVE cluster' \in [Clusters -> Cluster]
    BY <2>1, <2>2, <2>4, HeaderPut DEF LengthLo
  <2> QED
    BY <2>3, <2>4
<1>3. fs' \in Cursors
  BY AdvancedType DEF LengthHi, LengthLo, TypeOK
<1>4. work' \in Works
  <2>1. ASSUME LengthLo PROVE work' \in Works
    BY <2>1, TransferredType DEF LengthLo, StepOK
  <2> QED
    BY <2>1, StepType DEF LengthHi, Steps
<1> QED
  BY <1>2, <1>3, <1>4 DEF LengthHi, LengthLo, TypeOK, VolumeOK

LEMMA GrowType ==
  ASSUME TypeOK, StepOK, ContHeader \/ ContOwner \/ ContType \/ ContLink PROVE TypeOK'
<1>1. ASSUME ContHeader PROVE TypeOK'
  <2>1. PICK c \in Clusters :
          /\ cluster' = [cluster EXCEPT ![c].next = 0, ![c].hi = 0, ![c].lo = 0]
          /\ work' = [work EXCEPT !.step = "cont owner", !.slot = c]
    BY <1>1 DEF ContHeader
  <2>2. 0 \in 0 .. N /\ 0 \in 0 .. RADIX - 1 /\ c \in Nat
    BY FormatAssumption DEF Clusters
  <2>3. cluster' \in [Clusters -> Cluster]
    BY <2>1, EmptyPut DEF TypeOK, VolumeOK
  <2>4. work' \in Works
    BY <2>1, <2>2 DEF TypeOK, Works, Steps
  <2> QED
    BY <1>1, <2>3, <2>4 DEF ContHeader, TypeOK, VolumeOK
<1>2. ASSUME ContOwner \/ ContType PROVE TypeOK'
  <2>1. table' \in [Clusters -> Entry]
    <3>1. table \in [Clusters -> Entry] /\ fs.parent \in Parents
      BY DEF TypeOK, VolumeOK, Cursors
    <3>2. ASSUME ContOwner PROVE table' \in [Clusters -> Entry]
      <4>1. table' = [table EXCEPT ![work.slot].dir = fs.parent]
        BY <3>2 DEF ContOwner
      <4> QED
        BY <3>1, <4>1, EntryPut
    <3>3. ASSUME ContType PROVE table' \in [Clusters -> Entry]
      <4>1. table' = [table EXCEPT ![work.slot].used = CONT]
        BY <3>3 DEF ContType
      <4> QED
        BY <3>1, <4>1, EntryPut
    <3> QED
      BY <1>2, <3>2, <3>3
  <2>2. work' \in Works
    BY <1>2, StepType DEF ContOwner, ContType, Steps
  <2> QED
    BY <1>2, <2>1, <2>2 DEF ContOwner, ContType, TypeOK, VolumeOK
<1>3. ASSUME ContLink PROVE TypeOK'
  <2>1. work.slot \in Clusters /\ work.slot \in 0 .. N
    <3>1. work.step = "cont link"
      BY <1>3 DEF ContLink
    <3>2. work.slot \in Clusters
      BY <3>1 DEF StepOK
    <3> QED
      BY <3>2, FormatAssumption DEF Clusters
  <2>2. cluster' \in [Clusters -> Cluster]
    BY <1>3, <2>1, HeaderPut DEF ContLink, TypeOK, VolumeOK
  <2>3. cluster'[work.slot].next \in 0 .. N
    BY <2>1, <2>2 DEF Cluster
  <2>4. Length(work.slot) \in Nat
    BY <2>1, LengthNat DEF TypeOK
  <2>5. fs' \in Cursors
    BY <1>3, <2>1, <2>3, <2>4 DEF ContLink, TypeOK, Cursors
  <2>6. work' \in Works
    BY <1>3 DEF ContLink, TypeOK, Works, Steps
  <2> QED
    BY <1>3, <2>2, <2>5, <2>6 DEF ContLink, TypeOK, VolumeOK
<1> QED
  BY <1>1, <1>2, <1>3

LEMMA TouchNewType ==
  ASSUME TypeOK, NEW path \in Paths, NEW up \in Parents, TouchNew(path, up) PROVE TypeOK'
<1>1. ASSUME Quietly(FS_DISK_CAPACITY) PROVE TypeOK'
  BY <1>1, QuietType, StatusTypes, ClosedType DEF TouchNew
<1>2. ASSUME NEW c \in Clusters, Creates("head owner", c, up, NoName),
             cluster' = [cluster EXCEPT ![c].name = Leaf(path), ![c].next = 0,
                                        ![c].hi = 0, ![c].lo = 0],
             UNCHANGED <<table, dirs, redirect, resets>>
      PROVE  TypeOK'
  <2>1. /\ Leaf(path) \in FileNames /\ 0 \in 0 .. N /\ 0 \in 0 .. RADIX - 1
        /\ c \in Nat /\ "head owner" \in Steps
    <3>1. path # <<>>
      BY DEF TouchNew, MissingLeaf
    <3>2. Leaf(path) \in FileNames
      BY <3>1, LeafType
    <3> QED
      BY <3>2, FormatAssumption DEF Clusters, Steps
  <2>2. VolumeOK'
    <3>1. cluster \in [Clusters -> Cluster]
      BY DEF TypeOK, VolumeOK
    <3> DEFINE named == [cluster EXCEPT ![c].name = Leaf(path)]
    <3>2. named \in [Clusters -> Cluster]
      BY <2>1, <3>1, HeaderPut
    <3>3. cluster' = [named EXCEPT ![c].next = 0, ![c].hi = 0, ![c].lo = 0]
      BY <1>2
    <3> HIDE DEF named
    <3>4. cluster' \in [Clusters -> Cluster]
      BY <3>2, <3>3, EmptyPut
    <3> QED
      BY <1>2, <3>4 DEF TypeOK, VolumeOK
  <2> QED
    BY <1>2, <2>1, <2>2, ClosedType, CreateType, StartType, NamesAreFileNames
       DEF Creates, TypeOK, TouchNew
<1> QED
  BY <1>1, <1>2 DEF TouchNew

LEMMA TouchType == ASSUME TypeOK, NEW path \in Paths, Touch(path) PROVE TypeOK'
<1>1. ASSUME fs' = Closed, NEW status \in Statuses, Quietly(status) PROVE TypeOK'
  BY <1>1, QuietType, ClosedType
<1> QED
  BY <1>1, TouchNewType, StatusTypes DEF Touch

LEMMA MkdirType == ASSUME TypeOK, NEW path \in Paths, Mkdir(path) PROVE TypeOK'
<1>1. ASSUME fs' = Closed, NEW status \in Statuses, Quietly(status) PROVE TypeOK'
  BY <1>1, QuietType, ClosedType
<1>2. ASSUME NEW up \in Parents, NEW c \in Clusters, fs' = Opened(up, c), Quietly(FS_EXISTS)
      PROVE  TypeOK'
  BY <1>2, QuietType, OpenedType, StatusTypes DEF TypeOK
<1>3. ASSUME NEW up \in Parents, MkdirNew(path, up) PROVE TypeOK'
  <2>1. ASSUME NEW d \in Dirs, Creates("dir name", d, up, Leaf(path)), fs' = Closed,
               UNCHANGED <<table, dirs, cluster, redirect, resets>>
        PROVE  TypeOK'
    <3>1. Leaf(path) \in FileNames /\ d \in Nat /\ "dir name" \in Steps
      <4>1. path # <<>>
        BY <1>3 DEF MkdirNew, MissingLeaf
      <4>2. Leaf(path) \in FileNames
        BY <4>1, LeafType
      <4> QED
        BY <4>2, FormatAssumption DEF Dirs, Steps
    <3>2. VolumeOK'
      BY <2>1 DEF TypeOK, VolumeOK
    <3> QED
      BY <2>1, <3>1, <3>2, ClosedType, CreateType, StartType DEF Creates, TypeOK
  <2> QED
    BY <1>1, <1>3, <2>1, StatusTypes DEF MkdirNew
<1> QED
  BY <1>1, <1>2, <1>3 DEF Mkdir, MkdirOnFile

LEMMA RemoveType == ASSUME TypeOK, NEW path \in Paths, RemovePath(path) PROVE TypeOK'
<1>1. ASSUME fs' = Closed, NEW status \in Statuses, Quietly(status) PROVE TypeOK'
  BY <1>1, QuietType, ClosedType
<1>2. ASSUME NEW up \in Parents, NEW c \in Clusters, fs' = Opened(up, c),
             Creates("free owner", c, 0, NoName),
             UNCHANGED <<table, dirs, cluster, redirect, resets>>
      PROVE  TypeOK'
  <2>1. c \in Nat /\ "free owner" \in Steps /\ 0 \in Parents /\ fs' \in Cursors
    <3>1. fs' \in Cursors
      BY <1>2, OpenedType DEF TypeOK
    <3> QED
      BY <3>1, FormatAssumption DEF Clusters, Steps, Parents
  <2>2. VolumeOK'
    BY <1>2 DEF TypeOK, VolumeOK
  <2> QED
    BY <1>2, <2>1, <2>2, CreateType, StartType, NamesAreFileNames DEF Creates, TypeOK
<1>3. ASSUME NEW d \in Dirs, fs' = Closed, Creates("zero upper", d, 0, NoName),
             UNCHANGED <<table, dirs, cluster, redirect, resets>>
      PROVE  TypeOK'
  <2>1. d \in Nat /\ "zero upper" \in Steps /\ 0 \in Parents
    BY FormatAssumption DEF Dirs, Steps, Parents
  <2>2. VolumeOK'
    BY <1>3 DEF TypeOK, VolumeOK
  <2> QED
    BY <1>3, <2>1, <2>2, ClosedType, CreateType, StartType, NamesAreFileNames DEF Creates, TypeOK
<1> QED
  BY <1>1, <1>2, <1>3, StatusTypes DEF RemovePath, RemoveDirectory

LEMMA HeadStepType == ASSUME TypeOK, HeadOwner \/ HeadType PROVE TypeOK'
<1>1. table' \in [Clusters -> Entry]
  <2>1. table \in [Clusters -> Entry] /\ work.parent \in Parents
    BY DEF TypeOK, VolumeOK, Works
  <2>2. ASSUME HeadOwner PROVE table' \in [Clusters -> Entry]
    <3>1. table' = [table EXCEPT ![work.slot].dir = work.parent]
      BY <2>2 DEF HeadOwner
    <3> QED
      BY <2>1, <3>1, EntryPut
  <2>3. ASSUME HeadType PROVE table' \in [Clusters -> Entry]
    <3>1. table' = [table EXCEPT ![work.slot].used = HEAD]
      BY <2>3 DEF HeadType
    <3> QED
      BY <2>1, <3>1, EntryPut
  <2> QED
    BY <2>2, <2>3
<1>2. work' \in Works
  BY StepType, IdleType DEF HeadOwner, HeadType, Returns, Steps
<1>3. result' \in Results
  BY ResultType DEF HeadOwner, HeadType
<1> QED
  BY <1>1, <1>2, <1>3 DEF HeadOwner, HeadType, TypeOK, VolumeOK

(* The bytes of a directory record.                                         *)
LEMMA RecordByte ==
  ASSUME TypeOK, NEW i \in 0 .. DIRNAME - 1, NEW b \in Bytes
  PROVE  [dirs EXCEPT ![work.slot].name[i + 1] = b] \in [Dirs -> Record]
<1>1. dirs \in [Dirs -> Record]
  BY DEF TypeOK, VolumeOK
<1> QED
  BY <1>1 DEF Record, DirNames

LEMMA IndexType ==
  ASSUME TypeOK, work.index < DIRNAME
  PROVE  /\ work.index \in 0 .. DIRNAME - 1 /\ work.index + 1 \in 0 .. DIRNAME
         /\ work.name[work.index + 1] \in Bytes /\ 0 \in Bytes
<1>1. work.index \in 0 .. DIRNAME /\ work.name \in FileNames
  BY DEF TypeOK, Works
<1>2. work.index + 1 \in 1 .. NAME
  BY <1>1, FormatAssumption
<1> QED
  BY <1>1, <1>2, FormatAssumption DEF FileNames, Bytes

LEMMA DirectoryType ==
  ASSUME TypeOK, StepOK, DirName \/ DirUpper \/ ZeroUpper \/ ZeroName PROVE TypeOK'
<1> DEFINE i == work.index
<1>1. ASSUME DirName PROVE TypeOK'
  <2>1. i < DIRNAME
    BY <1>1 DEF DirName, StepOK
  <2>2. dirs' \in [Dirs -> Record]
    BY <1>1, <2>1, IndexType, RecordByte DEF DirName
  <2>3. work' \in Works
    <3>1. work \in Works /\ i + 1 \in 0 .. DIRNAME
      BY <2>1, IndexType DEF TypeOK
    <3>2. (IF i + 1 = DIRNAME THEN "dir upper" ELSE work.step) \in Steps
      BY <3>1 DEF Works, Steps
    <3>3. work' = [work EXCEPT !.index = i + 1,
                     !.step = IF i + 1 = DIRNAME THEN "dir upper" ELSE work.step]
      BY <1>1 DEF DirName
    <3> QED
      BY <3>1, <3>2, <3>3 DEF Works
  <2> QED
    BY <1>1, <2>2, <2>3 DEF DirName, TypeOK, VolumeOK
<1>2. ASSUME DirUpper \/ ZeroUpper PROVE TypeOK'
  <2>1. dirs' \in [Dirs -> Record]
    <3>1. dirs \in [Dirs -> Record] /\ work.parent \in Parents /\ 0 \in Parents
      BY FormatAssumption DEF TypeOK, VolumeOK, Works, Parents
    <3>2. ASSUME DirUpper PROVE dirs' \in [Dirs -> Record]
      <4>1. dirs' = [dirs EXCEPT ![work.slot].upper = work.parent]
        BY <3>2 DEF DirUpper
      <4> QED
        BY <3>1, <4>1, UpperPut
    <3>3. ASSUME ZeroUpper PROVE dirs' \in [Dirs -> Record]
      <4>1. dirs' = [dirs EXCEPT ![work.slot].upper = 0]
        BY <3>3 DEF ZeroUpper
      <4> QED
        BY <3>1, <4>1, UpperPut
    <3> QED
      BY <1>2, <3>2, <3>3
  <2>2. work' \in Works
    BY <1>2, StepType, IdleType DEF DirUpper, ZeroUpper, Returns, Steps
  <2>3. result' \in Results
    BY <1>2, ResultType DEF DirUpper, ZeroUpper
  <2> QED
    BY <1>2, <2>1, <2>2, <2>3 DEF DirUpper, ZeroUpper, TypeOK, VolumeOK
<1>3. ASSUME ZeroName PROVE TypeOK'
  <2>1. i < DIRNAME
    BY <1>3 DEF ZeroName, StepOK
  <2>2. dirs' \in [Dirs -> Record]
    BY <1>3, <2>1, IndexType, RecordByte DEF ZeroName
  <2>3. work' \in Works
    <3>1. work \in Works /\ i + 1 \in 0 .. DIRNAME
      BY <2>1, IndexType DEF TypeOK
    <3>2. [work EXCEPT !.index = i + 1] \in Works
      BY <3>1 DEF Works
    <3> QED
      BY <1>3, <3>2, IdleType DEF ZeroName, Returns
  <2>4. result' \in Results
    BY <1>3, ResultType DEF ZeroName
  <2> QED
    BY <1>3, <2>2, <2>3, <2>4 DEF ZeroName, TypeOK, VolumeOK
<1> QED
  BY <1>1, <1>2, <1>3

LEMMA FreeStepType == ASSUME TypeOK, StepOK, FreeOwner \/ FreeType PROVE TypeOK'
<1>1. table \in [Clusters -> Entry]
  BY DEF TypeOK, VolumeOK
<1>2. ASSUME FreeOwner PROVE TypeOK'
  <2>1. work.slot \in Clusters
    BY <1>2 DEF FreeOwner, StepOK
  <2>2. fs' \in Cursors
    BY <1>2, <2>1, AtType DEF FreeOwner, TypeOK
  <2>3. table' \in [Clusters -> Entry]
    <3>1. 0 \in Parents
      BY FormatAssumption DEF Parents
    <3> QED
      BY <1>1, <1>2, <3>1, EntryPut DEF FreeOwner
  <2>4. work' \in Works
    BY <1>2, StepType DEF FreeOwner, Steps
  <2> QED
    BY <1>2, <2>2, <2>3, <2>4 DEF FreeOwner, TypeOK, VolumeOK
<1>3. ASSUME FreeType PROVE TypeOK'
  <2>1. table' \in [Clusters -> Entry]
    BY <1>1, <1>3, EntryPut DEF FreeType
  <2>2. fs' \in Cursors
    BY <1>3, ClosedType DEF FreeType, TypeOK
  <2>3. work' \in Works
    <3>1. fs.next \in Nat /\ work \in Works /\ "free owner" \in Steps
      BY FormatAssumption DEF TypeOK, Cursors, Steps
    <3>2. [work EXCEPT !.step = "free owner", !.slot = fs.next] \in Works
      BY <3>1 DEF Works
    <3> QED
      BY <1>3, <3>2, IdleType DEF FreeType, Returns
  <2>4. result' \in Results
    BY <1>3, ResultType DEF FreeType
  <2> QED
    BY <1>3, <2>1, <2>2, <2>3, <2>4 DEF FreeType, TypeOK, VolumeOK
<1> QED
  BY <1>2, <1>3

LEMMA ResetType == ASSUME TypeOK, Reset PROVE TypeOK'
<1>1. work' \in Works /\ result' \in Results
  BY IdleType, StatusTypes DEF Reset, Returns, Results
<1>2. resets' \in 0 .. MaxResets
  BY ServiceAssumption DEF Reset, TypeOK
<1> QED
  BY <1>1, <1>2, ClosedType DEF Reset, TypeOK, VolumeOK

LEMMA TypeStep == TypeOK /\ StepOK /\ [Next]_vars => TypeOK'
<1> SUFFICES ASSUME TypeOK, StepOK, [Next]_vars PROVE TypeOK'
  OBVIOUS
<1>1. ASSUME Call PROVE TypeOK'
  BY <1>1, OpenType, FindType, RedirectType, TouchType, MkdirType, RemoveType,
     DescriptorType, ReadType, WriteType, PrintType DEF Call
<1>2. ASSUME Service PROVE TypeOK'
  BY <1>2, WalkType, WriteByteType, LengthType, GrowType, HeadStepType, DirectoryType, FreeStepType
     DEF Service
<1>3. ASSUME UNCHANGED vars PROVE TypeOK'
  BY <1>3 DEF vars, TypeOK, VolumeOK
<1> QED
  BY <1>1, <1>2, <1>3, ResetType DEF Next
-----------------------------------------------------------------------------
(* Steps that leave the use and the link of every cluster as they are.     *)
SameLinks ==
  \A c \in Clusters : table'[c].used = table[c].used /\ cluster'[c].next = cluster[c].next

LEMMA SameChains ==
  ASSUME TypeOK, ChainsSound, SameLinks
  PROVE  ChainsSound' /\ \A c \in Clusters : Live(c)' = Live(c) /\ Unlinked(c)' = Unlinked(c)
<1>1. \A c \in Clusters : Live(c)' = Live(c)
  BY DEF SameLinks, Live
<1>2. \A c \in Clusters : Unlinked(c)' = Unlinked(c)
  BY <1>1 DEF SameLinks, Unlinked
<1>3. \A c \in Clusters : cluster[c].next # 0 => cluster[c].next \in Clusters
  BY FormatAssumption DEF TypeOK, VolumeOK, Cluster, Clusters
<1>4. ChainsSound'
  BY <1>1, <1>3 DEF SameLinks, ChainsSound
<1> QED
  BY <1>1, <1>2, <1>4

LEMMA UnchangedLinks ==
  ASSUME UNCHANGED <<table, cluster>> PROVE SameLinks
  BY DEF SameLinks

(* Between services, in a transfer and at the last byte of mkdir nothing    *)
(* is being prepared.                                                      *)
LEMMA NothingPrepared == ASSUME work'.step \in {"idle", "transfer", "dir upper"} PROVE StepOK'
  BY DEF StepOK

(* Only a continuation has a link to it.                                    *)
LEMMA OthersUnlinked ==
  ASSUME TypeOK, ChainsSound, NEW c \in Clusters, table[c].used # CONT PROVE Unlinked(c)
<1>1. c # 0
  BY FormatAssumption DEF Clusters
<1> QED
  BY <1>1 DEF ChainsSound, Unlinked

LEMMA QuietSafe ==
  ASSUME IInv, NEW status \in Statuses, Quietly(status) PROVE ChainsSound' /\ StepOK'
<1>1. UNCHANGED <<table, cluster>> /\ work' = Idle
  BY DEF Quietly, Returns
<1> QED
  BY <1>1, UnchangedLinks, SameChains, IdleFields, NothingPrepared DEF IInv

LEMMA TransferStarts ==
  ASSUME IInv, NEW bytes, NEW writes, Transferring(bytes, writes) PROVE ChainsSound' /\ StepOK'
<1>1. UNCHANGED <<table, cluster>> /\ work'.step = "transfer"
  <2>1. [Idle EXCEPT !.step = "transfer", !.bytes = bytes, !.writes = writes].step = "transfer"
    BY DEF Idle
  <2> QED
    BY <2>1 DEF Transferring, Starts
<1> QED
  BY <1>1, UnchangedLinks, SameChains, NothingPrepared DEF IInv

LEMMA CreateFields ==
  ASSUME NEW step, NEW slot, NEW up, NEW name, Creates(step, slot, up, name)
  PROVE  work'.step = step /\ work'.slot = slot /\ work'.index = 0
<1>1. Idle \in Works /\ Idle.index = 0
  BY IdleType, IdleFields
<1> QED
  BY <1>1 DEF Creates, Starts, Works

LEMMA CallSafe == ASSUME IInv, Call PROVE ChainsSound' /\ StepOK'
<1> USE DEF IInv
<1>1. ASSUME NEW path \in Paths, Open(path) \/ Find(path) PROVE ChainsSound' /\ StepOK'
  BY <1>1, QuietSafe, StatusTypes DEF Open, Find
<1>2. ASSUME Mount \/ Close \/ Rewind PROVE ChainsSound' /\ StepOK'
  BY <1>2, QuietSafe, StatusTypes DEF Mount, Close, Rewind
<1>3. ASSUME RedirectOff \/ \E path \in Paths : Redirect(path) PROVE ChainsSound' /\ StepOK'
  <2>1. UNCHANGED <<table, cluster>> /\ work' = Idle
    BY <1>3 DEF Redirect, RedirectOff, Returns
  <2> QED
    BY <2>1, UnchangedLinks, SameChains, IdleFields, NothingPrepared
<1>4. ASSUME NEW count \in 0 .. MaxRead, Read(count) PROVE ChainsSound' /\ StepOK'
  BY <1>4, QuietSafe, TransferStarts, StatusTypes DEF Read
<1>5. ASSUME NEW bytes \in Buffers, Write(bytes) \/ PrintRedirected(bytes)
      PROVE  ChainsSound' /\ StepOK'
  BY <1>5, QuietSafe, TransferStarts, StatusTypes DEF Write, PrintRedirected
<1>6. ASSUME NEW path \in Paths, NEW up \in Parents, TouchNew(path, up)
      PROVE  ChainsSound' /\ StepOK'
  <2>1. ASSUME NEW c \in Clusters, FirstFree(c), Creates("head owner", c, up, NoName),
               cluster' = [cluster EXCEPT ![c].name = Leaf(path), ![c].next = 0,
                                          ![c].hi = 0, ![c].lo = 0],
               table' = table
        PROVE  ChainsSound' /\ StepOK'
    <3>1. cluster'[c].next = 0 /\ \A b \in Clusters \ {c} : cluster'[b].next = cluster[b].next
      BY <2>1 DEF TypeOK, VolumeOK, Cluster
    <3>2. \A b \in Clusters : Live(b)' = Live(b)
      BY <2>1 DEF Live
    <3>3. ~ Live(c)
      BY <2>1 DEF FirstFree
    <3>4. ChainsSound'
      BY <2>1, <3>1, <3>2, <3>3 DEF ChainsSound
    <3>5. work'.step = "head owner" /\ work'.slot = c
      BY <2>1, CreateFields
    <3>6. StepOK'
      BY <3>1, <3>2, <3>3, <3>5 DEF StepOK
    <3> QED
      BY <3>4, <3>6
  <2> QED
    BY <1>6, <2>1, QuietSafe, StatusTypes DEF TouchNew
<1>7. ASSUME NEW path \in Paths, Touch(path) PROVE ChainsSound' /\ StepOK'
  BY <1>6, <1>7, QuietSafe, StatusTypes DEF Touch
<1>8. ASSUME NEW step \in {"dir name", "zero upper"}, NEW slot, NEW up, NEW name,
             Creates(step, slot, up, name), UNCHANGED <<table, cluster>>
      PROVE  ChainsSound' /\ StepOK'
  <2>1. ChainsSound'
    BY <1>8, UnchangedLinks, SameChains
  <2>2. work'.step \in {"dir name", "zero upper"} /\ work'.index < DIRNAME
    <3>1. work'.step = step /\ work'.index = 0
      BY <1>8, CreateFields
    <3> QED
      BY <1>8, <3>1, Sizes
  <2> QED
    BY <2>1, <2>2 DEF StepOK
<1>9. ASSUME NEW path \in Paths, Mkdir(path) PROVE ChainsSound' /\ StepOK'
  BY <1>8, <1>9, QuietSafe, StatusTypes DEF Mkdir, MkdirOnFile, MkdirNew
<1>10. ASSUME NEW path \in Paths, RemovePath(path) PROVE ChainsSound' /\ StepOK'
  <2>1. ASSUME NEW up \in Parents, NEW c \in Clusters, Opens(path, up, c),
               Creates("free owner", c, 0, NoName), UNCHANGED <<table, cluster>>
        PROVE  ChainsSound' /\ StepOK'
    <3>1. table[c].used = HEAD
      <4>1. table[c] = [dir |-> up, used |-> HEAD]
        BY <2>1 DEF Opens, FileAt, IsFile
      <4> QED
        BY <4>1
    <3>2. Live(c) /\ Unlinked(c)
      BY <3>1, OthersUnlinked DEF Live, HEAD, CONT, FREE
    <3>3. ChainsSound' /\ Live(c)' /\ Unlinked(c)'
      BY <2>1, <3>2, UnchangedLinks, SameChains
    <3>4. work'.step = "free owner" /\ work'.slot = c
      BY <2>1, CreateFields
    <3> QED
      BY <3>3, <3>4 DEF StepOK
  <2> QED
    BY <1>8, <1>10, <2>1, QuietSafe, StatusTypes DEF RemovePath, RemoveDirectory
<1> QED
  BY <1>1, <1>2, <1>3, <1>4, <1>5, <1>7, <1>9, <1>10 DEF Call

LEMMA LinkStable ==
  ASSUME IInv, WriteByte \/ LengthHi \/ LengthLo \/ NextCluster \/ ReadByte \/ TransferDone
               \/ GrowFull \/ ContOwner \/ HeadOwner \/ FreeOwner
               \/ DirName \/ DirUpper \/ ZeroUpper \/ ZeroName
  PROVE  SameLinks
<1>1. table \in [Clusters -> Entry] /\ cluster \in [Clusters -> Cluster]
  BY DEF IInv, TypeOK, VolumeOK
<1>2. ASSUME NextCluster \/ ReadByte \/ TransferDone \/ GrowFull
             \/ DirName \/ DirUpper \/ ZeroUpper \/ ZeroName
      PROVE  SameLinks
  BY <1>2, UnchangedLinks
     DEF NextCluster, ReadByte, TransferDone, GrowFull, TransferReturns,
         DirName, DirUpper, ZeroUpper, ZeroName
<1>3. ASSUME ContOwner \/ HeadOwner \/ FreeOwner PROVE SameLinks
  <2>1. /\ \E d : table' = [table EXCEPT ![work.slot].dir = d]
        /\ cluster' = cluster
    BY <1>3 DEF ContOwner, HeadOwner, FreeOwner
  <2> QED
    BY <1>1, <2>1 DEF SameLinks, Entry
<1>4. ASSUME WriteByte PROVE SameLinks
  <2>1. /\ table' = table
        /\ cluster' = [cluster EXCEPT ![fs.cluster].data[fs.offset] = Head(work.bytes)]
    BY <1>4 DEF WriteByte
  <2>2. ASSUME NEW c \in Clusters PROVE cluster'[c].next = cluster[c].next
    <3>1. CASE c # fs.cluster
      BY <1>1, <2>1, <3>1
    <3>2. CASE c = fs.cluster
      <4>1. cluster'[c] = [cluster[c] EXCEPT !.data =
                             [cluster[c].data EXCEPT ![fs.offset] = Head(work.bytes)]]
        BY <1>1, <2>1, <3>2
      <4>2. cluster[c] \in Cluster
        BY <1>1
      <4> QED
        BY <4>1, <4>2 DEF Cluster
    <3> QED
      BY <3>1, <3>2
  <2> QED
    BY <2>1, <2>2 DEF SameLinks
<1>5. ASSUME LengthHi \/ LengthLo PROVE SameLinks
  <2>1. /\ table' = table
        /\ \/ \E b : cluster' = [cluster EXCEPT ![fs.cluster].hi = b]
           \/ \E b : cluster' = [cluster EXCEPT ![fs.cluster].lo = b]
    BY <1>5 DEF LengthHi, LengthLo
  <2>2. ASSUME NEW c \in Clusters PROVE cluster'[c].next = cluster[c].next
    <3>1. cluster[c] \in Cluster
      BY <1>1
    <3>2. ASSUME NEW b, cluster' = [cluster EXCEPT ![fs.cluster].hi = b]
          PROVE  cluster'[c].next = cluster[c].next
      BY <1>1, <3>1, <3>2 DEF Cluster
    <3>3. ASSUME NEW b, cluster' = [cluster EXCEPT ![fs.cluster].lo = b]
          PROVE  cluster'[c].next = cluster[c].next
      BY <1>1, <3>1, <3>3 DEF Cluster
    <3> QED
      BY <2>1, <3>2, <3>3
  <2> QED
    BY <2>1, <2>2 DEF SameLinks
<1> QED
  BY <1>2, <1>3, <1>4, <1>5

LEMMA StableSafe ==
  ASSUME IInv, WriteByte \/ LengthHi \/ LengthLo \/ NextCluster \/ ReadByte \/ TransferDone
               \/ GrowFull \/ ContOwner \/ HeadOwner \/ FreeOwner
               \/ DirName \/ DirUpper \/ ZeroUpper \/ ZeroName
  PROVE  ChainsSound' /\ StepOK'
<1>1. SameLinks
  BY LinkStable
<1>2. ChainsSound' /\ \A c \in Clusters : Live(c)' = Live(c) /\ Unlinked(c)' = Unlinked(c)
  BY <1>1, SameChains DEF IInv
<1>3. work \in Works /\ work.bytes \in Seq(Data)
  BY DEF IInv, TypeOK, Works
<1>4. ASSUME NextCluster \/ ReadByte \/ TransferDone \/ GrowFull \/ DirUpper \/ LengthLo
      PROVE  StepOK'
  <2>1. work'.step \in {"idle", "transfer"}
    BY <1>3, <1>4, IdleFields
       DEF NextCluster, ReadByte, TransferDone, GrowFull, TransferReturns, Returns,
           DirUpper, LengthLo, Transferred, Works
  <2> QED
    BY <2>1, NothingPrepared
<1>5. ASSUME WriteByte PROVE StepOK'
  <2>1. CASE fs.remaining # 0
    <3>1. work'.step = "transfer"
      BY <1>3, <1>5, <2>1 DEF WriteByte, Transferred, Works
    <3> QED
      BY <3>1, NothingPrepared
  <2>2. CASE fs.remaining = 0
    <3>1. /\ work' = [work EXCEPT !.step = "length hi"] /\ fs' = fs
          /\ fs.offset < Room(fs) /\ work.bytes # <<>>
      BY <1>5, <2>2 DEF WriteByte
    <3>2. fs.offset \in Nat
      BY DEF IInv, TypeOK, Cursors
    <3>3. fs.offset < CONT_CAP
      <4>1. Room(fs) \in Nat /\ Room(fs) <= CONT_CAP
        BY Sizes DEF Room
      <4>2. fs.offset < Room(fs)
        BY <3>1
      <4> QED
        BY <3>2, <4>1, <4>2, Sizes
    <3>4. work'.step = "length hi" /\ work'.bytes = work.bytes
      BY <1>3, <3>1 DEF Works
    <3> QED
      BY <3>1, <3>3, <3>4 DEF StepOK
  <2> QED
    BY <2>1, <2>2
<1>6. ASSUME LengthHi PROVE StepOK'
  <2>1. work'.step = "length lo" /\ work'.bytes = work.bytes /\ fs' = fs
    BY <1>3, <1>6 DEF LengthHi, Works
  <2> QED
    BY <1>6, <2>1 DEF StepOK, IInv, LengthHi
<1>7. ASSUME ContOwner \/ HeadOwner PROVE StepOK'
  <2>1. work'.step \in {"cont type", "head type"} /\ work'.slot = work.slot
    BY <1>3, <1>7 DEF ContOwner, HeadOwner, Works
  <2>2. work.slot \in Clusters /\ ~ Live(work.slot) /\ cluster[work.slot].next = 0
    BY <1>7 DEF ContOwner, HeadOwner, IInv, StepOK
  <2> QED
    BY <1>1, <1>2, <2>1, <2>2 DEF StepOK, SameLinks
<1>8. ASSUME FreeOwner PROVE StepOK'
  <2>1. work'.step = "free type" /\ work'.slot = work.slot
    BY <1>3, <1>8 DEF FreeOwner, Works
  <2>2. work.slot \in Clusters /\ Live(work.slot) /\ Unlinked(work.slot)
    BY <1>8 DEF FreeOwner, IInv, StepOK
  <2>3. fs'.next = cluster[work.slot].next /\ cluster' = cluster
    BY <1>8 DEF FreeOwner, At, IInv, TypeOK, Cursors
  <2> QED
    BY <1>2, <2>1, <2>2, <2>3 DEF StepOK
<1>9. ASSUME DirName PROVE StepOK'
  <2>1. CASE work.index + 1 = DIRNAME
    <3>1. work'.step = "dir upper"
      BY <1>3, <1>9, <2>1 DEF DirName, Works
    <3> QED
      BY <3>1, NothingPrepared
  <2>2. CASE work.index + 1 # DIRNAME
    <3>1. work.index < DIRNAME /\ work.index \in 0 .. DIRNAME
      BY <1>9 DEF DirName, IInv, StepOK, TypeOK, Works
    <3>2. work'.step = "dir name" /\ work'.index = work.index + 1
      BY <1>3, <1>9, <2>2 DEF DirName, Works
    <3>3. work'.index < DIRNAME
      <4>1. work.index \in Nat /\ work.index + 1 < DIRNAME
        BY <2>2, <3>1, Sizes
      <4> QED
        BY <3>2, <4>1
    <3> QED
      BY <3>2, <3>3 DEF StepOK
  <2> QED
    BY <2>1, <2>2
<1>10. ASSUME ZeroUpper PROVE StepOK'
  <2>1. work'.step = "zero name" /\ work'.index = work.index /\ work.index < DIRNAME
    BY <1>3, <1>10 DEF ZeroUpper, Works, IInv, StepOK
  <2> QED
    BY <2>1 DEF StepOK
<1>11. ASSUME ZeroName PROVE StepOK'
  <2>1. CASE work' = Idle
    BY <2>1, IdleFields, NothingPrepared
  <2>2. CASE work.index + 1 < DIRNAME /\ work' = [work EXCEPT !.index = @ + 1]
    <3>1. work'.step = "zero name" /\ work'.index = work.index + 1
      BY <1>3, <1>11, <2>2 DEF ZeroName, Works
    <3> QED
      BY <2>2, <3>1 DEF StepOK
  <2> QED
    BY <1>11, <2>1, <2>2 DEF ZeroName, Returns
<1> QED
  BY <1>2, <1>4, <1>5, <1>6, <1>7, <1>8, <1>9, <1>10, <1>11

LEMMA UsedType ==
  ASSUME TypeOK, NEW c \in Clusters
  PROVE  /\ table[c] \in Entry /\ cluster[c] \in Cluster /\ c # 0
         /\ cluster[c].next # 0 => cluster[c].next \in Clusters
<1>1. table[c] \in Entry /\ cluster[c] \in Cluster
  BY DEF TypeOK, VolumeOK
<1>2. c # 0 /\ \A n \in 0 .. N : n # 0 => n \in Clusters
  BY FormatAssumption DEF Clusters
<1> QED
  BY <1>1, <1>2 DEF Cluster

(* The use of one cluster changes.                                          *)
LEMMA UseOf ==
  ASSUME TypeOK, NEW slot \in Clusters, NEW use,
         table' = [table EXCEPT ![slot].used = use]
  PROVE  /\ table'[slot].used = use
         /\ \A c \in Clusters \ {slot} : table'[c] = table[c]
<1>1. table \in [Clusters -> Entry] /\ table[slot] \in Entry
  BY DEF TypeOK, VolumeOK
<1> QED
  BY <1>1 DEF Entry

LEMMA ContHeaderSafe == ASSUME IInv, ContHeader PROVE ChainsSound' /\ StepOK'
<1>1. PICK c \in Clusters :
        /\ ~ Live(c) /\ table' = table
        /\ cluster' = [cluster EXCEPT ![c].next = 0, ![c].hi = 0, ![c].lo = 0]
        /\ work' = [work EXCEPT !.step = "cont owner", !.slot = c]
  BY DEF ContHeader, FirstFree
<1>2. \A b \in Clusters : Live(b)' = Live(b)
  BY <1>1 DEF Live
<1>3. cluster'[c].next = 0 /\ \A b \in Clusters \ {c} : cluster'[b].next = cluster[b].next
  <2>1. cluster \in [Clusters -> Cluster] /\ cluster[c] \in Cluster
    BY DEF IInv, TypeOK, VolumeOK
  <2> QED
    BY <1>1, <2>1 DEF Cluster
<1>4. ChainsSound'
  BY <1>1, <1>2, <1>3 DEF ChainsSound, IInv
<1>5. work'.step = "cont owner" /\ work'.slot = c
  BY <1>1 DEF IInv, TypeOK, Works
<1> QED
  BY <1>1, <1>2, <1>3, <1>4, <1>5 DEF StepOK

(* A prepared cluster comes into use: nothing leads to it yet, and it       *)
(* leads nowhere.                                                          *)
LEMMA UsedChains ==
  ASSUME IInv, NEW slot \in Clusters, NEW use \in {HEAD, CONT}, ~ Live(slot),
         cluster[slot].next = 0, cluster' = cluster,
         table' = [table EXCEPT ![slot].used = use]
  PROVE  ChainsSound' /\ Unlinked(slot)' /\ table'[slot].used = use
<1>1. table'[slot].used = use /\ \A c \in Clusters \ {slot} : table'[c] = table[c]
  BY UseOf DEF IInv
<1>2. table[slot].used = FREE
  BY DEF Live
<1>3. Unlinked(slot)
  BY <1>2, OthersUnlinked DEF IInv, FREE, CONT
<1>4. \A c \in Clusters \ {slot} : Live(c)' = Live(c)
  BY <1>1 DEF Live
<1>5. \A c \in Clusters : cluster[c].next # 0 => cluster[c].next \in Clusters
  BY UsedType DEF IInv
<1>6. ASSUME NEW c \in Clusters, Live(c)', cluster'[c].next # 0
      PROVE  /\ c # slot /\ Live(c) /\ cluster[c].next # slot
             /\ table'[cluster'[c].next].used = CONT
  <2>1. c # slot
    BY <1>6
  <2>2. Live(c)
    BY <1>4, <1>6, <2>1
  <2>3. cluster[c].next # slot /\ cluster[c].next \in Clusters
    BY <1>3, <1>5, <1>6, <2>2 DEF Unlinked
  <2>4. table[cluster[c].next].used = CONT
    BY <1>6, <2>2 DEF ChainsSound, IInv
  <2> QED
    BY <1>1, <2>1, <2>2, <2>3, <2>4
<1>7. ChainsSound'
  <2>1. \A b, c \in Clusters : Live(b)' /\ Live(c)' /\ cluster'[b].next = cluster'[c].next
                               /\ cluster'[b].next # 0 => b = c
    BY <1>6 DEF ChainsSound, IInv
  <2> QED
    BY <1>6, <2>1 DEF ChainsSound
<1>8. Unlinked(slot)'
  <2>1. slot # 0
    BY UsedType DEF IInv
  <2> QED
    BY <1>6, <2>1 DEF Unlinked
<1> QED
  BY <1>1, <1>7, <1>8

LEMMA TypeSafe == ASSUME IInv, ContType \/ HeadType PROVE ChainsSound' /\ StepOK'
<1>1. PICK slot \in Clusters :
        slot = work.slot /\ ~ Live(slot) /\ cluster[slot].next = 0
  BY DEF IInv, StepOK, ContType, HeadType
<1>2. CASE ContType
  <2>1. ChainsSound' /\ Unlinked(slot)' /\ table'[slot].used = CONT
    BY <1>1, <1>2, UsedChains DEF ContType
  <2>2. work'.step = "cont link" /\ work'.slot = slot /\ cluster' = cluster
    BY <1>1, <1>2 DEF ContType, IInv, TypeOK, Works
  <2> QED
    BY <1>1, <2>1, <2>2 DEF StepOK
<1>3. CASE HeadType
  <2>1. ChainsSound'
    BY <1>1, <1>3, UsedChains DEF HeadType
  <2> QED
    BY <1>3, <2>1, IdleFields, NothingPrepared DEF HeadType, Returns
<1> QED
  BY <1>2, <1>3

(* The link to the prepared cluster is the only one.                        *)
LEMMA ContLinkSafe == ASSUME IInv, ContLink PROVE ChainsSound' /\ StepOK'
<1>1. /\ work.slot \in Clusters /\ table[work.slot].used = CONT
      /\ Unlinked(work.slot) /\ table' = table
  BY DEF IInv, StepOK, ContLink
<1>2. \A c \in Clusters : cluster'[c].next = (IF c = fs.cluster THEN work.slot ELSE cluster[c].next)
  <2>1. cluster \in [Clusters -> Cluster]
        /\ cluster' = [cluster EXCEPT ![fs.cluster].next = work.slot]
    BY DEF IInv, TypeOK, VolumeOK, ContLink
  <2>2. \A c \in Clusters : cluster[c] \in Cluster
    BY <2>1
  <2> QED
    BY <2>1, <2>2 DEF Cluster
<1>3. \A c \in Clusters : Live(c)' = Live(c)
  BY <1>1 DEF Live
<1>4. \A c \in Clusters : cluster[c].next # 0 => cluster[c].next \in Clusters
  BY UsedType DEF IInv
<1>5. ChainsSound'
  BY <1>1, <1>2, <1>3, <1>4 DEF ChainsSound, Unlinked, IInv
<1>6. work'.step = "transfer"
  BY DEF ContLink, IInv, TypeOK, Works
<1> QED
  BY <1>5, <1>6, NothingPrepared

(* The cluster that is freed was linked to by none in use, and the one      *)
(* after it only by the cluster that is freed.                             *)
LEMMA FreeSafe == ASSUME IInv, FreeType PROVE ChainsSound' /\ StepOK'
<1>1. PICK slot \in Clusters, next \in 0 .. N :
        /\ slot = work.slot /\ Live(slot) /\ Unlinked(slot) /\ cluster' = cluster
        /\ next = fs.next /\ next = cluster[slot].next
  BY DEF IInv, StepOK, FreeType, TypeOK, Cursors
<1>2. table'[slot].used = FREE /\ \A c \in Clusters \ {slot} : table'[c] = table[c]
  BY <1>1, UseOf DEF FreeType, IInv
<1>3. ~ Live(slot)' /\ \A c \in Clusters \ {slot} : Live(c)' = Live(c)
  BY <1>2 DEF Live
<1>4. \A c \in Clusters : cluster[c].next # 0 => cluster[c].next \in Clusters
  BY UsedType DEF IInv
<1>5. ASSUME NEW c \in Clusters, Live(c)', cluster'[c].next # 0
      PROVE  c # slot /\ Live(c) /\ table'[cluster'[c].next].used = CONT
  <2>1. c # slot /\ Live(c)
    BY <1>3, <1>5
  <2>2. cluster[c].next # slot /\ cluster[c].next \in Clusters
    BY <1>1, <1>4, <1>5, <2>1 DEF Unlinked
  <2>3. table[cluster[c].next].used = CONT
    BY <1>1, <1>5, <2>1 DEF ChainsSound, IInv
  <2> QED
    BY <1>1, <1>2, <2>1, <2>2, <2>3
<1>6. ChainsSound'
  <2>1. \A b, c \in Clusters : Live(b)' /\ Live(c)' /\ cluster'[b].next = cluster'[c].next
                               /\ cluster'[b].next # 0 => b = c
    BY <1>1, <1>5 DEF ChainsSound, IInv
  <2> QED
    BY <1>5, <2>1 DEF ChainsSound
<1>7. CASE next = 0
  <2>1. work'.step = "idle"
    BY <1>1, <1>7, IdleFields DEF FreeType, Returns
  <2> QED
    BY <1>6, <2>1, NothingPrepared
<1>8. CASE next # 0
  <2>1. work'.step = "free owner" /\ work'.slot = next
    BY <1>1, <1>8 DEF FreeType, IInv, TypeOK, Works
  <2>2. next \in Clusters /\ table[next].used = CONT /\ next # slot
    BY <1>1, <1>4, <1>8 DEF Unlinked, ChainsSound, IInv
  <2>3. Live(next)'
    BY <1>3, <2>2 DEF Live, CONT, FREE
  <2>4. Unlinked(next)'
    <3>1. ASSUME NEW b \in Clusters, Live(b)', cluster'[b].next = next PROVE FALSE
      <4>1. b # slot /\ Live(b)
        BY <1>3, <3>1
      <4>2. b = slot
        BY <1>1, <1>8, <3>1, <4>1 DEF ChainsSound, IInv
      <4> QED
        BY <4>1, <4>2
    <3> QED
      BY <3>1 DEF Unlinked
  <2> QED
    BY <1>6, <1>8, <2>1, <2>2, <2>3, <2>4 DEF StepOK, FreeType
<1> QED
  BY <1>7, <1>8
-----------------------------------------------------------------------------
LEMMA InitSafe == Init => ChainsSound /\ StepOK
<1> SUFFICES ASSUME Init PROVE ChainsSound /\ StepOK
  OBVIOUS
<1>1. \A c \in Clusters : ~ Live(c)
  BY DEF Init, Formatted, Live
<1>2. work.step = "idle"
  BY IdleFields DEF Init
<1> QED
  BY <1>1, <1>2 DEF ChainsSound, StepOK

LEMMA SafeStep == IInv /\ [Next]_vars => ChainsSound' /\ StepOK'
<1> SUFFICES ASSUME IInv, [Next]_vars PROVE ChainsSound' /\ StepOK'
  OBVIOUS
<1>1. ASSUME Service PROVE ChainsSound' /\ StepOK'
  BY <1>1, StableSafe, ContHeaderSafe, TypeSafe, ContLinkSafe, FreeSafe DEF Service
<1>2. ASSUME Reset PROVE ChainsSound' /\ StepOK'
  <2>1. UNCHANGED <<table, cluster>> /\ work'.step = "idle"
    BY <1>2, IdleFields DEF Reset, Returns
  <2> QED
    BY <2>1, UnchangedLinks, SameChains, NothingPrepared DEF IInv
<1>3. ASSUME UNCHANGED vars PROVE ChainsSound' /\ StepOK'
  BY <1>3 DEF vars, ChainsSound, StepOK, Live, Unlinked, IInv
<1> QED
  BY <1>1, <1>2, <1>3, CallSafe DEF Next

(* As long as programs leave the file alone that the redirection writes    *)
(* (~ Shared), whatever else they call and whenever resets fall, the volume *)
(* and the kernel's registers keep their types.  If they did not, a cursor *)
(* left in a cluster of the other use would write across its link, which   *)
(* the model does not follow (InRole).                                     *)
THEOREM TypeCorrect == ~ Shared /\ Spec => []TypeOK
<1>1. Init => IInv
  BY InitType, InitSafe DEF IInv
<1>2. IInv /\ [Next]_vars => IInv'
  BY TypeStep, SafeStep DEF IInv
<1>3. IInv => TypeOK
  BY DEF IInv
<1> QED
  BY <1>1, <1>2, <1>3, PTL DEF Spec

(* And no link of a cluster in use ever leads to free space, to the head of *)
(* a file or to a cluster another one links to: on a volume of any size,   *)
(* with any number of resets, each between any two bytes, as long as       *)
(* programs leave the file alone that the redirection writes (~ Shared).   *)
THEOREM ChainsAlwaysSound == ~ Shared /\ Spec => []ChainsSound
<1>1. Init => IInv
  BY InitType, InitSafe DEF IInv
<1>2. IInv /\ [Next]_vars => IInv'
  BY TypeStep, SafeStep DEF IInv
<1>3. IInv => ChainsSound
  BY DEF IInv
<1> QED
  BY <1>1, <1>2, <1>3, PTL DEF Spec
-----------------------------------------------------------------------------
(* No entry is stranded.                                                    *)

LEMMA Least == ASSUME NEW S \in SUBSET Nat, S # {} PROVE \E m \in S : \A n \in S : m <= n
<1>1. PICK m \in S : \A n \in S : ~ (<<n, m>> \in OpToRel(<, Nat))
  BY WFMin, NatLessThanWellFounded
<1>2. \A n \in S : ~ (n < m)
  BY <1>1 DEF OpToRel
<1> QED
  BY <1>2

(* What the running service has prepared: the directory it makes an entry   *)
(* in exists, the record it is naming has its name begun after its upper    *)
(* directory was cleared, and the record it is clearing has no children.   *)
Prepared ==
  /\ work.step \in {"head owner", "head type", "dir name", "dir upper"} => ValidDir(work.parent)
  /\ work.step = "head type" => table[work.slot].dir = work.parent
  /\ work.step = "dir name" =>
       /\ work.slot \in Dirs /\ work.name[1] # 0
       /\ dirs[work.slot].upper = 0 /\ (IsDir(work.slot) <=> work.index # 0)
  /\ work.step = "dir upper" => work.slot \in Dirs /\ IsDir(work.slot)
  /\ work.step \in {"zero upper", "zero name"} => work.slot \in Dirs /\ ~ HasChildren(work.slot)
  /\ work.step = "zero name" => dirs[work.slot].upper = 0

(* A free record is at the root, so that its name may be begun before its   *)
(* upper directory is known.                                               *)
BlankAtRoot == \A d \in Dirs : ~ IsDir(d) => dirs[d].upper = 0

TreeInv == NoneStranded /\ BlankAtRoot /\ Prepared
-----------------------------------------------------------------------------
(* One step of a walk: component i, from the result of those before it.     *)
WalkStep(path, i, prev) ==
  IF i = 0 THEN 0 ELSE IF prev \in Parents THEN Child(prev, path[i]) ELSE prev

(* at holds the results of the first n components.                          *)
Walks(path, n, at) == at = [i \in 0 .. n |-> WalkStep(path, i, at[i - 1])]

LEMMA WalkExists == ASSUME NEW path, NEW length \in Nat PROVE \E at : Walks(path, length, at)
<1> DEFINE T == {n \in Nat : ~ \E at : Walks(path, n, at)}
<1>1. SUFFICES ASSUME T # {} PROVE FALSE
  OBVIOUS
<1>2. PICK n \in T : \A m \in T : n <= m
  BY <1>1, Least
<1>3. n \in Nat /\ \A m \in T : ~ (m < n)
  BY <1>2
<1>4. CASE n = 0
  <2> DEFINE at == [i \in 0 .. 0 |-> 0]
  <2>1. Walks(path, 0, at)
    BY DEF Walks, WalkStep
  <2> QED
    BY <1>4, <2>1
<1>5. CASE n # 0
  <2>1. n - 1 \in Nat /\ n - 1 < n
    BY <1>3, <1>5
  <2>2. n - 1 \notin T
    BY <1>3, <2>1
  <2>3. PICK before : Walks(path, n - 1, before)
    BY <2>1, <2>2
  <2> DEFINE at == [i \in 0 .. n |-> IF i = n THEN WalkStep(path, n, before[n - 1]) ELSE before[i]]
  <2>4. \A i \in 0 .. n - 1 : before[i] = WalkStep(path, i, before[i - 1])
    BY <2>3 DEF Walks
  <2>5. \A i \in 0 .. n : at[i] = WalkStep(path, i, at[i - 1])
    <3> SUFFICES ASSUME NEW i \in 0 .. n PROVE at[i] = WalkStep(path, i, at[i - 1])
      OBVIOUS
    <3>1. CASE i = 0
      BY <1>3, <1>5, <2>4, <3>1 DEF WalkStep
    <3>2. CASE i = n
      BY <1>3, <1>5, <3>2
    <3>3. CASE i # 0 /\ i # n
      BY <1>3, <2>4, <3>3
    <3> QED
      BY <3>1, <3>2, <3>3
  <2>6. Walks(path, n, at)
    BY <2>5 DEF Walks
  <2> QED
    BY <2>6
<1> QED
  BY <1>3, <1>4, <1>5

LEMMA WalkUnfolds ==
  ASSUME NEW path \in Seq(Names)
  PROVE  \E at : Walks(path, Len(path), at) /\ Walk(path) = at[Len(path)]
<1> DEFINE at == CHOOSE f : f = [i \in 0 .. Len(path) |->
                   IF i = 0 THEN 0
                   ELSE IF f[i - 1] \in Parents THEN Child(f[i - 1], path[i]) ELSE f[i - 1]]
<1>1. Len(path) \in Nat
  OBVIOUS
<1>2. \E f : f = [i \in 0 .. Len(path) |->
                   IF i = 0 THEN 0
                   ELSE IF f[i - 1] \in Parents THEN Child(f[i - 1], path[i]) ELSE f[i - 1]]
  <2>1. PICK f : Walks(path, Len(path), f)
    BY <1>1, WalkExists
  <2>2. f = [i \in 0 .. Len(path) |->
               IF i = 0 THEN 0
               ELSE IF f[i - 1] \in Parents THEN Child(f[i - 1], path[i]) ELSE f[i - 1]]
    BY <2>1 DEF Walks, WalkStep
  <2> QED
    BY <2>2
<1>3. at = [i \in 0 .. Len(path) |->
                   IF i = 0 THEN 0
                   ELSE IF at[i - 1] \in Parents THEN Child(at[i - 1], path[i]) ELSE at[i - 1]]
  BY <1>2
<1>4. Walk(path) = at[Len(path)]
  BY DEF Walk
<1>5. Walks(path, Len(path), at)
  BY <1>3 DEF Walks, WalkStep
<1> HIDE DEF at
<1> QED
  BY <1>4, <1>5

(* The directory a path leads to is one that exists: a record matches a     *)
(* component only in use, since no component is empty.                     *)
LEMMA WalkValid ==
  ASSUME NEW path \in Seq(Names), Walk(path) \in Parents PROVE ValidDir(Walk(path))
<1>1. PICK at : Walks(path, Len(path), at) /\ Walk(path) = at[Len(path)]
  BY WalkUnfolds
<1> DEFINE n == Len(path)
<1>2. n \in Nat /\ at[n] = WalkStep(path, n, at[n - 1])
  BY <1>1 DEF Walks
<1>3. CASE n = 0
  BY <1>1, <1>2, <1>3 DEF WalkStep, ValidDir
<1>4. CASE n # 0
  <2> DEFINE up == at[n - 1]
             d == Child(up, path[n])
  <2>1. path[n] \in Names
    BY <1>2, <1>4
  <2>2. Walk(path) = d
    BY <1>1, <1>2, <1>4 DEF WalkStep
  <2>3. CASE \E e \in Dirs : Matches(e, up, path[n])
    <3> DEFINE S == {e \in Dirs : Matches(e, up, path[n])}
    <3>1. PICK e \in S : \A b \in S : e <= b
      <4>1. S \in SUBSET Nat /\ S # {}
        BY <2>3 DEF Dirs
      <4> QED
        BY <4>1, Least
    <3>2. \E b \in Dirs : /\ Matches(b, up, path[n])
                          /\ \A f \in Dirs : Matches(f, up, path[n]) => b <= f
      BY <3>1
    <3>3. d = BadName \/ (d \in Dirs /\ Matches(d, up, path[n]))
      BY <2>3, <3>2 DEF Child
    <3>4. d \in Dirs /\ Matches(d, up, path[n])
      BY <2>2, <3>3, FormatAssumption DEF Parents, BadName
    <3>5. 1 \in 1 .. DIRNAME
      BY FormatAssumption
    <3>6. dirs[d].name[1] = path[n][1]
      BY <3>4, <3>5 DEF Matches
    <3>7. IsDir(d)
      BY <2>1, <3>6 DEF IsDir, Names
    <3> QED
      BY <2>2, <3>7 DEF ValidDir
  <2>4. CASE ~ \E e \in Dirs : Matches(e, up, path[n])
    <3>1. d \in {BadName, NoEntry}
      BY <2>4 DEF Child
    <3> QED
      BY <2>2, <3>1, FormatAssumption DEF Parents, BadName, NoEntry
  <2> QED
    BY <2>3, <2>4
<1> QED
  BY <1>3, <1>4
-----------------------------------------------------------------------------
PreparingSteps == {"head owner", "head type", "dir name", "dir upper", "zero upper", "zero name"}

LEMMA Untouched ==
  ASSUME TreeInv, UNCHANGED <<table, dirs>>, work'.step \notin PreparingSteps
  PROVE  TreeInv'
<1>1. Prepared'
  BY DEF Prepared, PreparingSteps
<1> QED
  BY <1>1 DEF TreeInv, NoneStranded, BlankAtRoot, ValidDir, IsDir, Heads

LEMMA Quiet == ASSUME TreeInv, NEW status, Quietly(status) PROVE TreeInv'
  BY Untouched, IdleFields DEF Quietly, Returns, PreparingSteps

LEMMA Transfers ==
  ASSUME TreeInv, NEW bytes, NEW writes, Transferring(bytes, writes) PROVE TreeInv'
<1>1. work'.step = "transfer"
  BY DEF Transferring, Starts, Idle
<1> QED
  BY <1>1, Untouched DEF Transferring, PreparingSteps

LEMMA CreatesFields ==
  ASSUME NEW step, NEW slot, NEW up, NEW name, Creates(step, slot, up, name)
  PROVE  /\ work'.step = step /\ work'.slot = slot /\ work'.index = 0
         /\ work'.parent = up /\ work'.name = name
  BY DEF Creates, Starts, Idle

LEMMA UpType ==
  ASSUME NEW path \in Paths, path # <<>> PROVE Up(path) \in Seq(Names) /\ Leaf(path) \in Names
<1>1. path \in Seq(Names) /\ Len(path) \in Nat /\ Len(path) # 0
  BY ServiceAssumption
<1> QED
  BY <1>1 DEF Up, Leaf

(* The directory of a missing leaf exists.                                  *)
LEMMA MissingValid ==
  ASSUME NEW path \in Paths, NEW up \in Parents, MissingLeaf(path, up)
  PROVE  ValidDir(up) /\ Leaf(path) \in Names
<1>1. Up(path) \in Seq(Names) /\ Leaf(path) \in Names /\ Walk(Up(path)) = up
  BY UpType DEF MissingLeaf
<1> QED
  BY <1>1, WalkValid

LEMMA CallTree == ASSUME TreeInv, Call PROVE TreeInv'
<1>1. ASSUME NEW path \in Paths, Open(path) \/ Find(path) PROVE TreeInv'
  BY <1>1, Quiet DEF Open, Find
<1>2. ASSUME NEW path \in Paths, Redirect(path) PROVE TreeInv'
  BY <1>2, Untouched, IdleFields DEF Redirect, Returns, PreparingSteps
<1>3. ASSUME NEW path \in Paths, Touch(path) PROVE TreeInv'
  <2>1. ASSUME NEW up \in Parents, NEW c \in Clusters, MissingLeaf(path, up),
               Creates("head owner", c, up, NoName), UNCHANGED <<table, dirs>>
        PROVE  TreeInv'
    <3>1. ValidDir(up)' /\ work'.step = "head owner" /\ work'.parent = up
      BY <2>1, MissingValid, CreatesFields DEF ValidDir, IsDir
    <3>2. Prepared'
      BY <3>1 DEF Prepared
    <3> QED
      BY <2>1, <3>2 DEF TreeInv, NoneStranded, BlankAtRoot, ValidDir, IsDir, Heads
  <2>2. ASSUME NEW up \in Parents, TouchNew(path, up) PROVE TreeInv'
    <3>1. \/ Quietly(FS_DISK_CAPACITY)
          \/ \E c \in Clusters : Creates("head owner", c, up, NoName) /\ UNCHANGED <<table, dirs>>
      BY <2>2 DEF TouchNew
    <3>2. MissingLeaf(path, up)
      BY <2>2 DEF TouchNew
    <3> QED
      BY <2>1, <3>1, <3>2, Quiet
  <2>3. \/ \E status : Quietly(status)
        \/ \E up \in Parents : TouchNew(path, up)
    BY <1>3 DEF Touch
  <2>4. ASSUME NEW status, Quietly(status) PROVE TreeInv'
    BY <2>4, Quiet
  <2> QED
    BY <2>2, <2>3, <2>4
<1>4. ASSUME NEW path \in Paths, Mkdir(path) PROVE TreeInv'
  <2>1. ASSUME NEW up \in Parents, NEW d \in Dirs, MissingLeaf(path, up), FirstFreeDir(d),
               Creates("dir name", d, up, Leaf(path)), UNCHANGED <<table, dirs>>
        PROVE  TreeInv'
    <3>1. /\ ValidDir(up)' /\ work'.step = "dir name" /\ work'.parent = up /\ work'.slot = d
          /\ work'.index = 0 /\ work'.name = Leaf(path) /\ Leaf(path)[1] # 0
      BY <2>1, MissingValid, CreatesFields DEF ValidDir, IsDir, Names
    <3>2. dirs'[d].upper = 0 /\ ~ IsDir(d)'
      BY <2>1 DEF FirstFreeDir, TreeInv, BlankAtRoot, IsDir
    <3>3. Prepared'
      BY <3>1, <3>2 DEF Prepared, IsDir
    <3> QED
      BY <2>1, <3>3 DEF TreeInv, NoneStranded, BlankAtRoot, ValidDir, IsDir, Heads
  <2>2. ASSUME NEW up \in Parents, MkdirNew(path, up) PROVE TreeInv'
    <3>1. \/ \E status : Quietly(status)
          \/ \E d \in Dirs : /\ FirstFreeDir(d) /\ Creates("dir name", d, up, Leaf(path))
                             /\ UNCHANGED <<table, dirs>>
      BY <2>2 DEF MkdirNew
    <3>2. MissingLeaf(path, up)
      BY <2>2 DEF MkdirNew
    <3>3. ASSUME NEW status, Quietly(status) PROVE TreeInv'
      BY <3>3, Quiet
    <3> QED
      BY <2>1, <3>1, <3>2, <3>3
  <2>3. \/ \E status : Quietly(status)
        \/ \E up \in Parents : MkdirNew(path, up)
    BY <1>4 DEF Mkdir, MkdirOnFile
  <2>4. ASSUME NEW status, Quietly(status) PROVE TreeInv'
    BY <2>4, Quiet
  <2> QED
    BY <2>2, <2>3, <2>4
<1>5. ASSUME NEW path \in Paths, RemovePath(path) PROVE TreeInv'
  <2>1. ASSUME NEW c, Creates("free owner", c, 0, NoName), UNCHANGED <<table, dirs>>
        PROVE  TreeInv'
    <3>1. work'.step = "free owner"
      BY <2>1, CreatesFields
    <3> QED
      BY <2>1, <3>1, Untouched DEF PreparingSteps
  <2>2. ASSUME NEW d \in Dirs, ~ HasChildren(d), Creates("zero upper", d, 0, NoName),
               UNCHANGED <<table, dirs>>
        PROVE  TreeInv'
    <3>1. work'.step = "zero upper" /\ work'.slot = d
      BY <2>2, CreatesFields
    <3>2. ~ HasChildren(d)'
      BY <2>2 DEF HasChildren, IsDir
    <3>3. Prepared'
      BY <3>1, <3>2 DEF Prepared, HasChildren, IsDir
    <3> QED
      BY <2>2, <3>3 DEF TreeInv, NoneStranded, BlankAtRoot, ValidDir, IsDir, Heads
  <2>3. ASSUME RemoveDirectory(path) PROVE TreeInv'
    BY <2>2, <2>3, Quiet DEF RemoveDirectory
  <2> QED
    BY <1>5, <2>1, <2>3, Quiet DEF RemovePath
<1>6. ASSUME Mount \/ Close \/ Rewind PROVE TreeInv'
  BY <1>6, Quiet DEF Mount, Close, Rewind
<1>7. ASSUME RedirectOff PROVE TreeInv'
  BY <1>7, Untouched, IdleFields DEF RedirectOff, Returns, PreparingSteps
<1>8. ASSUME NEW count \in 0 .. MaxRead, Read(count) PROVE TreeInv'
  BY <1>8, Quiet, Transfers DEF Read
<1>9. ASSUME NEW bytes \in Buffers, Write(bytes) \/ PrintRedirected(bytes) PROVE TreeInv'
  BY <1>9, Quiet, Transfers DEF Write, PrintRedirected
<1> QED
  BY <1>1, <1>2, <1>3, <1>4, <1>5, <1>6, <1>7, <1>8, <1>9 DEF Call
-----------------------------------------------------------------------------
(* What a write to one record, and to one entry, changes.                   *)
LEMMA NameWrites ==
  ASSUME TypeOK, NEW d \in Dirs, NEW i \in 0 .. DIRNAME - 1, NEW b,
         d = work.slot, i = work.index, (DirName /\ b = work.name[i + 1]) \/ (ZeroName /\ b = 0)
  PROVE  /\ \A e \in Dirs : dirs'[e].upper = dirs[e].upper /\ (e # d => (IsDir(e)' <=> IsDir(e)))
         /\ (IsDir(d)' <=> IF i = 0 THEN b # 0 ELSE IsDir(d))
<1>1. 1 \in 1 .. DIRNAME /\ i + 1 \in 1 .. DIRNAME
  BY FormatAssumption
<1>2. dirs \in [Dirs -> Record] /\ dirs[d].name \in [1 .. DIRNAME -> Bytes]
  BY DEF TypeOK, VolumeOK, Record, DirNames
<1>0. dirs' = [dirs EXCEPT ![d].name[i + 1] = b]
  BY DEF DirName, ZeroName
<1>3. \A e \in Dirs : dirs'[e].upper = dirs[e].upper /\ (e # d => dirs'[e] = dirs[e])
  BY <1>0, <1>2 DEF Record
<1>4. dirs'[d].name = [dirs[d].name EXCEPT ![i + 1] = b]
  BY <1>0, <1>2 DEF Record
<1>5. dirs'[d].name[1] = IF i = 0 THEN b ELSE dirs[d].name[1]
  <2>1. i + 1 = 1 <=> i = 0
    OBVIOUS
  <2> DEFINE name == dirs[d].name
  <2>2. [name EXCEPT ![i + 1] = b][1] = IF i = 0 THEN b ELSE name[1]
    <3>1. name \in [1 .. DIRNAME -> Bytes]
      BY <1>2
    <3> HIDE DEF name
    <3> QED
      BY <1>1, <2>1, <3>1
  <2> QED
    BY <1>4, <2>2
<1> QED
  BY <1>3, <1>5 DEF IsDir

LEMMA UpperWrites ==
  ASSUME TypeOK, NEW d \in Dirs, NEW up, dirs' = [dirs EXCEPT ![d].upper = up]
  PROVE  /\ \A e \in Dirs : IsDir(e)' <=> IsDir(e)
         /\ \A e \in Dirs : dirs'[e].upper = IF e = d THEN up ELSE dirs[e].upper
<1>1. dirs \in [Dirs -> Record]
  BY DEF TypeOK, VolumeOK
<1> QED
  BY <1>1 DEF Record, IsDir

LEMMA EntryWrites ==
  ASSUME TypeOK, NEW c \in Clusters, NEW x
  PROVE  /\ table' = [table EXCEPT ![c].dir = x] =>
              /\ table'[c].dir = x /\ table'[c].used = table[c].used
              /\ \A b \in Clusters : b # c => table'[b] = table[b]
         /\ table' = [table EXCEPT ![c].used = x] =>
              /\ table'[c].used = x /\ table'[c].dir = table[c].dir
              /\ \A b \in Clusters : b # c => table'[b] = table[b]
<1> DEFINE Ups == Parents
           Uses == {FREE, HEAD, CONT}
<1>1. table \in [Clusters -> [dir : Ups, used : Uses]]
  BY DEF TypeOK, VolumeOK, Entry
<1> HIDE DEF Ups, Uses
<1> QED
  BY <1>1

(* Steps that write the allocation table.                                   *)
LEMMA TableTree ==
  ASSUME IInv, TreeInv,
         ContOwner \/ ContType \/ HeadOwner \/ HeadType \/ FreeOwner \/ FreeType
  PROVE  TreeInv'
<1> DEFINE c == work.slot
<1>1. c \in Clusters /\ TypeOK
  BY DEF IInv, StepOK, ContOwner, ContType, HeadOwner, HeadType, FreeOwner, FreeType
<1> HIDE DEF c
<1>2. UNCHANGED dirs /\ \A b \in Clusters : b # c => table'[b] = table[b]
  <2>1. UNCHANGED dirs
    BY DEF ContOwner, ContType, HeadOwner, HeadType, FreeOwner, FreeType
  <2>2. \E x : \/ table' = [table EXCEPT ![c].dir = x]
               \/ table' = [table EXCEPT ![c].used = x]
    BY DEF c, ContOwner, ContType, HeadOwner, HeadType, FreeOwner, FreeType
  <2> QED
    BY <1>1, <2>1, <2>2, EntryWrites
<1>3. table'[c].used = HEAD => ValidDir(table'[c].dir)
  <2>1. CASE ContOwner
    <3>1. table'[c].used = table[c].used
      <4>1. table' = [table EXCEPT ![c].dir = fs.parent]
        BY <2>1 DEF ContOwner, c
      <4> QED
        BY <1>1, <4>1, EntryWrites
    <3>2. table[c].used = FREE
      BY <2>1 DEF ContOwner, IInv, StepOK, Live, c
    <3> QED
      BY <3>1, <3>2 DEF FREE, HEAD
  <2>2. CASE ContType
    <3>1. table' = [table EXCEPT ![c].used = CONT]
      BY <2>2 DEF ContType, c
    <3>2. table'[c].used = CONT
      BY <1>1, <3>1, EntryWrites
    <3> QED
      BY <3>2 DEF CONT, HEAD
  <2>3. CASE HeadOwner
    <3>1. table' = [table EXCEPT ![c].dir = work.parent] /\ ValidDir(work.parent)
      BY <2>3 DEF HeadOwner, c, TreeInv, Prepared
    <3>2. table'[c].dir = work.parent
      BY <1>1, <3>1, EntryWrites
    <3> QED
      BY <3>1, <3>2
  <2>4. CASE HeadType
    <3>1. /\ table' = [table EXCEPT ![c].used = HEAD]
          /\ ValidDir(work.parent) /\ table[c].dir = work.parent
      BY <2>4 DEF HeadType, c, TreeInv, Prepared
    <3>2. table'[c].dir = table[c].dir
      BY <1>1, <3>1, EntryWrites
    <3> QED
      BY <3>1, <3>2
  <2>5. CASE FreeOwner
    <3>1. table' = [table EXCEPT ![c].dir = 0]
      BY <2>5 DEF FreeOwner, c
    <3>2. table'[c].dir = 0
      BY <1>1, <3>1, EntryWrites
    <3> QED
      BY <3>2 DEF ValidDir
  <2>6. CASE FreeType
    <3>1. table' = [table EXCEPT ![c].used = FREE]
      BY <2>6 DEF FreeType, c
    <3>2. table'[c].used = FREE
      BY <1>1, <3>1, EntryWrites
    <3> QED
      BY <3>2 DEF FREE, HEAD
  <2> QED
    BY <2>1, <2>2, <2>3, <2>4, <2>5, <2>6
<1>4. BlankAtRoot' /\ NoneStranded'
  BY <1>2, <1>3 DEF TreeInv, NoneStranded, BlankAtRoot, ValidDir, IsDir, Heads
<1>5. CASE HeadOwner
  <2>1. /\ table' = [table EXCEPT ![c].dir = work.parent]
        /\ ValidDir(work.parent) /\ work.parent \in Parents
    BY <1>5 DEF HeadOwner, TreeInv, Prepared, c, IInv, TypeOK, Works
  <2>2. work'.step = "head type" /\ work'.slot = c /\ work'.parent = work.parent
    BY <1>5 DEF HeadOwner, IInv, TypeOK, Works, c
  <2>4. table'[c].dir = work'.parent /\ ValidDir(work.parent)'
    BY <1>1, <1>2, <2>1, <2>2, EntryWrites DEF ValidDir, IsDir
    <2>3. Prepared'
    BY <2>2, <2>4 DEF Prepared, ValidDir
  <2> QED
    BY <1>4, <2>3 DEF TreeInv
<1>6. CASE ~ HeadOwner
  <2>1. work'.step \notin PreparingSteps
    BY <1>6, IdleFields DEF ContOwner, ContType, HeadType, FreeOwner, FreeType, Returns, IInv,
         TypeOK, Works, PreparingSteps
  <2>2. Prepared'
    BY <2>1 DEF Prepared, PreparingSteps
  <2> QED
    BY <1>4, <2>2 DEF TreeInv
<1> QED
  BY <1>5, <1>6

(* Nothing is stranded when the directories with children stay and every    *)
(* entry stays where it was or goes to a directory that exists.            *)
LEMMA StillThere ==
  ASSUME TypeOK, NoneStranded, UNCHANGED table,
         \A e \in Dirs : IsDir(e) /\ HasChildren(e) => IsDir(e)',
         \A e \in Dirs : IsDir(e)' =>
           \/ IsDir(e) /\ dirs'[e].upper = dirs[e].upper
           \/ \E up \in Parents : dirs'[e].upper = up /\ ValidDir(up)'
  PROVE  NoneStranded'
<1>1. \A e \in Parents : e = 0 \/ e \in Dirs
  BY DEF Parents, Dirs
<1>2. ASSUME NEW e \in Dirs, IsDir(e)' PROVE ValidDir(dirs[e].upper)'
  <2>1. PICK up : up = dirs'[e].upper
    OBVIOUS
  <2>2. CASE IsDir(e) /\ dirs'[e].upper = dirs[e].upper
    <3>1. up \in Parents /\ ValidDir(up) /\ up = dirs[e].upper
      BY <2>1, <2>2 DEF NoneStranded, TypeOK, VolumeOK, Record
    <3>2. up \in Dirs => HasChildren(up)
      BY <2>2, <3>1 DEF HasChildren
    <3>3. ValidDir(up)'
      BY <1>1, <3>1, <3>2 DEF ValidDir
    <3> QED
      BY <2>1, <3>3 DEF ValidDir
  <2>3. CASE ValidDir(up)'
    BY <2>1, <2>3 DEF ValidDir
  <2> QED
    BY <1>2, <2>1, <2>2, <2>3
<1>3. ASSUME NEW c \in Clusters, table'[c].used = HEAD PROVE ValidDir(table[c].dir)'
  <2>1. PICK up : up = table[c].dir
    OBVIOUS
  <2>2. table[c] = [dir |-> up, used |-> HEAD] /\ up \in Parents
    BY <1>3, <2>1 DEF TypeOK, VolumeOK, Entry
  <2>3. ValidDir(up)
    BY <1>3, <2>1 DEF NoneStranded, Heads
  <2>4. up \in Dirs => HasChildren(up)
    BY <2>2 DEF HasChildren
  <2>5. ValidDir(up)'
    BY <1>1, <2>2, <2>3, <2>4 DEF ValidDir
  <2> QED
    BY <2>1, <2>5 DEF ValidDir
<1> QED
  BY <1>2, <1>3 DEF NoneStranded, Heads

(* Steps that write a directory record.                                     *)
LEMMA DirNameTree == ASSUME IInv, TreeInv, DirName PROVE TreeInv'
<1>1. PICK d \in Dirs : d = work.slot
  BY DEF DirName, TreeInv, Prepared
<1>2. /\ work.index \in 0 .. DIRNAME - 1 /\ work.name[1] # 0
      /\ dirs[d].upper = 0 /\ (IsDir(d) <=> work.index # 0) /\ ValidDir(work.parent)
  BY <1>1, IndexType DEF DirName, TreeInv, Prepared, IInv, StepOK
<1>3. /\ \A e \in Dirs : dirs'[e].upper = dirs[e].upper /\ (e # d => (IsDir(e)' <=> IsDir(e)))
      /\ IsDir(d)'
  <2>1. PICK b, i : i = work.index /\ b = work.name[i + 1]
    OBVIOUS
  <2>2. d = work.slot /\ i = work.index /\ i \in 0 .. DIRNAME - 1 /\ b = work.name[i + 1]
    BY <1>1, <1>2, <2>1
  <2>3. TypeOK
    BY DEF IInv
  <2>4. /\ \A e \in Dirs : dirs'[e].upper = dirs[e].upper /\ (e # d => (IsDir(e)' <=> IsDir(e)))
        /\ (IsDir(d)' <=> IF i = 0 THEN b # 0 ELSE IsDir(d))
    BY <2>2, <2>3, NameWrites
  <2> QED
    BY <1>2, <2>1, <2>4
<1>4. UNCHANGED table /\ \A e : e \in Parents /\ ValidDir(e) => ValidDir(e)'
  <2>1. UNCHANGED table
    BY DEF DirName
  <2>2. \A e \in Dirs : IsDir(e) => IsDir(e)'
    BY <1>3
  <2>3. \A e \in Parents : e = 0 \/ e \in Dirs
    BY DEF Parents, Dirs
  <2> QED
    BY <2>1, <2>2, <2>3 DEF ValidDir
<1>5. NoneStranded' /\ BlankAtRoot'
  <2>1. \A e \in Dirs : ~ IsDir(e)' => dirs'[e].upper = 0
    BY <1>3 DEF TreeInv, BlankAtRoot
  <2>2. 0 \in Parents /\ ValidDir(0)'
    BY FormatAssumption DEF Parents, ValidDir
  <2>3. \A e \in Dirs : IsDir(e)' => \/ IsDir(e) /\ dirs'[e].upper = dirs[e].upper
                                     \/ dirs'[e].upper = 0
    BY <1>2, <1>3
  <2>4. \A e \in Dirs : IsDir(e) => IsDir(e)'
    BY <1>3
  <2> QED
    BY <1>4, <2>1, <2>2, <2>3, <2>4, StillThere DEF IInv, TreeInv, BlankAtRoot
<1>6. /\ work'.slot = d /\ work'.name = work.name /\ work'.parent = work.parent
      /\ work'.index = work.index + 1 /\ work'.step \in {"dir name", "dir upper"}
  BY <1>1 DEF DirName, IInv, TypeOK, Works
<1>7. Prepared'
  <2>1. PICK up \in Parents : up = work.parent
    BY DEF IInv, TypeOK, Works
  <2>2. ValidDir(up)'
    BY <1>2, <1>4, <2>1
  <2>3. work'.index # 0 /\ work'.parent = up /\ dirs'[d].upper = 0
    <3>1. work.index \in Nat
      BY <1>2, Sizes
    <3>2. work'.index # 0
      <4>1. PICK i \in Nat : i = work.index
        BY <3>1
      <4>2. work'.index = i + 1
        BY <1>6, <4>1
      <4> QED
        BY <4>2
    <3> QED
      BY <1>2, <1>3, <1>6, <2>1, <3>2
  <2> QED
    BY <1>2, <1>3, <1>6, <2>2, <2>3 DEF Prepared, ValidDir, IsDir
<1> QED
  BY <1>5, <1>7 DEF TreeInv

LEMMA DirUpperTree == ASSUME IInv, TreeInv, DirUpper PROVE TreeInv'
<1>1. PICK d \in Dirs, up \in Parents : d = work.slot /\ up = work.parent
  BY DEF DirUpper, TreeInv, Prepared, IInv, TypeOK, Works
<1>2. IsDir(d) /\ ValidDir(up) /\ dirs' = [dirs EXCEPT ![d].upper = up] /\ UNCHANGED table
  BY <1>1 DEF DirUpper, TreeInv, Prepared
<1>3. /\ \A e \in Dirs : IsDir(e)' <=> IsDir(e)
      /\ \A e \in Dirs : dirs'[e].upper = IF e = d THEN up ELSE dirs[e].upper
  BY <1>2, UpperWrites DEF IInv
<1>4. ValidDir(up)'
  BY <1>2, <1>3 DEF ValidDir, Parents, Dirs
<1>5. NoneStranded'
  <2>1. \A e \in Dirs : IsDir(e)' => \/ IsDir(e) /\ dirs'[e].upper = dirs[e].upper
                                     \/ dirs'[e].upper = up
    BY <1>3
  <2>2. \A e \in Dirs : IsDir(e) => IsDir(e)'
    BY <1>3
  <2> QED
    BY <1>2, <1>4, <2>1, <2>2, StillThere DEF IInv, TreeInv
<1>6. BlankAtRoot'
  BY <1>2, <1>3 DEF TreeInv, BlankAtRoot
<1>7. Prepared'
  BY IdleFields DEF DirUpper, Returns, Prepared
<1> QED
  BY <1>5, <1>6, <1>7 DEF TreeInv

LEMMA ZeroUpperTree == ASSUME IInv, TreeInv, ZeroUpper PROVE TreeInv'
<1>1. PICK d \in Dirs : d = work.slot
  BY DEF ZeroUpper, TreeInv, Prepared
<1>2. ~ HasChildren(d) /\ dirs' = [dirs EXCEPT ![d].upper = 0] /\ UNCHANGED table
  BY <1>1 DEF ZeroUpper, TreeInv, Prepared
<1>3. /\ \A e \in Dirs : IsDir(e)' <=> IsDir(e)
      /\ \A e \in Dirs : dirs'[e].upper = IF e = d THEN 0 ELSE dirs[e].upper
  BY <1>2, UpperWrites DEF IInv
<1>4. 0 \in Parents /\ ValidDir(0)'
  BY FormatAssumption DEF Parents, ValidDir
<1>5. NoneStranded'
  <2>1. \A e \in Dirs : IsDir(e)' => \/ IsDir(e) /\ dirs'[e].upper = dirs[e].upper
                                     \/ dirs'[e].upper = 0
    BY <1>3
  <2>2. \A e \in Dirs : IsDir(e) => IsDir(e)'
    BY <1>3
  <2> QED
    BY <1>2, <1>4, <2>1, <2>2, StillThere DEF IInv, TreeInv
<1>6. BlankAtRoot'
  BY <1>3 DEF TreeInv, BlankAtRoot
<1>7. work'.step = "zero name" /\ work'.slot = d
  BY <1>1 DEF ZeroUpper, IInv, TypeOK, Works
<1>8. ~ HasChildren(d)'
  BY <1>2, <1>3 DEF HasChildren, Dirs
<1>9. Prepared'
  BY <1>3, <1>7, <1>8 DEF Prepared, HasChildren, IsDir
<1> QED
  BY <1>5, <1>6, <1>9 DEF TreeInv

LEMMA ZeroNameTree == ASSUME IInv, TreeInv, ZeroName PROVE TreeInv'
<1>1. PICK d \in Dirs, i \in 0 .. DIRNAME - 1 : d = work.slot /\ i = work.index
  BY IndexType DEF ZeroName, TreeInv, Prepared, IInv, StepOK
<1>2. ~ HasChildren(d) /\ dirs[d].upper = 0 /\ UNCHANGED table
  BY <1>1 DEF ZeroName, TreeInv, Prepared
<1>3. /\ \A e \in Dirs : dirs'[e].upper = dirs[e].upper /\ (e # d => (IsDir(e)' <=> IsDir(e)))
      /\ IsDir(d)' => IsDir(d)
  BY <1>1, NameWrites DEF IInv
<1>4. 0 \in Parents /\ ValidDir(0)'
  BY FormatAssumption DEF Parents, ValidDir
<1>5. NoneStranded'
  <2>1. \A e \in Dirs : IsDir(e)' => IsDir(e) /\ dirs'[e].upper = dirs[e].upper
    BY <1>3
  <2>2. \A e \in Dirs : IsDir(e) /\ HasChildren(e) => IsDir(e)'
    BY <1>2, <1>3
  <2> QED
    BY <1>2, <2>1, <2>2, StillThere DEF IInv, TreeInv
<1>6. BlankAtRoot'
  BY <1>2, <1>3 DEF TreeInv, BlankAtRoot
<1>7. ~ HasChildren(d)' /\ dirs'[d].upper = 0
  BY <1>2, <1>3 DEF HasChildren
<1>8. work'.step \notin PreparingSteps \/ (work'.step = "zero name" /\ work'.slot = d)
  BY <1>1, IdleFields DEF ZeroName, Returns, IInv, TypeOK, Works, PreparingSteps
<1>9. Prepared'
  BY <1>7, <1>8 DEF Prepared, PreparingSteps, HasChildren, IsDir
<1> QED
  BY <1>5, <1>6, <1>9 DEF TreeInv

(* Transfers write payload, lengths and links.                              *)
LEMMA TransferTree ==
  ASSUME IInv, TreeInv,
         \/ TransferDone \/ NextCluster \/ ReadByte \/ WriteByte \/ LengthHi \/ LengthLo
         \/ GrowFull \/ ContHeader \/ ContLink
  PROVE  TreeInv'
<1>1. UNCHANGED <<table, dirs>>
  BY DEF TransferDone, TransferReturns, NextCluster, ReadByte, WriteByte, LengthHi, LengthLo,
         GrowFull, ContHeader, ContLink
<1>2. work'.step \notin PreparingSteps
  BY IdleFields
  DEF IInv, TypeOK, Works, PreparingSteps, TransferDone, TransferReturns, Returns, NextCluster,
      ReadByte, Transferred, WriteByte, LengthHi, LengthLo, GrowFull, MustGrow, ContHeader, ContLink
<1> QED
  BY <1>1, <1>2, Untouched

LEMMA TreeStep == IInv /\ TreeInv /\ [Next]_vars => TreeInv'
<1> SUFFICES ASSUME IInv, TreeInv, [Next]_vars PROVE TreeInv'
  OBVIOUS
<1>1. ASSUME Service PROVE TreeInv'
  BY <1>1, TransferTree, TableTree, DirNameTree, DirUpperTree, ZeroUpperTree, ZeroNameTree
  DEF Service
<1>2. ASSUME Reset PROVE TreeInv'
  BY <1>2, IdleFields, Untouched DEF Reset, Returns, PreparingSteps
<1>3. ASSUME UNCHANGED vars PROVE TreeInv'
  BY <1>3 DEF vars, TreeInv, NoneStranded, BlankAtRoot, Prepared, HasChildren, ValidDir, IsDir,
     Heads
<1> QED
  BY <1>1, <1>2, <1>3, CallTree DEF Next

LEMMA TreeInit == Init => TreeInv
<1> SUFFICES ASSUME Init PROVE TreeInv
  OBVIOUS
<1>1. \A d \in Dirs : ~ IsDir(d) /\ dirs[d].upper = 0
  BY FormatAssumption DEF Init, Formatted, IsDir
<1>2. \A c \in Clusters : table[c].used # HEAD
  BY DEF Init, Formatted, FREE, HEAD
<1>3. Prepared
  BY IdleFields DEF Init, Prepared
<1> QED
  BY <1>1, <1>2, <1>3 DEF TreeInv, NoneStranded, BlankAtRoot, Heads

(* On a volume of any size, wherever a reset cuts a service off, the        *)
(* directory of every file and directory exists: a record stands at the     *)
(* root until mkdir has written its name, touch writes the owner before the *)
(* use, and rmdir moves the record to the root before it frees it           *)
(* (fs_namespace.anc216); programs leave the redirection's file alone.     *)
THEOREM NothingStranded == ~ Shared /\ Spec => []NoneStranded
<1>1. Init => IInv /\ TreeInv
  BY InitType, InitSafe, TreeInit DEF IInv
<1>2. IInv /\ TreeInv /\ [Next]_vars => (IInv /\ TreeInv)'
  BY TypeStep, SafeStep, TreeStep DEF IInv
<1>3. IInv /\ TreeInv => NoneStranded
  BY DEF TreeInv
<1> QED
  BY <1>1, <1>2, <1>3, PTL DEF Spec
-----------------------------------------------------------------------------
(* The clusters S of the file a cursor stands in, on a card with table t    *)
(* and clusters k: its head and what a cluster of the file links to.       *)
Holds(S, cursor, t, k) ==
  /\ cursor.head \in S /\ cursor.cluster \in S
  /\ t[cursor.head] = [dir |-> cursor.parent, used |-> HEAD]
  /\ \A c \in S : c # cursor.head => t[c].used = CONT /\ \E b \in S : k[b].next = c
  /\ \A c \in S : k[c].next # 0 => k[c].next \in S
  /\ cursor.next = k[cursor.cluster].next

(* The payload of a cluster, and what a cluster of the file has room for.   *)
Payload(c, k)   == RADIX * k[c].hi + k[c].lo
Fits(S, cursor, k) ==
  \A c \in S : Payload(c, k) <= IF c = cursor.head THEN HEAD_CAP ELSE CONT_CAP

(* A cursor whose caches are right, or a closed one.                        *)
Good(S, cursor, t, k) ==
  IF cursor.head = 0 THEN S = {}
  ELSE /\ Holds(S, cursor, t, k) /\ Fits(S, cursor, k)
       /\ cursor.offset + cursor.remaining = Payload(cursor.cluster, k)

(* A cursor between the two bytes of the length it writes.                  *)
Torn(S, cursor, t, k) ==
  /\ Holds(S, cursor, t, k) /\ Fits(S \ {cursor.cluster}, cursor, k)
  /\ k[cursor.cluster].hi = (cursor.offset + 1) \div RADIX

LengthSteps   == {"length hi", "length lo"}
ContSteps     == {"cont owner", "cont type", "cont link"}
FreeSteps     == {"free owner", "free type"}
TransferSteps == {"transfer"} \cup LengthSteps \cup ContSteps

(* The registers: a transfer has a descriptor, it only extends a file at    *)
(* its end, and the private cursor is open exactly while printing is        *)
(* redirected and not under way.                                           *)
Registers ==
  /\ work.step \in TransferSteps => fs.head # 0
  /\ work.step \in LengthSteps \cup ContSteps => AtEnd
  /\ work.step \in LengthSteps => fs.offset < Room(fs)
  /\ work.step \in ContSteps => Length(work.slot) = 0
  /\ redirect.swapped => redirect.on /\ work.step \in TransferSteps
  /\ redirect.on /\ ~ redirect.swapped => redirect.cursor.head # 0
  /\ ~ redirect.on => redirect.cursor.head = 0

(* The descriptor's clusters S and the private cursor's T have none in      *)
(* common: each goes on being right whatever is written through the other. *)
Apart(S, T) ==
  /\ S \cap T = {}
  /\ Good(T, redirect.cursor, table, cluster)
  /\ work.step \notin {"length lo"} \cup FreeSteps => Good(S, fs, table, cluster)
  /\ work.step = "length lo" => Torn(S, fs, table, cluster)
  /\ work.step \in ContSteps => work.slot \notin S \cup T
  /\ work.step \in FreeSteps =>
       work.slot \in S /\ \A c \in S : cluster[c].next # 0 => cluster[c].next \in S

CursorInv == Registers /\ \E S, T \in SUBSET Clusters : Apart(S, T)
-----------------------------------------------------------------------------
(* The chain of a head, unfolded.                                           *)

(* One step of the walk along a chain: after k clusters, from k - 1.        *)
ChainStep(h, k, prev) ==
  IF k = 1 THEN <<h>>
  ELSE IF cluster[prev[Len(prev)]].next = 0 THEN prev
       ELSE Append(prev, cluster[prev[Len(prev)]].next)
Follows(h, n, walk) == walk = [k \in 1 .. n |-> ChainStep(h, k, walk[k - 1])]

LEMMA ChainExists == ASSUME NEW h, NEW length \in Nat PROVE \E walk : Follows(h, length, walk)
<1> DEFINE T == {n \in Nat : ~ \E walk : Follows(h, n, walk)}
<1>1. SUFFICES ASSUME T # {} PROVE FALSE
  OBVIOUS
<1>2. PICK n \in T : \A m \in T : n <= m
  BY <1>1, Least
<1>3. n \in Nat /\ \A m \in T : ~ (m < n)
  BY <1>2
<1>4. CASE n = 0
  <2> DEFINE walk == [k \in 1 .. 0 |-> <<h>>]
  <2>1. Follows(h, 0, walk)
    BY DEF Follows
  <2> QED
    BY <1>4, <2>1
<1>5. CASE n # 0
  <2>1. n - 1 \in Nat /\ n - 1 < n
    BY <1>3, <1>5
  <2>2. n - 1 \notin T
    BY <1>3, <2>1
  <2>3. PICK before : Follows(h, n - 1, before)
    BY <2>1, <2>2
  <2> DEFINE walk == [k \in 1 .. n |->
                        IF k = n THEN ChainStep(h, n, before[n - 1]) ELSE before[k]]
  <2>4. \A k \in 1 .. n - 1 : before[k] = ChainStep(h, k, before[k - 1])
    BY <2>3 DEF Follows
  <2>5. \A k \in 1 .. n : walk[k] = ChainStep(h, k, walk[k - 1])
    <3> SUFFICES ASSUME NEW k \in 1 .. n PROVE walk[k] = ChainStep(h, k, walk[k - 1])
      OBVIOUS
    <3>1. CASE k = 1
      BY <1>3, <1>5, <2>4, <3>1 DEF ChainStep
    <3>2. CASE k = n
      BY <1>3, <1>5, <3>1, <3>2
    <3>3. CASE k # 1 /\ k # n
      BY <1>3, <2>4, <3>3
    <3> QED
      BY <3>1, <3>2, <3>3
  <2>6. Follows(h, n, walk)
    BY <2>5 DEF Follows
  <2> QED
    BY <2>6
<1> QED
  BY <1>3, <1>4, <1>5

LEMMA ChainUnfolds == ASSUME NEW h PROVE \E walk : Follows(h, N, walk) /\ ChainOf(h) = walk[N]
<1> DEFINE walk == CHOOSE f : f = [k \in Clusters |->
                     IF k = 1 THEN <<h>>
                     ELSE IF cluster[f[k - 1][Len(f[k - 1])]].next = 0 THEN f[k - 1]
                          ELSE Append(f[k - 1], cluster[f[k - 1][Len(f[k - 1])]].next)]
<1>1. N \in Nat
  BY FormatAssumption
<1>2. \E f : f = [k \in Clusters |->
                     IF k = 1 THEN <<h>>
                     ELSE IF cluster[f[k - 1][Len(f[k - 1])]].next = 0 THEN f[k - 1]
                          ELSE Append(f[k - 1], cluster[f[k - 1][Len(f[k - 1])]].next)]
  <2>1. PICK f : Follows(h, N, f)
    BY <1>1, ChainExists
  <2> QED
    BY <2>1 DEF Follows, ChainStep, Clusters
<1>3. walk = [k \in Clusters |->
                     IF k = 1 THEN <<h>>
                     ELSE IF cluster[walk[k - 1][Len(walk[k - 1])]].next = 0 THEN walk[k - 1]
                          ELSE Append(walk[k - 1], cluster[walk[k - 1][Len(walk[k - 1])]].next)]
  BY <1>2
<1>4. ChainOf(h) = walk[N]
  BY DEF ChainOf
<1>5. Follows(h, N, walk)
  BY <1>3 DEF Follows, ChainStep, Clusters
<1> HIDE DEF walk
<1> QED
  BY <1>4, <1>5

(* A chain of links from h.                                                 *)
Linked(chain, h) ==
  /\ chain \in Seq(Clusters) /\ chain # <<>> /\ chain[1] = h
  /\ \A i \in 1 .. Len(chain) - 1 : chain[i + 1] = cluster[chain[i]].next

LEMMA ChainLinked == ASSUME VolumeOK, NEW h \in Clusters PROVE Linked(ChainOf(h), h)
<1>1. PICK walk : Follows(h, N, walk) /\ ChainOf(h) = walk[N]
  BY ChainUnfolds
<1>2. \A k \in 1 .. N : walk[k] = ChainStep(h, k, walk[k - 1])
  BY <1>1 DEF Follows
<1> DEFINE T == {k \in 1 .. N : ~ Linked(walk[k], h)}
<1>3. SUFFICES T = {}
  BY <1>1, FormatAssumption
<1>4. SUFFICES ASSUME T # {} PROVE FALSE
  OBVIOUS
<1>5. PICK k \in T : \A m \in T : k <= m
  <2>1. T \in SUBSET Nat
    BY FormatAssumption
  <2> HIDE DEF T
  <2> QED
    BY <1>4, <2>1, Least
<1>6. k \in 1 .. N /\ ~ Linked(walk[k], h) /\ N \in Nat
  BY <1>5, FormatAssumption
<1>7. CASE k = 1
  <2>1. walk[k] = <<h>>
    BY <1>2, <1>6, <1>7 DEF ChainStep
  <2>2. Linked(<<h>>, h)
    BY DEF Linked
  <2> QED
    BY <1>6, <2>1, <2>2
<1>8. CASE k # 1
  <2> DEFINE prev == walk[k - 1]
             next == cluster[prev[Len(prev)]].next
  <2>1. k - 1 \in 1 .. N /\ ~ (k <= k - 1)
    BY <1>6, <1>8
  <2>2. Linked(prev, h)
    BY <1>5, <2>1
  <2>3. walk[k] = IF next = 0 THEN prev ELSE Append(prev, next)
    BY <1>2, <1>6, <1>8 DEF ChainStep
  <2>4. next # 0
    BY <1>6, <2>2, <2>3
  <2> HIDE DEF prev
  <2>5. prev \in Seq(Clusters) /\ Len(prev) \in Nat \ {0} /\ prev[Len(prev)] \in Clusters
    BY <2>2 DEF Linked
  <2>6. next \in Clusters
    <3>1. cluster[prev[Len(prev)]] \in Cluster
      BY <2>5 DEF VolumeOK
    <3>2. next \in 0 .. N
      BY <3>1 DEF Cluster
    <3> QED
      BY <1>6, <2>4, <3>2 DEF Clusters
  <2> DEFINE chain == Append(prev, next)
  <2>7. /\ chain \in Seq(Clusters) /\ Len(chain) = Len(prev) + 1 /\ chain[Len(prev) + 1] = next
        /\ \A i \in 1 .. Len(prev) : chain[i] = prev[i]
    <3> HIDE DEF next
    <3> QED
      BY <2>5, <2>6
  <2>8. \A i \in 1 .. Len(chain) - 1 : chain[i + 1] = cluster[chain[i]].next
    <3> SUFFICES ASSUME NEW i \in 1 .. Len(prev) PROVE chain[i + 1] = cluster[chain[i]].next
      BY <2>5, <2>7
    <3>1. CASE i = Len(prev)
      BY <2>5, <2>7, <3>1
    <3>2. CASE i # Len(prev)
      <4>1. i \in 1 .. Len(prev) - 1 /\ i + 1 \in 1 .. Len(prev)
        BY <2>5, <3>2
      <4> HIDE DEF chain
      <4> QED
        BY <2>2, <2>7, <4>1 DEF Linked
    <3> QED
      BY <3>1, <3>2
  <2>9. Linked(chain, h)
    <3>1. chain # <<>> /\ chain[1] = h
      BY <2>2, <2>5, <2>7 DEF Linked
    <3> QED
      BY <2>7, <2>8, <3>1 DEF Linked
  <2> QED
    BY <1>6, <2>3, <2>4, <2>9
<1> QED
  BY <1>7, <1>8
-----------------------------------------------------------------------------
(* What follows from a cursor's clusters.                                   *)

LEMMA StaysHeld ==
  ASSUME NEW S, NEW cursor, NEW t, NEW k, NEW t2, NEW k2, Holds(S, cursor, t, k),
         \A c \in S : t2[c] = t[c] /\ k2[c].next = k[c].next
  PROVE  Holds(S, cursor, t2, k2)
BY DEF Holds

LEMMA StaysGood ==
  ASSUME NEW S, NEW cursor, NEW t, NEW k, NEW t2, NEW k2, Good(S, cursor, t, k),
         \A c \in S : t2[c] = t[c] /\ k2[c].next = k[c].next
                      /\ k2[c].hi = k[c].hi /\ k2[c].lo = k[c].lo
  PROVE  Good(S, cursor, t2, k2)
<1>1. CASE cursor.head = 0
  BY <1>1 DEF Good
<1>2. CASE cursor.head # 0
  <2>1. Holds(S, cursor, t, k) /\ Fits(S, cursor, k)
    BY <1>2 DEF Good
  <2>2. \A c \in S : Payload(c, k2) = Payload(c, k)
    BY DEF Payload
  <2>3. Holds(S, cursor, t2, k2)
    BY <2>1, StaysHeld
  <2>4. Fits(S, cursor, k2)
    BY <2>1, <2>2 DEF Fits
  <2> QED
    BY <1>2, <2>1, <2>2, <2>3, <2>4 DEF Good, Holds
<1> QED
  BY <1>1, <1>2

LEMMA SamePayload == \A c : Payload(c, cluster) = Length(c)
BY DEF Payload, Length

LEMMA HeldLive ==
  ASSUME NEW S, NEW cursor, Holds(S, cursor, table, cluster) PROVE \A c \in S : Live(c)
BY DEF Holds, Live, HEAD, CONT, FREE

LEMMA GoodLive ==
  ASSUME NEW S, NEW cursor, Good(S, cursor, table, cluster) PROVE \A c \in S : Live(c)
BY HeldLive DEF Good

LEMMA GoodFresh ==
  ASSUME NEW S, NEW cursor, Good(S, cursor, table, cluster) PROVE Fresh(cursor)
<1> SUFFICES ASSUME cursor.head # 0 PROVE Fresh(cursor)
  BY DEF Fresh
<1>1. Holds(S, cursor, table, cluster) /\ Fits(S, cursor, cluster)
  BY DEF Good
<1>2. Live(cursor.cluster)
  BY <1>1, HeldLive DEF Holds
<1>3. cursor.offset + cursor.remaining = Length(cursor.cluster)
  BY SamePayload DEF Good
<1>4. Length(cursor.cluster) <= Room(cursor)
  BY <1>1, SamePayload DEF Holds, Fits, Room
<1> QED
  BY <1>1, <1>2, <1>3, <1>4 DEF Fresh, Holds

LEMMA GoodMove ==
  ASSUME VolumeOK, NEW S \in SUBSET Clusters, NEW cursor \in Cursors, cursor.head # 0,
         Good(S, cursor, table, cluster), NEW c \in S
  PROVE  Good(S, At(cursor, c), table, cluster) /\ At(cursor, c).head = cursor.head
<1> DEFINE moved == At(cursor, c)
<1>1. /\ moved.head = cursor.head /\ moved.parent = cursor.parent /\ moved.cluster = c
      /\ moved.next = cluster[c].next /\ moved.remaining = Length(c) /\ moved.offset = 0
  BY DEF At, Cursors
<1>2. Holds(S, moved, table, cluster)
  BY <1>1 DEF Good, Holds
<1>3. Fits(S, moved, cluster)
  BY <1>1 DEF Good, Fits
<1>4. moved.offset + moved.remaining = Payload(c, cluster)
  BY <1>1, LengthNat, SamePayload
<1>5. Good(S, moved, table, cluster)
  <2> HIDE DEF moved
  <2> QED
    BY <1>1, <1>2, <1>3, <1>4 DEF Good
<1> QED
  BY <1>1, <1>5

(* A file that is opened has clusters of its own: the first of its chain    *)
(* that another cursor holds would be linked to twice.                     *)
LEMMA OpenGood ==
  ASSUME TypeOK, ChainsSound, NEW path, NEW up \in Parents, NEW c \in Clusters,
         Opens(path, up, c), NEW T \in SUBSET Clusters, NEW other,
         Good(T, other, table, cluster), other.head # c
  PROVE  \E S \in SUBSET Clusters : S \cap T = {} /\ Good(S, Opened(up, c), table, cluster)
<1> DEFINE chain == ChainOf(c)
           cursor == Opened(up, c)
           S == {chain[i] : i \in 1 .. Len(chain)}
<1>1. Linked(chain, c) /\ Sound(chain) /\ c # 0
  BY ChainLinked, FormatAssumption DEF Opens, Valid, TypeOK, Clusters
<1>2. \A i \in 1 .. Len(chain) :
        /\ table[chain[i]].dir = up /\ (i = 1 => table[chain[i]] = [dir |-> up, used |-> HEAD])
        /\ table[chain[i]].used = IF i = 1 THEN HEAD ELSE CONT
        /\ Length(chain[i]) <= Capacity(chain[i])
  <2>1. \A i \in 1 .. Len(chain) :
          /\ table[chain[i]] = [dir |-> up, used |-> IF i = 1 THEN HEAD ELSE CONT]
          /\ Length(chain[i]) <= Capacity(chain[i])
    BY DEF Opens, Valid
  <2> HIDE DEF chain
  <2> SUFFICES ASSUME NEW i \in 1 .. Len(chain)
               PROVE  /\ table[chain[i]].dir = up
                      /\ (i = 1 => table[chain[i]] = [dir |-> up, used |-> HEAD])
                      /\ table[chain[i]].used = IF i = 1 THEN HEAD ELSE CONT
                      /\ Length(chain[i]) <= Capacity(chain[i])
    OBVIOUS
  <2> DEFINE use == IF i = 1 THEN HEAD ELSE CONT
             entry == table[chain[i]]
  <2>2. entry = [dir |-> up, used |-> use] /\ Length(chain[i]) <= Capacity(chain[i])
    BY <2>1
  <2>3. i = 1 => use = HEAD
    OBVIOUS
  <2> HIDE DEF use, entry
  <2>4. entry.dir = up /\ entry.used = use /\ (i = 1 => entry = [dir |-> up, used |-> HEAD])
    BY <2>2, <2>3
  <2> QED
    BY <2>2, <2>4 DEF use, entry
<1> HIDE DEF chain
<1>3. /\ Len(chain) \in Nat \ {0} /\ chain[1] = c
      /\ \A i \in 1 .. Len(chain) : chain[i] \in Clusters
      /\ \A i \in 1 .. Len(chain) - 1 : chain[i + 1] = cluster[chain[i]].next
      /\ cluster[chain[Len(chain)]].next = 0
  BY <1>1 DEF Linked, Sound
<1>4. S \in SUBSET Clusters /\ c \in S
  BY <1>3
<1>5. table[c] = [dir |-> up, used |-> HEAD]
  BY <1>2, <1>3
<1>6. /\ cursor.head = c /\ cursor.parent = up /\ cursor.cluster = c
      /\ cursor.next = cluster[c].next /\ cursor.remaining = Length(c) /\ cursor.offset = 0
  BY DEF Opened
<1>7. Holds(S, cursor, table, cluster)
  <2>1. ASSUME NEW s \in S, s # c PROVE table[s].used = CONT /\ \E b \in S : cluster[b].next = s
    <3>1. PICK i \in 1 .. Len(chain) : s = chain[i]
      OBVIOUS
    <3>2. i # 1 /\ i - 1 \in 1 .. Len(chain) - 1 /\ i - 1 \in 1 .. Len(chain)
      BY <1>3, <2>1, <3>1
    <3>3. cluster[chain[i - 1]].next = chain[i - 1 + 1] /\ i - 1 + 1 = i
      BY <1>3, <3>2
    <3>4. table[s].used = CONT
      BY <1>2, <3>1, <3>2
    <3> QED
      BY <3>1, <3>2, <3>3, <3>4
  <2>2. ASSUME NEW s \in S, cluster[s].next # 0 PROVE cluster[s].next \in S
    <3>1. PICK i \in 1 .. Len(chain) : s = chain[i]
      OBVIOUS
    <3>2. i \in 1 .. Len(chain) - 1 /\ i + 1 \in 1 .. Len(chain)
      BY <1>3, <2>2, <3>1
    <3> QED
      BY <1>3, <3>1, <3>2
  <2> HIDE DEF S, cursor
  <2> QED
    BY <1>4, <1>5, <1>6, <2>1, <2>2 DEF Holds
<1>8. Fits(S, cursor, cluster)
  <2>1. \A i \in 1 .. Len(chain) : chain[i] = c => i = 1
    BY <1>1, <1>3 DEF Sound
  <2>2. \A i \in 1 .. Len(chain) :
          Capacity(chain[i]) = IF chain[i] = c THEN HEAD_CAP ELSE CONT_CAP
    BY <1>2, <1>3, <2>1 DEF Capacity, HEAD, CONT
  <2> QED
    <3> SUFFICES ASSUME NEW s \in S
                 PROVE  Payload(s, cluster) <= IF s = cursor.head THEN HEAD_CAP ELSE CONT_CAP
      BY DEF Fits
    <3>1. PICK i \in 1 .. Len(chain) : s = chain[i]
      OBVIOUS
    <3> HIDE DEF S, cursor
    <3> QED
      BY <1>2, <1>6, <2>2, <3>1, SamePayload
<1>9. cursor.offset + cursor.remaining = Payload(c, cluster)
  BY <1>6, LengthNat, SamePayload DEF TypeOK
<1>10. Good(S, cursor, table, cluster)
  <2> HIDE DEF S, cursor
  <2> QED
    BY <1>1, <1>6, <1>7, <1>8, <1>9 DEF Good
<1>11. S \cap T = {}
  <2> DEFINE I == {i \in 1 .. Len(chain) : chain[i] \in T}
  <2>1. SUFFICES I = {}
    OBVIOUS
  <2>2. SUFFICES ASSUME I # {} PROVE FALSE
    OBVIOUS
  <2>3. PICK i \in I : \A j \in I : i <= j
    <3>1. I \in SUBSET Nat
      BY <1>3
    <3> HIDE DEF I
    <3> QED
      BY <2>2, <3>1, Least
  <2>4. i \in 1 .. Len(chain) /\ chain[i] \in T /\ other.head # 0
    BY <2>3 DEF Good
  <2>5. Holds(T, other, table, cluster) /\ table[other.head].used = HEAD
    BY <2>4 DEF Good, Holds
  <2>6. chain[i] # other.head
    BY <1>2, <1>3, <2>4, <2>5 DEF HEAD, CONT
  <2>7. table[chain[i]].used = CONT
    BY <2>4, <2>5, <2>6 DEF Holds
  <2>8. PICK b \in T : cluster[b].next = chain[i]
    BY <2>4, <2>5, <2>6 DEF Holds
  <2>9. i - 1 \in 1 .. Len(chain) - 1 /\ i - 1 \in 1 .. Len(chain) /\ ~ (i <= i - 1)
    BY <1>2, <1>3, <2>4, <2>7 DEF HEAD, CONT
  <2>10. cluster[chain[i - 1]].next = chain[i]
    <3>1. chain[i - 1 + 1] = cluster[chain[i - 1]].next /\ i - 1 + 1 = i
      BY <1>3, <2>9
    <3> QED
      BY <3>1
  <2>11. Live(b) /\ Live(chain[i - 1])
    BY <1>2, <2>5, <2>9, HeldLive DEF Live, HEAD, CONT, FREE
  <2>12. b \in Clusters /\ chain[i - 1] \in Clusters /\ chain[i] # 0
    BY <1>3, <2>4, <2>9, FormatAssumption DEF Clusters
  <2>13. b = chain[i - 1]
    BY <2>8, <2>10, <2>11, <2>12 DEF ChainsSound
  <2> QED
    BY <2>3, <2>9, <2>13
<1> QED
  BY <1>4, <1>10, <1>11
-----------------------------------------------------------------------------
(* Calls.                                                                   *)

PreparedSteps == LengthSteps \cup ContSteps \cup FreeSteps

LEMMA Settled ==
  ASSUME NEW S \in SUBSET Clusters, NEW T \in SUBSET Clusters, S \cap T = {},
         Good(S, fs', table', cluster'), Good(T, redirect'.cursor, table', cluster'),
         work'.step \notin PreparedSteps, work'.step = "transfer" => fs'.head # 0,
         redirect'.swapped => redirect'.on /\ work'.step = "transfer",
         redirect'.on /\ ~ redirect'.swapped => redirect'.cursor.head # 0,
         ~ redirect'.on => redirect'.cursor.head = 0
  PROVE  CursorInv'
<1>1. Registers'
  BY DEF Registers, PreparedSteps, TransferSteps
<1>2. Apart(S, T)'
  BY DEF Apart, PreparedSteps, LengthSteps
<1> QED
  BY <1>1, <1>2 DEF CursorInv

LEMMA AtIdle ==
  ASSUME CursorInv, work = Idle
  PROVE  /\ ~ redirect.swapped /\ (redirect.on <=> redirect.cursor.head # 0)
         /\ \E S, T \in SUBSET Clusters :
              /\ S \cap T = {}
              /\ Good(S, fs, table, cluster) /\ Good(T, redirect.cursor, table, cluster)
<1>1. work.step = "idle"
  BY IdleFields
<1>2. ~ redirect.swapped /\ (redirect.on <=> redirect.cursor.head # 0)
  BY <1>1 DEF CursorInv, Registers, TransferSteps, LengthSteps, ContSteps, TypeOK
<1>3. PICK S, T \in SUBSET Clusters : Apart(S, T)
  BY DEF CursorInv
<1>4. /\ S \cap T = {}
      /\ Good(S, fs, table, cluster) /\ Good(T, redirect.cursor, table, cluster)
  BY <1>1, <1>3 DEF Apart, FreeSteps
<1> QED
  BY <1>2, <1>4

LEMMA ClosedGood == ASSUME NEW t, NEW k PROVE Good({}, Closed, t, k)
BY DEF Good, Closed

(* A service that closes the descriptor and writes at most free clusters.   *)
LEMMA Leaves ==
  ASSUME CursorInv, work = Idle, fs' = Closed, UNCHANGED <<table, redirect>>,
         \A c \in Clusters : Live(c) => cluster'[c] = cluster[c],
         work'.step \notin PreparedSteps \cup {"transfer"}
  PROVE  CursorInv'
<1>1. PICK T \in SUBSET Clusters : Good(T, redirect.cursor, table, cluster)
  BY AtIdle
<1>2. Good(T, redirect.cursor, table', cluster')
  BY <1>1, GoodLive, StaysGood
<1>3. Good({}, fs', table', cluster')
  BY ClosedGood
<1> QED
  BY <1>1, <1>2, <1>3, AtIdle, Settled

(* A service that opens a file.                                             *)
LEMMA Opening ==
  ASSUME TypeOK, ChainsSound, CursorInv, ~ Shared, work = Idle,
         NEW path, NEW up \in Parents, NEW c \in Clusters, Opens(path, up, c), MayUse(c)
  PROVE  \E S, T \in SUBSET Clusters :
           /\ S \cap T = {} /\ Good(T, redirect.cursor, table, cluster)
           /\ Good(S, Opened(up, c), table, cluster)
<1>1. PICK T \in SUBSET Clusters : Good(T, redirect.cursor, table, cluster)
  BY AtIdle
<1>2. c # 0
  BY FormatAssumption DEF Clusters
<1>3. redirect.cursor.head # c
  BY <1>2, AtIdle DEF MayUse, Redirected
<1> QED
  BY <1>1, <1>3, OpenGood

LEMMA OpensGood ==
  ASSUME TypeOK, ChainsSound, CursorInv, ~ Shared, work = Idle,
         NEW path, NEW up \in Parents, NEW c \in Clusters, Opens(path, up, c), MayUse(c),
         NEW status, fs' = Opened(up, c), Quietly(status)
  PROVE  CursorInv'
<1>1. PICK S, T \in SUBSET Clusters :
        /\ S \cap T = {} /\ Good(T, redirect.cursor, table, cluster)
        /\ Good(S, Opened(up, c), table, cluster)
  BY Opening
<1>2. UNCHANGED <<table, cluster, redirect>> /\ work'.step = "idle"
  BY IdleFields DEF Quietly, Returns
<1>3. "idle" \notin PreparedSteps
  BY DEF PreparedSteps, LengthSteps, ContSteps, FreeSteps
<1>4. Good(S, fs', table', cluster') /\ Good(T, redirect'.cursor, table', cluster')
  BY <1>1, <1>2
<1> QED
  BY <1>1, <1>2, <1>3, <1>4, AtIdle, Settled

LEMMA QuietSteps ==
  ASSUME NEW status, Quietly(status)
  PROVE  /\ UNCHANGED <<table, cluster, redirect>> /\ work'.step = "idle"
         /\ work'.step \notin PreparedSteps \cup {"transfer"}
BY IdleFields DEF Quietly, Returns, PreparedSteps, LengthSteps, ContSteps, FreeSteps

LEMMA Closes ==
  ASSUME CursorInv, work = Idle, fs' = Closed, NEW status, Quietly(status) PROVE CursorInv'
BY QuietSteps, Leaves

LEMMA Transferral ==
  ASSUME NEW bytes, NEW writes, Transferring(bytes, writes)
  PROVE  work'.step = "transfer" /\ UNCHANGED <<table, cluster>>
BY DEF Transferring, Starts, Idle

LEMMA CallCursor == ASSUME IInv, CursorInv, ~ Shared, Call PROVE CursorInv'
<1>0. TypeOK /\ ChainsSound /\ VolumeOK
  BY DEF IInv, TypeOK
<1>1. "transfer" \notin PreparedSteps /\ "idle" \notin PreparedSteps
  BY DEF PreparedSteps, LengthSteps, ContSteps, FreeSteps
<1>2. ASSUME NEW path \in Paths, Open(path) PROVE CursorInv'
  BY <1>0, <1>2, OpensGood, Closes DEF Open
<1>3. ASSUME NEW path \in Paths, Find(path) PROVE CursorInv'
  BY <1>3, Closes DEF Find
<1>4. ASSUME Mount \/ Close PROVE CursorInv'
  BY <1>4, Closes DEF Mount, Close
<1>5. ASSUME Rewind PROVE CursorInv'
  <2>1. PICK S, T \in SUBSET Clusters :
          /\ S \cap T = {}
          /\ Good(S, fs, table, cluster) /\ Good(T, redirect.cursor, table, cluster)
    BY <1>5, AtIdle DEF Rewind
  <2>2. \E status : Quietly(status) /\ work = Idle
    BY <1>5 DEF Rewind
  <2>3. Good(S, fs', table, cluster)
    <3>1. CASE fs.head = 0
      BY <1>5, <2>1, <3>1 DEF Rewind
    <3>2. CASE fs.head # 0
      <4>1. fs.head \in S /\ fs \in Cursors
        BY <1>0, <2>1, <3>2 DEF Good, Holds, TypeOK
      <4>2. Good(S, At(fs, fs.head), table, cluster)
        BY <1>0, <2>1, <3>2, <4>1, GoodMove
      <4> QED
        BY <1>5, <3>2, <4>2 DEF Rewind
    <3> QED
      BY <3>1, <3>2
  <2>4. Good(S, fs', table', cluster') /\ Good(T, redirect'.cursor, table', cluster')
    BY <2>1, <2>2, <2>3, QuietSteps
  <2> QED
    BY <2>1, <2>2, <2>4, QuietSteps, AtIdle, Settled
<1>6. ASSUME NEW path \in Paths, Redirect(path) PROVE CursorInv'
  <2>1. /\ work = Idle /\ fs' = fs /\ UNCHANGED <<table, cluster>> /\ work'.step = "idle"
    BY <1>6, IdleFields DEF Redirect, Returns
  <2>2. CASE redirect' = redirect
    <3>1. PICK S, T \in SUBSET Clusters :
            /\ S \cap T = {}
            /\ Good(S, fs, table, cluster) /\ Good(T, redirect.cursor, table, cluster)
      BY <2>1, AtIdle
    <3>2. Good(S, fs', table', cluster') /\ Good(T, redirect'.cursor, table', cluster')
      BY <2>1, <2>2, <3>1
    <3> QED
      BY <1>1, <2>1, <2>2, <3>1, <3>2, AtIdle, Settled
  <2>3. ASSUME NEW up \in Parents, NEW c \in Clusters, Opens(path, up, c), fs.head # c,
               redirect' = [on |-> TRUE, swapped |-> FALSE, cursor |-> Opened(up, c)]
        PROVE  CursorInv'
    <3>1. PICK S \in SUBSET Clusters : Good(S, fs, table, cluster)
      BY <2>1, AtIdle
    <3>2. PICK T \in SUBSET Clusters : T \cap S = {} /\ Good(T, Opened(up, c), table, cluster)
      BY <1>0, <2>3, <3>1, OpenGood
    <3>3. S \cap T = {}
      BY <3>2
    <3>4. redirect'.on /\ ~ redirect'.swapped /\ redirect'.cursor = Opened(up, c)
      BY <2>3
    <3>5. Opened(up, c).head # 0
      BY FormatAssumption DEF Opened, Clusters
    <3>6. Good(S, fs', table', cluster') /\ Good(T, redirect'.cursor, table', cluster')
      BY <2>1, <3>1, <3>2, <3>4
    <3> QED
      BY <1>1, <2>1, <3>3, <3>4, <3>5, <3>6, Settled
  <2> QED
    BY <1>6, <2>2, <2>3 DEF Redirect
<1>7. ASSUME RedirectOff PROVE CursorInv'
  <2>1. /\ work = Idle /\ fs' = fs /\ UNCHANGED <<table, cluster>> /\ work'.step = "idle"
        /\ ~ redirect'.on /\ ~ redirect'.swapped /\ redirect'.cursor = Closed
    BY <1>7, IdleFields DEF RedirectOff, Returns
  <2>2. PICK S \in SUBSET Clusters : Good(S, fs, table, cluster)
    BY <2>1, AtIdle
  <2>3. Good(S, fs', table', cluster') /\ Good({}, redirect'.cursor, table', cluster')
    BY <2>1, <2>2, ClosedGood
  <2> QED
    BY <1>1, <2>1, <2>2, <2>3, Settled DEF Closed
<1>8. ASSUME NEW path \in Paths, Touch(path) PROVE CursorInv'
  <2>1. ASSUME NEW up \in Parents, NEW c \in Clusters, FirstFree(c), fs' = Closed, work = Idle,
               cluster' = [cluster EXCEPT ![c].name = Leaf(path), ![c].next = 0,
                                          ![c].hi = 0, ![c].lo = 0],
               Creates("head owner", c, up, NoName), UNCHANGED <<table, redirect>>
        PROVE  CursorInv'
    <3>1. \A b \in Clusters : Live(b) => cluster'[b] = cluster[b]
      BY <1>0, <2>1 DEF FirstFree, VolumeOK
    <3>2. work'.step = "head owner"
      BY <2>1, CreatesFields
    <3>3. work'.step \notin PreparedSteps \cup {"transfer"}
      BY <3>2 DEF PreparedSteps, LengthSteps, ContSteps, FreeSteps
    <3> QED
      BY <2>1, <3>1, <3>3, Leaves
  <2>2. work = Idle /\ fs' = Closed
    BY <1>8 DEF Touch, TouchNew
  <2>3. \/ \E status : Quietly(status)
        \/ \E up \in Parents : TouchNew(path, up)
    BY <1>8 DEF Touch
  <2>4. ASSUME NEW up \in Parents, TouchNew(path, up) PROVE CursorInv'
    BY <2>1, <2>2, <2>4, Closes DEF TouchNew
  <2> QED
    BY <2>2, <2>3, <2>4, Closes
<1>9. ASSUME NEW path \in Paths, Mkdir(path) PROVE CursorInv'
  <2>1. ASSUME NEW up \in Parents, NEW d, fs' = Closed, work = Idle,
               Creates("dir name", d, up, Leaf(path)), UNCHANGED <<table, cluster, redirect>>
        PROVE  CursorInv'
    <3>1. work'.step = "dir name"
      BY <2>1, CreatesFields
    <3>2. work'.step \notin PreparedSteps \cup {"transfer"}
      BY <3>1 DEF PreparedSteps, LengthSteps, ContSteps, FreeSteps
    <3> QED
      BY <2>1, <3>2, Leaves
  <2>2. ASSUME NEW up \in Parents, MkdirNew(path, up), work = Idle PROVE CursorInv'
    BY <2>1, <2>2, Closes DEF MkdirNew
  <2> QED
    BY <1>0, <1>9, <2>2, OpensGood, Closes DEF Mkdir, MkdirOnFile
<1>10. ASSUME NEW path \in Paths, RemovePath(path) PROVE CursorInv'
  <2>1. ASSUME NEW up \in Parents, NEW c \in Clusters, Opens(path, up, c), MayUse(c),
               fs' = Opened(up, c), Creates("free owner", c, 0, NoName),
               UNCHANGED <<table, cluster, redirect>>, work = Idle
        PROVE  CursorInv'
    <3>1. PICK S, T \in SUBSET Clusters :
            /\ S \cap T = {} /\ Good(T, redirect.cursor, table, cluster)
            /\ Good(S, Opened(up, c), table, cluster)
      BY <1>0, <2>1, Opening
    <3>2. work'.step = "free owner" /\ work'.slot = c
      BY <2>1, CreatesFields
    <3>3. Opened(up, c).head = c /\ c # 0
      BY FormatAssumption DEF Opened, Clusters
    <3>4. c \in S /\ \A b \in S : cluster[b].next # 0 => cluster[b].next \in S
      BY <3>1, <3>3 DEF Good, Holds
    <3>5. Apart(S, T)'
      BY <2>1, <3>1, <3>2, <3>4 DEF Apart, FreeSteps, ContSteps
    <3>6. Registers'
      BY <2>1, <3>2, AtIdle DEF Registers, TransferSteps, LengthSteps, ContSteps
    <3> QED
      BY <3>5, <3>6 DEF CursorInv
  <2>2. ASSUME RemoveDirectory(path), work = Idle PROVE CursorInv'
    <3>1. ASSUME NEW d, Creates("zero upper", d, 0, NoName), fs' = Closed,
                 UNCHANGED <<table, cluster, redirect>>
          PROVE  CursorInv'
      <4>1. work'.step = "zero upper"
        BY <3>1, CreatesFields
      <4>2. work'.step \notin PreparedSteps \cup {"transfer"}
        BY <4>1 DEF PreparedSteps, LengthSteps, ContSteps, FreeSteps
      <4> QED
        BY <2>2, <3>1, <4>2, Leaves
    <3> QED
      BY <2>2, <3>1, Closes DEF RemoveDirectory
  <2> QED
    BY <1>10, <2>1, <2>2, Closes DEF RemovePath
<1>11. ASSUME NEW bytes, NEW writes, Transferring(bytes, writes), work = Idle,
              fs.head # 0, UNCHANGED <<fs, redirect>>
       PROVE  CursorInv'
  <2>1. PICK S, T \in SUBSET Clusters :
          /\ S \cap T = {}
          /\ Good(S, fs, table, cluster) /\ Good(T, redirect.cursor, table, cluster)
    BY <1>11, AtIdle
  <2>2. Good(S, fs', table', cluster') /\ Good(T, redirect'.cursor, table', cluster')
    BY <1>11, <2>1, Transferral
  <2> QED
    BY <1>1, <1>11, <2>1, <2>2, AtIdle, Settled, Transferral
<1>12. ASSUME fs' = fs, NEW status, Quietly(status), work = Idle PROVE CursorInv'
  <2>1. PICK S, T \in SUBSET Clusters :
          /\ S \cap T = {}
          /\ Good(S, fs, table, cluster) /\ Good(T, redirect.cursor, table, cluster)
    BY <1>12, AtIdle
  <2>2. Good(S, fs', table', cluster') /\ Good(T, redirect'.cursor, table', cluster')
    BY <1>12, <2>1, QuietSteps
  <2> QED
    BY <1>12, <2>1, <2>2, QuietSteps, AtIdle, Settled
<1>13. ASSUME NEW count \in 0 .. MaxRead, Read(count) PROVE CursorInv'
  BY <1>11, <1>12, <1>13 DEF Read
<1>14. ASSUME NEW bytes \in Buffers, Write(bytes) PROVE CursorInv'
  BY <1>11, <1>12, <1>14 DEF Write
<1>15. ASSUME NEW bytes \in Buffers, PrintRedirected(bytes) PROVE CursorInv'
  <2>1. /\ work = Idle /\ redirect.on /\ fs' = redirect.cursor /\ Transferring(bytes, TRUE)
        /\ redirect'.on /\ redirect'.swapped /\ redirect'.cursor = fs
    BY <1>0, <1>15 DEF PrintRedirected, TypeOK
  <2>2. PICK S, T \in SUBSET Clusters :
          /\ S \cap T = {}
          /\ Good(S, fs, table, cluster) /\ Good(T, redirect.cursor, table, cluster)
    BY <2>1, AtIdle
  <2>3. Good(T, fs', table', cluster') /\ Good(S, redirect'.cursor, table', cluster')
    BY <2>1, <2>2, Transferral
  <2>4. T \cap S = {} /\ fs'.head # 0
    BY <2>1, <2>2, AtIdle
  <2> QED
    BY <1>1, <2>1, <2>3, <2>4, Settled, Transferral
<1> QED
  BY <1>2, <1>3, <1>4, <1>5, <1>6, <1>7, <1>8, <1>9, <1>10, <1>13, <1>14, <1>15 DEF Call
-----------------------------------------------------------------------------
(* Transfers.                                                               *)

LEMMA StepSets ==
  /\ "transfer" \notin PreparedSteps /\ "idle" \notin PreparedSteps
  /\ "length hi" \notin {"length lo"} \cup FreeSteps \cup ContSteps
  /\ "length lo" \notin FreeSteps \cup ContSteps
  /\ \A step \in ContSteps : step \notin {"length lo"} \cup FreeSteps \cup LengthSteps
  /\ \A step \in FreeSteps : step \notin {"length lo"} \cup TransferSteps
BY DEF PreparedSteps, LengthSteps, ContSteps, FreeSteps, TransferSteps

LEMMA TransferFields ==
  ASSUME TypeOK, work' = Transferred PROVE work'.step = "transfer"
BY DEF Transferred, TypeOK, Works

(* What is known at a step of a transfer other than the last byte of a      *)
(* length.                                                                 *)
LEMMA InTransfer ==
  ASSUME TypeOK, CursorInv, work.step \in {"transfer", "length hi"} \cup ContSteps
  PROVE  /\ fs.head # 0 /\ (redirect.swapped => redirect.on)
         /\ redirect.on /\ ~ redirect.swapped => redirect.cursor.head # 0
         /\ ~ redirect.on => redirect.cursor.head = 0
         /\ \E S, T \in SUBSET Clusters :
              /\ S \cap T = {} /\ Good(T, redirect.cursor, table, cluster)
              /\ Good(S, fs, table, cluster) /\ Holds(S, fs, table, cluster)
              /\ Fits(S, fs, cluster) /\ fs.cluster \in S
              /\ work.step \in ContSteps => work.slot \notin S \cup T
<1>1. PICK S, T \in SUBSET Clusters : Apart(S, T)
  BY DEF CursorInv
<1>2. work.step \notin {"length lo"} \cup FreeSteps /\ work.step \in TransferSteps
  BY DEF ContSteps, FreeSteps, TransferSteps, LengthSteps
<1>3. /\ fs.head # 0 /\ (redirect.swapped => redirect.on)
      /\ redirect.on /\ ~ redirect.swapped => redirect.cursor.head # 0
      /\ ~ redirect.on => redirect.cursor.head = 0
  BY <1>2 DEF CursorInv, Registers
<1>4. /\ S \cap T = {} /\ Good(T, redirect.cursor, table, cluster)
      /\ Good(S, fs, table, cluster)
      /\ work.step \in ContSteps => work.slot \notin S \cup T
  BY <1>1, <1>2 DEF Apart
<1>5. Holds(S, fs, table, cluster) /\ Fits(S, fs, cluster) /\ fs.cluster \in S
  BY <1>3, <1>4 DEF Good, Holds
<1> QED
  BY <1>3, <1>4, <1>5

(* The cursors change places again.                                         *)
LEMMA ReturnCursor ==
  ASSUME TypeOK, CursorInv, work.step = "transfer", NEW status, TransferReturns(status)
  PROVE  CursorInv'
<1>1. PICK S, T \in SUBSET Clusters :
        /\ S \cap T = {} /\ Good(T, redirect.cursor, table, cluster)
        /\ Good(S, fs, table, cluster)
  BY InTransfer
<1>2. UNCHANGED <<table, cluster>> /\ work'.step = "idle"
  BY IdleFields DEF TransferReturns, Returns
<1>3. CASE redirect.swapped
  <2>1. /\ fs' = redirect.cursor /\ redirect'.cursor = fs /\ ~ redirect'.swapped
        /\ redirect'.on = redirect.on
    BY <1>3 DEF TransferReturns, TypeOK
  <2>2. Good(T, fs', table', cluster') /\ Good(S, redirect'.cursor, table', cluster')
    BY <1>1, <1>2, <2>1
  <2>3. T \cap S = {} /\ redirect'.on /\ redirect'.cursor.head # 0
    BY <1>1, <1>3, <2>1, InTransfer
  <2> QED
    BY <1>1, <1>2, <2>1, <2>2, <2>3, StepSets, Settled
<1>4. CASE ~ redirect.swapped
  <2>1. UNCHANGED <<fs, redirect>>
    BY <1>4 DEF TransferReturns
  <2>2. Good(S, fs', table', cluster') /\ Good(T, redirect'.cursor, table', cluster')
    BY <1>1, <1>2, <2>1
  <2> QED
    BY <1>1, <1>2, <1>4, <2>1, <2>2, StepSets, InTransfer, Settled
<1> QED
  BY <1>3, <1>4

(* A transfer goes on, with its cursor in the same file.                    *)
LEMMA GoesOn ==
  ASSUME TypeOK, CursorInv, redirect' = redirect, work'.step = "transfer", fs'.head = fs.head,
         fs.head # 0, redirect.swapped => redirect.on,
         redirect.on /\ ~ redirect.swapped => redirect.cursor.head # 0,
         ~ redirect.on => redirect.cursor.head = 0,
         NEW S \in SUBSET Clusters, NEW T \in SUBSET Clusters, S \cap T = {},
         Good(T, redirect.cursor, table', cluster'), Good(S, fs', table', cluster')
  PROVE  CursorInv'
BY StepSets, Settled

LEMMA AdvancedGood ==
  ASSUME TypeOK, fs.head # 0, fs.remaining # 0, NEW S, NEW t, NEW k, Good(S, fs, t, k)
  PROVE  Good(S, Advanced(fs), t, k) /\ Advanced(fs).head = fs.head
<1> DEFINE cursor == Advanced(fs)
<1>1. /\ cursor.head = fs.head /\ cursor.parent = fs.parent /\ cursor.cluster = fs.cluster
      /\ cursor.next = fs.next /\ cursor.offset = fs.offset + 1
      /\ cursor.remaining = fs.remaining - 1 /\ fs.offset \in Nat /\ fs.remaining \in Nat
  BY DEF Advanced, TypeOK, Cursors
<1>2. Holds(S, fs, t, k) /\ Fits(S, fs, k) /\ fs.offset + fs.remaining = Payload(fs.cluster, k)
  BY DEF Good
<1>3. Good(S, cursor, t, k)
  <2> HIDE DEF cursor
  <2>1. Holds(S, cursor, t, k)
    BY <1>1, <1>2 DEF Holds
  <2>2. Fits(S, cursor, k)
    BY <1>1, <1>2 DEF Fits
  <2>3. cursor.offset + cursor.remaining = fs.offset + fs.remaining
    BY <1>1
  <2> QED
    BY <1>1, <1>2, <2>1, <2>2, <2>3 DEF Good
<1> QED
  BY <1>1, <1>3

LEMMA WalkCursor == ASSUME TypeOK, CursorInv, ChainsSound, NextCluster \/ ReadByte PROVE CursorInv'
<1>1. work.step = "transfer" /\ UNCHANGED <<table, cluster, redirect>>
  BY DEF NextCluster, ReadByte
<1>2. PICK S, T \in SUBSET Clusters :
        /\ S \cap T = {} /\ Good(T, redirect.cursor, table, cluster)
        /\ Good(S, fs, table, cluster) /\ Holds(S, fs, table, cluster) /\ fs.cluster \in S
  BY <1>1, InTransfer
<1>3. Good(T, redirect.cursor, table', cluster')
  BY <1>1, <1>2
<1>4. CASE NextCluster
  <2>1. fs.next \in S
    BY <1>2, <1>4 DEF NextCluster, Holds
  <2>2. Good(S, At(fs, fs.next), table, cluster) /\ At(fs, fs.next).head = fs.head
    BY <1>1, <1>2, <2>1, InTransfer, GoodMove DEF TypeOK
  <2>3. Good(S, fs', table', cluster') /\ fs'.head = fs.head /\ work'.step = "transfer"
    BY <1>1, <1>4, <2>2 DEF NextCluster
  <2> QED
    BY <1>1, <1>2, <1>3, <2>3, InTransfer, GoesOn
<1>5. CASE ReadByte
  <2>1. fs' = Advanced(fs) /\ fs.remaining # 0 /\ work'.step = "transfer"
    BY <1>5, TransferFields DEF ReadByte
  <2>2. Good(S, Advanced(fs), table, cluster) /\ Advanced(fs).head = fs.head
    BY <1>1, <1>2, <2>1, InTransfer, AdvancedGood
  <2>3. Good(S, fs', table', cluster') /\ fs'.head = fs.head
    BY <1>1, <2>1, <2>2
  <2> QED
    BY <1>1, <1>2, <1>3, <2>1, <2>3, InTransfer, GoesOn
<1> QED
  BY <1>4, <1>5

(* What a write to one cluster leaves of the others, and of that one.       *)
LEMMA LinksPut ==
  ASSUME VolumeOK, NEW c \in Clusters, NEW i, NEW x
  PROVE  /\ cluster' = [cluster EXCEPT ![c].data[i] = x] =>
              \A b \in Clusters : /\ cluster'[b].next = cluster[b].next
                                  /\ cluster'[b].hi = cluster[b].hi
                                  /\ cluster'[b].lo = cluster[b].lo
         /\ cluster' = [cluster EXCEPT ![c].hi = x] =>
              /\ \A b \in Clusters : b # c => cluster'[b] = cluster[b]
              /\ \A b \in Clusters : cluster'[b].next = cluster[b].next
              /\ cluster'[c].hi = x
         /\ cluster' = [cluster EXCEPT ![c].lo = x] =>
              /\ \A b \in Clusters : b # c => cluster'[b] = cluster[b]
              /\ \A b \in Clusters : cluster'[b].next = cluster[b].next
              /\ cluster'[c].hi = cluster[c].hi /\ cluster'[c].lo = x
         /\ cluster' = [cluster EXCEPT ![c].next = x] =>
              /\ \A b \in Clusters : b # c => cluster'[b] = cluster[b]
              /\ cluster'[c].next = x
              /\ cluster'[c].hi = cluster[c].hi /\ cluster'[c].lo = cluster[c].lo
<1>1. cluster \in [Clusters -> Cluster] /\ cluster[c] \in Cluster
  BY DEF VolumeOK
<1>2. ASSUME cluster' = [cluster EXCEPT ![c].data[i] = x]
      PROVE  \A b \in Clusters : /\ cluster'[b].next = cluster[b].next
                                 /\ cluster'[b].hi = cluster[b].hi
                                 /\ cluster'[b].lo = cluster[b].lo
  <2>1. /\ \A b \in Clusters : b # c => cluster'[b] = cluster[b]
        /\ cluster'[c] = [cluster[c] EXCEPT !.data[i] = x]
    BY <1>1, <1>2
  <2>2. /\ cluster'[c].next = cluster[c].next
        /\ cluster'[c].hi = cluster[c].hi /\ cluster'[c].lo = cluster[c].lo
    BY <1>1, <2>1 DEF Cluster
  <2> QED
    BY <2>1, <2>2
<1>3. ASSUME cluster' = [cluster EXCEPT ![c].hi = x]
      PROVE  /\ \A b \in Clusters : b # c => cluster'[b] = cluster[b]
             /\ \A b \in Clusters : cluster'[b].next = cluster[b].next
             /\ cluster'[c].hi = x
  BY <1>1, <1>3 DEF Cluster
<1>4. ASSUME cluster' = [cluster EXCEPT ![c].lo = x]
      PROVE  /\ \A b \in Clusters : b # c => cluster'[b] = cluster[b]
             /\ \A b \in Clusters : cluster'[b].next = cluster[b].next
             /\ cluster'[c].hi = cluster[c].hi /\ cluster'[c].lo = x
  BY <1>1, <1>4 DEF Cluster
<1>5. ASSUME cluster' = [cluster EXCEPT ![c].next = x]
      PROVE  /\ \A b \in Clusters : b # c => cluster'[b] = cluster[b]
             /\ cluster'[c].next = x
             /\ cluster'[c].hi = cluster[c].hi /\ cluster'[c].lo = cluster[c].lo
  BY <1>1, <1>5 DEF Cluster
<1> QED
  BY <1>2, <1>3, <1>4, <1>5

LEMMA WriteByteCursor == ASSUME TypeOK, CursorInv, WriteByte PROVE CursorInv'
<1>1. /\ work.step = "transfer" /\ UNCHANGED <<table, redirect>>
      /\ fs.remaining # 0 \/ (AtEnd /\ fs.offset < Room(fs))
  BY DEF WriteByte
<1>2. PICK S, T \in SUBSET Clusters :
        /\ S \cap T = {} /\ Good(T, redirect.cursor, table, cluster)
        /\ Good(S, fs, table, cluster) /\ fs.cluster \in S
  BY <1>1, InTransfer
<1>3. \A c \in Clusters : /\ cluster'[c].next = cluster[c].next
                          /\ cluster'[c].hi = cluster[c].hi /\ cluster'[c].lo = cluster[c].lo
  BY <1>2, LinksPut DEF TypeOK, WriteByte
<1>4. Good(T, redirect.cursor, table', cluster') /\ Good(S, fs, table', cluster')
  BY <1>1, <1>2, <1>3, StaysGood
<1>5. CASE fs.remaining # 0
  <2>1. fs' = Advanced(fs) /\ work'.step = "transfer"
    BY <1>5, TransferFields DEF WriteByte
  <2>2. Good(S, Advanced(fs), table', cluster') /\ Advanced(fs).head = fs.head
    BY <1>1, <1>4, <1>5, InTransfer, AdvancedGood
  <2>3. Good(S, fs', table', cluster') /\ fs'.head = fs.head
    BY <2>1, <2>2
  <2> QED
    BY <1>1, <1>2, <1>4, <2>1, <2>3, InTransfer, GoesOn
<1>6. CASE fs.remaining = 0
  <2>1. fs' = fs /\ work'.step = "length hi" /\ AtEnd /\ fs.offset < Room(fs)
    BY <1>1, <1>6 DEF WriteByte, TypeOK, Works
  <2>2. Registers'
    BY <1>1, <2>1, StepSets, InTransfer
       DEF Registers, AtEnd, Room, LengthSteps, TransferSteps
  <2>3. Apart(S, T)'
    BY <1>1, <1>2, <1>4, <2>1, StepSets DEF Apart
  <2> QED
    BY <2>2, <2>3 DEF CursorInv
<1> QED
  BY <1>5, <1>6

LEMMA LengthHiCursor == ASSUME TypeOK, CursorInv, LengthHi PROVE CursorInv'
<1>1. /\ work.step = "length hi" /\ work'.step = "length lo"
      /\ UNCHANGED <<table, fs, redirect>>
  BY DEF LengthHi, TypeOK, Works
<1>2. PICK S, T \in SUBSET Clusters :
        /\ S \cap T = {} /\ Good(T, redirect.cursor, table, cluster)
        /\ Holds(S, fs, table, cluster) /\ Fits(S, fs, cluster) /\ fs.cluster \in S
  BY <1>1, InTransfer
<1>3. /\ \A b \in Clusters : b # fs.cluster => cluster'[b] = cluster[b]
      /\ \A b \in Clusters : cluster'[b].next = cluster[b].next
      /\ cluster'[fs.cluster].hi = (fs.offset + 1) \div RADIX
  BY <1>2, LinksPut DEF TypeOK, LengthHi
<1>4. Good(T, redirect.cursor, table', cluster')
  BY <1>1, <1>2, <1>3, StaysGood
<1>5. Torn(S, fs, table', cluster')
  <2>1. Holds(S, fs, table', cluster')
    BY <1>1, <1>2, <1>3, StaysHeld
  <2>2. Fits(S \ {fs.cluster}, fs, cluster')
    BY <1>2, <1>3 DEF Fits, Payload
  <2> QED
    BY <1>3, <2>1, <2>2 DEF Torn
<1>6. AtEnd /\ fs.offset < Room(fs)
  BY <1>1 DEF CursorInv, Registers, LengthSteps
<1>7. Registers'
  BY <1>1, <1>6, StepSets, InTransfer DEF Registers, AtEnd, Room, LengthSteps, TransferSteps
<1>8. Apart(S, T)'
  BY <1>1, <1>2, <1>4, <1>5, StepSets DEF Apart
<1> QED
  BY <1>7, <1>8 DEF CursorInv

(* The two bytes together are the length.                                   *)
LEMMA TwoBytes ==
  ASSUME NEW x \in Nat
  PROVE  (RADIX * (x \div RADIX)) + (x % RADIX) = x
<1>1. RADIX \in Nat /\ RADIX > 0
  BY FormatAssumption
<1>2. \A r, n \in Nat : r > 0 => (r * (n \div r)) + (n % r) = n
  OBVIOUS
<1> QED
  BY <1>1, <1>2

LEMMA LengthLoCursor == ASSUME TypeOK, CursorInv, LengthLo PROVE CursorInv'
<1>1. /\ work.step = "length lo" /\ work'.step = "transfer"
      /\ fs' = Advanced(fs) /\ UNCHANGED <<table, redirect>>
  BY TransferFields DEF LengthLo
<1>2. PICK S, T \in SUBSET Clusters : Apart(S, T)
  BY DEF CursorInv
<1>3. /\ S \cap T = {} /\ Good(T, redirect.cursor, table, cluster)
      /\ Torn(S, fs, table, cluster)
  BY <1>1, <1>2 DEF Apart
<1>4. fs.cluster \in S /\ Holds(S, fs, table, cluster)
  BY <1>3 DEF Torn, Holds
<1>5. /\ fs.head # 0 /\ AtEnd /\ fs.offset < Room(fs) /\ (redirect.swapped => redirect.on)
      /\ redirect.on /\ ~ redirect.swapped => redirect.cursor.head # 0
      /\ ~ redirect.on => redirect.cursor.head = 0
  BY <1>1 DEF CursorInv, Registers, LengthSteps, TransferSteps
<1>6. /\ \A b \in Clusters : b # fs.cluster => cluster'[b] = cluster[b]
      /\ \A b \in Clusters : cluster'[b].next = cluster[b].next
      /\ cluster'[fs.cluster].hi = cluster[fs.cluster].hi
      /\ cluster'[fs.cluster].lo = (fs.offset + 1) % RADIX
  BY <1>4, LinksPut DEF TypeOK, LengthLo
<1>7. Good(T, redirect.cursor, table', cluster')
  <2>1. \A b \in T : table'[b] = table[b] /\ cluster'[b] = cluster[b]
    BY <1>1, <1>3, <1>4, <1>6
  <2> QED
    BY <1>3, <2>1, StaysGood
<1>8. Payload(fs.cluster, cluster') = fs.offset + 1
  <2>1. cluster'[fs.cluster].hi = (fs.offset + 1) \div RADIX
    BY <1>3, <1>6 DEF Torn
  <2>2. fs.offset + 1 \in Nat
    BY DEF TypeOK, Cursors
  <2> QED
    BY <1>6, <2>1, <2>2, TwoBytes DEF Payload
<1> DEFINE cursor == Advanced(fs)
<1>9. /\ cursor.head = fs.head /\ cursor.parent = fs.parent /\ cursor.cluster = fs.cluster
      /\ cursor.next = fs.next /\ cursor.offset = fs.offset + 1
      /\ cursor.remaining = 0 /\ fs.offset \in Nat
  BY <1>5 DEF Advanced, TypeOK, Cursors, AtEnd
<1>10. Good(S, cursor, table', cluster')
  <2>1. Holds(S, fs, table', cluster')
    BY <1>1, <1>4, <1>6, StaysHeld
  <2> HIDE DEF cursor
  <2>2. Holds(S, cursor, table', cluster')
    BY <1>9, <2>1 DEF Holds
  <2>3. Fits(S, cursor, cluster')
    <3>1. Fits(S \ {fs.cluster}, fs, cluster)
      BY <1>3 DEF Torn
    <3>2. \A c \in S \ {fs.cluster} : Payload(c, cluster') = Payload(c, cluster)
      BY <1>6 DEF Payload
    <3>3. fs.offset + 1 <= IF fs.cluster = fs.head THEN HEAD_CAP ELSE CONT_CAP
      BY <1>5, <1>9, Sizes DEF Room
    <3> QED
      BY <1>8, <1>9, <3>1, <3>2, <3>3 DEF Fits
  <2> QED
    BY <1>5, <1>8, <1>9, <2>2, <2>3 DEF Good
<1>11. Good(S, fs', table', cluster') /\ fs'.head = fs.head
  BY <1>1, <1>9, <1>10
<1> QED
  BY <1>1, <1>3, <1>5, <1>7, <1>11, GoesOn
-----------------------------------------------------------------------------
(* A transfer that extends its file.                                        *)

(* A continuation is prepared, in none of the files that are in use.        *)
LEMMA Preparing ==
  ASSUME TypeOK, CursorInv, work.step \in {"transfer"} \cup ContSteps, work'.step \in ContSteps,
         AtEnd, UNCHANGED <<fs, redirect>>,
         NEW S \in SUBSET Clusters, NEW T \in SUBSET Clusters, S \cap T = {},
         Good(T, redirect.cursor, table', cluster'), Good(S, fs, table', cluster'),
         work'.slot \notin S \cup T, Length(work.slot)' = 0
  PROVE  CursorInv'
<1>1. Registers'
  BY StepSets, InTransfer DEF Registers, AtEnd, TransferSteps
<1>2. Apart(S, T)'
  BY StepSets DEF Apart
<1> QED
  BY <1>1, <1>2 DEF CursorInv

LEMMA ContHeaderCursor == ASSUME TypeOK, CursorInv, ContHeader PROVE CursorInv'
<1>1. /\ work.step = "transfer" /\ AtEnd /\ UNCHANGED <<table, fs, redirect>>
  BY DEF ContHeader, MustGrow
<1>2. PICK c \in Clusters :
        /\ FirstFree(c)
        /\ cluster' = [cluster EXCEPT ![c].next = 0, ![c].hi = 0, ![c].lo = 0]
        /\ work' = [work EXCEPT !.step = "cont owner", !.slot = c]
  BY DEF ContHeader
<1>3. PICK S, T \in SUBSET Clusters :
        /\ S \cap T = {} /\ Good(T, redirect.cursor, table, cluster)
        /\ Good(S, fs, table, cluster)
  BY <1>1, InTransfer
<1>4. c \notin S \cup T
  BY <1>2, <1>3, GoodLive DEF FirstFree
<1>5. /\ \A b \in Clusters : b # c => cluster'[b] = cluster[b]
      /\ cluster'[c].hi = 0 /\ cluster'[c].lo = 0
  <2>1. cluster \in [Clusters -> Cluster] /\ cluster[c] \in Cluster
    BY DEF TypeOK, VolumeOK
  <2>2. cluster'[c] = [cluster[c] EXCEPT !.next = 0, !.hi = 0, !.lo = 0]
    BY <1>2, <2>1
  <2> QED
    BY <1>2, <2>1, <2>2 DEF Cluster
<1>6. work'.step \in ContSteps /\ work'.slot = c
  BY <1>2 DEF ContSteps, TypeOK, Works
<1>7. Length(work.slot)' = 0
  <2>1. RADIX \in Nat
    BY FormatAssumption
  <2> QED
    BY <1>5, <1>6, <2>1 DEF Length
<1>8. Good(T, redirect.cursor, table', cluster') /\ Good(S, fs, table', cluster')
  <2>1. \A b \in S \cup T : table'[b] = table[b] /\ cluster'[b] = cluster[b]
    BY <1>1, <1>4, <1>5
  <2> QED
    BY <1>3, <2>1, StaysGood
<1> QED
  BY <1>1, <1>3, <1>4, <1>6, <1>7, <1>8, Preparing

LEMMA ContEntryCursor == ASSUME TypeOK, CursorInv, ContOwner \/ ContType PROVE CursorInv'
<1>1. /\ work.step \in ContSteps /\ work'.step \in ContSteps /\ work'.slot = work.slot
      /\ UNCHANGED <<cluster, fs, redirect>>
  BY DEF ContOwner, ContType, ContSteps, TypeOK, Works
<1>2. \A b \in Clusters : b # work.slot => table'[b] = table[b]
  BY DEF ContOwner, ContType, TypeOK, VolumeOK
<1>3. PICK S, T \in SUBSET Clusters :
        /\ S \cap T = {} /\ Good(T, redirect.cursor, table, cluster)
        /\ Good(S, fs, table, cluster) /\ work.slot \notin S \cup T
  BY <1>1, InTransfer
<1>4. Good(T, redirect.cursor, table', cluster') /\ Good(S, fs, table', cluster')
  <2>1. \A b \in S \cup T : table'[b] = table[b] /\ cluster'[b] = cluster[b]
    BY <1>1, <1>2, <1>3
  <2> QED
    BY <1>3, <2>1, StaysGood
<1>5. AtEnd /\ Length(work.slot)' = 0
  BY <1>1 DEF CursorInv, Registers, Length
<1> QED
  BY <1>1, <1>3, <1>4, <1>5, Preparing

LEMMA ContLinkCursor == ASSUME IInv, CursorInv, ContLink PROVE CursorInv'
<1> DEFINE slot == work.slot
           tail == fs.cluster
           cursor == [fs EXCEPT !.cluster = slot, !.next = cluster'[slot].next,
                                !.remaining = Length(slot), !.offset = 0]
<1>1. /\ TypeOK /\ work.step = "cont link" /\ work.step \in ContSteps
      /\ slot \in Clusters /\ table[slot].used = CONT /\ cluster[slot].next = 0
  BY DEF ContLink, IInv, StepOK, ContSteps
<1>2. /\ work'.step = "transfer" /\ fs' = cursor /\ UNCHANGED <<table, redirect>>
      /\ cluster' = [cluster EXCEPT ![tail].next = slot]
  BY <1>1 DEF ContLink, TypeOK, Works
<1>3. PICK S, T \in SUBSET Clusters :
        /\ S \cap T = {} /\ Good(T, redirect.cursor, table, cluster)
        /\ Holds(S, fs, table, cluster) /\ Fits(S, fs, cluster) /\ tail \in S
        /\ slot \notin S \cup T
  BY <1>1, InTransfer
<1>4. AtEnd /\ Length(slot) = 0 /\ fs.head # 0
  BY <1>1, InTransfer DEF CursorInv, Registers
<1>5. /\ \A b \in Clusters : b # tail => cluster'[b] = cluster[b]
      /\ cluster'[tail].next = slot
      /\ cluster'[tail].hi = cluster[tail].hi /\ cluster'[tail].lo = cluster[tail].lo
  BY <1>1, <1>2, <1>3, LinksPut DEF TypeOK
<1>6. slot # tail /\ cluster'[slot] = cluster[slot] /\ cluster[tail].next = 0
  BY <1>1, <1>3, <1>4, <1>5 DEF AtEnd, Holds
<1>7. /\ cursor.head = fs.head /\ cursor.parent = fs.parent /\ cursor.cluster = slot
      /\ cursor.next = 0 /\ cursor.remaining = 0 /\ cursor.offset = 0
  BY <1>1, <1>4, <1>6 DEF TypeOK, Cursors
<1> DEFINE R == S \cup {slot}
<1>8. Holds(R, cursor, table', cluster')
  <2>1. fs.head \in S /\ table[fs.head] = [dir |-> fs.parent, used |-> HEAD]
    BY <1>3 DEF Holds
  <2>2. ASSUME NEW c \in R, c # fs.head
        PROVE  table'[c].used = CONT /\ \E b \in R : cluster'[b].next = c
    <3>1. CASE c = slot
      BY <1>1, <1>2, <1>3, <1>5, <3>1
    <3>2. CASE c \in S
      <4>1. PICK b \in S : table[c].used = CONT /\ cluster[b].next = c
        BY <1>3, <2>2, <3>2 DEF Holds
      <4>2. c # 0
        BY <3>2, FormatAssumption DEF Clusters
      <4>3. cluster'[b].next = c
        BY <1>5, <1>6, <4>1, <4>2
      <4> QED
        BY <1>2, <4>1, <4>3
    <3> QED
      BY <3>1, <3>2
  <2>3. ASSUME NEW c \in R, cluster'[c].next # 0 PROVE cluster'[c].next \in R
    <3>1. c # slot
      BY <1>1, <1>6, <2>3
    <3>2. CASE c = tail
      BY <1>5, <3>2
    <3>3. CASE c # tail
      BY <1>3, <1>5, <2>3, <3>1, <3>3 DEF Holds
    <3> QED
      BY <3>2, <3>3
  <2>4. cluster'[slot].next = 0
    BY <1>1, <1>6
  <2> HIDE DEF cursor
  <2> QED
    BY <1>2, <1>7, <2>1, <2>2, <2>3, <2>4 DEF Holds
<1>9. Fits(R, cursor, cluster') /\ Payload(slot, cluster') = 0
  <2>1. \A c \in R : Payload(c, cluster') = Payload(c, cluster)
    BY <1>1, <1>5, <1>6 DEF Payload
  <2>2. Payload(slot, cluster) = 0
    BY <1>4, SamePayload
  <2> HIDE DEF cursor
  <2> QED
    BY <1>3, <1>7, <2>1, <2>2, Sizes DEF Fits
<1>10. Good(R, fs', table', cluster') /\ fs'.head = fs.head
  <2> HIDE DEF cursor, R
  <2> QED
    BY <1>2, <1>4, <1>7, <1>8, <1>9 DEF Good
<1>11. Good(T, redirect.cursor, table', cluster')
  <2>1. \A b \in T : table'[b] = table[b] /\ cluster'[b] = cluster[b]
    BY <1>2, <1>3, <1>5
  <2> QED
    BY <1>3, <2>1, StaysGood
<1>12. R \in SUBSET Clusters /\ R \cap T = {}
  BY <1>1, <1>3
<1> QED
  BY <1>1, <1>2, <1>10, <1>11, <1>12, InTransfer, GoesOn
-----------------------------------------------------------------------------
(* The other services.                                                      *)

OtherSteps == {"head owner", "head type", "dir name", "dir upper", "zero upper", "zero name"}

(* They write only what no cursor stands in.                                *)
LEMMA ElsewhereCursor ==
  ASSUME CursorInv, work.step \in OtherSteps, work'.step \in OtherSteps \cup {"idle"},
         UNCHANGED <<cluster, fs, redirect>>, \A c \in Clusters : Live(c) => table'[c] = table[c]
  PROVE  CursorInv'
<1>1. work.step \notin PreparedSteps \cup {"transfer"} /\ work'.step \notin PreparedSteps
      /\ work'.step # "transfer"
  BY DEF OtherSteps, PreparedSteps, LengthSteps, ContSteps, FreeSteps
<1>2. /\ ~ redirect.swapped /\ (redirect.on /\ ~ redirect.swapped => redirect.cursor.head # 0)
      /\ ~ redirect.on => redirect.cursor.head = 0
  BY <1>1 DEF CursorInv, Registers, TransferSteps, PreparedSteps
<1>3. PICK S, T \in SUBSET Clusters : Apart(S, T)
  BY DEF CursorInv
<1>4. /\ S \cap T = {} /\ Good(S, fs, table, cluster)
      /\ Good(T, redirect.cursor, table, cluster)
  BY <1>1, <1>3 DEF Apart, PreparedSteps, LengthSteps
<1>5. Good(S, fs', table', cluster') /\ Good(T, redirect'.cursor, table', cluster')
  <2>1. \A b \in S \cup T : table'[b] = table[b] /\ cluster'[b] = cluster[b]
    BY <1>4, GoodLive
  <2> QED
    BY <1>4, <2>1, StaysGood
<1> QED
  BY <1>1, <1>2, <1>4, <1>5, Settled

LEMMA OtherCursor ==
  ASSUME IInv, CursorInv,
         HeadOwner \/ HeadType \/ DirName \/ DirUpper \/ ZeroUpper \/ ZeroName
  PROVE  CursorInv'
<1>1. work.step \in OtherSteps /\ UNCHANGED <<cluster, fs, redirect>>
  BY DEF HeadOwner, HeadType, DirName, DirUpper, ZeroUpper, ZeroName, OtherSteps
<1>2. work'.step \in OtherSteps \cup {"idle"}
  BY IdleFields DEF HeadOwner, HeadType, DirName, DirUpper, ZeroUpper, ZeroName, OtherSteps,
                    Returns, IInv, TypeOK, Works
<1>3. ASSUME NEW c \in Clusters, Live(c) PROVE table'[c] = table[c]
  <2>1. CASE HeadOwner \/ HeadType
    <3>1. ~ Live(work.slot)
      BY <2>1 DEF HeadOwner, HeadType, IInv, StepOK
    <3>2. c # work.slot
      BY <1>3, <3>1
    <3> QED
      BY <2>1, <3>2 DEF HeadOwner, HeadType, IInv, TypeOK, VolumeOK
  <2>2. CASE DirName \/ DirUpper \/ ZeroUpper \/ ZeroName
    BY <2>2 DEF DirName, DirUpper, ZeroUpper, ZeroName
  <2> QED
    BY <2>1, <2>2
<1> QED
  BY <1>1, <1>2, <1>3, ElsewhereCursor

(* A file that is removed takes none of the other's clusters with it.       *)
LEMMA FreeCursor == ASSUME IInv, CursorInv, FreeOwner \/ FreeType PROVE CursorInv'
<1>1. /\ TypeOK /\ work.step \in FreeSteps /\ UNCHANGED <<cluster, redirect>>
      /\ \A c \in Clusters : c # work.slot => table'[c] = table[c]
  BY DEF FreeOwner, FreeType, FreeSteps, IInv, TypeOK, VolumeOK
<1>2. PICK S, T \in SUBSET Clusters : Apart(S, T)
  BY DEF CursorInv
<1>3. /\ S \cap T = {} /\ Good(T, redirect.cursor, table, cluster) /\ work.slot \in S
      /\ \A c \in S : cluster[c].next # 0 => cluster[c].next \in S
  BY <1>1, <1>2 DEF Apart
<1>4. Good(T, redirect'.cursor, table', cluster')
  <2>1. \A b \in T : table'[b] = table[b] /\ cluster'[b] = cluster[b]
    BY <1>1, <1>3
  <2>2. Good(T, redirect.cursor, table', cluster')
    BY <1>3, <2>1, StaysGood
  <2> QED
    BY <1>1, <2>2
<1>5. /\ ~ redirect.swapped /\ (redirect.on /\ ~ redirect.swapped => redirect.cursor.head # 0)
      /\ ~ redirect.on => redirect.cursor.head = 0
  BY <1>1, StepSets DEF CursorInv, Registers
<1>6. ASSUME work'.step \in FreeSteps, work'.slot \in S PROVE CursorInv'
  <2>1. Apart(S, T)'
    BY <1>1, <1>3, <1>4, <1>6, StepSets DEF Apart, TransferSteps
  <2>2. Registers'
    BY <1>1, <1>5, <1>6, StepSets DEF Registers, TransferSteps
  <2> QED
    BY <2>1, <2>2 DEF CursorInv
<1>7. CASE FreeOwner
  <2>1. work'.step \in FreeSteps /\ work'.slot = work.slot
    BY <1>1, <1>7 DEF FreeOwner, FreeSteps, TypeOK, Works
  <2> QED
    BY <1>3, <1>6, <2>1
<1>8. CASE FreeType
  <2>1. fs.next = cluster[work.slot].next
    BY <1>8 DEF FreeType, IInv, StepOK
  <2>2. CASE fs.next = 0
    <3>1. fs' = Closed /\ work'.step = "idle"
      BY <1>8, <2>2, IdleFields DEF FreeType, Returns
    <3>2. Good({}, fs', table', cluster')
      BY <3>1, ClosedGood
    <3> QED
      BY <1>1, <1>4, <1>5, <3>1, <3>2, StepSets, Settled
  <2>3. CASE fs.next # 0
    <3>1. work'.step \in FreeSteps /\ work'.slot = fs.next
      BY <1>1, <1>8, <2>3 DEF FreeType, FreeSteps, TypeOK, Works
    <3> QED
      BY <1>3, <1>6, <2>1, <2>3, <3>1
  <2> QED
    BY <2>2, <2>3
<1> QED
  BY <1>7, <1>8

LEMMA ResetCursor == ASSUME Reset PROVE CursorInv'
<1>1. /\ fs' = Closed /\ redirect'.cursor = Closed /\ ~ redirect'.on /\ ~ redirect'.swapped
      /\ work'.step = "idle"
  BY IdleFields DEF Reset, Returns
<1>2. Good({}, fs', table', cluster') /\ Good({}, redirect'.cursor, table', cluster')
  BY <1>1, ClosedGood
<1>3. redirect'.cursor.head = 0 /\ {} \in SUBSET Clusters /\ {} \cap {} = {}
  BY <1>1 DEF Closed
<1> QED
  BY <1>1, <1>2, <1>3, StepSets, Settled

LEMMA CursorInit == Init => CursorInv
<1> SUFFICES ASSUME Init PROVE CursorInv
  OBVIOUS
<1>1. /\ fs = Closed /\ redirect.cursor = Closed /\ ~ redirect.on /\ ~ redirect.swapped
      /\ work.step = "idle"
  BY IdleFields DEF Init
<1>2. Good({}, fs, table, cluster) /\ Good({}, redirect.cursor, table, cluster)
  BY <1>1, ClosedGood
<1>3. Apart({}, {})
  BY <1>1, <1>2 DEF Apart, ContSteps, FreeSteps
<1>4. Registers
  BY <1>1 DEF Registers, Closed, TransferSteps, LengthSteps, ContSteps
<1> QED
  BY <1>3, <1>4 DEF CursorInv

LEMMA CursorStep == ~ Shared /\ IInv /\ CursorInv /\ [Next]_vars => CursorInv'
<1> SUFFICES ASSUME ~ Shared, IInv, CursorInv, [Next]_vars PROVE CursorInv'
  OBVIOUS
<1>1. TypeOK /\ ChainsSound
  BY DEF IInv
<1>2. ASSUME TransferDone \/ GrowFull PROVE CursorInv'
  <2>1. work.step = "transfer" /\ \E status : TransferReturns(status)
    BY <1>2 DEF TransferDone, GrowFull, MustGrow
  <2> QED
    BY <1>1, <2>1, ReturnCursor
<1>3. ASSUME Service PROVE CursorInv'
  BY <1>1, <1>2, <1>3, WalkCursor, WriteByteCursor, LengthHiCursor, LengthLoCursor,
     ContHeaderCursor, ContEntryCursor, ContLinkCursor, OtherCursor, FreeCursor DEF Service
<1>4. CASE UNCHANGED vars
  <2>1. UNCHANGED <<table, cluster, fs, redirect, work>>
    BY <1>4 DEF vars
  <2>2. Registers'
    BY <2>1 DEF CursorInv, Registers, AtEnd, Room, Length
  <2>3. PICK S, T \in SUBSET Clusters : Apart(S, T)
    BY DEF CursorInv
  <2>4. Apart(S, T)'
    BY <2>1, <2>3 DEF Apart
  <2> QED
    BY <2>2, <2>4 DEF CursorInv
<1> QED
  BY <1>3, <1>4, CallCursor, ResetCursor DEF Next

LEMMA CursorFresh == CursorInv => CursorsFresh
<1> SUFFICES ASSUME CursorInv PROVE CursorsFresh
  OBVIOUS
<1>1. PICK S, T \in SUBSET Clusters : Apart(S, T)
  BY DEF CursorInv
<1>2. Fresh(redirect.cursor)
  BY <1>1, GoodFresh DEF Apart
<1>3. ASSUME work.step \notin {"length lo", "free owner", "free type"} PROVE Fresh(fs)
  <2>1. Good(S, fs, table, cluster)
    BY <1>1, <1>3 DEF Apart, FreeSteps
  <2> QED
    BY <2>1, GoodFresh
<1> QED
  BY <1>2, <1>3 DEF CursorsFresh

(* As long as programs leave the file alone that the redirection writes,    *)
(* what the descriptor and the redirection remember of the cluster they     *)
(* stand in is what the card holds: on a volume of any size, with any       *)
(* number of files and resets, whatever is written or removed through the   *)
(* other cursor.                                                           *)
THEOREM CursorsAlwaysFresh == ~ Shared /\ Spec => []CursorsFresh
<1>1. Init => IInv /\ CursorInv
  BY InitType, InitSafe, CursorInit DEF IInv
<1>2. ~ Shared /\ IInv /\ CursorInv /\ [Next]_vars => IInv' /\ CursorInv'
  BY TypeStep, SafeStep, CursorStep DEF IInv
<1>3. CursorInv => CursorsFresh
  BY CursorFresh
<1>4. CASE ~ Shared
  <2>1. IInv /\ CursorInv /\ [Next]_vars => IInv' /\ CursorInv'
    BY <1>2, <1>4
  <2> QED
    BY <1>1, <1>3, <2>1, PTL DEF Spec
<1> QED
  BY <1>4
=============================================================================
