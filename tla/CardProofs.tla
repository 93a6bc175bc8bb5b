------------------------------ MODULE CardProofs ------------------------------
(***************************************************************************)
(* Proof that whatever the kernel leaves on a card, a session of the card   *)
(* reader only accepts what it can keep sound: no command, and no abandoned *)
(* session, gives the kernel a card with a broken chain, a stranded entry   *)
(* or an ill-formed record, for cards of every size (SessionSound,          *)
(* NothingUnmarked; TypeOK, ChainsSound and NoneStranded of the whole).     *)
(* Then that what resets leave of a card stays harmless: a chain that was   *)
(* cut off is never touched again (OrphansInert), a file the reader accepts *)
(* is one the kernel opens (KernelOpensAccepted), and a file with a torn    *)
(* length is not taken for a shorter one (WholeFilesKeepBytes).             *)
(***************************************************************************)
EXTENDS Card, FsValidProofs

(* What the reader accepts, without the chains: the links climb to the head *)
(* that owns them.                                                         *)
Chained  == \E o \in [Clusters -> Clusters], p \in [Clusters -> Nat] : Lay(Heads, o, p, table, cluster)
Fitting  == \A c \in Clusters : Live(c) => Length(c) <= Capacity(c)
Distinct ==
  /\ \A d, e \in Dirs : IsDir(d) /\ IsDir(e) /\ dirs[d].upper = dirs[e].upper
                          /\ DirText(d) = DirText(e) => d = e
  /\ \A b, c \in Heads : table[b].dir = table[c].dir /\ FileText(b) = FileText(c) => b = c
  /\ \A b \in Heads, d \in Dirs : IsDir(d) /\ table[b].dir = dirs[d].upper => FileText(b) # DirText(d)
  /\ \A b \in Heads : FileText(b)[1] # 0
Accepted ==
  /\ VolumeOK /\ ChainsSound /\ NoneStranded /\ BlankAtRoot
  /\ Chained /\ Fitting /\ Distinct /\ Nested

(* A cluster and the one it links to are in the same directory, unless the  *)
(* first is in the root and nothing links to it: a head whose removal has   *)
(* begun, or what such a removal has left of a file.                        *)
Agree(t, k) ==
  \A b, c \in Clusters : t[b].used # FREE /\ k[b].next = c =>
    \/ t[c].dir = t[b].dir
    \/ t[b].dir = 0 /\ \A a \in Clusters : t[a].used # FREE => k[a].next # b
OwnersAgree == Agree(table, cluster)
OwnersKept  == OwnersAgree => OwnersAgree'

LEMMA NotZero == \A c \in Clusters : c # 0
BY FormatAssumption DEF Clusters

LEMMA AcceptedValid == ASSUME Accepted, work = Idle PROVE ValidInv
<1>1. work.step = "idle"
  BY IdleFields
<1>2. Roots = Heads
  BY <1>1, Attached
<1>3. Covered
  BY <1>2 DEF Accepted, Chained, Covered
<1>4. LengthsFit
  BY <1>1 DEF Accepted, Fitting, LengthsFit
<1>5. Files = Heads /\ Directories = {d \in Dirs : IsDir(d)}
  BY <1>1 DEF Files, Unnamed, Directories, Unsettled
<1>6. NamesApart
  BY <1>5 DEF Accepted, Distinct, NamesApart
<1>7. Coming
  BY <1>1 DEF Coming
<1> QED
  BY <1>3, <1>4, <1>6, <1>7 DEF Accepted, ValidInv
-----------------------------------------------------------------------------
(* What the reader accepts has these parts.                                 *)

LEMMA ChainsReach ==
  ASSUME VolumeOK, HostValid, NEW c \in Clusters, Live(c)
  PROVE  \E h \in Heads : \E i \in 1 .. Len(ChainOf(h)) : ChainOf(h)[i] = c
<1>1. CASE table[c].used = HEAD
  <2>1. c \in Heads /\ Linked(ChainOf(c), c)
    BY <1>1, ChainLinked DEF Heads
  <2>2. 1 \in 1 .. Len(ChainOf(c)) /\ ChainOf(c)[1] = c
    BY <2>1 DEF Linked
  <2> QED
    BY <2>1, <2>2
<1>2. CASE table[c].used # HEAD
  <2>1. table[c].used = CONT
    BY <1>2 DEF VolumeOK, Entry, Live
  <2> QED
    BY <2>1 DEF HostValid
<1> QED
  BY <1>1, <1>2

(* Where a cluster is: in one chain, and at one place of it.                *)
LEMMA OnePlace ==
  ASSUME VolumeOK, HostValid, NEW h \in Heads, NEW g \in Heads,
         NEW i \in 1 .. Len(ChainOf(h)), NEW j \in 1 .. Len(ChainOf(g)), ChainOf(h)[i] = ChainOf(g)[j]
  PROVE  h = g /\ i = j
<1>1. h = g
  BY DEF HostValid
<1>2. Sound(ChainOf(h))
  BY DEF HostValid
<1> QED
  BY <1>1, <1>2 DEF Sound

LEMMA ChainNext ==
  ASSUME VolumeOK, HostValid, NEW h \in Heads, NEW i \in 1 .. Len(ChainOf(h))
  PROVE  /\ ChainOf(h)[i] \in Clusters /\ Len(ChainOf(h)) \in Nat
         /\ i < Len(ChainOf(h)) => ChainOf(h)[i + 1] = cluster[ChainOf(h)[i]].next
         /\ i = Len(ChainOf(h)) => cluster[ChainOf(h)[i]].next = 0
<1>1. Linked(ChainOf(h), h)
  BY ChainLinked DEF Heads
<1>2. Sound(ChainOf(h))
  BY DEF HostValid
<1>3. ChainOf(h) \in Seq(Clusters)
  BY <1>1 DEF Linked
<1>4. i < Len(ChainOf(h)) => i \in 1 .. Len(ChainOf(h)) - 1
  BY <1>3
<1> QED
  BY <1>1, <1>2, <1>3, <1>4 DEF Linked, Sound

LEMMA AcceptsChains ==
  ASSUME VolumeOK, HostValid PROVE Chained /\ ChainsSound /\ Fitting
<1> DEFINE In(c, h, i) == h \in Heads /\ i \in 1 .. Len(ChainOf(h)) /\ ChainOf(h)[i] = c
           o == [c \in Clusters |-> IF Live(c) THEN CHOOSE h \in Heads : \E i : In(c, h, i) ELSE c]
           p == [c \in Clusters |-> IF Live(c) THEN CHOOSE i \in Nat : \E h : In(c, h, i) ELSE 0]
<1>1. ASSUME NEW c \in Clusters, Live(c) PROVE \E h, i : In(c, h, i)
  BY <1>1, ChainsReach
<1>2. ASSUME NEW c, NEW h, NEW i, NEW g, NEW j, In(c, h, i), In(c, g, j) PROVE h = g /\ i = j
  BY <1>2, OnePlace
<1>3. ASSUME NEW c, NEW h, NEW i, In(c, h, i)
      PROVE  /\ c \in Clusters /\ i \in Nat /\ h \in Clusters
             /\ table[c].used = (IF i = 1 THEN HEAD ELSE CONT) /\ Length(c) <= Capacity(c)
             /\ i # 1 => In(ChainOf(h)[i - 1], h, i - 1) /\ cluster[ChainOf(h)[i - 1]].next = c
             /\ cluster[c].next # 0 => In(cluster[c].next, h, i + 1)
  <2>1. c \in Clusters /\ Len(ChainOf(h)) \in Nat /\ h \in Clusters
    BY <1>3, ChainNext DEF Heads
  <2>2. table[c].used = (IF i = 1 THEN HEAD ELSE CONT) /\ Length(c) <= Capacity(c)
    BY <1>3 DEF HostValid
  <2>3. ASSUME i # 1 PROVE In(ChainOf(h)[i - 1], h, i - 1) /\ cluster[ChainOf(h)[i - 1]].next = c
    <3>1. i - 1 \in 1 .. Len(ChainOf(h)) /\ i - 1 < Len(ChainOf(h)) /\ (i - 1) + 1 = i
      BY <1>3, <2>1, <2>3
    <3>2. ChainOf(h)[(i - 1) + 1] = cluster[ChainOf(h)[i - 1]].next
      BY <1>3, <3>1, ChainNext
    <3> QED
      BY <1>3, <3>1, <3>2
  <2>4. ASSUME cluster[c].next # 0 PROVE In(cluster[c].next, h, i + 1)
    <3>1. i # Len(ChainOf(h))
      BY <1>3, <2>4, ChainNext
    <3>2. i < Len(ChainOf(h)) /\ i + 1 \in 1 .. Len(ChainOf(h))
      BY <1>3, <2>1, <3>1
    <3> QED
      BY <1>3, <3>2, ChainNext
  <2> QED
    BY <1>3, <2>1, <2>2, <2>3, <2>4
<1> HIDE DEF In
<1>4. ASSUME NEW c, NEW h, NEW i, In(c, h, i) PROVE o[c] = h /\ p[c] = i /\ Live(c)
  <2>1. c \in Clusters /\ i \in Nat /\ h \in Heads /\ Live(c)
    <3>1. c \in Clusters /\ i \in Nat /\ table[c].used \in {HEAD, CONT}
      BY <1>3, <1>4
    <3>2. h \in Heads
      BY <1>4 DEF In
    <3> QED
      BY <3>1, <3>2 DEF Live, HEAD, CONT, FREE
  <2>2. (CHOOSE g \in Heads : \E j : In(c, g, j)) = h
    BY <1>2, <1>4, <2>1
  <2>3. (CHOOSE j \in Nat : \E g : In(c, g, j)) = i
    BY <1>2, <1>4, <2>1
  <2> QED
    BY <2>1, <2>2, <2>3
<1>5. o \in [Clusters -> Clusters] /\ p \in [Clusters -> Nat]
  <2>1. ASSUME NEW c \in Clusters, Live(c) PROVE o[c] \in Clusters /\ p[c] \in Nat
    <3>1. PICK h, i : In(c, h, i)
      BY <1>1, <2>1
    <3>2. o[c] = h /\ p[c] = i /\ h \in Clusters /\ i \in Nat
      BY <1>3, <1>4, <3>1
    <3> HIDE DEF o, p
    <3> QED
      BY <3>2
  <2>2. ASSUME NEW c \in Clusters, ~ Live(c) PROVE o[c] \in Clusters /\ p[c] \in Nat
    BY <2>2
  <2> QED
    BY <2>1, <2>2
<1>6. ASSUME NEW c \in Heads PROVE o[c] = c
  <2>1. c \in Clusters /\ table[c].used = HEAD /\ Linked(ChainOf(c), c)
    BY ChainLinked DEF Heads
  <2>2. In(c, c, 1)
    BY <2>1 DEF Linked, In
  <2> QED
    BY <1>4, <2>2
<1>7. ASSUME NEW c \in Clusters, table[c].used = CONT
      PROVE  \E b \in Clusters : table[b].used # FREE /\ cluster[b].next = c /\ o[b] = o[c] /\ p[c] = p[b] + 1
  <2>1. PICK h, i : In(c, h, i)
    BY <1>1, <1>7 DEF Live, CONT, FREE
  <2>2. i # 1 /\ i \in Nat
    BY <1>3, <1>7, <2>1 DEF HEAD, CONT
  <2>3. PICK b : In(b, h, i - 1) /\ cluster[b].next = c
    BY <1>3, <2>1, <2>2
  <2>4. o[b] = h /\ p[b] = i - 1 /\ Live(b)
    BY <1>4, <2>3
  <2>5. o[c] = h /\ p[c] = i
    BY <1>4, <2>1
  <2>6. b \in Clusters
    BY <1>3, <2>3
  <2> HIDE DEF o, p
  <2>7. o[b] = o[c] /\ p[c] = p[b] + 1
    BY <2>2, <2>4, <2>5
  <2> QED
    BY <2>3, <2>4, <2>6, <2>7 DEF Live
<1>8. Chained
  <2>1. Lay(Heads, o, p, table, cluster)
    BY <1>6, <1>7 DEF Lay
  <2> QED
    BY <1>5, <2>1 DEF Chained
<1>9. ChainsSound
  <2>1. ASSUME NEW c \in Clusters, Live(c), cluster[c].next # 0
        PROVE  table[cluster[c].next].used = CONT
    <3>1. PICK h, i : In(c, h, i)
      BY <1>1, <2>1
    <3>2. In(cluster[c].next, h, i + 1)
      BY <1>3, <2>1, <3>1
    <3>3. i + 1 # 1
      BY <3>1, <3>2 DEF In
    <3> QED
      BY <1>3, <3>2, <3>3
  <2>2. ASSUME NEW b \in Clusters, NEW c \in Clusters, Live(b), Live(c),
               cluster[b].next = cluster[c].next, cluster[b].next # 0
        PROVE  b = c
    <3>1. PICK h, i : In(b, h, i)
      BY <1>1, <2>2
    <3>2. PICK g, j : In(c, g, j)
      BY <1>1, <2>2
    <3>3. h = g /\ i + 1 = j + 1 /\ i \in Nat /\ j \in Nat
      BY <1>2, <1>3, <2>2, <3>1, <3>2
    <3> QED
      BY <3>1, <3>2, <3>3 DEF In
  <2> QED
    BY <2>1, <2>2 DEF ChainsSound
<1>10. Fitting
  BY <1>1, <1>3 DEF Fitting
<1> QED
  BY <1>8, <1>9, <1>10

LEMMA AcceptsNames == ASSUME VolumeOK, HostValid PROVE Distinct /\ Nested /\ NoneStranded
<1>1. ASSUME NEW d \in Dirs, NEW e \in Dirs, IsDir(d), IsDir(e),
             dirs[d].upper = dirs[e].upper, DirText(d) = DirText(e)
      PROVE  d = e
  <2>1. dirs[d] \in Record /\ dirs[e] \in Record /\ DIRNAME <= NAME /\ DIRNAME \in Nat /\ NAME \in Nat
    BY FormatAssumption DEF VolumeOK
  <2>2. \A i \in 1 .. DIRNAME : dirs[d].name[i] = dirs[e].name[i]
    <3>1. \A i \in 1 .. DIRNAME : DirText(d)[i] = dirs[d].name[i] /\ DirText(e)[i] = dirs[e].name[i]
      BY <2>1 DEF DirText
    <3> QED
      BY <1>1, <3>1
  <2>3. dirs[d].name = dirs[e].name
    BY <2>1, <2>2 DEF Record, DirNames
  <2>4. dirs[d] = dirs[e]
    BY <1>1, <2>1, <2>3 DEF Record
  <2> QED
    BY <1>1, <2>4 DEF HostValid
<1>2. Distinct
  BY <1>1 DEF Distinct, HostValid
<1>3. Nested
  <2>1. PICK depth \in [Dirs -> Dirs] : \A d \in Dirs :
          IsDir(d) /\ dirs[d].upper # 0 => depth[dirs[d].upper] < depth[d]
    BY DEF HostValid
  <2>2. depth \in [Dirs -> Nat]
    BY <2>1 DEF Dirs
  <2>3. Deeper(depth, dirs)
    BY <2>1 DEF Deeper, IsDir
  <2> QED
    BY <2>2, <2>3 DEF Nested
<1>4. NoneStranded
  BY DEF HostValid, NoneStranded
<1> QED
  BY <1>2, <1>3, <1>4

LEMMA HostAccepts == ASSUME VolumeOK, BlankAtRoot, HostValid PROVE Accepted
BY AcceptsChains, AcceptsNames DEF Accepted
-----------------------------------------------------------------------------
(* Paths.                                                                   *)

(* A function that follows step by step from its first value.               *)
Maps(n, V) == [1 .. n -> [V -> V]]
Iterates(at, n, V, first, g) ==
  at \in [0 .. n -> V] /\ at[0] = first /\ \A i \in 1 .. n : at[i] = g[i][at[i - 1]]

LEMMA StepByStep ==
  ASSUME NEW V, NEW n \in Nat, NEW first \in V, NEW g \in Maps(n, V)
  PROVE  \E at : Iterates(at, n, V, first, g)
<1> DEFINE Goes(m, at) == at[0] = first /\ \A i \in 1 .. m : at[i] = g[i][at[i - 1]]
           T == {m \in 0 .. n : ~ \E at \in [0 .. m -> V] : Goes(m, at)}
<1> USE DEF Maps
<1>1. SUFFICES ASSUME T # {} PROVE FALSE
  BY DEF Iterates
<1>2. PICK m \in T : \A k \in T : m <= k
  <2>1. T \in SUBSET Nat
    OBVIOUS
  <2> HIDE DEF T
  <2> QED
    BY <1>1, <2>1, Least
<1>3. CASE m = 0
  <2>1. [i \in 0 .. 0 |-> first] \in [0 .. 0 -> V] /\ Goes(0, [i \in 0 .. 0 |-> first])
    OBVIOUS
  <2> QED
    BY <1>2, <1>3, <2>1
<1>4. CASE m # 0
  <2>1. m \in Nat /\ m - 1 \in 0 .. n /\ ~ (m <= m - 1) /\ m \in 1 .. n
    BY <1>2, <1>4
  <2>2. PICK before \in [0 .. m - 1 -> V] : Goes(m - 1, before)
    BY <1>2, <2>1
  <2> DEFINE at == [i \in 0 .. m |-> IF i = m THEN g[m][before[m - 1]] ELSE before[i]]
  <2>3. at \in [0 .. m -> V]
    <3>1. before[m - 1] \in V
      BY <2>1
    <3>2. g[m][before[m - 1]] \in V
      BY <2>1, <3>1
    <3>3. \A i \in 0 .. m : i # m => before[i] \in V
      BY <2>1
    <3> QED
      BY <3>2, <3>3
  <2>4. at[0] = first
    BY <1>4, <2>1, <2>2
  <2>5. ASSUME NEW i \in 1 .. m PROVE at[i] = g[i][at[i - 1]]
    <3>1. i - 1 \in 0 .. m /\ i - 1 # m /\ at[i - 1] = before[i - 1]
      BY <2>1
    <3>2. CASE i = m
      BY <2>1, <3>1, <3>2
    <3>3. CASE i # m
      <4>1. i \in 1 .. m - 1
        BY <2>1, <3>3
      <4> QED
        BY <2>2, <3>1, <3>3, <4>1
    <3> QED
      BY <3>2, <3>3
  <2> HIDE DEF at
  <2> QED
    BY <1>2, <2>3, <2>4, <2>5
<1> QED
  BY <1>3, <1>4

(* What a part of a path leads to.                                          *)
Into(up, part) ==
  IF up = NoEntry THEN NoEntry
  ELSE IF part # Above THEN HostChild(part, up)
  ELSE IF up = 0 THEN 0 ELSE dirs[up].upper

Standing(d) == d \in Parents /\ ValidDir(d)

LEMMA RootApart == NoEntry \notin Parents /\ BadName \notin Parents /\ 0 \in Parents /\ Dirs \subseteq Parents
<1>1. D \in Nat
  BY FormatAssumption
<1> QED
  BY <1>1 DEF NoEntry, BadName, Parents, Dirs

LEMMA ChildFound ==
  ASSUME NEW n \in Names, NEW up, Child(up, n) \in Parents
  PROVE  Child(up, n) \in Dirs /\ Matches(Child(up, n), up, n) /\ IsDir(Child(up, n)) /\ NamesDir(n)
<1>1. NamesDir(n) /\ \E d \in Dirs : Matches(d, up, n)
  BY RootApart DEF Child
<1> DEFINE T == {d \in Dirs : Matches(d, up, n)}
<1>2. T \in SUBSET Nat /\ T # {}
  BY <1>1 DEF Dirs
<1>3. \E m \in T : \A e \in T : m <= e
  <2> HIDE DEF T
  <2> QED
    BY <1>2, Least
<1>4. \E d \in Dirs : Matches(d, up, n) /\ \A e \in Dirs : Matches(e, up, n) => d <= e
  BY <1>3
<1>5. Child(up, n) \in Dirs /\ Matches(Child(up, n), up, n)
  BY <1>1, <1>4 DEF Child
<1>6. IsDir(Child(up, n))
  <2>1. n[1] # 0 /\ 1 \in 1 .. DIRNAME
    BY Sizes DEF Names
  <2> QED
    BY <1>5, <2>1 DEF Matches, IsDir
<1> QED
  BY <1>1, <1>5, <1>6

LEMMA NothingMatches ==
  ASSUME NEW n \in Names, NEW up, Child(up, n) \notin Parents, NamesDir(n), NEW d \in Dirs
  PROVE  ~ Matches(d, up, n)
<1>1. SUFFICES ASSUME Matches(d, up, n) PROVE FALSE
  OBVIOUS
<1> DEFINE T == {e \in Dirs : Matches(e, up, n)}
<1>2. T \in SUBSET Nat /\ T # {}
  BY <1>1 DEF Dirs
<1>3. \E m \in T : \A e \in T : m <= e
  <2> HIDE DEF T
  <2> QED
    BY <1>2, Least
<1>4. \E m \in Dirs : Matches(m, up, n) /\ \A e \in Dirs : Matches(e, up, n) => m <= e
  BY <1>3
<1>5. Child(up, n) \in Dirs
  BY <1>1, <1>4 DEF Child
<1> QED
  BY <1>5, RootApart

LEMMA IntoValid ==
  ASSUME VolumeOK, NoneStranded, NEW up \in Parents \cup {NoEntry}, up # NoEntry => ValidDir(up),
         NEW part \in Names \cup Special
  PROVE  Into(up, part) = NoEntry \/ Standing(Into(up, part))
<1>1. CASE up = NoEntry
  BY <1>1 DEF Into
<1>2. CASE up # NoEntry /\ part # Above
  <2>1. CASE HostChild(part, up) = NoEntry
    BY <1>2, <2>1 DEF Into
  <2>2. CASE HostChild(part, up) # NoEntry
    <3>1. part \in Names /\ Child(up, part) \in Parents /\ HostChild(part, up) = Child(up, part)
      BY <2>2 DEF HostChild
    <3>2. IsDir(Child(up, part))
      BY <3>1, ChildFound
    <3> QED
      BY <1>2, <3>1, <3>2 DEF Into, Standing, ValidDir
  <2> QED
    BY <2>1, <2>2
<1>3. CASE up # NoEntry /\ part = Above /\ up = 0
  BY <1>3, RootApart DEF Into, Standing, ValidDir
<1>4. CASE up # NoEntry /\ part = Above /\ up # 0
  <2>1. up \in Dirs /\ IsDir(up)
    <3>1. D \in Nat
      BY FormatAssumption
    <3> QED
      BY <1>4, <3>1 DEF ValidDir, Parents, Dirs
  <2>2. dirs[up].upper \in Parents
    BY <2>1 DEF VolumeOK, Record
  <2>3. ValidDir(dirs[up].upper)
    BY <2>1 DEF NoneStranded
  <2> QED
    BY <1>4, <2>2, <2>3 DEF Into, Standing
<1> QED
  BY <1>1, <1>2, <1>3, <1>4

(* The directories along a path, and on the way up to the root.             *)
Along(path, at) ==
  at = [i \in 0 .. Len(path.parts) |->
          IF i = 0 THEN IF path.absolute THEN 0 ELSE session.current
          ELSE Into(at[i - 1], path.parts[i])]
Parent(d) == IF d = 0 THEN 0 ELSE dirs[d].upper
Climbs(d, at) == at = [k \in 0 .. D |-> IF k = 0 THEN d ELSE Parent(at[k - 1])]

LEMMA DirectoryUnfolds ==
  ASSUME VolumeOK, NoneStranded, Standing(session.current),
         NEW path, path.parts \in Seq(Names \cup Special)
  PROVE  \E at : Along(path, at) /\ Directory(path) = at[Len(path.parts)]
<1> DEFINE n == Len(path.parts)
           first == IF path.absolute THEN 0 ELSE session.current
           V == {NoEntry} \cup {d \in Parents : ValidDir(d)}
           g == [i \in 1 .. n |-> [up \in V |-> Into(up, path.parts[i])]]
<1>1. n \in Nat /\ \A i \in 1 .. n : path.parts[i] \in Names \cup Special
  OBVIOUS
<1>2. first \in V
  BY RootApart DEF Standing, ValidDir
<1>3. ASSUME NEW i \in 1 .. n, NEW up \in V PROVE Into(up, path.parts[i]) \in V
  <2>1. path.parts[i] \in Names \cup Special
    BY <1>1
  <2> HIDE DEF n
  <2> QED
    BY <2>1, IntoValid DEF Standing
<1>4. g \in [1 .. n -> [V -> V]]
  <2> HIDE DEF n, V
  <2> QED
    BY <1>3
<1>5. PICK f \in [0 .. n -> V] : f[0] = first /\ \A i \in 1 .. n : f[i] = g[i][f[i - 1]]
  <2> HIDE DEF g, V, n, first
  <2>1. n \in Nat /\ first \in V /\ g \in Maps(n, V)
    BY <1>1, <1>2, <1>4 DEF Maps
  <2>2. \E f : Iterates(f, n, V, first, g)
    BY <2>1, StepByStep
  <2> QED
    BY <2>2 DEF Iterates
<1>6. f = [i \in 0 .. n |-> IF i = 0 THEN first ELSE Into(f[i - 1], path.parts[i])]
  <2>1. ASSUME NEW i \in 0 .. n
        PROVE  f[i] = IF i = 0 THEN first ELSE Into(f[i - 1], path.parts[i])
    <3>1. CASE i = 0
      BY <1>5, <3>1
    <3>2. CASE i # 0
      <4>1. i \in 1 .. n /\ i - 1 \in 0 .. n
        BY <1>1, <3>2
      <4>2. f[i - 1] \in V
        BY <1>5, <4>1
      <4> HIDE DEF V, n, first
      <4>3. f[i] = g[i][f[i - 1]]
        BY <1>5, <4>1
      <4> QED
        BY <3>2, <4>1, <4>2, <4>3
    <3> QED
      BY <3>1, <3>2
  <2> HIDE DEF n, V, first
  <2> QED
    BY <1>5, <2>1
<1> DEFINE at == CHOOSE x : x = [i \in 0 .. n |-> IF i = 0 THEN first ELSE Into(x[i - 1], path.parts[i])]
<1>7. at = [i \in 0 .. n |-> IF i = 0 THEN first ELSE Into(at[i - 1], path.parts[i])]
  <2> HIDE DEF n, first
  <2> QED
    BY <1>6
<1>8. Directory(path) = at[n]
  BY DEF Directory, Into
<1>9. Along(path, at)
  BY <1>7 DEF Along
<1> HIDE DEF at
<1> QED
  BY <1>8, <1>9

LEMMA DirectoryValid ==
  ASSUME VolumeOK, NoneStranded, Standing(session.current),
         NEW path, path.parts \in Seq(Names \cup Special)
  PROVE  Directory(path) = NoEntry \/ Standing(Directory(path))
<1> DEFINE n == Len(path.parts)
           Sane(d) == d = NoEntry \/ Standing(d)
<1>1. n \in Nat /\ \A i \in 1 .. n : path.parts[i] \in Names \cup Special
  OBVIOUS
<1>2. PICK at : Along(path, at) /\ Directory(path) = at[n]
  BY DirectoryUnfolds
<1> DEFINE T == {i \in 0 .. n : ~ Sane(at[i])}
<1>3. SUFFICES ASSUME T # {} PROVE FALSE
  BY <1>1, <1>2
<1>4. PICK i \in T : \A m \in T : i <= m
  <2>1. T \in SUBSET Nat
    OBVIOUS
  <2> HIDE DEF T
  <2> QED
    BY <1>3, <2>1, Least
<1>5. i \in 0 .. n /\ ~ Sane(at[i])
  BY <1>4
<1>6. at[i] = IF i = 0 THEN IF path.absolute THEN 0 ELSE session.current
              ELSE Into(at[i - 1], path.parts[i])
  BY <1>2, <1>5 DEF Along
<1>7. CASE i = 0
  BY <1>5, <1>6, <1>7, RootApart DEF Standing, ValidDir
<1>8. CASE i # 0
  <2>1. i - 1 \in 0 .. n /\ ~ (i <= i - 1) /\ i \in 1 .. n
    BY <1>1, <1>5, <1>8
  <2>2. Sane(at[i - 1])
    BY <1>4, <2>1
  <2>3. path.parts[i] \in Names \cup Special
    BY <1>1, <2>1
  <2> HIDE DEF n
  <2>4. Sane(Into(at[i - 1], path.parts[i]))
    BY <2>2, <2>3, IntoValid DEF Standing
  <2> QED
    BY <1>5, <1>6, <1>8, <2>4
<1> QED
  BY <1>7, <1>8

LEMMA ParentValid ==
  ASSUME VolumeOK, NoneStranded, Standing(session.current), NEW path \in HostPaths
  PROVE  /\ ParentOf(path) = NoEntry \/ Standing(ParentOf(path))
         /\ ParentOf(path) # NoEntry => LastOf(path) \in Names \cup Special
         /\ Directory(path) = NoEntry \/ Standing(Directory(path))
<1>1. path \in [absolute : BOOLEAN, parts : Seq(Names \cup Special)]
  BY HostAssumption
<1>2. path.parts \in Seq(Names \cup Special)
  BY <1>1
<1>3. Directory(path) = NoEntry \/ Standing(Directory(path))
  BY <1>2, DirectoryValid
<1>4. CASE path.parts = <<>>
  BY <1>3, <1>4 DEF ParentOf
<1>5. CASE path.parts # <<>>
  <2> DEFINE S == Names \cup Special
  <2> HIDE DEF S
  <2>1. Front(path.parts) \in Seq(S) /\ Last(path.parts) \in S
    BY <1>2, <1>5 DEF Front, Last, S
  <2>2. [path EXCEPT !.parts = Front(@)].parts = Front(path.parts)
    BY <1>1
  <2>3. Directory([path EXCEPT !.parts = Front(@)]) = NoEntry
        \/ Standing(Directory([path EXCEPT !.parts = Front(@)]))
    BY <2>1, <2>2, DirectoryValid DEF S
  <2> QED
    BY <1>3, <1>5, <2>1, <2>3 DEF ParentOf, LastOf, S
<1> QED
  BY <1>4, <1>5
-----------------------------------------------------------------------------
(* The way up to the root.                                                  *)

LEMMA UpwardUnfolds ==
  ASSUME VolumeOK, NEW d \in Parents
  PROVE  \E at : Climbs(d, at) /\ Upward(d) = {at[k] : k \in 0 .. D} \ {0}
<1> DEFINE g == [k \in 1 .. D |-> [e \in Parents |-> Parent(e)]]
<1>1. D \in Nat
  BY FormatAssumption
<1>2. ASSUME NEW e \in Parents PROVE Parent(e) \in Parents
  BY <1>1, <1>2, RootApart DEF Parent, Parents, Dirs, VolumeOK, Record
<1>3. g \in Maps(D, Parents)
  BY <1>2 DEF Maps
<1>4. PICK f : Iterates(f, D, Parents, d, g)
  <2> HIDE DEF g
  <2> QED
    BY <1>1, <1>3, StepByStep
<1>5. Climbs(d, f)
  <2>1. f \in [0 .. D -> Parents] /\ f[0] = d /\ \A k \in 1 .. D : f[k] = g[k][f[k - 1]]
    BY <1>4 DEF Iterates
  <2>2. ASSUME NEW k \in 0 .. D PROVE f[k] = IF k = 0 THEN d ELSE Parent(f[k - 1])
    <3>1. CASE k = 0
      BY <2>1, <3>1
    <3>2. CASE k # 0
      <4>1. k \in 1 .. D /\ k - 1 \in 0 .. D
        BY <1>1, <3>2
      <4>2. f[k] = g[k][f[k - 1]] /\ f[k - 1] \in Parents
        BY <2>1, <4>1
      <4> QED
        BY <3>2, <4>1, <4>2
    <3> QED
      BY <3>1, <3>2
  <2> QED
    BY <2>1, <2>2 DEF Climbs
<1> DEFINE at == CHOOSE x : x = [k \in 0 .. D |-> IF k = 0 THEN d ELSE IF x[k - 1] = 0 THEN 0 ELSE dirs[x[k - 1]].upper]
<1>6. at = [k \in 0 .. D |-> IF k = 0 THEN d ELSE IF at[k - 1] = 0 THEN 0 ELSE dirs[at[k - 1]].upper]
  BY <1>5 DEF Climbs, Parent
<1>7. Upward(d) = {at[k] : k \in 0 .. D} \ {0}
  BY DEF Upward
<1>8. Climbs(d, at)
  BY <1>6 DEF Climbs, Parent
<1> HIDE DEF at
<1> QED
  BY <1>7, <1>8

(* The way up is shorter than there are directories.                        *)
LEMMA ClimbEnds ==
  ASSUME VolumeOK, NoneStranded, NEW depth \in [Dirs -> Dirs],
         \A d \in Dirs : IsDir(d) /\ dirs[d].upper # 0 => depth[dirs[d].upper] < depth[d],
         NEW d \in Parents, ValidDir(d), NEW at, Climbs(d, at), NEW k \in 0 .. D
  PROVE  at[k] = 0 \/ (at[k] \in Dirs /\ IsDir(at[k]) /\ k < D)
<1> DEFINE Sane(i) == at[i] = 0 \/ ( /\ d \in Dirs /\ at[i] \in Dirs /\ IsDir(at[i])
                                     /\ depth[at[i]] + i <= depth[d])
           T == {i \in 0 .. D : ~ Sane(i)}
<1>1. D \in Nat /\ \A e \in Parents : e # 0 => e \in Dirs
  BY FormatAssumption DEF Parents, Dirs
<1>2. depth \in [Dirs -> Nat] /\ \A e \in Dirs : depth[e] <= D /\ depth[e] # 0
  BY <1>1 DEF Dirs
<1>3. T = {}
  <2>1. SUFFICES ASSUME T # {} PROVE FALSE
    OBVIOUS
  <2>2. PICK i \in T : \A m \in T : i <= m
    <3>1. T \in SUBSET Nat
      OBVIOUS
    <3> HIDE DEF T
    <3> QED
      BY <2>1, <3>1, Least
  <2>3. i \in 0 .. D /\ ~ Sane(i)
    BY <2>2
  <2>4. at[i] = IF i = 0 THEN d ELSE Parent(at[i - 1])
    BY <2>3 DEF Climbs
  <2>5. CASE i = 0
    <3>1. at[i] = d
      BY <2>4, <2>5
    <3>2. CASE d = 0
      BY <2>3, <3>1, <3>2
    <3>3. CASE d # 0
      <4>1. d \in Dirs /\ IsDir(d)
        BY <1>1, <3>3 DEF ValidDir
      <4>2. depth[d] + 0 <= depth[d]
        BY <1>2, <4>1
      <4> QED
        BY <2>3, <2>5, <3>1, <4>1, <4>2
    <3> QED
      BY <3>2, <3>3
  <2>6. CASE i # 0
    <3>1. i - 1 \in 0 .. D /\ ~ (i <= i - 1) /\ i \in Nat
      BY <1>1, <2>3, <2>6
    <3>2. Sane(i - 1)
      BY <2>2, <3>1
    <3>3. at[i - 1] # 0 /\ at[i] # 0 /\ at[i] = dirs[at[i - 1]].upper
      BY <2>3, <2>4, <2>6 DEF Parent
    <3>4. /\ d \in Dirs /\ at[i - 1] \in Dirs /\ IsDir(at[i - 1])
          /\ depth[at[i - 1]] + (i - 1) <= depth[d]
      BY <3>2, <3>3
    <3>5. at[i] \in Parents /\ ValidDir(at[i])
      BY <3>3, <3>4 DEF VolumeOK, Record, NoneStranded
    <3>6. at[i] \in Dirs /\ IsDir(at[i])
      BY <1>1, <3>3, <3>5 DEF ValidDir
    <3>7. depth[at[i]] < depth[at[i - 1]]
      BY <3>3, <3>4
    <3>8. depth[at[i]] \in Nat /\ depth[at[i - 1]] \in Nat /\ depth[d] \in Nat
      BY <1>2, <3>4, <3>6
    <3>9. depth[at[i]] + i <= depth[d]
      BY <3>1, <3>4, <3>7, <3>8
    <3> QED
      BY <2>3, <3>4, <3>6, <3>9
  <2> QED
    BY <2>5, <2>6
<1>4. Sane(k)
  BY <1>3
<1>5. ASSUME at[k] # 0 PROVE k < D
  <2>1. depth[at[k]] + k <= depth[d] /\ depth[d] <= D /\ depth[at[k]] # 0
        /\ depth[at[k]] \in Nat /\ depth[d] \in Nat
    BY <1>2, <1>4, <1>5
  <2> QED
    BY <1>1, <2>1
<1> QED
  BY <1>4, <1>5

(* What is above the directory a directory is in is above the directory.    *)
LEMMA UpwardClimbs ==
  ASSUME TypeOK, NoneStranded, Nested, NEW e \in Dirs, IsDir(e), NEW d \in Upward(dirs[e].upper)
  PROVE  d \in Upward(e)
<1> DEFINE u == dirs[e].upper
<1>1. VolumeOK /\ u \in Parents /\ ValidDir(u) /\ e \in Parents /\ e # 0 /\ D \in Nat
  BY FormatAssumption, RootApart DEF TypeOK, VolumeOK, Record, NoneStranded, Dirs
<1>2. PICK at : Climbs(u, at) /\ Upward(u) = {at[k] : k \in 0 .. D} \ {0}
  BY <1>1, UpwardUnfolds
<1>3. PICK bt : Climbs(e, bt) /\ Upward(e) = {bt[k] : k \in 0 .. D} \ {0}
  BY <1>1, UpwardUnfolds
<1> HIDE DEF u
<1>4. \A k \in 0 .. D : at[k] = IF k = 0 THEN u ELSE Parent(at[k - 1])
  BY <1>2 DEF Climbs
<1>5. \A k \in 0 .. D : bt[k] = IF k = 0 THEN e ELSE Parent(bt[k - 1])
  BY <1>3 DEF Climbs
<1> DEFINE T == {k \in 0 .. D - 1 : bt[k + 1] # at[k]}
<1>6. T = {}
  <2>1. SUFFICES ASSUME T # {} PROVE FALSE
    OBVIOUS
  <2>2. PICK k \in T : \A m \in T : k <= m
    <3>1. T \in SUBSET Nat
      BY <1>1
    <3> HIDE DEF T
    <3> QED
      BY <2>1, <3>1, Least
  <2>3. k \in 0 .. D /\ k \in Nat /\ k + 1 \in 0 .. D /\ k + 1 # 0 /\ (k + 1) - 1 = k /\ bt[k + 1] # at[k]
    BY <1>1, <2>2
  <2>4. bt[k + 1] = Parent(bt[k])
    BY <1>5, <2>3
  <2>5. CASE k = 0
    <3>1. bt[k] = e /\ at[k] = u
      BY <1>4, <1>5, <2>3, <2>5
    <3> QED
      BY <1>1, <2>3, <2>4, <3>1 DEF Parent, u
  <2>6. CASE k # 0
    <3>1. k - 1 \in 0 .. D - 1 /\ ~ (k <= k - 1) /\ (k - 1) + 1 = k
      BY <1>1, <2>2, <2>6
    <3>2. bt[k] = at[k - 1]
      BY <2>2, <3>1
    <3>3. at[k] = Parent(at[k - 1])
      BY <1>4, <2>3, <2>6
    <3> QED
      BY <2>3, <2>4, <3>2, <3>3
  <2> QED
    BY <2>5, <2>6
<1>7. PICK k \in 0 .. D : d = at[k] /\ d # 0
  BY <1>2 DEF u
<1>8. k < D
  <2>1. PICK depth \in [Dirs -> Dirs] : \A x \in Dirs :
          IsDir(x) /\ dirs[x].upper # 0 => depth[dirs[x].upper] < depth[x]
    BY RanksNest
  <2> QED
    BY <1>1, <1>2, <1>7, <2>1, ClimbEnds
<1>9. k \in 0 .. D - 1 /\ k + 1 \in 0 .. D
  BY <1>1, <1>8
<1>10. d = bt[k + 1]
  BY <1>6, <1>7, <1>9
<1> QED
  BY <1>3, <1>7, <1>9, <1>10
-----------------------------------------------------------------------------
(* Chains that are rewritten.                                               *)

(* The clusters of the files whose heads are H.                             *)
Of(H, o) == {c \in Clusters : Live(c) /\ o[c] \in H}

(* The files of H give way to one with the clusters S, in the order q, if   *)
(* there are any; nothing else changes.                                    *)
Replaces(H, o, S, head, q, t, k) ==
  /\ H \subseteq Heads /\ S \subseteq Clusters /\ \A c \in S : Live(c) => o[c] \in H
  /\ \A c \in Clusters \ (S \cup Of(H, o)) : t[c] = table[c] /\ k[c] = cluster[c]
  /\ \A c \in Of(H, o) \ S : t[c].used = FREE
  /\ \A c \in S : /\ t[c].used = IF c = head THEN HEAD ELSE CONT
                  /\ k[c].next # 0 => k[c].next \in S \ {head} /\ q[k[c].next] = q[c] + 1
                  /\ q[c] \in Nat /\ (c # head => \E b \in S : k[b].next = c)
  /\ \A b, c \in S : q[b] = q[c] => b = c

LEMMA ReplacedChains ==
  ASSUME TypeOK, ChainsSound, NEW o \in [Clusters -> Clusters], NEW p \in [Clusters -> Nat],
         Lay(Heads, o, p, table, cluster), NEW H, NEW S, NEW head \in Clusters, NEW q,
         Replaces(H, o, S, head, q, table', cluster')
  PROVE  Chained' /\ ChainsSound'
<1> DEFINE o2 == [c \in Clusters |-> IF c \in S THEN head ELSE o[c]]
           p2 == [c \in Clusters |-> IF c \in S THEN q[c] ELSE p[c]]
<1>1. ASSUME NEW c \in Clusters, c \notin S, table'[c].used # FREE
      PROVE  table'[c] = table[c] /\ cluster'[c] = cluster[c] /\ Live(c) /\ o[c] \notin H
  BY <1>1 DEF Replaces, Of, Live
<1>2. ASSUME NEW c \in Clusters, c \notin S, Live(c), o[c] \notin H
      PROVE  table'[c] = table[c] /\ cluster'[c] = cluster[c]
  BY <1>2 DEF Replaces, Of
<1>3. ASSUME NEW b \in Clusters, b \notin S, table'[b].used # FREE, cluster'[b].next # 0
      PROVE  /\ cluster'[b].next = cluster[b].next /\ cluster[b].next \notin S
             /\ table'[cluster[b].next].used = CONT /\ Live(b)
  <2>1. cluster'[b] = cluster[b] /\ Live(b) /\ o[b] \notin H
    BY <1>1, <1>3
  <2> DEFINE c == cluster[b].next
  <2>2. c \in Clusters /\ table[c].used = CONT /\ Live(c) /\ o[c] = o[b]
    BY <1>3, <2>1, LinkOwned
  <2>3. c \notin S
    BY <2>1, <2>2 DEF Replaces
  <2>4. table'[c] = table[c]
    BY <1>2, <2>1, <2>2, <2>3
  <2> QED
    BY <2>1, <2>2, <2>3, <2>4
<1>4. ASSUME NEW c \in Heads' PROVE o2[c] = c
  <2>1. c \in Clusters /\ table'[c].used = HEAD
    BY DEF Heads
  <2>2. CASE c \in S
    <3>1. c = head
      BY <2>1, <2>2 DEF Replaces, HEAD, CONT
    <3> QED
      BY <2>1, <2>2, <3>1
  <2>3. CASE c \notin S
    <3>1. table[c].used = HEAD
      BY <1>1, <2>1, <2>3 DEF HEAD, FREE
    <3>2. o[c] = c
      BY <2>1, <3>1 DEF Heads, Lay
    <3> QED
      BY <2>1, <2>3, <3>2
  <2> QED
    BY <2>2, <2>3
<1>5. ASSUME NEW c \in Clusters, table'[c].used = CONT, c \notin Heads'
      PROVE  \E b \in Clusters : table'[b].used # FREE /\ cluster'[b].next = c /\ o2[b] = o2[c]
                                 /\ p2[c] = p2[b] + 1
  <2>1. CASE c \in S
    <3>1. c # head
      BY <1>5, <2>1 DEF Replaces, HEAD, CONT
    <3>2. PICK b \in S : cluster'[b].next = c
      BY <2>1, <3>1 DEF Replaces
    <3>3. c # 0 /\ b \in Clusters
      BY FormatAssumption DEF Replaces, Clusters
    <3>4. q[c] = q[b] + 1 /\ table'[b].used \in {HEAD, CONT}
      BY <3>2, <3>3 DEF Replaces
    <3>5. table'[b].used # FREE
      BY <3>4 DEF HEAD, CONT, FREE
    <3> QED
      BY <2>1, <3>2, <3>3, <3>4, <3>5
  <2>2. CASE c \notin S
    <3>1. table[c].used = CONT /\ o[c] \notin H
      BY <1>1, <1>5, <2>2 DEF CONT, FREE
    <3>2. c \notin Heads
      BY <3>1 DEF Heads, HEAD, CONT
    <3>3. PICK b \in Clusters : /\ table[b].used # FREE /\ cluster[b].next = c
                                /\ o[b] = o[c] /\ p[c] = p[b] + 1
      BY <3>1, <3>2 DEF Lay
    <3>4. b \notin S
      BY <3>1, <3>3 DEF Replaces, Live
    <3>5. table'[b] = table[b] /\ cluster'[b] = cluster[b]
      BY <1>2, <3>1, <3>3, <3>4 DEF Live
    <3> QED
      BY <2>2, <3>3, <3>4, <3>5
  <2> QED
    BY <2>1, <2>2
<1>6. o2 \in [Clusters -> Clusters] /\ p2 \in [Clusters -> Nat]
  BY DEF Replaces
<1> HIDE DEF o2, p2
<1>7. Chained'
  <2>1. Lay(Heads', o2, p2, table', cluster')
    BY <1>4, <1>5 DEF Lay
  <2> QED
    BY <1>6, <2>1 DEF Chained
<1>8. ASSUME NEW b \in S, cluster'[b].next # 0
      PROVE  /\ cluster'[b].next \in S /\ table'[cluster'[b].next].used = CONT
             /\ q[cluster'[b].next] = q[b] + 1 /\ q[b] \in Nat
  BY <1>8 DEF Replaces
<1>9. ChainsSound'
  <2>1. ASSUME NEW c \in Clusters, Live(c)', cluster'[c].next # 0
        PROVE  table'[cluster'[c].next].used = CONT
    BY <1>3, <1>8, <2>1 DEF Live
  <2>2. ASSUME NEW b \in Clusters, NEW c \in Clusters, Live(b)', Live(c)',
               cluster'[b].next = cluster'[c].next, cluster'[b].next # 0
        PROVE  b = c
    <3>1. CASE b \in S /\ c \in S
      <4>1. q[b] + 1 = q[c] + 1 /\ q[b] \in Nat /\ q[c] \in Nat
        BY <1>8, <2>2, <3>1
      <4>2. q[b] = q[c]
        BY <4>1
      <4> QED
        BY <3>1, <4>2 DEF Replaces
    <3>2. CASE b \in S /\ c \notin S
      BY <1>3, <1>8, <2>2, <3>2 DEF Live
    <3>3. CASE b \notin S /\ c \in S
      BY <1>3, <1>8, <2>2, <3>3 DEF Live
    <3>4. CASE b \notin S /\ c \notin S
      <4>1. /\ cluster'[b].next = cluster[b].next /\ cluster'[c].next = cluster[c].next
            /\ Live(b) /\ Live(c)
        BY <1>3, <2>2, <3>4 DEF Live
      <4> QED
        BY <2>2, <4>1 DEF ChainsSound
    <3> QED
      BY <3>1, <3>2, <3>3, <3>4
  <2> QED
    BY <2>1, <2>2 DEF ChainsSound
<1> QED
  BY <1>7, <1>9

(* The clusters of a file are those of its chain.                           *)
LEMMA ChainSet ==
  ASSUME TypeOK, ChainsSound, NEW o, NEW p \in [Clusters -> Nat],
         Lay(Heads, o, p, table, cluster), NEW h \in Heads
  PROVE  ToSet(ChainOf(h)) = Of({h}, o)
<1>1. h \in Clusters /\ Linked(ChainOf(h), h)
  BY ChainLinked DEF TypeOK, Heads
<1>2. ChainOf(h) \in Seq(Clusters) /\ ToSet(ChainOf(h)) = {ChainOf(h)[i] : i \in 1 .. Len(ChainOf(h))}
  BY <1>1 DEF ToSet, Linked
<1>3. ASSUME NEW i \in 1 .. Len(ChainOf(h)) PROVE ChainOf(h)[i] \in Of({h}, o)
  <2>1. ChainOf(h)[i] \in Clusters
    BY <1>2
  <2>2. o[ChainOf(h)[i]] = h /\ table[ChainOf(h)[i]].used \in {HEAD, CONT}
    BY ChainOwned
  <2> QED
    BY <2>1, <2>2 DEF Of, Live, HEAD, CONT, FREE
<1>4. ASSUME NEW c \in Of({h}, o) PROVE \E i \in 1 .. Len(ChainOf(h)) : ChainOf(h)[i] = c
  <2>1. c \in Clusters /\ Live(c) /\ o[c] = h
    BY DEF Of
  <2>2. CASE table[c].used = HEAD
    <3>1. c = h
      BY <2>1, <2>2 DEF Lay, Heads
    <3> QED
      BY <1>1, <3>1 DEF Linked
  <2>3. CASE table[c].used # HEAD
    <3>1. table[c].used = CONT
      BY <2>1, <2>3 DEF TypeOK, VolumeOK, Entry, Live
    <3>2. PICK g \in Heads : \E i \in 1 .. Len(ChainOf(g)) : ChainOf(g)[i] = c
      BY <2>1, <3>1, AllReached
    <3>3. o[c] = g
      BY <3>2, ChainOwned
    <3> QED
      BY <2>1, <3>2, <3>3
  <2> QED
    BY <2>2, <2>3
<1> QED
  BY <1>2, <1>3, <1>4

(* Clusters that are rewritten for one directory agree, and so do the rest. *)
LEMMA ReplacedAgrees ==
  ASSUME ChainsSound', OwnersAgree, NEW o, NEW H, NEW S, NEW head, NEW q,
         Replaces(H, o, S, head, q, table', cluster'),
         \A b, c \in S : table'[b].dir = table'[c].dir
  PROVE  OwnersAgree'
<1>1. ASSUME NEW b \in Clusters \ S, table'[b].used # FREE
      PROVE  b \notin Of(H, o) /\ table'[b] = table[b] /\ cluster'[b] = cluster[b] /\ Live(b)
  <2>1. b \notin Of(H, o)
    BY <1>1 DEF Replaces
  <2>2. table'[b] = table[b] /\ cluster'[b] = cluster[b]
    BY <1>1, <2>1 DEF Replaces
  <2> QED
    BY <1>1, <2>1, <2>2 DEF Live
<1>2. ASSUME NEW b \in Clusters \ S, table'[b].used # FREE, NEW c \in Clusters, cluster'[b].next = c
      PROVE  c \notin S /\ c \notin Of(H, o)
  <2>1. table'[c].used = CONT
    BY <1>2, NotZero DEF ChainsSound, Live
  <2>2. c \notin S
    <3> SUFFICES ASSUME c \in S PROVE FALSE
      OBVIOUS
    <3>1. table'[c].used = IF c = head THEN HEAD ELSE CONT
      BY DEF Replaces
    <3>2. c # head
      BY <2>1, <3>1 DEF HEAD, CONT
    <3>3. PICK a \in S : cluster'[a].next = c
      BY <3>2 DEF Replaces
    <3>4. a \in Clusters /\ table'[a].used # FREE
      BY DEF Replaces, HEAD, CONT, FREE
    <3>5. a = b
      BY <1>2, <3>3, <3>4, NotZero DEF ChainsSound, Live
    <3> QED
      BY <3>5
  <2> QED
    BY <2>1, <2>2 DEF Replaces, CONT, FREE
<1>3. ASSUME NEW a \in S, cluster'[a].next # 0 PROVE cluster'[a].next \in S
  BY <1>3 DEF Replaces
<1> SUFFICES ASSUME NEW b \in Clusters, NEW c \in Clusters, table'[b].used # FREE, cluster'[b].next = c
             PROVE  \/ table'[c].dir = table'[b].dir
                    \/ /\ table'[b].dir = 0
                       /\ \A a \in Clusters : table'[a].used # FREE => cluster'[a].next # b
  BY DEF OwnersAgree, Agree
<1>4. CASE b \in S
  BY <1>3, <1>4, NotZero
<1>5. CASE b \notin S
  <2>1. table'[b] = table[b] /\ cluster'[b] = cluster[b] /\ Live(b)
    BY <1>1, <1>5
  <2>2. table'[c] = table[c]
    <3>1. c \notin S /\ c \notin Of(H, o)
      BY <1>2, <1>5
    <3> QED
      BY <3>1 DEF Replaces
  <2>3. CASE table[c].dir = table[b].dir
    BY <2>1, <2>2, <2>3
  <2>4. CASE table[b].dir = 0 /\ \A a \in Clusters : table[a].used # FREE => cluster[a].next # b
    <3>1. ASSUME NEW a \in Clusters, table'[a].used # FREE, cluster'[a].next = b PROVE FALSE
      <4>1. CASE a \in S
        BY <1>3, <1>5, <3>1, <4>1, NotZero
      <4>2. CASE a \notin S
        BY <1>1, <2>4, <3>1, <4>2 DEF Live
      <4> QED
        BY <4>1, <4>2
    <3> QED
      BY <2>1, <2>4, <3>1
  <2> QED
    BY <2>1, <2>3, <2>4 DEF OwnersAgree, Agree, Live
<1> QED
  BY <1>4, <1>5

(* A name that is to be had in a directory, or is the name of a file of H.   *)
Spare(H, up, name) ==
  /\ name[1] # 0
  /\ \A c \in Heads \ H : ~ (table[c].dir = up /\ FileText(c) = name)
  /\ \A d \in Dirs : IsDir(d) /\ dirs[d].upper = up => DirText(d) # name

LEMMA ReplacedAccepted ==
  ASSUME TypeOK, Accepted, VolumeOK', NoneStranded', BlankAtRoot',
         NEW o \in [Clusters -> Clusters], NEW p \in [Clusters -> Nat],
         Lay(Heads, o, p, table, cluster), NEW H, NEW S, NEW head \in Clusters, NEW q,
         Replaces(H, o, S, head, q, table', cluster'),
         \A d \in Dirs : IsDir(d)' => dirs'[d] = dirs[d],
         \A c \in S : Length(c)' <= Capacity(c)',
         \A b, c \in S : table'[b].dir = table'[c].dir,
         head \in S => Spare(H, table'[head].dir, FileText(head)')
  PROVE  Accepted' /\ OwnersKept
<1>1. Chained' /\ ChainsSound'
  BY ReplacedChains DEF Accepted
<1>2. ASSUME NEW c \in Clusters, c \notin S, table'[c].used # FREE
      PROVE  table'[c] = table[c] /\ cluster'[c] = cluster[c] /\ Live(c) /\ o[c] \notin H
  BY <1>2 DEF Replaces, Of, Live
<1>3. Fitting'
  <2>1. ASSUME NEW c \in Clusters, Live(c)', c \notin S PROVE Length(c)' <= Capacity(c)'
    <3>1. table'[c] = table[c] /\ cluster'[c] = cluster[c] /\ Live(c)
      BY <1>2, <2>1 DEF Live
    <3>2. Length(c) <= Capacity(c)
      BY <3>1 DEF Accepted, Fitting
    <3>3. Length(c)' = Length(c) /\ Capacity(c)' = Capacity(c)
      BY <3>1 DEF Length, Capacity
    <3> QED
      BY <3>2, <3>3
  <2> QED
    BY <2>1 DEF Fitting
<1>4. ASSUME NEW d \in Dirs, IsDir(d)'
      PROVE  IsDir(d) /\ dirs'[d] = dirs[d] /\ DirText(d)' = DirText(d)
  BY <1>4 DEF IsDir, DirText
<1>5. ASSUME NEW c \in Heads', c # head
      PROVE  /\ c \in Heads \ H /\ table'[c] = table[c] /\ FileText(c)' = FileText(c)
  <2>1. c \in Clusters /\ table'[c].used = HEAD
    BY DEF Heads
  <2>2. c \notin S
    BY <1>5, <2>1 DEF Replaces, HEAD, CONT
  <2>3. table'[c] = table[c] /\ cluster'[c] = cluster[c] /\ o[c] \notin H
    BY <1>2, <2>1, <2>2 DEF HEAD, FREE
  <2>4. c \in Heads /\ o[c] = c
    BY <2>1, <2>3 DEF Heads, Lay
  <2> QED
    BY <2>3, <2>4 DEF FileText
<1>6. ASSUME head \in Heads', head \notin S
      PROVE  head \in Heads /\ table'[head] = table[head] /\ FileText(head)' = FileText(head)
  <2>1. table'[head].used = HEAD
    BY <1>6 DEF Heads
  <2>2. table'[head] = table[head] /\ cluster'[head] = cluster[head]
    BY <1>2, <1>6, <2>1 DEF HEAD, FREE
  <2> QED
    BY <2>1, <2>2 DEF Heads, FileText
<1>7. Distinct'
  <2>1. ASSUME NEW d \in Dirs, NEW e \in Dirs, IsDir(d)', IsDir(e)', dirs'[d].upper = dirs'[e].upper,
               DirText(d)' = DirText(e)'
        PROVE  d = e
    BY <1>4, <2>1 DEF Accepted, Distinct
  <2>2. ASSUME NEW b \in Heads', NEW c \in Heads', table'[b].dir = table'[c].dir,
               FileText(b)' = FileText(c)', b # head
        PROVE  b = c
    <3>1. CASE c # head \/ head \notin S
      BY <1>5, <1>6, <2>2, <3>1 DEF Accepted, Distinct
    <3>2. CASE c = head /\ head \in S
      BY <1>5, <2>2, <3>2 DEF Spare
    <3> QED
      BY <3>1, <3>2
  <2>3. \A b, c \in Heads' : table'[b].dir = table'[c].dir /\ FileText(b)' = FileText(c)' => b = c
    BY <2>2
  <2>4. ASSUME NEW b \in Heads', NEW d \in Dirs, IsDir(d)', table'[b].dir = dirs'[d].upper
        PROVE  FileText(b)' # DirText(d)'
    <3>1. CASE b # head \/ head \notin S
      BY <1>4, <1>5, <1>6, <2>4, <3>1 DEF Accepted, Distinct
    <3>2. CASE b = head /\ head \in S
      BY <1>4, <2>4, <3>2 DEF Spare
    <3> QED
      BY <3>1, <3>2
  <2>5. ASSUME NEW b \in Heads' PROVE FileText(b)'[1] # 0
    <3>1. CASE b # head \/ head \notin S
      BY <1>5, <1>6, <3>1 DEF Accepted, Distinct
    <3>2. CASE b = head /\ head \in S
      BY <3>2 DEF Spare
    <3> QED
      BY <3>1, <3>2
  <2> QED
    BY <2>1, <2>3, <2>4, <2>5 DEF Distinct
<1>8. Nested'
  <2>1. PICK depth \in [Dirs -> Nat] : Deeper(depth, dirs)
    BY DEF Accepted, Nested
  <2>2. Deeper(depth, dirs')
    BY <1>4, <2>1 DEF Deeper, IsDir
  <2> QED
    BY <2>2 DEF Nested
<1>9. OwnersKept
  BY <1>1, ReplacedAgrees DEF OwnersKept
<1> QED
  BY <1>1, <1>3, <1>7, <1>8, <1>9 DEF Accepted
-----------------------------------------------------------------------------
(* The clusters a content takes, and the part of it each gets.              *)

LEMMA ClustersFinite == IsFiniteSet(Clusters) /\ Clusters \subseteq Nat
<1>1. N \in Nat
  BY FormatAssumption
<1> QED
  BY <1>1, FS_Interval DEF Clusters

LEMMA LeastMember == ASSUME NEW S \in SUBSET Clusters, S # {} PROVE Min(S) \in S /\ \A c \in S : Min(S) <= c
<1>1. S \in SUBSET Nat
  BY ClustersFinite
<1>2. \E m \in S : \A c \in S : m <= c
  BY <1>1, Least
<1> QED
  BY <1>2 DEF Min

(* The rank of a cluster in a set of clusters.                              *)
Upto(S, c) == {b \in S : b <= c}

LEMMA RanksOrder ==
  ASSUME NEW S \in SUBSET Clusters
  PROVE  /\ Cardinality(S) \in Nat
         /\ \A c \in S : Cardinality(Upto(S, c)) \in 1 .. Cardinality(S)
         /\ \A b, c \in S : Cardinality(Upto(S, b)) = Cardinality(Upto(S, c)) => b = c
         /\ \A j \in 1 .. Cardinality(S) : \E c \in S : Cardinality(Upto(S, c)) = j
<1>1. IsFiniteSet(S) /\ Cardinality(S) \in Nat /\ S \in SUBSET Nat
  BY ClustersFinite, FS_Subset, FS_CardinalityType
<1>2. ASSUME NEW c \in S
      PROVE  /\ Upto(S, c) \in SUBSET S /\ IsFiniteSet(Upto(S, c)) /\ c \in Upto(S, c)
             /\ Cardinality(Upto(S, c)) \in 1 .. Cardinality(S)
  <2>1. Upto(S, c) \in SUBSET S /\ c \in Upto(S, c)
    BY <1>1 DEF Upto
  <2>2. IsFiniteSet(Upto(S, c)) /\ Cardinality(Upto(S, c)) <= Cardinality(S)
    BY <1>1, <2>1, FS_Subset
  <2>3. Cardinality(Upto(S, c)) \in Nat /\ Cardinality(Upto(S, c)) # 0
    BY <2>1, <2>2, FS_CardinalityType, FS_EmptySet
  <2> QED
    BY <1>1, <2>1, <2>2, <2>3
<1>3. ASSUME NEW b \in S, NEW c \in S, b < c PROVE Cardinality(Upto(S, b)) # Cardinality(Upto(S, c))
  <2>1. Upto(S, b) \in SUBSET Upto(S, c) /\ c \notin Upto(S, b)
    <3>1. b \in Nat /\ c \in Nat /\ b < c
      BY <1>1, <1>3
    <3>2. \A a \in S : a <= b => a <= c
      BY <1>1, <3>1
    <3>3. ~ (c <= b)
      BY <3>1
    <3> QED
      BY <3>2, <3>3, Zenon DEF Upto
  <2> QED
    BY <1>2, <2>1, FS_Subset
<1>4. ASSUME NEW b \in S, NEW c \in S, Cardinality(Upto(S, b)) = Cardinality(Upto(S, c)) PROVE b = c
  <2>1. b \in Nat /\ c \in Nat
    BY <1>1
  <2> QED
    BY <1>3, <1>4, <2>1
<1> DEFINE f == [c \in S |-> Cardinality(Upto(S, c))]
<1>5. f \in Injection(S, 1 .. Cardinality(S))
  BY <1>2, <1>4 DEF Injection, IsInjective
<1>6. f \in Surjection(S, 1 .. Cardinality(S))
  <2>1. IsFiniteSet(1 .. Cardinality(S)) /\ Cardinality(1 .. Cardinality(S)) = Cardinality(S)
    BY <1>1, FS_Interval
  <2> HIDE DEF f
  <2> QED
    BY <1>5, <2>1, FS_Injection
<1>7. ASSUME NEW j \in 1 .. Cardinality(S) PROVE \E c \in S : Cardinality(Upto(S, c)) = j
  BY <1>6 DEF Surjection
<1> QED
  BY <1>1, <1>2, <1>4, <1>7

LEMMA NeedNat == ASSUME NEW n \in Nat PROVE Need(n) \in Nat /\ 1 <= Need(n)
<1>1. HEAD_CAP \in Nat /\ CONT_CAP \in Nat /\ CONT_CAP # 0
  BY FormatAssumption
<1>2. ASSUME n > HEAD_CAP PROVE (n - HEAD_CAP + CONT_CAP - 1) \div CONT_CAP \in Nat
  <2>1. \A r, m \in Nat : r # 0 => m \div r \in Nat
    OBVIOUS
  <2>2. n - HEAD_CAP + CONT_CAP - 1 \in Nat
    BY <1>1, <1>2
  <2> QED
    BY <1>1, <2>1, <2>2
<1>3. CASE n <= HEAD_CAP
  BY <1>3 DEF Need
<1>4. CASE n > HEAD_CAP
  <2>1. Need(n) = 1 + (n - HEAD_CAP + CONT_CAP - 1) \div CONT_CAP
    BY <1>1, <1>4 DEF Need
  <2> DEFINE r == (n - HEAD_CAP + CONT_CAP - 1) \div CONT_CAP
  <2>2. r \in Nat /\ Need(n) = 1 + r
    BY <1>2, <1>4, <2>1
  <2> HIDE DEF r
  <2> QED
    BY <2>2
<1> QED
  BY <1>1, <1>3, <1>4

LEMMA PlacesOrder ==
  ASSUME NEW head \in Clusters, NEW own, NEW n \in Nat, HasRoom(head, own, n)
  PROVE  LET S == Takes(head, own, n)
             q(c) == Place(head, own, c)
         IN  /\ S \subseteq Clusters /\ head \in S /\ S \subseteq {head} \cup Usable(head, own)
             /\ \A c \in S : q(c) \in 1 .. Need(n) /\ (q(c) = 1 <=> c = head)
             /\ \A b, c \in S : q(b) = q(c) => b = c
             /\ \A c \in S : q(c) # 1 => \E b \in S : q(b) = q(c) - 1
             /\ \A c \in S : q(c) < Need(n) => \E b \in S : q(b) = q(c) + 1
<1> DEFINE U == Usable(head, own)
           S == Takes(head, own, n)
           q(c) == Place(head, own, c)
<1>1. U \in SUBSET Clusters /\ head \notin U
  BY DEF Usable
<1>2. Need(n) \in Nat /\ 1 <= Need(n)
  BY NeedNat
<1>3. q(head) = 1 /\ \A c \in U : q(c) = 1 + Cardinality(Upto(U, c))
  BY <1>1 DEF Place, Upto
<1>4. Cardinality(U) \in Nat /\ Need(n) - 1 <= Cardinality(U)
  BY <1>1, <1>2, RanksOrder DEF HasRoom
<1>5. S = {c \in {head} \cup U : q(c) <= Need(n)}
  BY DEF Takes
<1>6. \A c \in U : Cardinality(Upto(U, c)) \in 1 .. Cardinality(U)
  BY <1>1, RanksOrder
<1>7. \A b, c \in U : Cardinality(Upto(U, b)) = Cardinality(Upto(U, c)) => b = c
  BY <1>1, RanksOrder
<1>8. \A j \in 1 .. Cardinality(U) : \E c \in U : Cardinality(Upto(U, c)) = j
  BY <1>1, RanksOrder
<1> HIDE DEF U, S, q
<1>9. \A c \in U : q(c) \in Nat /\ q(c) >= 2
  BY <1>3, <1>4, <1>6
<1>10. S \subseteq Clusters /\ head \in S /\ S \subseteq {head} \cup U
  BY <1>1, <1>2, <1>3, <1>5
<1>11. \A c \in S : q(c) \in 1 .. Need(n) /\ (q(c) = 1 <=> c = head)
  BY <1>2, <1>3, <1>5, <1>9
<1>12. ASSUME NEW b \in S, NEW c \in S, q(b) = q(c) PROVE b = c
  <2>1. CASE b = head
    BY <1>11, <1>12, <2>1, <1>3
  <2>2. CASE b # head
    <3>1. b \in U /\ c \in U
      BY <1>3, <1>10, <1>11, <1>12, <2>2
    <3>2. Cardinality(Upto(U, b)) = Cardinality(Upto(U, c))
      <4>1. Cardinality(Upto(U, b)) \in Nat /\ Cardinality(Upto(U, c)) \in Nat
        BY <1>4, <1>6, <3>1
      <4> QED
        BY <1>3, <1>12, <3>1, <4>1
    <3> QED
      BY <1>7, <3>1, <3>2
  <2> QED
    BY <2>1, <2>2
<1>13. ASSUME NEW j \in 1 .. Need(n) PROVE \E b \in S : q(b) = j
  <2>1. CASE j = 1
    BY <1>3, <1>10, <2>1
  <2>2. CASE j # 1
    <3>1. j - 1 \in 1 .. Cardinality(U) /\ 1 + (j - 1) = j
      BY <1>2, <1>4, <2>2
    <3>2. PICK b \in U : Cardinality(Upto(U, b)) = j - 1
      BY <1>8, <3>1
    <3>3. q(b) = j
      BY <1>3, <3>1, <3>2
    <3> QED
      BY <1>2, <1>5, <3>3
  <2> QED
    BY <2>1, <2>2
<1>14. \A c \in S : q(c) # 1 => \E b \in S : q(b) = q(c) - 1
  <2> SUFFICES ASSUME NEW c \in S, q(c) # 1 PROVE \E b \in S : q(b) = q(c) - 1
    OBVIOUS
  <2>1. q(c) - 1 \in 1 .. Need(n)
    BY <1>2, <1>11
  <2> QED
    BY <1>13, <2>1
<1>15. \A c \in S : q(c) < Need(n) => \E b \in S : q(b) = q(c) + 1
  <2> SUFFICES ASSUME NEW c \in S, q(c) < Need(n) PROVE \E b \in S : q(b) = q(c) + 1
    OBVIOUS
  <2>1. q(c) + 1 \in 1 .. Need(n)
    BY <1>2, <1>11
  <2> QED
    BY <1>13, <2>1
<1> QED
  BY <1>10, <1>11, <1>12, <1>14, <1>15 DEF U, S, q

(* A part is no longer than the cluster it goes into has room for.          *)
LEMMA PartType ==
  ASSUME NEW content \in Seq(Data), NEW j \in Nat, 1 <= j
  PROVE  /\ Part(j, content) \in Seq(Data) /\ Len(Part(j, content)) \in Nat
         /\ Len(Part(j, content)) <= IF j = 1 THEN HEAD_CAP ELSE CONT_CAP
<1> DEFINE n == Len(content)
           m == Min({n, Before(j + 1)})
<1>1. n \in Nat /\ \A i \in 1 .. n : content[i] \in Data
  OBVIOUS
<1>2. HEAD_CAP \in Nat /\ CONT_CAP \in Nat
  BY Sizes
<1>3. /\ Before(j) \in Nat /\ Before(j + 1) \in Nat
      /\ Before(j + 1) = Before(j) + IF j = 1 THEN HEAD_CAP ELSE CONT_CAP
  <2>1. CASE j = 1
    <3>1. Before(j) = 0 /\ Before(j + 1) = HEAD_CAP + (0 * CONT_CAP)
      BY <2>1 DEF Before
    <3>2. 0 * CONT_CAP = 0
      BY <1>2
    <3> QED
      BY <1>2, <2>1, <3>1, <3>2
  <2>2. CASE j # 1
    <3> DEFINE x == (j - 2) * CONT_CAP
               y == (j - 1) * CONT_CAP
    <3>1. j - 2 \in Nat /\ j - 1 \in Nat
      BY <2>2
    <3>2. x \in Nat /\ y \in Nat
      BY <1>2, <3>1, ProductNat
    <3>3. y = x + CONT_CAP
      <4>1. \A a, b \in Nat : (a + 1) * b = (a * b) + b
        OBVIOUS
      <4>2. (j - 2) + 1 = j - 1
        BY <3>1
      <4> QED
        BY <1>2, <3>1, <4>1, <4>2
    <3>4. Before(j) = HEAD_CAP + x
      BY <2>2 DEF Before
    <3>5. Before(j + 1) = HEAD_CAP + y
      <4>1. j + 1 # 1 /\ (j + 1) - 2 = j - 1
        BY <2>2
      <4> QED
        BY <4>1 DEF Before
    <3> HIDE DEF x, y
    <3> QED
      BY <1>2, <2>2, <3>2, <3>3, <3>4, <3>5
  <2> QED
    BY <2>1, <2>2
<1> HIDE DEF n
<1>4. m \in Nat /\ m <= n /\ m <= Before(j + 1)
  <2>1. m \in {n, Before(j + 1)} /\ m <= n /\ m <= Before(j + 1)
    <3>1. \E x \in {n, Before(j + 1)} : \A y \in {n, Before(j + 1)} : x <= y
      BY <1>1, <1>3
    <3> QED
      BY <3>1 DEF Min
  <2> QED
    BY <1>1, <1>3, <2>1
<1>5. Part(j, content) = SubSeq(content, Before(j) + 1, m)
  BY DEF Part, n
<1> HIDE DEF m
<1>6. \A i \in (Before(j) + 1) .. m : content[i] \in Data
  BY <1>1, <1>3, <1>4
<1>7. /\ SubSeq(content, Before(j) + 1, m) \in Seq(Data)
      /\ Len(SubSeq(content, Before(j) + 1, m)) =
           IF Before(j) + 1 <= m THEN m - (Before(j) + 1) + 1 ELSE 0
  <2>1. Before(j) + 1 \in Int /\ m \in Int
    BY <1>3, <1>4
  <2> QED
    BY <1>6, <2>1, SubSeqProperties
<1> QED
  BY <1>2, <1>3, <1>4, <1>5, <1>7

LEMMA ByteOf ==
  ASSUME NEW x \in Nat, x <= CONT_CAP PROVE x \div RADIX \in 0 .. RADIX - 1 /\ x % RADIX \in 0 .. RADIX - 1
<1>1. RADIX \in Nat /\ RADIX > 0
  BY FormatAssumption
<1>2. CASE x = 0
  <2>1. \A r \in Nat : r > 0 => 0 \div r = 0 /\ 0 % r = 0 /\ 0 \in 0 .. r - 1
    OBVIOUS
  <2> QED
    BY <1>1, <1>2, <2>1
<1>3. CASE x # 0
  <2>1. x - 1 \in Nat /\ x - 1 < CONT_CAP /\ (x - 1) + 1 = x
    BY <1>3, Sizes
  <2> QED
    BY <2>1, HighByte
<1> QED
  BY <1>2, <1>3

LEMMA EmptyType == Zeroed \in Cluster /\ NoOwner \in Entry /\ NoRecord \in Record
<1>1. 0 \in 0 .. N /\ 0 \in 0 .. RADIX - 1 /\ 0 \in Data /\ 0 \in Parents /\ NoName \in FileNames
  BY FormatAssumption, NamesAreFileNames, RootApart
<1>2. [i \in Places |-> 0] \in [Places -> Data]
  BY <1>1
<1>3. [i \in 1 .. DIRNAME |-> 0] \in DirNames
  BY DEF DirNames, Bytes
<1> QED
  BY <1>1, <1>2, <1>3 DEF Zeroed, NoOwner, NoRecord, Cluster, Entry, Record

LEMMA StoredFields ==
  ASSUME NEW head, NEW own, NEW up, NEW name, NEW content, Loads(Stored(head, own, up, name, content))
  PROVE  /\ dirs' = dirs
         /\ table' = [c \in Clusters |->
                        IF c \in Takes(head, own, Len(content)) THEN Owned(up, Place(head, own, c))
                        ELSE IF c \in own THEN NoOwner ELSE table[c]]
         /\ cluster' = [c \in Clusters |->
                          IF c \in Takes(head, own, Len(content)) THEN Filled(head, own, name, content, c)
                          ELSE IF c \in own THEN Zeroed ELSE cluster[c]]
BY DEF Loads, Stored, Volumes

LEMMA FilledType ==
  ASSUME VolumeOK, NEW head \in Clusters, NEW own, NEW name \in FileNames, NEW content \in Seq(Data),
         HasRoom(head, own, Len(content)), NEW c \in Takes(head, own, Len(content))
  PROVE  LET f == Filled(head, own, name, content, c)
             j == Place(head, own, c)
         IN  /\ f \in Cluster /\ (c = head => f.name = name)
             /\ (RADIX * f.hi) + f.lo <= IF c = head THEN HEAD_CAP ELSE CONT_CAP
             /\ f.next # 0 => /\ f.next \in Takes(head, own, Len(content))
                              /\ Place(head, own, f.next) = j + 1
             /\ j < Need(Len(content)) => f.next # 0
<1> DEFINE f == Filled(head, own, name, content, c)
           j == Place(head, own, c)
           n == Len(content)
           S == Takes(head, own, n)
           part == Part(j, content)
           base == IF c \in own THEN Zeroed ELSE cluster[c]
           next == IF j < Need(n) THEN CHOOSE b \in S : Place(head, own, b) = j + 1 ELSE 0
           data == [i \in Places |-> IF i < Len(part) THEN part[i + 1] ELSE base.data[i]]
<1>1. n \in Nat
  OBVIOUS
<1>2. /\ S \subseteq Clusters /\ j \in Nat /\ 1 <= j /\ (j = 1 <=> c = head) /\ Need(n) \in Nat
      /\ j < Need(n) => \E b \in S : Place(head, own, b) = j + 1
  <2>1. j \in 1 .. Need(n)
    BY <1>1, PlacesOrder
  <2>2. /\ S \subseteq Clusters /\ (j = 1 <=> c = head)
        /\ j < Need(n) => \E b \in S : Place(head, own, b) = j + 1
    BY <1>1, PlacesOrder
  <2>3. Need(n) \in Nat
    BY <1>1, NeedNat
  <2> QED
    BY <2>1, <2>2, <2>3
<1>3. part \in Seq(Data) /\ Len(part) \in Nat /\ Len(part) <= IF c = head THEN HEAD_CAP ELSE CONT_CAP
  BY <1>2, PartType
<1>4. base \in Cluster
  BY <1>2, EmptyType DEF VolumeOK
<1>5. f = [name |-> IF c = head THEN name ELSE base.name, next |-> next,
           hi |-> Len(part) \div RADIX, lo |-> Len(part) % RADIX, data |-> data]
  BY DEF Filled
<1>6. next \in 0 .. N /\ (next # 0 => next \in S /\ Place(head, own, next) = j + 1)
      /\ (j < Need(n) => next # 0)
  <2> HIDE DEF S, j, n
  <2>1. CASE j < Need(n)
    <3>1. next \in S /\ Place(head, own, next) = j + 1
      BY <1>2, <2>1
    <3>2. next \in Clusters
      BY <1>2, <3>1
    <3>3. next \in 0 .. N /\ next # 0
      <4>1. N \in Nat
        BY FormatAssumption
      <4> HIDE DEF next
      <4> QED
        BY <3>2, <4>1 DEF Clusters
    <3> QED
      BY <3>1, <3>3
  <2>2. CASE ~ (j < Need(n))
    <3>1. next = 0
      BY <2>2
    <3>2. 0 \in 0 .. N
      BY FormatAssumption
    <3> QED
      BY <2>2, <3>1, <3>2
  <2> QED
    BY <2>1, <2>2
<1> HIDE DEF next, part, base, f
<1>7. data \in [Places -> Data]
  <2>1. ASSUME NEW i \in Places PROVE data[i] \in Data
    <3>1. base.data[i] \in Data
      BY <1>4 DEF Cluster
    <3>2. ASSUME i < Len(part) PROVE part[i + 1] \in Data
      <4>1. i \in Nat
        BY Sizes DEF Places
      <4>2. i + 1 \in 1 .. Len(part)
        BY <1>3, <3>2, <4>1
      <4> QED
        BY <1>3, <4>2
    <3> QED
      BY <3>1, <3>2
  <2> HIDE DEF data
  <2> QED
    BY <2>1 DEF data
<1> HIDE DEF data
<1>8. Len(part) <= CONT_CAP
  BY <1>3, Sizes
<1>9. Len(part) \div RADIX \in 0 .. RADIX - 1 /\ Len(part) % RADIX \in 0 .. RADIX - 1
  BY <1>3, <1>8, ByteOf
<1>10. (RADIX * (Len(part) \div RADIX)) + (Len(part) % RADIX) = Len(part)
  BY <1>3, TwoBytes
<1>11. f \in Cluster
  <2>1. (IF c = head THEN name ELSE base.name) \in FileNames
    BY <1>4 DEF Cluster
  <2> DEFINE x == IF c = head THEN name ELSE base.name
  <2> HIDE DEF x
  <2>2. x \in FileNames
    BY <2>1 DEF x
  <2> QED
    BY <1>5, <1>6, <1>7, <1>9, <2>2 DEF Cluster, x
<1>12. (RADIX * f.hi) + f.lo = Len(part)
  BY <1>5, <1>10
<1>13. f.next = next /\ (c = head => f.name = name)
  BY <1>5
<1> QED
  BY <1>3, <1>6, <1>11, <1>12, <1>13 DEF f
-----------------------------------------------------------------------------
(* The commands.                                                            *)

LEMMA SameDirs ==
  ASSUME dirs' = dirs
  PROVE  /\ \A d : IsDir(d)' = IsDir(d) /\ ValidDir(d)' = ValidDir(d) /\ DirText(d)' = DirText(d)
         /\ BlankAtRoot' = BlankAtRoot
BY DEF IsDir, ValidDir, DirText, BlankAtRoot

(* set_content, and put of a new file: the head is of the file, or unused.  *)
LEMMA StoredAccepted ==
  ASSUME TypeOK, Accepted, NEW head \in Clusters, NEW own, NEW H, NEW up, NEW name \in Names,
         NEW content \in Seq(Data), Standing(up), Spare(H, up, name),
         HasRoom(head, own, Len(content)), Loads(Stored(head, own, up, name, content)),
         \/ head \in Heads /\ H = {head} /\ own = ToSet(ChainOf(head))
         \/ ~ Live(head) /\ H = {} /\ own = {head}
  PROVE  Accepted' /\ OwnersKept
<1> DEFINE n == Len(content)
           S == Takes(head, own, n)
           q == [c \in Clusters |-> Place(head, own, c)]
<1>1. PICK o \in [Clusters -> Clusters], p \in [Clusters -> Nat] : Lay(Heads, o, p, table, cluster)
  BY DEF Accepted, Chained
<1>2. /\ H \subseteq Heads /\ head \in own /\ (Live(head) => o[head] \in H)
      /\ \A c \in Clusters : c # head => (c \in own <=> c \in Of(H, o))
  <2>1. CASE head \in Heads /\ H = {head} /\ own = ToSet(ChainOf(head))
    <3>1. own = Of({head}, o)
      BY <1>1, <2>1, ChainSet DEF Accepted
    <3>2. o[head] = head /\ Live(head)
      BY <1>1, <2>1 DEF Lay, Heads, Live, HEAD, FREE
    <3> QED
      BY <2>1, <3>1, <3>2 DEF Of
  <2>2. CASE ~ Live(head) /\ H = {} /\ own = {head}
    BY <2>2 DEF Of
  <2> QED
    BY <2>1, <2>2
<1>3. /\ S \subseteq Clusters /\ head \in S /\ S \subseteq {head} \cup Usable(head, own)
      /\ \A c \in S : q[c] \in 1 .. Need(n) /\ (q[c] = 1 <=> c = head)
      /\ \A b, c \in S : q[b] = q[c] => b = c
      /\ \A c \in S : q[c] # 1 => \E b \in S : q[b] = q[c] - 1
  <2>1. n \in Nat
    OBVIOUS
  <2>2. /\ S \subseteq Clusters /\ head \in S /\ S \subseteq {head} \cup Usable(head, own)
        /\ \A c \in S : Place(head, own, c) \in 1 .. Need(n) /\ (Place(head, own, c) = 1 <=> c = head)
        /\ \A b, c \in S : Place(head, own, b) = Place(head, own, c) => b = c
        /\ \A c \in S : Place(head, own, c) # 1 =>
             \E b \in S : Place(head, own, b) = Place(head, own, c) - 1
    BY <2>1, PlacesOrder
  <2>3. \A c \in S : q[c] = Place(head, own, c)
    BY <2>2
  <2> HIDE DEF S, q, n
  <2>4. \A c \in S : q[c] \in 1 .. Need(n) /\ (q[c] = 1 <=> c = head)
    BY <2>2, <2>3
  <2>5. \A b, c \in S : q[b] = q[c] => b = c
    BY <2>2, <2>3
  <2>6. \A c \in S : q[c] # 1 => \E b \in S : q[b] = q[c] - 1
    BY <2>2, <2>3
  <2> QED
    BY <2>2, <2>4, <2>5, <2>6
<1>4. /\ dirs' = dirs /\ table' \in [Clusters -> Entry]
      /\ \A c \in S : /\ table'[c].dir = up /\ table'[c].used = IF c = head THEN HEAD ELSE CONT
                      /\ cluster'[c] = Filled(head, own, name, content, c)
      /\ \A c \in Clusters \ S : c \in own => table'[c] = NoOwner /\ cluster'[c] = Zeroed
      /\ \A c \in Clusters \ S : c \notin own => table'[c] = table[c] /\ cluster'[c] = cluster[c]
  <2>1. /\ dirs' = dirs
        /\ table' = [c \in Clusters |-> IF c \in S THEN Owned(up, Place(head, own, c))
                                        ELSE IF c \in own THEN NoOwner ELSE table[c]]
        /\ cluster' = [c \in Clusters |-> IF c \in S THEN Filled(head, own, name, content, c)
                                          ELSE IF c \in own THEN Zeroed ELSE cluster[c]]
    BY StoredFields
  <2>2. ASSUME NEW c \in S
        PROVE  LET e == Owned(up, Place(head, own, c))
               IN  e.dir = up /\ e.used = (IF c = head THEN HEAD ELSE CONT) /\ e \in Entry
    <3>1. c \in Clusters /\ (Place(head, own, c) = 1 <=> c = head)
      BY <1>3
    <3> HIDE DEF S
    <3>2. CASE c = head
      BY <3>1, <3>2 DEF Owned, Entry, Standing
    <3>3. CASE c # head
      BY <3>1, <3>3 DEF Owned, Entry, Standing
    <3> QED
      BY <3>2, <3>3
  <2> HIDE DEF S
  <2>3. \A c \in S : /\ table'[c].dir = up /\ table'[c].used = (IF c = head THEN HEAD ELSE CONT)
                     /\ cluster'[c] = Filled(head, own, name, content, c) /\ table'[c] \in Entry
    BY <1>3, <2>1, <2>2
  <2>4. \A c \in Clusters \ S : c \in own => table'[c] = NoOwner /\ cluster'[c] = Zeroed
    BY <2>1
  <2>5. \A c \in Clusters \ S : c \notin own => table'[c] = table[c] /\ cluster'[c] = cluster[c]
    BY <2>1
  <2>6. \A c \in Clusters : table'[c] \in Entry
    <3>1. ASSUME NEW c \in S PROVE table'[c] \in Entry
      BY <2>3
    <3>2. ASSUME NEW c \in Clusters \ S PROVE table'[c] \in Entry
      BY <2>4, <2>5, EmptyType DEF TypeOK, VolumeOK
    <3> QED
      BY <3>1, <3>2
  <2>7. table' \in [Clusters -> Entry]
    BY <2>1, <2>6
  <2> QED
    BY <2>1, <2>3, <2>4, <2>5, <2>7
<1>5. ASSUME NEW c \in S
      PROVE  /\ cluster'[c] \in Cluster /\ (c = head => cluster'[c].name = name)
             /\ (RADIX * cluster'[c].hi) + cluster'[c].lo <= IF c = head THEN HEAD_CAP ELSE CONT_CAP
             /\ cluster'[c].next # 0 => cluster'[c].next \in S /\ q[cluster'[c].next] = q[c] + 1
             /\ q[c] < Need(n) => cluster'[c].next # 0
  <2> DEFINE f == Filled(head, own, name, content, c)
  <2>1. /\ f \in Cluster /\ (c = head => f.name = name)
        /\ (RADIX * f.hi) + f.lo <= IF c = head THEN HEAD_CAP ELSE CONT_CAP
        /\ f.next # 0 => f.next \in S /\ Place(head, own, f.next) = Place(head, own, c) + 1
        /\ Place(head, own, c) < Need(n) => f.next # 0
    BY FilledType, NamesAreFileNames DEF TypeOK
  <2>2. cluster'[c] = f
    BY <1>4
  <2>3. \A b \in S : q[b] = Place(head, own, b)
    BY <1>3
  <2> HIDE DEF f, S, q, n
  <2> QED
    BY <2>1, <2>2, <2>3
<1> HIDE DEF S, q, n
<1>6. VolumeOK'
  <2>1. ASSUME NEW c \in Clusters PROVE cluster'[c] \in Cluster
    BY <1>4, <1>5, EmptyType DEF TypeOK, VolumeOK
  <2>2. cluster' \in [Clusters -> Cluster]
    <3>1. cluster' = [c \in Clusters |-> cluster'[c]]
      BY StoredFields
    <3> QED
      BY <2>1, <3>1
  <2> QED
    BY <1>4, <2>2 DEF TypeOK, VolumeOK
<1>7. Replaces(H, o, S, head, q, table', cluster')
  <2>1. ASSUME NEW c \in S, Live(c) PROVE o[c] \in H
    BY <1>2, <1>3, <2>1 DEF Usable, Of
  <2>2. ASSUME NEW c \in Clusters \ (S \cup Of(H, o))
        PROVE  table'[c] = table[c] /\ cluster'[c] = cluster[c]
    BY <1>2, <1>3, <1>4
  <2>3. ASSUME NEW c \in Of(H, o) \ S PROVE table'[c].used = FREE
    <3>1. c \in Clusters \ S /\ c \in own
      BY <1>2, <1>3 DEF Of
    <3> QED
      BY <1>4, <3>1 DEF NoOwner
  <2>4. ASSUME NEW c \in S
        PROVE  /\ table'[c].used = IF c = head THEN HEAD ELSE CONT
               /\ cluster'[c].next # 0 => cluster'[c].next \in S \ {head} /\ q[cluster'[c].next] = q[c] + 1
               /\ q[c] \in Nat /\ (c # head => \E b \in S : cluster'[b].next = c)
    <3>1. table'[c].used = IF c = head THEN HEAD ELSE CONT
      BY <1>4
    <3>2. q[c] \in Nat /\ 1 <= q[c] /\ q[c] <= Need(n) /\ (q[c] = 1 <=> c = head)
      BY <1>3
    <3>3. ASSUME cluster'[c].next # 0
          PROVE  cluster'[c].next \in S \ {head} /\ q[cluster'[c].next] = q[c] + 1
      <4>1. cluster'[c].next \in S /\ q[cluster'[c].next] = q[c] + 1
        BY <1>5, <3>3
      <4>2. q[c] + 1 # 1
        BY <3>2
      <4> QED
        BY <1>3, <4>1, <4>2
    <3>4. ASSUME c # head PROVE \E b \in S : cluster'[b].next = c
      <4>1. PICK b \in S : q[b] = q[c] - 1
        BY <1>3, <3>2, <3>4
      <4>2. q[b] < Need(n) /\ q[b] + 1 = q[c]
        <5>1. Need(n) \in Nat
          BY NeedNat DEF n
        <5> QED
          BY <3>2, <4>1, <5>1
      <4>3. cluster'[b].next \in S /\ q[cluster'[b].next] = q[c]
        BY <1>5, <4>2
      <4>4. cluster'[b].next = c
        BY <1>3, <4>3
      <4> QED
        BY <4>4
    <3> QED
      BY <3>1, <3>2, <3>3, <3>4
  <2> QED
    BY <1>2, <1>3, <2>1, <2>2, <2>3, <2>4 DEF Replaces
<1>8. NoneStranded'
  <2>1. ASSUME NEW c \in Heads' PROVE ValidDir(table'[c].dir)
    <3>1. c \in Clusters /\ table'[c].used = HEAD
      BY DEF Heads
    <3>2. CASE c \in S
      BY <1>4, <3>2 DEF Standing
    <3>3. CASE c \notin S
      <4>1. table'[c] = table[c]
        BY <1>4, <3>1, <3>3 DEF NoOwner, HEAD, FREE
      <4> QED
        BY <3>1, <4>1 DEF Heads, Accepted, NoneStranded
    <3> QED
      BY <3>2, <3>3
  <2> QED
    BY <1>4, <2>1, SameDirs DEF Accepted, NoneStranded
<1>9. ASSUME NEW c \in S PROVE Length(c)' <= Capacity(c)'
  <2>1. Length(c)' = (RADIX * cluster'[c].hi) + cluster'[c].lo
    BY DEF Length
  <2>2. Capacity(c)' = IF c = head THEN HEAD_CAP ELSE CONT_CAP
    BY <1>4 DEF Capacity, HEAD, CONT
  <2> QED
    BY <1>5, <2>1, <2>2
<1>10. table'[head].dir = up /\ FileText(head)' = name
  BY <1>3, <1>4, <1>5 DEF FileText
<1>11. BlankAtRoot' /\ \A d \in Dirs : IsDir(d)' => dirs'[d] = dirs[d]
  BY <1>4, SameDirs DEF Accepted
<1>12. \A b, c \in S : table'[b].dir = table'[c].dir
  BY <1>4
<1> QED
  BY <1>1, <1>6, <1>7, <1>8, <1>9, <1>10, <1>11, <1>12, ReplacedAccepted

(* A name that is not taken, and the name of a file that is there.          *)
LEMMA NotTaken ==
  ASSUME VolumeOK, NEW path, NEW up, LastOf(path) \in Names \ Special, ~ Taken(path, up)
  PROVE  Spare({}, up, LastOf(path))
<1> DEFINE n == LastOf(path)
<1>1. n \in Names /\ n \notin Special /\ n[1] # 0
  BY DEF Names
<1>2. Child(up, n) \notin Parents /\ \A c \in Clusters : ~ IsFile(c, up, n)
  <2>1. HostChild(n, up) = NoEntry /\ FilesIn(n, up) = {}
    BY DEF Taken
  <2> QED
    BY <1>1, <2>1, RootApart DEF HostChild, FilesIn
<1> HIDE DEF n
<1>3. ASSUME NEW c \in Heads, table[c].dir = up, FileText(c) = n PROVE FALSE
  <2>1. c \in Clusters /\ table[c].used = HEAD /\ table[c] \in Entry
    BY DEF Heads, VolumeOK
  <2>2. table[c] = [dir |-> up, used |-> HEAD]
    BY <1>3, <2>1 DEF Entry
  <2> QED
    BY <1>2, <1>3, <2>1, <2>2 DEF IsFile, FileText
<1>4. ASSUME NEW d \in Dirs, dirs[d].upper = up, DirText(d) = n PROVE FALSE
  <2>1. NamesDir(n) /\ Matches(d, up, n)
    BY <1>4, TextMatches
  <2> QED
    BY <1>1, <1>2, <2>1, NothingMatches
<1> QED
  BY <1>1, <1>3, <1>4 DEF Spare, n

LEMMA FileFound ==
  ASSUME VolumeOK, Distinct, NEW up, NEW name, FilesIn(name, up) # {}
  PROVE  /\ name \in Names /\ Min(FilesIn(name, up)) \in Heads /\ Spare({Min(FilesIn(name, up))}, up, name)
<1>1. PICK h : h = Min(FilesIn(name, up))
  OBVIOUS
<1>2. h \in Clusters /\ IsFile(h, up, name)
  <2>1. FilesIn(name, up) \in SUBSET Clusters
    BY DEF FilesIn
  <2>2. h \in FilesIn(name, up)
    BY <1>1, <2>1, LeastMember
  <2> QED
    BY <2>2 DEF FilesIn
<1>3. h \in Heads /\ table[h].dir = up /\ FileText(h) = name
  <2>1. table[h] = [dir |-> up, used |-> HEAD]
    BY <1>2 DEF IsFile
  <2> QED
    BY <1>2, <2>1 DEF Heads, IsFile, FileText
<1>4. name[1] # 0
  BY <1>3 DEF Distinct
<1>5. name \in Names
  BY <1>2, <1>3, <1>4 DEF VolumeOK, Cluster, FileText, FileNames, Names
<1>6. Spare({h}, up, name)
  <2>1. \A c \in Heads : table[c].dir = up /\ FileText(c) = name => c = h
    BY <1>3 DEF Distinct
  <2>2. \A d \in Dirs : IsDir(d) /\ dirs[d].upper = up => DirText(d) # name
    BY <1>3 DEF Distinct
  <2> QED
    BY <1>4, <2>1, <2>2 DEF Spare
<1> QED
  BY <1>1, <1>3, <1>5, <1>6

LEMMA TouchReady ==
  ASSUME VolumeOK, NoneStranded, Standing(session.current), NEW path \in HostPaths, TouchCode(path) = OK
  PROVE  /\ Standing(ParentOf(path)) /\ LastOf(path) \in Names \ Special
         /\ Spare({}, ParentOf(path), LastOf(path))
         /\ FirstUnused \in Clusters /\ ~ Live(FirstUnused)
<1>1. /\ ParentOf(path) # NoEntry /\ LastOf(path) \notin Special
      /\ ~ Taken(path, ParentOf(path)) /\ ~ Full
  BY DEF TouchCode, Special, OK, INVALID_DIRNAME_FILENAME, DIRNAME_FILENAME_TOO_LONG,
         DIRNAME_FILENAME_ALREADY_EXIST, NO_MORE_SPACE
<1>2. Standing(ParentOf(path)) /\ LastOf(path) \in Names \ Special
  BY <1>1, ParentValid
<1>3. FirstUnused \in {c \in Clusters : ~ Live(c)}
  <2>1. {c \in Clusters : ~ Live(c)} # {}
    BY <1>1 DEF Full
  <2> QED
    BY <2>1, LeastMember DEF FirstUnused
<1> QED
  BY <1>1, <1>2, <1>3, NotTaken

LEMMA TouchedAccepted ==
  ASSUME TypeOK, Accepted, Standing(session.current), NEW path \in HostPaths,
         TouchCode(path) = OK, Loads(Touched(path))
  PROVE  Accepted' /\ OwnersKept
<1>1. PICK f, up, name : f = FirstUnused /\ up = ParentOf(path) /\ name = LastOf(path)
  OBVIOUS
<1>2. /\ Standing(up) /\ name \in Names /\ Spare({}, up, name) /\ f \in Clusters /\ ~ Live(f)
  BY <1>1, TouchReady DEF Accepted
<1>3. /\ dirs' = dirs /\ table' = [table EXCEPT ![f] = [dir |-> up, used |-> HEAD]]
      /\ cluster' = [cluster EXCEPT ![f] = [Zeroed EXCEPT !.name = name]]
  BY <1>1 DEF Loads, Touched, Volumes
<1>4. /\ [dir |-> up, used |-> HEAD] \in Entry /\ [Zeroed EXCEPT !.name = name] \in Cluster
      /\ table \in [Clusters -> Entry] /\ cluster \in [Clusters -> Cluster]
  BY <1>2, EmptyType, NamesAreFileNames DEF Standing, Entry, Cluster, Accepted, VolumeOK
<1>5. /\ table'[f].dir = up /\ table'[f].used = HEAD
      /\ cluster'[f].name = name /\ cluster'[f].next = 0 /\ cluster'[f].hi = 0 /\ cluster'[f].lo = 0
      /\ \A c \in Clusters : c # f => table'[c] = table[c] /\ cluster'[c] = cluster[c]
  BY <1>2, <1>3, <1>4 DEF Zeroed
<1>6. VolumeOK'
  BY <1>3, <1>4 DEF VolumeOK, TypeOK
<1>7. PICK o \in [Clusters -> Clusters], p \in [Clusters -> Nat] : Lay(Heads, o, p, table, cluster)
  BY DEF Accepted, Chained
<1>8. PICK q : q = [c \in Clusters |-> 1]
  OBVIOUS
<1>9. Replaces({}, o, {f}, f, q, table', cluster')
  <2>1. Of({}, o) = {}
    BY DEF Of
  <2>2. q[f] = 1
    BY <1>2, <1>8
  <2> QED
    BY <1>2, <1>5, <2>1, <2>2 DEF Replaces
<1>10. NoneStranded'
  <2>1. ASSUME NEW c \in Heads' PROVE ValidDir(table'[c].dir)
    <3>1. c \in Clusters /\ table'[c].used = HEAD
      BY DEF Heads
    <3>2. CASE c = f
      BY <1>2, <1>5, <3>2 DEF Standing
    <3>3. CASE c # f
      BY <1>5, <3>1, <3>3 DEF Heads, Accepted, NoneStranded
    <3> QED
      BY <3>2, <3>3
  <2> QED
    BY <1>3, <2>1, SameDirs DEF Accepted, NoneStranded
<1>11. \A c \in {f} : Length(c)' <= Capacity(c)'
  <2>1. Length(f)' = (RADIX * 0) + 0 /\ Capacity(f)' = HEAD_CAP
    BY <1>5 DEF Length, Capacity
  <2>2. RADIX \in Nat
    BY FormatAssumption
  <2>3. (RADIX * 0) + 0 = 0
    BY <2>2
  <2> QED
    BY <2>1, <2>3, Sizes
<1>12. table'[f].dir = up /\ FileText(f)' = name
  BY <1>5 DEF FileText
<1>13. BlankAtRoot' /\ \A d \in Dirs : IsDir(d)' => dirs'[d] = dirs[d]
  BY <1>3, SameDirs DEF Accepted
<1> QED
  BY <1>2, <1>6, <1>7, <1>9, <1>10, <1>11, <1>12, <1>13, ReplacedAccepted

LEMMA MadeAccepted ==
  ASSUME TypeOK, Accepted, NEW d \in Dirs, ~ IsDir(d), NEW up, Standing(up), NEW name \in Names,
         NamesDir(name), Spare({}, up, name),
         Loads([Volumes EXCEPT !.dirs[d] = [upper |-> up, name |-> [i \in 1 .. DIRNAME |-> name[i]]]])
  PROVE  Accepted' /\ OwnersKept
<1>1. /\ table' = table /\ cluster' = cluster
      /\ dirs' = [dirs EXCEPT ![d] = [upper |-> up, name |-> [i \in 1 .. DIRNAME |-> name[i]]]]
  BY DEF Loads, Volumes
<1>2. DIRNAME \in Nat /\ NAME \in Nat /\ DIRNAME <= NAME /\ 1 \in 1 .. DIRNAME /\ D \in Nat
  BY FormatAssumption
<1>3. [i \in 1 .. DIRNAME |-> name[i]] \in DirNames
  BY <1>2 DEF Names, DirNames
<1>4. [upper |-> up, name |-> [i \in 1 .. DIRNAME |-> name[i]]] \in Record
  BY <1>3 DEF Standing, Record
<1>5. /\ \A e \in Dirs : e # d => dirs'[e] = dirs[e]
      /\ dirs'[d].upper = up /\ dirs'[d].name = [i \in 1 .. DIRNAME |-> name[i]]
      /\ dirs' \in [Dirs -> Record]
  BY <1>1, <1>4 DEF TypeOK, VolumeOK
<1>6. /\ d # 0 /\ up # d /\ (up # 0 => up \in Dirs /\ IsDir(up))
      /\ \A e \in Dirs : IsDir(e) => dirs[e].upper # d
      /\ \A c \in Heads : table[c].dir # d
  <2>1. d # 0 /\ ~ ValidDir(d)
    BY <1>2 DEF Dirs, ValidDir
  <2>2. up # 0 => up \in Dirs /\ IsDir(up)
    BY <1>2 DEF Standing, ValidDir, Parents, Dirs
  <2> QED
    BY <2>1, <2>2 DEF Accepted, NoneStranded
<1>7. /\ IsDir(d)' /\ \A e \in Dirs : e # d => IsDir(e)' = IsDir(e) /\ DirText(e)' = DirText(e)
      /\ \A c : FileText(c)' = FileText(c)
  BY <1>1, <1>2, <1>5 DEF IsDir, DirText, Names, FileText
<1>8. DirText(d)' = name
  <2>1. \A i \in 1 .. NAME : i <= DIRNAME => i \in 1 .. DIRNAME
    BY <1>2
  <2>2. \A i \in 1 .. NAME : ~ (i <= DIRNAME) => name[i] = 0
    BY <1>2 DEF NamesDir
  <2>3. name = [i \in 1 .. NAME |-> IF i <= DIRNAME THEN dirs'[d].name[i] ELSE 0]
    BY <1>5, <2>1, <2>2 DEF Names
  <2> QED
    BY <2>3 DEF DirText
<1>9. VolumeOK' /\ Heads' = Heads
  BY <1>1, <1>5 DEF TypeOK, VolumeOK, Heads
<1>10. Chained' /\ ChainsSound' /\ Fitting'
  <2>1. \A c : Live(c)' = Live(c) /\ Length(c)' = Length(c) /\ Capacity(c)' = Capacity(c)
    BY <1>1 DEF Live, Length, Capacity
  <2>2. Chained'
    BY <1>1, <1>9 DEF Accepted, Chained
  <2>3. ChainsSound' /\ Fitting'
    BY <1>1, <2>1 DEF Accepted, ChainsSound, Fitting
  <2> QED
    BY <2>2, <2>3
<1>11. NoneStranded'
  <2> DEFINE There(e) == e = 0 \/ dirs'[e].name[1] # 0
  <2>1. \A e \in Dirs \cup {0} : ValidDir(e) => There(e)
    BY <1>7 DEF ValidDir, IsDir
  <2>2. ASSUME NEW e \in Dirs, IsDir(e)' PROVE There(dirs'[e].upper)
    <3>1. CASE e = d
      <4>1. There(up)
        BY <1>6, <2>1 DEF Standing
      <4> QED
        BY <1>5, <3>1, <4>1
    <3>2. CASE e # d
      <4>1. IsDir(e) /\ dirs'[e].upper = dirs[e].upper
        BY <1>5, <1>7, <2>2, <3>2
      <4>2. ValidDir(dirs[e].upper) /\ dirs[e].upper \in Dirs \cup {0}
        BY <1>2, <4>1 DEF Accepted, NoneStranded, VolumeOK, Record, Parents, Dirs
      <4>3. There(dirs[e].upper)
        BY <2>1, <4>2
      <4> QED
        BY <4>1, <4>3
    <3> QED
      BY <3>1, <3>2
  <2>3. ASSUME NEW c \in Heads' PROVE There(table'[c].dir)
    <3>1. c \in Heads /\ c \in Clusters /\ table'[c] = table[c]
      BY <1>1, <1>9 DEF Heads
    <3>2. ValidDir(table[c].dir) /\ table[c].dir \in Dirs \cup {0}
      BY <1>2, <3>1 DEF Accepted, NoneStranded, VolumeOK, Entry, Parents, Dirs
    <3> QED
      BY <2>1, <3>1, <3>2
  <2> QED
    BY <2>2, <2>3 DEF NoneStranded, ValidDir, IsDir
<1>12. BlankAtRoot'
  BY <1>5, <1>7 DEF Accepted, BlankAtRoot
<1>13. Distinct'
  <2>1. ASSUME NEW e \in Dirs, NEW f \in Dirs, IsDir(e)', IsDir(f)', dirs'[e].upper = dirs'[f].upper,
               DirText(e)' = DirText(f)', e # f
        PROVE  FALSE
    <3>1. CASE e = d
      BY <1>5, <1>7, <1>8, <2>1, <3>1 DEF Spare
    <3>2. CASE f = d
      BY <1>5, <1>7, <1>8, <2>1, <3>2 DEF Spare
    <3>3. CASE e # d /\ f # d
      BY <1>5, <1>7, <2>1, <3>3 DEF Accepted, Distinct
    <3> QED
      BY <3>1, <3>2, <3>3
  <2>2. ASSUME NEW b \in Heads, NEW e \in Dirs, IsDir(e)', table[b].dir = dirs'[e].upper
        PROVE  FileText(b) # DirText(e)'
    <3>1. CASE e = d
      BY <1>5, <1>8, <2>2, <3>1 DEF Spare
    <3>2. CASE e # d
      BY <1>5, <1>7, <2>2, <3>2 DEF Accepted, Distinct
    <3> QED
      BY <3>1, <3>2
  <2>3. \A b, c \in Heads : table[b].dir = table[c].dir /\ FileText(b) = FileText(c) => b = c
    BY DEF Accepted, Distinct
  <2>4. \A b \in Heads : FileText(b)[1] # 0
    BY DEF Accepted, Distinct
  <2> QED
    BY <1>1, <1>7, <1>9, <2>1, <2>2, <2>3, <2>4 DEF Distinct
<1>14. Nested'
  <2>1. PICK depth \in [Dirs -> Nat] : Deeper(depth, dirs)
    BY DEF Accepted, Nested
  <2>2. PICK k \in Nat : up # 0 => depth[up] < k
    <3>1. CASE up = 0
      BY <3>1
    <3>2. CASE up # 0
      <4>1. depth[up] + 1 \in Nat /\ depth[up] < depth[up] + 1
        BY <1>6, <2>1, <3>2
      <4> QED
        BY <4>1
    <3> QED
      BY <3>1, <3>2
  <2>3. PICK depth2 : depth2 = [depth EXCEPT ![d] = k]
    OBVIOUS
  <2>4. depth2 \in [Dirs -> Nat] /\ depth2[d] = k /\ \A e \in Dirs : e # d => depth2[e] = depth[e]
    BY <2>1, <2>2, <2>3
  <2>5. ASSUME NEW e \in Dirs, dirs'[e].name[1] # 0, dirs'[e].upper # 0
        PROVE  depth2[dirs'[e].upper] < depth2[e]
    <3>1. CASE e = d
      BY <1>5, <1>6, <2>2, <2>4, <2>5, <3>1
    <3>2. CASE e # d
      <4>1. IsDir(e) /\ dirs'[e] = dirs[e] /\ dirs[e].upper # 0 /\ dirs[e].upper # d
        BY <1>5, <1>6, <2>5, <3>2 DEF IsDir
      <4>2. dirs[e].upper \in Dirs
        BY <1>2, <4>1 DEF Accepted, VolumeOK, Record, Parents, Dirs
      <4>3. depth[dirs[e].upper] < depth[e]
        BY <2>1, <4>1 DEF Deeper, IsDir
      <4> QED
        BY <2>4, <3>2, <4>1, <4>2, <4>3
    <3> QED
      BY <3>1, <3>2
  <2>6. Deeper(depth2, dirs')
    BY <2>5 DEF Deeper
  <2> QED
    BY <2>4, <2>6 DEF Nested
<1>15. OwnersKept
  BY <1>1 DEF OwnersKept, OwnersAgree, Agree
<1> QED
  BY <1>9, <1>10, <1>11, <1>12, <1>13, <1>14, <1>15 DEF Accepted

(* free_file and free_dir.                                                  *)
Gone(heads) == UNION {ToSet(ChainOf(h)) : h \in heads}
Below(d)    == {e \in Dirs : IsDir(e) /\ d \in Upward(e)}

LEMMA FreedFields ==
  ASSUME NEW heads, Loads(Freed(heads))
  PROVE  /\ dirs' = dirs
         /\ table' = [c \in Clusters |-> IF c \in Gone(heads) THEN NoOwner ELSE table[c]]
         /\ cluster' = [c \in Clusters |-> IF c \in Gone(heads) THEN Zeroed ELSE cluster[c]]
BY DEF Loads, Freed, Volumes, Gone

LEMMA FreedDirectoryFields ==
  ASSUME NEW d, Loads(FreedDirectory(d))
  PROVE  LET heads == {h \in Heads : table[h].dir \in Below(d)}
         IN  /\ dirs' = [e \in Dirs |-> IF e \in Below(d) THEN NoRecord ELSE dirs[e]]
             /\ table' = [c \in Clusters |-> IF c \in Gone(heads) THEN NoOwner ELSE table[c]]
             /\ cluster' = [c \in Clusters |-> IF c \in Gone(heads) THEN Zeroed ELSE cluster[c]]
BY DEF Loads, FreedDirectory, Freed, Volumes, Gone, Below

LEMMA FreedClusters ==
  ASSUME TypeOK, ChainsSound, NEW heads \in SUBSET Heads,
         NEW o, NEW p \in [Clusters -> Nat], Lay(Heads, o, p, table, cluster)
  PROVE  Gone(heads) = Of(heads, o)
<1>1. ASSUME NEW h \in heads PROVE ToSet(ChainOf(h)) = Of({h}, o)
  BY ChainSet
<1> QED
  BY <1>1 DEF Gone, Of

There(e, ds) == e = 0 \/ ds[e].name[1] # 0

LEMMA FreedAccepted ==
  ASSUME TypeOK, Accepted, NEW heads \in SUBSET Heads,
         table' = [c \in Clusters |-> IF c \in Gone(heads) THEN NoOwner ELSE table[c]],
         cluster' = [c \in Clusters |-> IF c \in Gone(heads) THEN Zeroed ELSE cluster[c]],
         dirs' \in [Dirs -> Record], \A d \in Dirs : IsDir(d)' => dirs'[d] = dirs[d],
         BlankAtRoot', \A d \in Dirs : IsDir(d)' => There(dirs[d].upper, dirs'),
         \A c \in Heads \ heads : There(table[c].dir, dirs')
  PROVE  Accepted' /\ OwnersKept
<1>1. PICK o \in [Clusters -> Clusters], p \in [Clusters -> Nat] : Lay(Heads, o, p, table, cluster)
  BY DEF Accepted, Chained
<1>2. Gone(heads) = Of(heads, o)
  BY <1>1, FreedClusters DEF Accepted
<1>3. /\ \A c \in Of(heads, o) : /\ table'[c].used = FREE /\ cluster'[c] = Zeroed
                                  /\ table'[c] = NoOwner
      /\ \A c \in Clusters \ Of(heads, o) : table'[c] = table[c] /\ cluster'[c] = cluster[c]
  BY <1>2 DEF Of, NoOwner
<1>4. VolumeOK'
  <2>1. ASSUME NEW c \in Clusters PROVE table'[c] \in Entry /\ cluster'[c] \in Cluster
    BY <1>3, EmptyType DEF TypeOK, VolumeOK
  <2>2. table' \in [Clusters -> Entry]
    BY <2>1
  <2>3. cluster' \in [Clusters -> Cluster]
    BY <2>1
  <2> QED
    BY <2>2, <2>3 DEF VolumeOK
<1>5. PICK head, S, q : (head \in Clusters) /\ S = {} /\ q = <<>>
  <2>1. 1 \in Clusters
    BY FormatAssumption DEF Clusters
  <2> QED
    BY <2>1
<1>6. Replaces(heads, o, S, head, q, table', cluster')
  BY <1>3, <1>5 DEF Replaces
<1>7. NoneStranded'
  <2>1. ASSUME NEW c \in Heads' PROVE c \in Heads \ heads /\ table'[c] = table[c]
    <3>1. c \in Clusters /\ table'[c].used = HEAD
      BY DEF Heads
    <3>2. c \notin Of(heads, o) /\ table'[c] = table[c]
      <4>1. c \notin Of(heads, o)
        BY ONLY <1>3, <3>1 DEF HEAD, FREE
      <4> QED
        BY <1>3, <3>1, <4>1
    <3>3. c \in Heads /\ o[c] = c /\ Live(c)
      BY <1>1, <3>1, <3>2 DEF Heads, Lay, Live, HEAD, FREE
    <3> QED
      BY <3>2, <3>3 DEF Of, Heads
  <2>2. ASSUME NEW c \in Heads' PROVE There(table'[c].dir, dirs')
    BY <2>1
  <2>3. ASSUME NEW d \in Dirs, IsDir(d)' PROVE There(dirs'[d].upper, dirs')
    BY <2>3
  <2> QED
    BY <2>2, <2>3 DEF NoneStranded, ValidDir, IsDir, There
<1>8. /\ \A c \in S : Length(c)' <= Capacity(c)'
      /\ head \in S => Spare(heads, table'[head].dir, FileText(head)')
      /\ \A b, c \in S : table'[b].dir = table'[c].dir
  BY <1>5
<1> QED
  BY <1>1, <1>4, <1>5, <1>6, <1>7, <1>8, ReplacedAccepted

LEMMA FileFreed ==
  ASSUME TypeOK, Accepted, NEW heads \in SUBSET Heads, Loads(Freed(heads))
  PROVE  Accepted' /\ OwnersKept
<1>1. /\ dirs' = dirs
      /\ table' = [c \in Clusters |-> IF c \in Gone(heads) THEN NoOwner ELSE table[c]]
      /\ cluster' = [c \in Clusters |-> IF c \in Gone(heads) THEN Zeroed ELSE cluster[c]]
  BY FreedFields
<1>2. BlankAtRoot' /\ \A d \in Dirs : IsDir(d)' => IsDir(d)
  BY <1>1, SameDirs DEF Accepted
<1>3. \A e : ValidDir(e) => There(e, dirs')
  BY <1>1 DEF ValidDir, IsDir, There
<1>4. \A d \in Dirs : IsDir(d)' => There(dirs[d].upper, dirs')
  BY <1>2, <1>3 DEF Accepted, NoneStranded
<1>5. \A c \in Heads \ heads : There(table[c].dir, dirs')
  BY <1>3 DEF Accepted, NoneStranded
<1>6. dirs' \in [Dirs -> Record]
  BY <1>1 DEF TypeOK, VolumeOK
<1> QED
  BY <1>1, <1>2, <1>4, <1>5, <1>6, FreedAccepted

LEMMA DirectoryFreed ==
  ASSUME TypeOK, Accepted, NEW d, Loads(FreedDirectory(d))
  PROVE  /\ Accepted' /\ OwnersKept
         /\ \A e \in Parents : ValidDir(e) /\ d \notin Upward(e) => There(e, dirs')
<1>1. PICK heads : heads = {h \in Heads : table[h].dir \in Below(d)}
  OBVIOUS
<1>2. /\ dirs' = [e \in Dirs |-> IF e \in Below(d) THEN NoRecord ELSE dirs[e]]
      /\ table' = [c \in Clusters |-> IF c \in Gone(heads) THEN NoOwner ELSE table[c]]
      /\ cluster' = [c \in Clusters |-> IF c \in Gone(heads) THEN Zeroed ELSE cluster[c]]
  BY <1>1, FreedDirectoryFields
<1>3. NoRecord.name[1] = 0 /\ NoRecord.upper = 0 /\ NoRecord \in Record
  BY EmptyType, Sizes DEF NoRecord
<1>4. /\ \A e \in Below(d) : dirs'[e] = NoRecord
      /\ \A e \in Dirs \ Below(d) : dirs'[e] = dirs[e]
      /\ dirs' \in [Dirs -> Record]
  BY <1>2, <1>3 DEF Below, TypeOK, VolumeOK
<1>5. ASSUME NEW e \in Dirs, IsDir(e)' PROVE e \notin Below(d) /\ dirs'[e] = dirs[e] /\ IsDir(e)
  BY <1>3, <1>4, <1>5 DEF IsDir
<1>6. ASSUME NEW e \in Dirs, IsDir(e), e \notin Below(d) PROVE There(e, dirs')
  BY <1>4, <1>6 DEF IsDir, There
<1>7. BlankAtRoot'
  <2>1. ASSUME NEW e \in Dirs, dirs'[e].name[1] = 0 PROVE dirs'[e].upper = 0
    <3>1. CASE e \in Below(d)
      BY <1>3, <1>4, <3>1
    <3>2. CASE e \notin Below(d)
      BY <1>4, <2>1, <3>2 DEF Accepted, BlankAtRoot, IsDir
    <3> QED
      BY <3>1, <3>2
  <2> QED
    BY <2>1 DEF BlankAtRoot, IsDir
<1>8. \A e \in Parents : e = 0 \/ e \in Dirs
  BY FormatAssumption DEF Parents, Dirs
<1>9. ASSUME NEW e \in Parents, ValidDir(e), e \notin Below(d) PROVE There(e, dirs')
  BY <1>6, <1>8, <1>9 DEF ValidDir, There
<1>10. ASSUME NEW e \in Dirs, IsDir(e)' PROVE There(dirs[e].upper, dirs')
  <2>1. e \notin Below(d) /\ IsDir(e)
    BY <1>5, <1>10
  <2>2. dirs[e].upper \in Parents /\ ValidDir(dirs[e].upper)
    BY <2>1 DEF Accepted, VolumeOK, Record, NoneStranded
  <2>3. d \notin Upward(e)
    BY <2>1 DEF Below
  <2>4. d \notin Upward(dirs[e].upper)
    BY <2>1, <2>3, UpwardClimbs DEF Accepted
  <2> QED
    BY <1>9, <2>2, <2>4 DEF Below
<1>11. ASSUME NEW c \in Heads \ heads PROVE There(table[c].dir, dirs')
  <2>1. table[c].dir \in Parents /\ ValidDir(table[c].dir) /\ table[c].dir \notin Below(d)
    BY <1>1 DEF Heads, Accepted, VolumeOK, Entry, NoneStranded
  <2> QED
    BY <1>9, <2>1
<1>12. Accepted' /\ OwnersKept
  <2>1. heads \in SUBSET Heads
    BY <1>1
  <2> QED
    BY <1>2, <1>4, <1>5, <1>7, <1>10, <1>11, <2>1, FreedAccepted
<1>13. \A e \in Parents : ValidDir(e) /\ d \notin Upward(e) => There(e, dirs')
  BY <1>9 DEF Below
<1> QED
  BY <1>12, <1>13
-----------------------------------------------------------------------------
(* A session.                                                               *)

Shaped ==
  session = [open |-> session.open, left |-> session.left, current |-> session.current,
             dirty |-> session.dirty, image |-> session.image,
             code |-> session.code, content |-> session.content]

(* What a command leaves of the session: it goes on, for the same card, and *)
(* is marked if the copy has changed.                                      *)
GoesOnMarked ==
  /\ Shaped' /\ session'.open = session.open /\ session'.image = session.image
  /\ session'.dirty = TRUE \/ (session'.dirty = session.dirty /\ UNCHANGED disk)
Stays == session'.current = session.current

LEMMA EndsSession == ASSUME Shaped, NEW code, Fails(code) PROVE GoesOnMarked /\ Stays
<1>1. session' = [session EXCEPT !.left = @ - 1, !.code = code, !.content = Refusal]
  BY DEF Fails, Ends
<1>2. session' = [open |-> session.open, left |-> session.left - 1, current |-> session.current,
                  dirty |-> session.dirty, image |-> session.image,
                  code |-> code, content |-> Refusal]
  BY <1>1 DEF Shaped
<1> QED
  BY <1>2 DEF Fails, GoesOnMarked, Stays, Shaped

LEMMA ChangesSession == ASSUME Shaped, NEW v, Changes(v) PROVE GoesOnMarked /\ Stays /\ Loads(v)
<1>1. session' = [session EXCEPT !.left = @ - 1, !.code = OK, !.content = Refusal, !.dirty = TRUE]
  BY DEF Changes
<1>2. session' = [open |-> session.open, left |-> session.left - 1, current |-> session.current,
                  dirty |-> TRUE, image |-> session.image, code |-> OK, content |-> Refusal]
  BY <1>1 DEF Shaped
<1> QED
  BY <1>2 DEF Changes, GoesOnMarked, Stays, Shaped

LEMMA SameVolume ==
  ASSUME UNCHANGED disk
  PROVE  /\ Accepted => Accepted'
         /\ OwnersKept
         /\ NoneStranded => NoneStranded'
         /\ \A d : ValidDir(d) => There(d, dirs')
<1>1. table' = table /\ dirs' = dirs /\ cluster' = cluster
  BY DEF disk
<1>2. \A c : Live(c)' = Live(c) /\ Length(c)' = Length(c) /\ Capacity(c)' = Capacity(c)
             /\ FileText(c)' = FileText(c)
  BY <1>1 DEF Live, Length, Capacity, FileText
<1>3. \A d : IsDir(d)' = IsDir(d) /\ ValidDir(d)' = ValidDir(d) /\ DirText(d)' = DirText(d)
  BY <1>1, SameDirs
<1>4. VolumeOK => VolumeOK'
  BY <1>1 DEF VolumeOK
<1>5. ChainsSound => ChainsSound'
  BY <1>1, <1>2 DEF ChainsSound
<1>6. Heads' = Heads
  BY <1>1 DEF Heads
<1>7. NoneStranded => NoneStranded'
  BY <1>1, <1>3, <1>6 DEF NoneStranded
<1>8. Chained => Chained'
  BY <1>1, <1>6 DEF Chained
<1>9. Fitting => Fitting'
  BY <1>2 DEF Fitting
<1>10. Distinct => Distinct'
  BY <1>1, <1>2, <1>3, <1>6 DEF Distinct
<1>11. Nested => Nested'
  BY <1>1 DEF Nested
<1>12. BlankAtRoot => BlankAtRoot'
  BY <1>1, SameDirs
<1>13. \A d : ValidDir(d) => There(d, dirs')
  BY <1>1 DEF ValidDir, IsDir, There
<1>14. OwnersKept
  BY <1>1 DEF OwnersKept, OwnersAgree, Agree
<1> QED
  BY <1>4, <1>5, <1>7, <1>8, <1>9, <1>10, <1>11, <1>12, <1>13, <1>14 DEF Accepted

(* What the session relies on, and what a command keeps of it.              *)
InSession == TypeOK /\ Accepted /\ Shaped /\ Standing(session.current)
Keeps == /\ Accepted' /\ OwnersKept /\ GoesOnMarked
         /\ session'.current \in Parents /\ There(session'.current, dirs')

LEMMA FailsKeep == ASSUME InSession, NEW code, Fails(code) PROVE Keeps
<1>1. GoesOnMarked /\ Stays /\ UNCHANGED disk
  BY EndsSession DEF InSession, Fails
<1> QED
  BY <1>1, SameVolume DEF InSession, Standing, Stays, Keeps

LEMMA ChangesKeep ==
  ASSUME InSession, NEW v, Changes(v), Accepted', OwnersKept,
         \A d \in Dirs : IsDir(d) => dirs'[d] = dirs[d]
  PROVE  Keeps
<1>1. GoesOnMarked /\ Stays
  BY ChangesSession DEF InSession
<1>2. \A d \in Parents : d = 0 \/ d \in Dirs
  BY FormatAssumption DEF Parents, Dirs
<1>3. There(session.current, dirs')
  BY <1>2 DEF InSession, Standing, ValidDir, There, IsDir
<1> QED
  BY <1>1, <1>3 DEF InSession, Standing, Stays, Keeps

LEMMA MakeDirKeeps == ASSUME InSession, NEW path \in HostPaths, MakeDir(path) PROVE Keeps
<1>1. PICK up, name : up = ParentOf(path) /\ name = LastOf(path)
  OBVIOUS
<1>2. CASE \E code : Fails(code)
  BY <1>2, FailsKeep
<1>3. CASE ~ \E code : Fails(code)
  <2>1. /\ up # NoEntry /\ name \notin {Above, Bad} /\ name # Long /\ NamesDir(name) /\ ~ Taken(path, up)
        /\ \E d \in Dirs :
             /\ FirstFreeDir(d)
             /\ Changes([Volumes EXCEPT !.dirs[d] =
                           [upper |-> up, name |-> [i \in 1 .. DIRNAME |-> name[i]]]])
    BY <1>1, <1>3 DEF MakeDir
  <2>2. Standing(up) /\ name \in Names \ Special
    BY <1>1, <2>1, ParentValid DEF InSession, Accepted, Special
  <2>3. Spare({}, up, name)
    BY <1>1, <2>1, <2>2, NotTaken DEF InSession, Accepted
  <2>4. PICK d \in Dirs :
          /\ FirstFreeDir(d)
          /\ Changes([Volumes EXCEPT !.dirs[d] =
                        [upper |-> up, name |-> [i \in 1 .. DIRNAME |-> name[i]]]])
    BY <2>1
  <2>5. Loads([Volumes EXCEPT !.dirs[d] = [upper |-> up, name |-> [i \in 1 .. DIRNAME |-> name[i]]]])
    BY <2>4 DEF Changes
  <2>6. ~ IsDir(d)
    BY <2>4 DEF FirstFreeDir
  <2>7. Accepted' /\ OwnersKept
    BY <2>1, <2>2, <2>3, <2>5, <2>6, MadeAccepted DEF InSession
  <2>8. \A e \in Dirs : e # d => dirs'[e] = dirs[e]
    BY <2>5 DEF Loads, Volumes, InSession, TypeOK, VolumeOK
  <2> QED
    BY <2>4, <2>6, <2>7, <2>8, ChangesKeep
<1> QED
  BY <1>2, <1>3

LEMMA TouchKeeps == ASSUME InSession, NEW path \in HostPaths, HostTouch(path) PROVE Keeps
<1>1. CASE TouchCode(path) = OK
  <2>1. Changes(Touched(path)) /\ Loads(Touched(path))
    BY <1>1 DEF HostTouch, Changes
  <2>2. Accepted' /\ OwnersKept
    BY <1>1, <2>1, TouchedAccepted DEF InSession
  <2>3. dirs' = dirs
    BY <2>1 DEF Loads, Touched, Volumes
  <2> QED
    BY <2>1, <2>2, <2>3, ChangesKeep
<1>2. CASE TouchCode(path) # OK
  BY <1>2, FailsKeep DEF HostTouch
<1> QED
  BY <1>1, <1>2

LEMMA StoredKeeps ==
  ASSUME InSession, NEW head \in Clusters, NEW own, NEW H, NEW up, NEW name \in Names,
         NEW content \in Contents, Standing(up), Spare(H, up, name),
         HasRoom(head, own, Len(content)), Changes(Stored(head, own, up, name, content)),
         \/ head \in Heads /\ H = {head} /\ own = ToSet(ChainOf(head))
         \/ ~ Live(head) /\ H = {} /\ own = {head}
  PROVE  Keeps
<1>1. Loads(Stored(head, own, up, name, content))
  BY DEF Changes
<1>2. content \in Seq(Data)
  BY HostAssumption
<1>3. Accepted' /\ OwnersKept
  BY <1>1, <1>2, StoredAccepted DEF InSession
<1>4. dirs' = dirs
  BY <1>1, StoredFields
<1> QED
  BY <1>3, <1>4, ChangesKeep

LEMMA SetContentKeeps ==
  ASSUME InSession, NEW path \in HostPaths, NEW content \in Contents, SetContent(path, content)
  PROVE  Keeps
<1>1. PICK up, heads, head, own, name :
        /\ up = ParentOf(path) /\ name = LastOf(path)
        /\ heads = IF up = NoEntry THEN {} ELSE FilesIn(name, up)
        /\ head = Min(heads) /\ own = ToSet(ChainOf(head))
  OBVIOUS
<1>2. CASE \E code : Fails(code)
  BY <1>2, FailsKeep
<1>3. CASE ~ \E code : Fails(code)
  <2>1. heads # {} /\ HasRoom(head, own, Len(content)) /\ Changes(Stored(head, own, up, name, content))
    BY <1>1, <1>3 DEF SetContent
  <2>2. up # NoEntry /\ heads = FilesIn(name, up)
    BY <1>1, <2>1
  <2>3. Standing(up)
    BY <1>1, <2>2, ParentValid DEF InSession, Accepted
  <2>4. name \in Names /\ head \in Heads /\ Spare({head}, up, name)
    BY <1>1, <2>1, <2>2, FileFound DEF InSession, Accepted
  <2>5. head \in Clusters
    BY <2>4 DEF Heads
  <2> QED
    BY <1>1, <2>1, <2>3, <2>4, <2>5, StoredKeeps
<1> QED
  BY <1>2, <1>3

LEMMA PutKeeps ==
  ASSUME InSession, NEW path \in HostPaths, NEW content \in Contents, Put(path, content)
  PROVE  Keeps
<1>1. CASE \E code : Fails(code)
  BY <1>1, FailsKeep
<1>2. CASE TouchCode(path) = DIRNAME_FILENAME_ALREADY_EXIST /\ SetContent(path, content)
  BY <1>2, SetContentKeeps
<1>3. CASE /\ TouchCode(path) = OK /\ HasRoom(FirstUnused, {FirstUnused}, Len(content))
           /\ Changes(Stored(FirstUnused, {FirstUnused}, ParentOf(path), LastOf(path), content))
  <2>1. /\ Standing(ParentOf(path)) /\ LastOf(path) \in Names
        /\ Spare({}, ParentOf(path), LastOf(path)) /\ FirstUnused \in Clusters /\ ~ Live(FirstUnused)
    BY <1>3, TouchReady DEF InSession, Accepted
  <2> QED
    BY <1>3, <2>1, StoredKeeps
<1> QED
  BY <1>1, <1>2, <1>3 DEF Put, PutFailed

LEMMA RemoveKeeps == ASSUME InSession, NEW path \in HostPaths, HostRemove(path) PROVE Keeps
<1>1. PICK up, heads, d, name :
        /\ up = ParentOf(path) /\ name = LastOf(path)
        /\ heads = IF up = NoEntry THEN {} ELSE FilesIn(name, up)
        /\ d = IF up = NoEntry THEN NoEntry ELSE HostChild(name, up)
  OBVIOUS
<1>2. CASE heads # {} /\ Changes(Freed({Min(heads)}))
  <2>1. heads = FilesIn(name, up)
    BY <1>1, <1>2
  <2>2. Min(heads) \in Heads
    BY <1>2, <2>1, FileFound DEF InSession, Accepted
  <2>3. Loads(Freed({Min(heads)}))
    BY <1>2 DEF Changes
  <2>4. Accepted' /\ OwnersKept
    BY <2>2, <2>3, FileFreed DEF InSession
  <2>5. dirs' = dirs
    BY <2>3, FreedFields
  <2> QED
    BY <1>2, <2>4, <2>5, ChangesKeep
<1>3. CASE Fails(NOT_THERE)
  BY <1>3, FailsKeep
<1>4. CASE /\ Loads(FreedDirectory(d))
           /\ session' = [session EXCEPT !.current = StaysOutside(d), !.dirty = TRUE,
                                         !.left = @ - 1, !.code = OK, !.content = Refusal]
  <2>1. Accepted' /\ OwnersKept /\ \A e \in Parents : ValidDir(e) /\ d \notin Upward(e) => There(e, dirs')
    BY <1>4, DirectoryFreed DEF InSession
  <2>2. session' = [open |-> session.open, left |-> session.left - 1, current |-> StaysOutside(d),
                    dirty |-> TRUE, image |-> session.image, code |-> OK, content |-> Refusal]
    BY <1>4 DEF InSession, Shaped
  <2>3. GoesOnMarked /\ session'.current = StaysOutside(d)
    BY <2>2 DEF GoesOnMarked, Shaped
  <2>4. StaysOutside(d) \in Parents /\ There(StaysOutside(d), dirs')
    BY <2>1, RootApart DEF StaysOutside, There, InSession, Standing
  <2> QED
    BY <2>1, <2>3, <2>4 DEF Keeps
<1> QED
  BY <1>1, <1>2, <1>3, <1>4 DEF HostRemove

LEMMA ChangeDirectoryKeeps ==
  ASSUME InSession, NEW path \in HostPaths, ChangeDirectory(path) PROVE Keeps
<1>1. PICK d, current, code :
        /\ d = Directory(path) /\ current = (IF d = NoEntry THEN session.current ELSE d)
        /\ code = IF d = NoEntry THEN NOT_THERE ELSE OK
  OBVIOUS
<1>2. d = NoEntry \/ Standing(d)
  BY <1>1, ParentValid DEF InSession, Accepted
<1>3. Standing(current)
  BY <1>1, <1>2 DEF InSession
<1>4. /\ UNCHANGED disk
      /\ session' = [session EXCEPT !.current = current, !.left = @ - 1, !.code = code,
                                    !.content = Refusal]
  BY <1>1 DEF ChangeDirectory
<1>5. session' = [open |-> session.open, left |-> session.left - 1, current |-> current,
                  dirty |-> session.dirty, image |-> session.image, code |-> code,
                  content |-> Refusal]
  BY <1>4 DEF InSession, Shaped
<1>6. GoesOnMarked /\ session'.current = current
  BY <1>4, <1>5 DEF GoesOnMarked, Shaped
<1> QED
  BY <1>3, <1>4, <1>6, SameVolume DEF InSession, Standing, Keeps

LEMMA GetContentKeeps == ASSUME InSession, NEW path \in HostPaths, GetContent(path) PROVE Keeps
<1>1. PICK code, content :
        /\ UNCHANGED disk
        /\ session' = [session EXCEPT !.left = @ - 1, !.code = code, !.content = content]
  BY DEF GetContent
<1>2. session' = [open |-> session.open, left |-> session.left - 1, current |-> session.current,
                  dirty |-> session.dirty, image |-> session.image, code |-> code,
                  content |-> content]
  BY <1>1 DEF InSession, Shaped
<1>3. GoesOnMarked /\ session'.current = session.current
  BY <1>1, <1>2 DEF GoesOnMarked, Shaped
<1> QED
  BY <1>1, <1>3, SameVolume DEF InSession, Standing, Keeps

LEMMA CommandKeeps == ASSUME InSession, Command PROVE Keeps
BY MakeDirKeeps, TouchKeeps, RemoveKeeps, ChangeDirectoryKeeps, GetContentKeeps, SetContentKeeps,
   PutKeeps DEF Command
-----------------------------------------------------------------------------
(* The card of a session is one the session could have been opened on.      *)
SoundVolume(v) ==
  /\ v.table \in [Clusters -> Entry] /\ v.dirs \in [Dirs -> Record] /\ v.cluster \in [Clusters -> Cluster]
  /\ \A c \in Clusters : v.table[c].used # FREE /\ v.cluster[c].next # 0 =>
       v.table[v.cluster[c].next].used = CONT
  /\ \A b, c \in Clusters :
       v.table[b].used # FREE /\ v.table[c].used # FREE
       /\ v.cluster[b].next = v.cluster[c].next /\ v.cluster[b].next # 0 => b = c
  /\ \A d \in Dirs : IF v.dirs[d].name[1] # 0 THEN There(v.dirs[d].upper, v.dirs)
                                              ELSE v.dirs[d].upper = 0
  /\ \A c \in Clusters : v.table[c].used = HEAD => There(v.table[c].dir, v.dirs)

LEMMA VolumeSound ==
  ASSUME VolumeOK, ChainsSound, NoneStranded, BlankAtRoot PROVE SoundVolume(Volumes)
<1>1. Volumes.table = table /\ Volumes.dirs = dirs /\ Volumes.cluster = cluster
  BY DEF Volumes
<1>2. \A d \in Dirs : IF dirs[d].name[1] # 0 THEN There(dirs[d].upper, dirs) ELSE dirs[d].upper = 0
  BY DEF NoneStranded, BlankAtRoot, IsDir, ValidDir, There
<1>3. \A c \in Clusters : table[c].used = HEAD => There(table[c].dir, dirs)
  BY DEF NoneStranded, Heads, IsDir, ValidDir, There
<1>4. /\ \A c \in Clusters : table[c].used # FREE /\ cluster[c].next # 0 =>
           table[cluster[c].next].used = CONT
      /\ \A b, c \in Clusters : table[b].used # FREE /\ table[c].used # FREE
           /\ cluster[b].next = cluster[c].next /\ cluster[b].next # 0 => b = c
  BY DEF ChainsSound, Live
<1> QED
  BY <1>1, <1>2, <1>3, <1>4 DEF SoundVolume, VolumeOK

LEMMA SoundLoaded ==
  ASSUME NEW v, SoundVolume(v), Loads(v)
  PROVE  VolumeOK' /\ ChainsSound' /\ NoneStranded' /\ BlankAtRoot'
<1>1. table' = v.table /\ dirs' = v.dirs /\ cluster' = v.cluster
  BY DEF Loads
<1>2. VolumeOK'
  BY <1>1 DEF VolumeOK, SoundVolume
<1>3. ChainsSound'
  <2>1. /\ \A c \in Clusters : table'[c].used # FREE /\ cluster'[c].next # 0 =>
             table'[cluster'[c].next].used = CONT
        /\ \A b, c \in Clusters : table'[b].used # FREE /\ table'[c].used # FREE
             /\ cluster'[b].next = cluster'[c].next /\ cluster'[b].next # 0 => b = c
    BY <1>1 DEF SoundVolume
  <2> QED
    BY <2>1 DEF ChainsSound, Live
<1>4. NoneStranded' /\ BlankAtRoot'
  <2>1. /\ \A d \in Dirs : IF dirs'[d].name[1] # 0 THEN There(dirs'[d].upper, dirs')
                                                   ELSE dirs'[d].upper = 0
        /\ \A c \in Clusters : table'[c].used = HEAD => There(table'[c].dir, dirs')
    BY <1>1 DEF SoundVolume
  <2> QED
    BY <2>1 DEF NoneStranded, BlankAtRoot, Heads, IsDir, ValidDir, There
<1> QED
  BY <1>2, <1>3, <1>4
-----------------------------------------------------------------------------
(* The invariant.  The kernel's part is that of its own proofs; while a     *)
(* session is open no service is, the copy is one the reader accepts, and   *)
(* so was the card.                                                        *)
SessionInv ==
  session.open =>
    /\ work = Idle /\ Accepted /\ Standing(session.current)
    /\ SoundVolume(session.image) /\ (session.dirty \/ Volumes = session.image)
CardInv == IInv /\ TreeInv /\ Shaped /\ SessionInv

LEMMA InitCard == CardInit => CardInv
<1> SUFFICES ASSUME CardInit PROVE CardInv
  OBVIOUS
<1>1. IInv /\ TreeInv
  BY InitType, InitSafe, TreeInit DEF CardInit, IInv
<1>2. session = NoSession
  BY DEF CardInit
<1>3. ~ session.open /\ Shaped
  BY <1>2 DEF NoSession, Shaped
<1> QED
  BY <1>1, <1>3 DEF CardInv, SessionInv

LEMMA KernelPart == IInv /\ TreeInv /\ [Next]_vars => IInv' /\ TreeInv'
BY TypeStep, SafeStep, TreeStep DEF IInv

(* With no service running the kernel relies on the volume alone.           *)
LEMMA IdleKernel ==
  ASSUME IInv, work = Idle, UNCHANGED <<fs, redirect, work, result, resets>>,
         VolumeOK', ChainsSound', NoneStranded', BlankAtRoot'
  PROVE  IInv' /\ TreeInv'
<1>1. work'.step = "idle"
  BY IdleFields
<1>2. TypeOK'
  BY DEF IInv, TypeOK
<1>3. StepOK'
  BY <1>1, NothingPrepared
<1>4. Prepared'
  BY <1>1 DEF Prepared
<1> QED
  BY <1>2, <1>3, <1>4 DEF IInv, TreeInv

LEMMA LoadStep == ASSUME CardInv, PutInReader PROVE CardInv'
<1>1. Reset /\ UNCHANGED disk /\ work' = Idle
  BY DEF PutInReader, Load, Reset, disk, Returns
<1>2. IInv' /\ TreeInv'
  BY <1>1, KernelPart DEF CardInv, Next
<1>3. CASE ~ HostValid
  <2>1. session' = NoSession
    BY <1>3 DEF PutInReader, Load
  <2>2. ~ session'.open /\ Shaped'
    BY <2>1 DEF NoSession, Shaped
  <2> QED
    BY <1>2, <2>2 DEF CardInv, SessionInv
<1>4. CASE HostValid
  <2>1. session' = [open |-> TRUE, left |-> MaxCommands, current |-> 0, dirty |-> FALSE,
                    image |-> Volumes, code |-> OK, content |-> Refusal]
    BY <1>4 DEF PutInReader, Load, NoSession
  <2>2. Shaped' /\ session'.current = 0 /\ session'.image = Volumes
    BY <2>1 DEF Shaped
  <2>3. Accepted
    BY <1>4, HostAccepts DEF CardInv, IInv, TypeOK, TreeInv
  <2>4. Accepted'
    BY <1>1, <2>3, SameVolume
  <2>5. SoundVolume(Volumes)
    BY <2>3, VolumeSound DEF Accepted
  <2>6. Volumes' = Volumes
    BY <1>1 DEF Volumes, disk
  <2>7. Standing(session.current)'
    BY <2>2, RootApart DEF Standing, ValidDir
  <2>8. SessionInv'
    BY <1>1, <2>2, <2>4, <2>5, <2>6, <2>7 DEF SessionInv
  <2> QED
    BY <1>2, <2>2, <2>8 DEF CardInv
<1> QED
  BY <1>3, <1>4

LEMMA MachineStep == ASSUME CardInv, InMachine PROVE CardInv'
<1>1. IInv' /\ TreeInv'
  BY KernelPart DEF CardInv, InMachine
<1>2. session' = session /\ ~ session.open
  BY DEF InMachine
<1>3. Shaped' /\ SessionInv'
  BY <1>2 DEF CardInv, Shaped, SessionInv
<1> QED
  BY <1>1, <1>3 DEF CardInv

LEMMA RunStep ==
  ASSUME CardInv, Run, UNCHANGED <<fs, redirect, work, result, resets>> PROVE CardInv'
<1>1. session.open /\ Command
  BY DEF Run
<1>2. /\ work = Idle /\ SoundVolume(session.image) /\ InSession
      /\ (session.dirty \/ Volumes = session.image)
  BY <1>1 DEF CardInv, SessionInv, InSession, IInv
<1>3. Keeps
  BY <1>1, <1>2, CommandKeeps
<1>4. Accepted' /\ Shaped' /\ session'.image = session.image
  BY <1>3 DEF Keeps, GoesOnMarked
<1>5. IInv' /\ TreeInv'
  BY <1>2, <1>4, IdleKernel DEF CardInv, Accepted
<1>6. Standing(session.current)'
  BY <1>3 DEF Keeps, There, Standing, ValidDir, IsDir
<1>7. session'.dirty \/ Volumes' = session'.image
  <2>1. CASE session'.dirty = TRUE
    BY <2>1
  <2>2. CASE session'.dirty = session.dirty /\ UNCHANGED disk
    BY <1>2, <1>4, <2>2 DEF Volumes, disk
  <2> QED
    BY <1>3, <2>1, <2>2 DEF Keeps, GoesOnMarked
<1>8. SessionInv'
  BY <1>2, <1>4, <1>6, <1>7 DEF SessionInv
<1> QED
  BY <1>4, <1>5, <1>8 DEF CardInv

LEMMA LeaveStep ==
  ASSUME CardInv, Exit \/ Abort, UNCHANGED <<fs, redirect, work, result, resets>> PROVE CardInv'
<1>1. session.open /\ session' = NoSession /\ (UNCHANGED disk \/ Loads(session.image))
  BY DEF Exit, Abort
<1>2. work = Idle /\ SoundVolume(session.image) /\ Accepted
  BY <1>1 DEF CardInv, SessionInv
<1>3. VolumeOK' /\ ChainsSound' /\ NoneStranded' /\ BlankAtRoot'
  <2>1. CASE UNCHANGED disk
    BY <1>2, <2>1, SameVolume DEF Accepted
  <2>2. CASE Loads(session.image)
    BY <1>2, <2>2, SoundLoaded
  <2> QED
    BY <1>1, <2>1, <2>2
<1>4. IInv' /\ TreeInv'
  BY <1>2, <1>3, IdleKernel DEF CardInv
<1>5. ~ session'.open /\ Shaped'
  BY <1>1 DEF NoSession, Shaped
<1> QED
  BY <1>4, <1>5 DEF CardInv, SessionInv

LEMMA CardStep == CardInv /\ [CardNext]_cardvars => CardInv'
<1> SUFFICES ASSUME CardInv, [CardNext]_cardvars PROVE CardInv'
  OBVIOUS
<1>1. ASSUME UNCHANGED cardvars PROVE CardInv'
  <2>1. UNCHANGED vars /\ session' = session /\ UNCHANGED disk /\ work' = work
    BY <1>1 DEF cardvars, vars, disk
  <2>2. IInv' /\ TreeInv'
    BY <2>1, KernelPart DEF CardInv
  <2>3. Shaped'
    BY <2>1 DEF CardInv, Shaped
  <2>4. SessionInv'
    BY <2>1, SameVolume
    DEF CardInv, SessionInv, Standing, There, ValidDir, IsDir, Volumes, disk
  <2> QED
    BY <2>2, <2>3, <2>4 DEF CardInv
<1> QED
  BY <1>1, LoadStep, MachineStep, RunStep, LeaveStep DEF CardNext, InReader
-----------------------------------------------------------------------------
(* Whoever writes the card, and wherever a reset falls, the card keeps the  *)
(* types of its format (TypeOK), as long as programs leave the file alone   *)
(* that the redirection writes (~ Shared), as in the theorems below.       *)
THEOREM CardTypeCorrect == ~ Shared /\ CardSpec => []TypeOK
<1>1. CardInv => TypeOK
  BY DEF CardInv, IInv
<1> QED
  BY <1>1, InitCard, CardStep, PTL DEF CardSpec

(* What a session saves, and what it abandons, is as sound as what the      *)
(* kernel left it: no file runs into free or foreign clusters (ChainsSound).*)
THEOREM CardChainsSound == ~ Shared /\ CardSpec => []ChainsSound
<1>1. CardInv => ChainsSound
  BY DEF CardInv, IInv
<1> QED
  BY <1>1, InitCard, CardStep, PTL DEF CardSpec

(* No command of a session, recursive removal included, leaves an entry in  *)
(* a directory that is gone, and neither does a reset (NoneStranded).      *)
THEOREM CardNothingStranded == ~ Shared /\ CardSpec => []NoneStranded
<1>1. CardInv => NoneStranded
  BY DEF CardInv, TreeInv
<1> QED
  BY <1>1, InitCard, CardStep, PTL DEF CardSpec

(* A session never turns a card it has accepted into one it would refuse,   *)
(* whatever its commands, and stands in a directory there is, whatever has  *)
(* been removed (SessionSound).                                            *)
THEOREM SessionStaysSound == ~ Shared /\ CardSpec => []SessionSound
<1>1. CardInv => SessionSound
  <2> SUFFICES ASSUME CardInv, session.open PROVE HostValid /\ Standing(session.current)
    BY DEF SessionSound, Standing
  <2>1. work = Idle /\ Accepted /\ Standing(session.current)
    BY DEF CardInv, SessionInv
  <2> QED
    BY <2>1, AcceptedValid, ValidVolume DEF CardInv
<1> QED
  BY <1>1, InitCard, CardStep, PTL DEF CardSpec

(* What a session would lose by not saving is marked (NothingUnmarked).     *)
THEOREM ChangesMarked == CardSpec => []NothingUnmarked
<1>1. CardInv => NothingUnmarked
  BY DEF CardInv, SessionInv, NothingUnmarked
<1> QED
  BY <1>1, InitCard, CardStep, PTL DEF CardSpec
-----------------------------------------------------------------------------
(* What is found by following links from the roots: a set that contains     *)
(* them and what its clusters link to contains all of it.                  *)
Linking(A) == \A b \in A : Live(b) /\ cluster[b].next # 0 => cluster[b].next \in A
Reached    == {c \in Clusters : \A A \in SUBSET Clusters : Roots \subseteq A /\ Linking(A) => c \in A}

LEMMA LinkType ==
  ASSUME VolumeOK, NEW b \in Clusters, cluster[b].next # 0 PROVE cluster[b].next \in Clusters
BY FormatAssumption DEF VolumeOK, Cluster, Clusters

(* A root is in use and nothing links to it.                                *)
LEMMA RootStarts ==
  ASSUME IInv, NEW r \in Roots PROVE r \in Clusters /\ Live(r) /\ Unlinked(r)
<1>1. CASE r \in Heads
  <2>1. r \in Clusters /\ table[r].used = HEAD
    BY <1>1 DEF Heads
  <2>2. Live(r) /\ table[r].used # CONT
    BY <2>1 DEF Live, HEAD, CONT, FREE
  <2> QED
    BY <2>1, <2>2, OthersUnlinked DEF IInv
<1>2. CASE r \in Detached
  <2>1. r = work.slot /\ work.step \in {"free owner", "free type", "cont link"}
    BY <1>2 DEF Detached
  <2>2. ASSUME work.step = "cont link" PROVE r \in Clusters /\ table[r].used = CONT /\ Unlinked(r)
    BY <2>1, <2>2 DEF IInv, StepOK
  <2>3. ASSUME work.step # "cont link" PROVE r \in Clusters /\ Live(r) /\ Unlinked(r)
    BY <2>1, <2>3 DEF IInv, StepOK
  <2>4. CONT # FREE
    BY DEF CONT, FREE
  <2> QED
    BY <2>2, <2>3, <2>4 DEF Live
<1> QED
  BY <1>1, <1>2 DEF Roots

(* Clusters that are linked one after the other, from one nothing links to, *)
(* are all different.                                                      *)
Trail(q, r) ==
  /\ q \in Seq(Clusters) /\ q # <<>> /\ q[1] = r
  /\ \A i \in 1 .. Len(q) - 1 : cluster[q[i]].next = q[i + 1]

LEMMA TrailLive ==
  ASSUME IInv, NEW r \in Roots, NEW q, Trail(q, r), NEW i \in 1 .. Len(q) PROVE Live(q[i])
<1> DEFINE T == {k \in 1 .. Len(q) : ~ Live(q[k])}
<1>1. q \in Seq(Clusters) /\ q # <<>> /\ q[1] = r
  BY DEF Trail
<1>2. SUFFICES ASSUME T # {} PROVE FALSE
  OBVIOUS
<1>3. PICK k \in T : \A m \in T : k <= m
  <2>1. T \in SUBSET Nat
    OBVIOUS
  <2> HIDE DEF T
  <2> QED
    BY <1>2, <2>1, Least
<1>4. k \in 1 .. Len(q) /\ ~ Live(q[k]) /\ Len(q) \in Nat
  BY <1>1, <1>3
<1>5. k # 1
  BY <1>1, <1>4, RootStarts
<1>6. k - 1 \in 1 .. Len(q) /\ k - 1 \in 1 .. Len(q) - 1 /\ ~ (k <= k - 1) /\ (k - 1) + 1 = k
  BY <1>4, <1>5
<1>7. Live(q[k - 1]) /\ q[k - 1] \in Clusters /\ q[k] \in Clusters
  BY <1>1, <1>3, <1>4, <1>6
<1>8. cluster[q[k - 1]].next = q[k]
  BY <1>6 DEF Trail
<1>9. q[k] # 0
  BY <1>7, FormatAssumption DEF Clusters
<1>10. table[q[k]].used = CONT
  BY <1>7, <1>8, <1>9 DEF IInv, ChainsSound
<1> QED
  BY <1>4, <1>10 DEF Live, CONT, FREE

LEMMA TrailDistinct ==
  ASSUME IInv, NEW r \in Roots, NEW q, Trail(q, r)
  PROVE  \A i, j \in 1 .. Len(q) : q[i] = q[j] => i = j
<1> DEFINE T == {k \in 1 .. Len(q) : \E j \in 1 .. Len(q) : k < j /\ q[k] = q[j]}
<1>1. q \in Seq(Clusters) /\ q # <<>> /\ q[1] = r /\ Len(q) \in Nat
  BY DEF Trail
<1>2. \A i \in 1 .. Len(q) : Live(q[i]) /\ q[i] \in Clusters
  BY <1>1, TrailLive
<1>3. \A k \in 1 .. Len(q) : k # 1 => /\ k - 1 \in 1 .. Len(q) /\ cluster[q[k - 1]].next = q[k]
  <2> SUFFICES ASSUME NEW k \in 1 .. Len(q), k # 1
               PROVE  k - 1 \in 1 .. Len(q) /\ cluster[q[k - 1]].next = q[k]
    OBVIOUS
  <2>1. k - 1 \in 1 .. Len(q) - 1 /\ (k - 1) + 1 = k /\ k - 1 \in 1 .. Len(q)
    BY <1>1
  <2> QED
    BY <2>1 DEF Trail
<1>4. T = {}
  <2> SUFFICES ASSUME T # {} PROVE FALSE
    OBVIOUS
  <2>1. PICK k \in T : \A m \in T : k <= m
    <3>1. T \in SUBSET Nat
      OBVIOUS
    <3> HIDE DEF T
    <3> QED
      BY <3>1, Least
  <2>2. k \in 1 .. Len(q)
    BY <2>1
  <2>3. PICK j \in 1 .. Len(q) : k < j /\ q[k] = q[j]
    BY <2>1
  <2>4. j # 1 /\ j - 1 \in 1 .. Len(q) /\ cluster[q[j - 1]].next = q[j]
    BY <1>3, <2>2, <2>3
  <2>5. k # 1
    <3>1. Unlinked(r)
      BY RootStarts
    <3> QED
      BY <1>1, <1>2, <2>3, <2>4, <3>1 DEF Unlinked
  <2>6. k - 1 \in 1 .. Len(q) /\ cluster[q[k - 1]].next = q[k]
    BY <1>3, <2>2, <2>5
  <2>7. q[k] # 0
    BY <1>2, <2>2, FormatAssumption DEF Clusters
  <2>8. q[k - 1] = q[j - 1]
    BY <1>2, <2>3, <2>4, <2>6, <2>7 DEF IInv, ChainsSound
  <2>9. k - 1 < j - 1 /\ ~ (k <= k - 1)
    BY <2>2, <2>3
  <2> QED
    BY <2>1, <2>4, <2>6, <2>8, <2>9
<1>5. SUFFICES ASSUME NEW i \in 1 .. Len(q), NEW j \in 1 .. Len(q), q[i] = q[j] PROVE i = j
  OBVIOUS
<1>6. i \notin T /\ j \notin T
  BY <1>4
<1> QED
  BY <1>5, <1>6

(* The chain of a root is whole, and its clusters are in use.               *)
LEMMA RootChain ==
  ASSUME IInv, NEW r \in Roots
  PROVE  /\ Trail(ChainOf(r), r) /\ Sound(ChainOf(r))
         /\ \A i \in 1 .. Len(ChainOf(r)) : ChainOf(r)[i] \in Clusters /\ Live(ChainOf(r)[i])
<1> DEFINE chain == ChainOf(r)
           last  == Len(chain)
<1>1. r \in Clusters /\ VolumeOK /\ N \in Nat
  BY RootStarts, FormatAssumption DEF IInv, TypeOK
<1>2. Linked(chain, r) /\ (cluster[chain[last]].next = 0 \/ last = N)
  BY <1>1, ChainLinked, ChainEnds
<1>3. Trail(chain, r)
  BY <1>2 DEF Linked, Trail
<1> HIDE DEF chain
<1>4. last \in Nat \ {0} /\ \A i \in 1 .. last : chain[i] \in Clusters /\ Live(chain[i])
  BY <1>3, TrailLive DEF Trail
<1>5. \A i, j \in 1 .. last : chain[i] = chain[j] => i = j
  BY <1>3, TrailDistinct
<1>6. ASSUME cluster[chain[last]].next # 0 PROVE FALSE
  <2> DEFINE next == cluster[chain[last]].next
             q    == Append(chain, next)
  <2>1. next \in Clusters /\ last = N /\ chain \in Seq(Clusters)
    BY <1>1, <1>2, <1>3, <1>4, <1>6, LinkType DEF Trail
  <2>2. q \in Seq(Clusters) /\ Len(q) = N + 1 /\ q[N + 1] = next /\ \A i \in 1 .. N : q[i] = chain[i]
    <3> HIDE DEF next
    <3> QED
      BY <1>1, <2>1
  <2>3. Trail(q, r)
    <3>1. q # <<>> /\ q[1] = r
      BY <1>3, <1>4, <2>1, <2>2 DEF Trail
    <3>2. ASSUME NEW i \in 1 .. Len(q) - 1 PROVE cluster[q[i]].next = q[i + 1]
      <4>1. i \in 1 .. N
        BY <1>1, <2>2
      <4>2. CASE i = N
        BY <2>1, <2>2, <4>1, <4>2
      <4>3. CASE i # N
        <5>1. i \in 1 .. last - 1 /\ i + 1 \in 1 .. N
          BY <1>1, <2>1, <4>1, <4>3
        <5> HIDE DEF q
        <5> QED
          BY <1>3, <2>2, <4>1, <5>1 DEF Trail
      <4> QED
        BY <4>2, <4>3
    <3> QED
      BY <2>2, <3>1, <3>2 DEF Trail
  <2> HIDE DEF q
  <2>4. \A i, j \in 1 .. N + 1 : q[i] = q[j] => i = j
    BY <2>2, <2>3, TrailDistinct
  <2> DEFINE f == [i \in 1 .. N + 1 |-> q[i]]
  <2>5. f \in [1 .. N + 1 -> Clusters]
    BY <2>2
  <2>6. IsFiniteSet(1 .. N + 1) /\ Cardinality(1 .. N + 1) = N + 1
    BY <1>1, FS_Interval
  <2>7. IsFiniteSet(Clusters) /\ Cardinality(Clusters) = N
    BY <1>1, FS_Interval DEF Clusters
  <2>8. \E i, j \in 1 .. N + 1 : i # j /\ f[i] = f[j]
    <3> HIDE DEF f
    <3> QED
      BY <1>1, <2>5, <2>6, <2>7, FS_PigeonHole
  <2> QED
    BY <2>4, <2>8
<1> QED
  BY <1>3, <1>4, <1>5, <1>6 DEF Sound, chain

LEMMA ReachedFacts ==
  /\ Reached \subseteq Clusters
  /\ IInv => Roots \subseteq Reached /\ Linking(Reached)
<1>1. ASSUME IInv, NEW r \in Roots PROVE r \in Reached
  BY <1>1, RootStarts DEF Reached
<1>2. ASSUME IInv, NEW b \in Reached, Live(b), cluster[b].next # 0 PROVE cluster[b].next \in Reached
  <2>1. b \in Clusters /\ cluster[b].next \in Clusters
    BY <1>2, LinkType DEF Reached, IInv, TypeOK
  <2>2. ASSUME NEW A \in SUBSET Clusters, Roots \subseteq A, Linking(A) PROVE cluster[b].next \in A
    <3>1. b \in A
      BY <1>2, <2>2 DEF Reached
    <3> QED
      BY <1>2, <2>2, <3>1 DEF Linking
  <2> QED
    BY <2>1, <2>2 DEF Reached
<1> QED
  BY <1>1, <1>2 DEF Linking, Reached

(* What is reached are the chains of the roots.                             *)
LEMMA ReachedChains == ASSUME IInv PROVE Reached = UNION {ToSet(ChainOf(r)) : r \in Roots}
<1> DEFINE U == UNION {ToSet(ChainOf(r)) : r \in Roots}
<1>1. ASSUME NEW r \in Roots
      PROVE  /\ Trail(ChainOf(r), r) /\ Sound(ChainOf(r)) /\ Len(ChainOf(r)) \in Nat \ {0}
             /\ ToSet(ChainOf(r)) = {ChainOf(r)[i] : i \in 1 .. Len(ChainOf(r))}
             /\ \A i \in 1 .. Len(ChainOf(r)) : ChainOf(r)[i] \in Clusters /\ Live(ChainOf(r)[i])
  <2>1. Trail(ChainOf(r), r)
    BY RootChain
  <2>2. ChainOf(r) \in Seq(Clusters) /\ ChainOf(r) # <<>>
    BY <2>1 DEF Trail
  <2>3. ToSet(ChainOf(r)) = {ChainOf(r)[i] : i \in 1 .. Len(ChainOf(r))}
    BY <2>2 DEF ToSet
  <2>4. Len(ChainOf(r)) \in Nat \ {0}
    BY <2>2
  <2> QED
    BY <2>1, <2>3, <2>4, RootChain
<1>2. U \subseteq Clusters /\ Roots \subseteq U
  <2>1. ASSUME NEW r \in Roots PROVE ToSet(ChainOf(r)) \subseteq Clusters /\ r \in ToSet(ChainOf(r))
    <3>1. 1 \in 1 .. Len(ChainOf(r)) /\ ChainOf(r)[1] = r
      BY <1>1 DEF Trail
    <3> QED
      BY <1>1, <3>1
  <2> QED
    BY <2>1
<1>3. Linking(U)
  <2> SUFFICES ASSUME NEW b \in U, Live(b), cluster[b].next # 0 PROVE cluster[b].next \in U
    BY DEF Linking
  <2>1. PICK r \in Roots : b \in ToSet(ChainOf(r))
    OBVIOUS
  <2>2. PICK i \in 1 .. Len(ChainOf(r)) : b = ChainOf(r)[i]
    BY <1>1, <2>1
  <2>3. i # Len(ChainOf(r))
    BY <1>1, <2>2 DEF Sound
  <2>4. i \in 1 .. Len(ChainOf(r)) - 1 /\ i + 1 \in 1 .. Len(ChainOf(r))
    BY <1>1, <2>3
  <2>5. cluster[b].next = ChainOf(r)[i + 1]
    BY <1>1, <2>2, <2>4 DEF Trail
  <2> QED
    BY <1>1, <2>4, <2>5
<1>4. ASSUME NEW r \in Roots, NEW A, Roots \subseteq A, Linking(A) PROVE ToSet(ChainOf(r)) \subseteq A
  <2> DEFINE chain == ChainOf(r)
             T == {k \in 1 .. Len(chain) : chain[k] \notin A}
  <2>1. SUFFICES ASSUME T # {} PROVE FALSE
    BY <1>1
  <2>2. PICK k \in T : \A m \in T : k <= m
    <3>1. T \in SUBSET Nat
      OBVIOUS
    <3> HIDE DEF T
    <3> QED
      BY <2>1, <3>1, Least
  <2>3. k \in 1 .. Len(chain) /\ chain[k] \notin A /\ Len(chain) \in Nat
    BY <1>1, <2>2
  <2>4. k # 1
    BY <1>1, <1>4, <2>3 DEF Trail
  <2>5. k - 1 \in 1 .. Len(chain) /\ k - 1 \in 1 .. Len(chain) - 1 /\ (k - 1) + 1 = k /\ ~ (k <= k - 1)
    BY <2>3, <2>4
  <2>6. chain[k - 1] \in A
    BY <2>2, <2>5
  <2>7. Live(chain[k - 1]) /\ cluster[chain[k - 1]].next = chain[k] /\ chain[k] \in Clusters
    BY <1>1, <2>3, <2>5 DEF Trail
  <2>8. chain[k] # 0
    BY <2>7, FormatAssumption DEF Clusters
  <2> HIDE DEF chain
  <2> QED
    BY <1>4, <2>3, <2>6, <2>7, <2>8 DEF Linking
<1>5. Reached \subseteq U
  <2> HIDE DEF U
  <2> QED
    BY <1>2, <1>3 DEF Reached
<1>6. U \subseteq Reached
  <2> SUFFICES ASSUME NEW c \in U PROVE c \in Reached
    OBVIOUS
  <2>1. PICK r \in Roots : c \in ToSet(ChainOf(r))
    OBVIOUS
  <2>2. \A A \in SUBSET Clusters : Roots \subseteq A /\ Linking(A) => c \in A
    BY <1>4, <2>1
  <2>3. c \in Clusters
    BY <1>2
  <2> QED
    BY <2>2, <2>3 DEF Reached
<1> QED
  BY <1>5, <1>6
-----------------------------------------------------------------------------
(* What a step of the kernel does to the links and the roots: nothing; a    *)
(* cluster is taken into use; the last cluster of a file is linked to the   *)
(* one that was prepared; the first of what is left of a file is freed.     *)
Kept ==
  /\ Roots' = Roots
  /\ \A c \in Clusters : /\ table'[c].used = table[c].used
                         /\ Live(c) => cluster'[c].next = cluster[c].next
PutToUse(c) ==
  /\ ~ Live(c) /\ cluster[c].next = 0 /\ table'[c].used # FREE
  /\ Roots' = Roots \cup {c} /\ cluster' = cluster
  /\ \A b \in Clusters \ {c} : table'[b].used = table[b].used
Tied(b, c) ==
  /\ work.step = "cont link" /\ b = fs.cluster /\ Live(b) /\ b # c /\ cluster[b].next = 0
  /\ c \in Roots /\ cluster[c].next = 0 /\ Roots' = Roots \ {c}
  /\ cluster'[b].next = c /\ \A a \in Clusters \ {b} : cluster'[a] = cluster[a]
  /\ table' = table
Dropped(c) ==
  /\ c \in Roots /\ table'[c].used = FREE
  /\ Roots' = (Roots \ {c}) \cup ({cluster[c].next} \ {0}) /\ cluster' = cluster
  /\ \A b \in Clusters \ {c} : table'[b].used = table[b].used
KernelStep ==
  Kept \/ \E c \in Clusters : PutToUse(c) \/ Dropped(c) \/ \E b \in Clusters : Tied(b, c)

LEMMA CallKeeps == ASSUME IInv, Call PROVE Kept
<1>1. work.step = "idle" /\ Outline
  BY CallOutline, IdleFields DEF IInv
<1>2. Heads' = Heads
  BY <1>1, SameHeads DEF Outline
<1>3. Roots = Heads
  BY <1>1, Attached
<1>4. Roots' = Heads'
  BY <1>1, <1>2 DEF Outline, NewFile, NewDirectory, Roots, Detached
<1> QED
  BY <1>1, <1>2, <1>3, <1>4 DEF Outline, Kept

LEMMA StableKeeps ==
  ASSUME IInv, WriteByte \/ LengthHi \/ LengthLo \/ NextCluster \/ ReadByte \/ TransferDone
                 \/ GrowFull \/ ContOwner \/ HeadOwner \/ FreeOwner
                 \/ DirName \/ DirUpper \/ ZeroUpper \/ ZeroName
  PROVE  Kept
<1>1. \A c \in Clusters : table'[c].used = table[c].used /\ cluster'[c].next = cluster[c].next
  BY LinkStable DEF SameLinks
<1>2. Heads' = Heads
  BY <1>1, SameHeads
<1>3. Detached' = Detached
  BY StableRoots DEF IInv
<1> QED
  BY <1>1, <1>2, <1>3 DEF Roots, Kept

LEMMA ContHeaderKeeps == ASSUME IInv, ContHeader PROVE Kept
<1>1. PICK c \in Clusters :
        /\ FirstFree(c) /\ table' = table
        /\ cluster' = [cluster EXCEPT ![c].next = 0, ![c].hi = 0, ![c].lo = 0]
        /\ work' = [work EXCEPT !.step = "cont owner", !.slot = c]
  BY DEF ContHeader
<1>2. work.step = "transfer" /\ work'.step = "cont owner"
  BY <1>1 DEF ContHeader, MustGrow, IInv, TypeOK, Works
<1>3. ~ Live(c)
  BY <1>1 DEF FirstFree
<1>4. \A b \in Clusters : b # c => cluster'[b] = cluster[b]
  BY <1>1 DEF IInv, TypeOK, VolumeOK
<1>5. Roots' = Roots
  BY <1>1, <1>2 DEF Roots, Detached, Heads
<1> QED
  BY <1>1, <1>3, <1>4, <1>5 DEF Kept

LEMMA TypeTakes == ASSUME IInv, ContType \/ HeadType PROVE \E c \in Clusters : PutToUse(c)
<1> DEFINE c == work.slot
<1>1. c \in Clusters /\ ~ Live(c) /\ work \in Works /\ cluster[c].next = 0
  BY DEF ContType, HeadType, IInv, StepOK, TypeOK
<1>2. PICK use \in {HEAD, CONT} :
        /\ table' = [table EXCEPT ![c].used = use] /\ cluster' = cluster
        /\ use = CONT => work'.step = "cont link" /\ work'.slot = c
        /\ use = HEAD => work'.step = "idle"
  <2>1. HEAD # CONT
    BY DEF HEAD, CONT
  <2>2. CASE ContType
    <3>1. /\ table' = [table EXCEPT ![c].used = CONT] /\ cluster' = cluster
          /\ work'.step = "cont link" /\ work'.slot = c
      BY <1>1, <2>2 DEF ContType, Works
    <3> HIDE DEF c
    <3> QED
      BY <2>1, <3>1
  <2>3. CASE HeadType
    <3>1. /\ table' = [table EXCEPT ![c].used = HEAD] /\ cluster' = cluster
          /\ work'.step = "idle"
      BY <2>3, IdleFields DEF HeadType, Returns
    <3> HIDE DEF c
    <3> QED
      BY <2>1, <3>1
  <2> QED
    BY <2>2, <2>3
<1>3. Roots = Heads
  BY Attached DEF ContType, HeadType
<1>4. table'[c].used = use /\ \A b \in Clusters : b # c => table'[b].used = table[b].used
  BY <1>1, <1>2 DEF IInv, TypeOK, VolumeOK, Entry
<1>5. HEAD # CONT /\ FREE # HEAD /\ CONT # FREE
  BY DEF HEAD, CONT, FREE
<1>6. Roots' = Heads \cup {c}
  <2>1. CASE use = HEAD
    BY <1>1, <1>2, <1>4, <1>5, <2>1 DEF Roots, Detached, Heads, Live
  <2>2. CASE use = CONT
    BY <1>1, <1>2, <1>4, <1>5, <2>2 DEF Roots, Detached, Heads, Live
  <2> QED
    BY <2>1, <2>2
<1> HIDE DEF c
<1>7. PutToUse(c)
  BY <1>1, <1>2, <1>3, <1>4, <1>5, <1>6 DEF PutToUse
<1> QED
  BY <1>1, <1>7

(* Where the descriptor stands while a file grows.                          *)
LEMMA TailFacts ==
  ASSUME IInv, CursorInv, work.step = "cont link"
  PROVE  /\ work.slot \in Clusters /\ table[work.slot].used = CONT /\ cluster[work.slot].next = 0
         /\ Unlinked(work.slot)
         /\ fs.cluster \in Clusters /\ Live(fs.cluster) /\ fs.cluster # work.slot
         /\ cluster[fs.cluster].next = 0
<1>1. /\ work.slot \in Clusters /\ table[work.slot].used = CONT /\ cluster[work.slot].next = 0
      /\ Unlinked(work.slot)
  BY DEF IInv, StepOK
<1>2. TypeOK /\ "cont link" \in ContSteps
  BY DEF IInv, ContSteps
<1>3. PICK S, T \in SUBSET Clusters :
        Holds(S, fs, table, cluster) /\ fs.cluster \in S /\ work.slot \notin S \cup T
  BY <1>2, InTransfer
<1>4. AtEnd
  BY <1>2 DEF CursorInv, Registers
<1> QED
  BY <1>1, <1>3, <1>4, HeldLive DEF AtEnd, Holds

LEMMA ContLinkTies == ASSUME IInv, CursorInv, ContLink PROVE \E c, b \in Clusters : Tied(b, c)
<1> DEFINE c == work.slot
           b == fs.cluster
<1>1. work.step = "cont link" /\ work'.step = "transfer" /\ table' = table
  BY DEF ContLink, IInv, TypeOK, Works
<1>2. /\ c \in Clusters /\ table[c].used = CONT /\ cluster[c].next = 0
      /\ b \in Clusters /\ Live(b) /\ b # c /\ cluster[b].next = 0
  BY <1>1, TailFacts
<1>3. cluster'[b].next = c /\ \A a \in Clusters : a # b => cluster'[a] = cluster[a]
  BY <1>2, LinksPut DEF ContLink, IInv, TypeOK
<1>4. Roots = Heads \cup {c} /\ Roots' = Heads
  BY <1>1 DEF Roots, Detached, Heads
<1>5. c \notin Heads
  BY <1>2 DEF Heads, HEAD, CONT
<1>6. Tied(b, c)
  BY <1>1, <1>2, <1>3, <1>4, <1>5 DEF Tied
<1> QED
  BY <1>2, <1>6

LEMMA FreeTypeDrops == ASSUME IInv, FreeType PROVE \E c \in Clusters : Dropped(c)
<1> DEFINE c    == work.slot
           next == cluster[c].next
<1>1. work.step = "free type" /\ cluster' = cluster /\ fs.next = next
  BY DEF FreeType, IInv, StepOK
<1>2. c \in Clusters /\ Live(c) /\ Unlinked(c)
  BY <1>1 DEF IInv, StepOK
<1>3. table' = [table EXCEPT ![c].used = FREE]
  BY DEF FreeType
<1>4. table'[c].used = FREE /\ \A b \in Clusters : b # c => table'[b].used = table[b].used
  BY <1>2, <1>3 DEF IInv, TypeOK, VolumeOK, Entry
<1>5. Roots = Heads \cup {c}
  BY <1>1 DEF Roots, Detached
<1>6. Heads' = Heads \ {c}
  BY <1>2, <1>4 DEF Heads, HEAD, FREE
<1>7. Detached' = {next} \ {0}
  <2>1. CASE next = 0
    <3>1. work'.step = "idle"
      BY <1>1, <2>1, IdleFields DEF FreeType, Returns
    <3> QED
      BY <2>1, <3>1 DEF Detached
  <2>2. CASE next # 0
    <3>1. work'.step = "free owner" /\ work'.slot = next
      BY <1>1, <2>2 DEF FreeType, IInv, TypeOK, Works
    <3> QED
      BY <2>2, <3>1 DEF Detached
  <2> QED
    BY <2>1, <2>2
<1>8. next # c
  BY <1>2 DEF Unlinked
<1>9. Dropped(c)
  <2> HIDE DEF c
  <2> QED
    BY <1>1, <1>4, <1>5, <1>6, <1>7, <1>8 DEF Dropped, Roots
<1> QED
  BY <1>2, <1>9

LEMMA KernelSteps == ASSUME IInv, CursorInv, Call \/ Service PROVE KernelStep
BY CallKeeps, StableKeeps, ContHeaderKeeps, TypeTakes, ContLinkTies, FreeTypeDrops
   DEF KernelStep, Service
-----------------------------------------------------------------------------
(* A cluster in use that was not reached is not reached after a step of the *)
(* kernel, and what was reached is reached still, if it is in use.         *)

LEMMA LeastReached ==
  ASSUME NEW A \in SUBSET Clusters, Roots' \subseteq A,
         \A b \in A : Live(b)' /\ cluster'[b].next # 0 => cluster'[b].next \in A
  PROVE  Reached' \subseteq A
BY DEF Reached, Linking

RootsLive  == \A r \in Roots : r \in Clusters /\ Live(r)
ReachedAll == Reached \subseteq Clusters /\ Roots \subseteq Reached /\ Linking(Reached)

LEMMA ReachedNow == IInv => RootsLive /\ ReachedAll
BY RootStarts, ReachedFacts DEF RootsLive, ReachedAll

LEMMA ReachedNext == IInv' => RootsLive' /\ ReachedAll'
BY ReachedNow, PTL

LEMMA NotReached ==
  ASSUME IInv, IInv', KernelStep, NEW c \in Clusters, Live(c), c \notin Reached
  PROVE  c \notin Reached' /\ table'[c].used = table[c].used
<1>1. Reached \subseteq Clusters /\ Roots \subseteq Reached /\ Linking(Reached)
  BY ReachedFacts
<1> DEFINE A == {x \in Clusters : Live(x)' /\ (Live(x) => x \in Reached)}
<1>2. Roots' \subseteq A
  <2> SUFFICES ASSUME NEW r \in Roots' PROVE r \in Clusters /\ Live(r)' /\ (Live(r) => r \in Reached)
    OBVIOUS
  <2>1. r \in Clusters /\ Live(r)'
    BY ReachedNext DEF RootsLive
  <2>2. ASSUME Live(r) PROVE r \in Reached
    <3>1. CASE r \in Roots
      BY <1>1, <3>1
    <3>2. CASE r \notin Roots
      <4>1. PICK d \in Clusters : Dropped(d) /\ r = cluster[d].next /\ r # 0
        BY <2>2, <3>2 DEF KernelStep, Kept, PutToUse, Tied, Dropped
      <4>2. d \in Reached /\ Live(d)
        BY <1>1, <4>1, ReachedNow DEF Dropped, RootsLive
      <4> QED
        BY <1>1, <4>1, <4>2 DEF Linking
    <3> QED
      BY <3>1, <3>2
  <2> QED
    BY <2>1, <2>2
<1>3. ASSUME NEW b \in A, cluster'[b].next # 0 PROVE cluster'[b].next \in A
  <2> DEFINE y == cluster'[b].next
  <2>1. b \in Clusters /\ Live(b)' /\ (Live(b) => b \in Reached)
    OBVIOUS
  <2>2. y \in Clusters /\ table'[y].used # FREE
    <3>1. VolumeOK' /\ ChainsSound'
      BY DEF IInv, TypeOK
    <3>2. table'[y].used = CONT
      BY <1>3, <2>1, <3>1 DEF ChainsSound
    <3>3. y \in Clusters
      BY <1>3, <2>1, <3>1, FormatAssumption DEF VolumeOK, Cluster, Clusters
    <3> QED
      BY <3>2, <3>3 DEF CONT, FREE
  <2>3. ASSUME Live(y) PROVE y \in Reached
    <3>1. CASE Live(b) /\ cluster[b].next = y
      BY <1>1, <1>3, <2>1, <3>1 DEF Linking
    <3>2. CASE ~ (Live(b) /\ cluster[b].next = y)
      <4>1. PICK d \in Clusters : Tied(b, d) /\ y = d
        <5>1. CASE Kept
          BY <2>1, <3>2, <5>1 DEF Kept, Live
        <5>2. ASSUME NEW d \in Clusters, PutToUse(d) PROVE FALSE
          <6>1. b = d
            BY <2>1, <3>2, <5>2 DEF PutToUse, Live
          <6> QED
            BY <1>3, <5>2, <6>1 DEF PutToUse
        <5>3. ASSUME NEW d \in Clusters, Dropped(d) PROVE FALSE
          <6>1. b # d
            BY <2>1, <5>3 DEF Dropped, Live
          <6> QED
            BY <2>1, <3>2, <5>3, <6>1 DEF Dropped, Live
        <5>4. ASSUME NEW d \in Clusters, NEW a \in Clusters, Tied(a, d) PROVE Tied(b, d) /\ y = d
          <6>1. a = b
            BY <2>1, <3>2, <5>4 DEF Tied, Live
          <6> QED
            BY <5>4, <6>1 DEF Tied
        <5> QED
          BY <5>1, <5>2, <5>3, <5>4 DEF KernelStep
      <4> QED
        BY <1>1, <4>1 DEF Tied
    <3> QED
      BY <3>1, <3>2
  <2> HIDE DEF y
  <2> QED
    BY <2>2, <2>3 DEF y, Live
<1>4. Reached' \subseteq A
  <2>1. A \in SUBSET Clusters
    OBVIOUS
  <2> HIDE DEF A
  <2> QED
    BY <1>2, <1>3, <2>1, LeastReached
<1>5. table'[c].used = table[c].used
  BY <1>1 DEF KernelStep, Kept, PutToUse, Tied, Dropped
<1> QED
  BY <1>4, <1>5

(* The cluster that a new one is linked to is one of a file.                *)
LEMMA StillReached ==
  ASSUME IInv, IInv', KernelStep, NEW c \in Reached, Live(c)',
         work.step = "cont link" => fs.cluster \in Reached
  PROVE  c \in Reached'
<1>1. Reached \subseteq Clusters /\ Roots \subseteq Reached /\ Linking(Reached)
  BY ReachedFacts
<1>2. Reached' \subseteq Clusters /\ Roots' \subseteq Reached' /\ Linking(Reached)'
  BY ReachedNext DEF ReachedAll
<1>3. ASSUME NEW b \in Clusters, NEW d \in Clusters, Tied(b, d) PROVE c \in Reached'
  <2> DEFINE A == Reached' \cup {d}
  <2>1. Roots \subseteq A
    BY <1>2, <1>3 DEF Tied
  <2>2. ASSUME NEW x \in A, Live(x), cluster[x].next # 0 PROVE cluster[x].next \in A
    <3>1. x # d /\ x # b
      BY <1>3, <2>2 DEF Tied
    <3>2. x \in Reached' /\ Live(x)' /\ cluster'[x].next = cluster[x].next
      BY <1>2, <1>3, <2>2, <3>1 DEF Tied, Live
    <3> QED
      BY <1>2, <2>2, <3>2 DEF Linking
  <2>3. Reached \subseteq A
    <3>1. A \in SUBSET Clusters /\ Linking(A)
      BY <1>2, <2>2 DEF Linking
    <3> HIDE DEF A
    <3> QED
      BY <2>1, <3>1 DEF Reached
  <2>4. b \in Reached' /\ Live(b)'
    <3>1. b \in Reached /\ b # d
      BY <1>3 DEF Tied
    <3> QED
      BY <1>3, <2>3, <3>1 DEF Tied, Live
  <2>5. d \in Reached'
    <3>1. cluster'[b].next = d
      BY <1>3 DEF Tied
    <3>2. d # 0
      BY NotZero
    <3> QED
      BY <1>2, <2>4, <3>1, <3>2 DEF Linking
  <2> QED
    BY <2>3, <2>5
<1>4. ASSUME \A b, d \in Clusters : ~ Tied(b, d) PROVE c \in Reached'
  <2> DEFINE A == {x \in Clusters : Live(x)' => x \in Reached'}
  <2>1. Roots \subseteq A
    <3> SUFFICES ASSUME NEW r \in Roots PROVE r \in Clusters /\ (Live(r)' => r \in Reached')
      OBVIOUS
    <3>1. r \in Clusters
      BY ReachedNow DEF RootsLive
    <3>2. ASSUME Live(r)' PROVE r \in Roots'
      BY <1>4, <3>2 DEF KernelStep, Kept, PutToUse, Dropped, Live
    <3> QED
      BY <1>2, <3>1, <3>2
  <2>2. ASSUME NEW x \in A, Live(x), cluster[x].next # 0 PROVE cluster[x].next \in A
    <3> DEFINE y == cluster[x].next
    <3>1. x \in Clusters /\ (Live(x)' => x \in Reached') /\ y \in Clusters
      BY <2>2, LinkType DEF IInv, TypeOK
    <3>2. CASE Live(x)'
      <4>1. cluster'[x].next = y
        BY <1>4, <2>2, <3>1 DEF KernelStep, Kept, PutToUse, Dropped
      <4>2. y \in Reached'
        BY <1>2, <2>2, <3>1, <3>2, <4>1 DEF Linking
      <4> QED
        BY <3>1, <4>2
    <3>3. CASE ~ Live(x)'
      <4>1. Dropped(x)
        BY <1>4, <2>2, <3>1, <3>3 DEF KernelStep, Kept, PutToUse, Dropped, Live
      <4>2. y \in Roots'
        BY <2>2, <4>1 DEF Dropped
      <4> QED
        BY <1>2, <3>1, <4>2
    <3> QED
      BY <3>2, <3>3
  <2>3. Reached \subseteq A
    <3>1. A \in SUBSET Clusters /\ Linking(A)
      BY <2>2 DEF Linking
    <3> HIDE DEF A
    <3> QED
      BY <2>1, <3>1 DEF Reached
  <2> QED
    BY <2>3
<1> QED
  BY <1>3, <1>4
-----------------------------------------------------------------------------
(* A cursor stands in a cluster that is reached.                            *)
InFile(cursor) == cursor.head # 0 => cursor.cluster \in Reached
FileInv == InFile(redirect.cursor) /\ (work.step \notin FreeSteps => InFile(fs))

Standard(cursor) ==
  cursor.head # 0 =>
    /\ cursor.head \in Heads /\ cursor.cluster \in Clusters /\ Live(cursor.cluster)
    /\ cursor.next = cluster[cursor.cluster].next
CursorsStand == Standard(redirect.cursor) /\ (work.step \notin FreeSteps => Standard(fs))

LEMMA HeldStands ==
  ASSUME TypeOK, NEW S \in SUBSET Clusters, NEW cursor, Holds(S, cursor, table, cluster) PROVE Standard(cursor)
<1>1. cursor.head \in S /\ cursor.cluster \in S /\ table[cursor.head] = [dir |-> cursor.parent, used |-> HEAD]
  BY DEF Holds
<1>2. table[cursor.head].used = HEAD
  BY <1>1
<1>3. Live(cursor.cluster)
  BY <1>1, HeldLive
<1> QED
  BY <1>1, <1>2, <1>3 DEF Standard, Heads, Holds

LEMMA CursorsStanding == IInv /\ CursorInv => CursorsStand
<1> SUFFICES ASSUME IInv, CursorInv PROVE CursorsStand
  OBVIOUS
<1>1. PICK S, T \in SUBSET Clusters : Apart(S, T)
  BY DEF CursorInv
<1>2. Standard(redirect.cursor)
  <2>1. CASE redirect.cursor.head = 0
    BY <2>1 DEF Standard
  <2>2. CASE redirect.cursor.head # 0
    <3>1. Holds(T, redirect.cursor, table, cluster)
      BY <1>1, <2>2 DEF Apart, Good
    <3> QED
      BY <3>1, HeldStands DEF IInv
  <2> QED
    BY <2>1, <2>2
<1>3. ASSUME work.step \notin FreeSteps PROVE Standard(fs)
  <2>1. CASE fs.head = 0
    BY <2>1 DEF Standard
  <2>2. CASE fs.head # 0
    <3>1. Holds(S, fs, table, cluster)
      BY <1>1, <1>3, <2>2 DEF Apart, Good, Torn
    <3> QED
      BY <3>1, HeldStands DEF IInv
  <2> QED
    BY <2>1, <2>2
<1> QED
  BY <1>2, <1>3 DEF CursorsStand

LEMMA CursorsStandNext == IInv' /\ CursorInv' => CursorsStand'
BY CursorsStanding, PTL
-----------------------------------------------------------------------------
(* Where a step can take a cursor: it stays in its file, at the cluster it  *)
(* was in, the head, the next one, or the one that is linked; or it is of a *)
(* file that has just been opened.                                         *)
From(new, old) ==
  /\ new.head = old.head /\ new.parent = old.parent
  /\ \/ new.cluster = old.cluster \/ new.cluster = old.head
     \/ old.next # 0 /\ new.cluster = old.next
     \/ work.step = "cont link" /\ old = fs /\ new.cluster = work.slot
FromFile(new) ==
  work.step = "idle" /\ \E path \in Paths, up \in Parents, c \in Clusters :
    Opens(path, up, c) /\ new.head = c /\ new.parent = up /\ new.cluster = c
Comes(new) ==
  \/ new.head = 0 \/ From(new, redirect.cursor) \/ FromFile(new)
  \/ work.step \notin FreeSteps /\ From(new, fs)
CursorsCome == Comes(redirect'.cursor) /\ (work'.step \notin FreeSteps => Comes(fs'))

LEMMA StaysThere == \A cursor : From(cursor, cursor)
BY DEF From

LEMMA ClosedComes == Comes(Closed)
BY DEF Comes, Closed

LEMMA OpenedComes ==
  ASSUME NEW path \in Paths, NEW up \in Parents, NEW c \in Clusters, Opens(path, up, c),
         work.step = "idle"
  PROVE  Comes(Opened(up, c))
<1>1. Opened(up, c).head = c /\ Opened(up, c).parent = up /\ Opened(up, c).cluster = c
  BY DEF Opened
<1> QED
  BY <1>1 DEF Comes, FromFile

LEMMA KeepsCursor == ASSUME redirect' = redirect PROVE Comes(redirect'.cursor)
BY StaysThere DEF Comes

LEMMA CallComes == ASSUME TypeOK, Call PROVE CursorsCome
<1>1. work = Idle /\ work.step = "idle" /\ work.step \notin FreeSteps
  <2>1. work = Idle
    BY CallOutline
  <2> QED
    BY <2>1, IdleFields DEF FreeSteps
<1>2. Comes(fs) /\ Comes(redirect.cursor)
  BY <1>1, StaysThere DEF Comes
<1>3. ASSUME NEW status, Quietly(status), Comes(fs') PROVE CursorsCome
  BY <1>3, KeepsCursor DEF Quietly, CursorsCome
<1>4. ASSUME redirect' = redirect, Comes(fs') PROVE CursorsCome
  BY <1>4, KeepsCursor DEF CursorsCome
<1>5. ASSUME NEW path \in Paths, Open(path) \/ Find(path) PROVE CursorsCome
  BY <1>1, <1>3, <1>5, ClosedComes, OpenedComes DEF Open, Find
<1>6. ASSUME NEW path \in Paths, Redirect(path) PROVE CursorsCome
  <2>1. fs' = fs
    BY <1>6 DEF Redirect
  <2>2. ASSUME NEW up \in Parents, NEW c \in Clusters, Opens(path, up, c),
               redirect' = [on |-> TRUE, swapped |-> FALSE, cursor |-> Opened(up, c)]
        PROVE  CursorsCome
    <3>1. redirect'.cursor = Opened(up, c)
      BY <2>2
    <3> QED
      BY <1>1, <1>2, <2>1, <2>2, <3>1, OpenedComes DEF CursorsCome
  <2>3. ASSUME redirect' = redirect PROVE CursorsCome
    BY <1>2, <1>4, <2>1, <2>3
  <2> QED
    BY <1>6, <2>2, <2>3 DEF Redirect
<1>7. ASSUME RedirectOff PROVE CursorsCome
  <2>1. fs' = fs /\ redirect'.cursor = Closed
    BY <1>7 DEF RedirectOff
  <2> QED
    BY <1>2, <2>1, ClosedComes DEF CursorsCome
<1>8. ASSUME NEW path \in Paths, Touch(path) PROVE CursorsCome
  <2>1. fs' = Closed /\ redirect' = redirect
    BY <1>8 DEF Touch, TouchNew, Quietly
  <2> QED
    BY <1>4, <2>1, ClosedComes
<1>9. ASSUME NEW path \in Paths, Mkdir(path) PROVE CursorsCome
  <2>1. ASSUME fs' = Closed PROVE CursorsCome
    <3>1. redirect' = redirect
      BY <1>9 DEF Mkdir, MkdirOnFile, MkdirNew, Quietly
    <3> QED
      BY <1>4, <2>1, <3>1, ClosedComes
  <2> QED
    BY <1>1, <1>3, <1>9, <2>1, OpenedComes DEF Mkdir, MkdirOnFile, MkdirNew
<1>10. ASSUME NEW path \in Paths, RemovePath(path) PROVE CursorsCome
  <2>1. redirect' = redirect
    BY <1>10 DEF RemovePath, RemoveDirectory, Quietly
  <2>2. ASSUME fs' = Closed PROVE CursorsCome
    BY <1>4, <2>1, <2>2, ClosedComes
  <2>3. ASSUME NEW c, Creates("free owner", c, 0, NoName) PROVE CursorsCome
    <3>1. work'.step = "free owner"
      BY <2>3, CreateFields
    <3> QED
      BY <2>1, <3>1, KeepsCursor DEF CursorsCome, FreeSteps
  <2> QED
    BY <1>10, <2>2, <2>3 DEF RemovePath, RemoveDirectory
<1>11. ASSUME Mount \/ Close PROVE CursorsCome
  BY <1>3, <1>11, ClosedComes DEF Mount, Close
<1>12. ASSUME Rewind PROVE CursorsCome
  <2>1. Comes(At(fs, fs.head))
    <3>1. /\ At(fs, fs.head).head = fs.head /\ At(fs, fs.head).parent = fs.parent
          /\ At(fs, fs.head).cluster = fs.head
      BY DEF At, TypeOK, Cursors
    <3>2. From(At(fs, fs.head), fs)
      BY <3>1 DEF From
    <3> QED
      BY <1>1, <3>2 DEF Comes
  <2> QED
    BY <1>2, <1>3, <1>12, <2>1 DEF Rewind
<1>13. ASSUME NEW count \in 0 .. MaxRead, Read(count) PROVE CursorsCome
  BY <1>2, <1>3, <1>4, <1>13 DEF Read
<1>14. ASSUME NEW bytes \in Buffers, Write(bytes) PROVE CursorsCome
  BY <1>2, <1>3, <1>4, <1>14 DEF Write
<1>15. ASSUME NEW bytes \in Buffers, PrintRedirected(bytes) PROVE CursorsCome
  <2>1. fs' = redirect.cursor /\ redirect'.cursor = fs
    BY <1>15 DEF PrintRedirected, TypeOK
  <2> QED
    BY <1>2, <2>1 DEF CursorsCome
<1> QED
  BY <1>5, <1>6, <1>7, <1>8, <1>9, <1>10, <1>11, <1>12, <1>13, <1>14, <1>15 DEF Call

LEMMA ServiceComes == ASSUME TypeOK, Service PROVE CursorsCome
<1>1. Comes(redirect.cursor)
  BY StaysThere DEF Comes
<1>2. ASSUME work.step \notin FreeSteps, redirect' = redirect, From(fs', fs) PROVE CursorsCome
  BY <1>2, KeepsCursor DEF CursorsCome, Comes
<1>3. ASSUME TransferDone \/ GrowFull PROVE CursorsCome
  <2>1. work.step = "transfer" /\ \E status : TransferReturns(status)
    BY <1>3 DEF TransferDone, GrowFull, MustGrow
  <2>2. Comes(fs)
    BY <2>1, StaysThere DEF Comes, FreeSteps
  <2>3. \/ fs' = redirect.cursor /\ redirect'.cursor = fs
        \/ UNCHANGED <<fs, redirect>>
    BY <2>1 DEF TransferReturns, TypeOK
  <2> QED
    BY <1>1, <2>2, <2>3 DEF CursorsCome
<1>4. ASSUME NextCluster PROVE CursorsCome
  <2>1. /\ fs'.head = fs.head /\ fs'.parent = fs.parent /\ fs'.cluster = fs.next /\ fs.next # 0
        /\ redirect' = redirect /\ work.step = "transfer"
    BY <1>4 DEF NextCluster, At, TypeOK, Cursors
  <2>2. From(fs', fs)
    BY <2>1 DEF From
  <2> QED
    BY <1>2, <2>1, <2>2 DEF FreeSteps
<1>5. ASSUME ReadByte \/ WriteByte \/ LengthHi \/ LengthLo PROVE CursorsCome
  <2>1. fs' \in {fs, Advanced(fs)} /\ redirect' = redirect
        /\ work.step \in {"transfer", "length hi", "length lo"}
    BY <1>5 DEF ReadByte, WriteByte, LengthHi, LengthLo
  <2>2. /\ Advanced(fs).head = fs.head /\ Advanced(fs).parent = fs.parent
        /\ Advanced(fs).cluster = fs.cluster
    BY DEF Advanced, TypeOK, Cursors
  <2>3. From(fs', fs)
    BY <2>1, <2>2 DEF From
  <2> QED
    BY <1>2, <2>1, <2>3 DEF FreeSteps
<1>6. ASSUME ContHeader \/ ContOwner \/ ContType \/ HeadOwner \/ HeadType
             \/ DirName \/ DirUpper \/ ZeroUpper \/ ZeroName
      PROVE  CursorsCome
  <2>1. /\ UNCHANGED <<fs, redirect>>
        /\ work.step \in {"transfer", "cont owner", "cont type", "head owner", "head type",
                          "dir name", "dir upper", "zero upper", "zero name"}
    BY <1>6 DEF ContHeader, MustGrow, ContOwner, ContType, HeadOwner, HeadType, DirName, DirUpper,
                ZeroUpper, ZeroName
  <2>2. work.step \notin FreeSteps
    BY <2>1 DEF FreeSteps
  <2> QED
    BY <1>2, <2>1, <2>2, StaysThere
<1>7. ASSUME ContLink PROVE CursorsCome
  <2>1. /\ fs'.head = fs.head /\ fs'.parent = fs.parent /\ fs'.cluster = work.slot
        /\ redirect' = redirect /\ work.step = "cont link"
    BY <1>7 DEF ContLink, TypeOK, Cursors
  <2>2. From(fs', fs)
    BY <2>1 DEF From
  <2> QED
    BY <1>2, <2>1, <2>2 DEF FreeSteps
<1>8. ASSUME FreeOwner PROVE CursorsCome
  <2>1. work'.step = "free type" /\ redirect' = redirect
    BY <1>8 DEF FreeOwner, TypeOK, Works
  <2> QED
    BY <2>1, KeepsCursor DEF CursorsCome, FreeSteps
<1>9. ASSUME FreeType PROVE CursorsCome
  <2>1. redirect' = redirect /\ (fs' = Closed \/ work'.step = "free owner")
    BY <1>9 DEF FreeType, TypeOK, Works
  <2> QED
    BY <2>1, KeepsCursor, ClosedComes DEF CursorsCome, FreeSteps
<1> QED
  BY <1>3, <1>4, <1>5, <1>6, <1>7, <1>8, <1>9 DEF Service
-----------------------------------------------------------------------------
LEMMA FileStep ==
  ASSUME IInv, CursorInv, FileInv, IInv', CursorInv', Call \/ Service PROVE FileInv'
<1>1. /\ CursorsCome /\ CursorsStand /\ CursorsStand' /\ KernelStep
      /\ Roots \subseteq Reached /\ Linking(Reached)
  BY CallComes, ServiceComes, CursorsStanding, CursorsStandNext, KernelSteps, ReachedNow
     DEF IInv, ReachedAll
<1>2. work.step = "cont link" => fs.cluster \in Reached
  <2>1. work.step = "cont link" => fs.head # 0 /\ work.step \notin FreeSteps
    BY DEF CursorInv, Registers, TransferSteps, ContSteps, FreeSteps
  <2> QED
    BY <2>1 DEF FileInv, InFile
<1>3. ASSUME NEW old, Standard(old), InFile(old), NEW new, From(new, old), new.head # 0
      PROVE  new.cluster \in Reached
  <2>1. /\ old.head \in Reached /\ old.cluster \in Reached /\ Live(old.cluster)
        /\ old.next = cluster[old.cluster].next
    BY <1>1, <1>3 DEF From, Standard, InFile, Roots
  <2>2. old.next # 0 => old.next \in Reached
    BY <1>1, <2>1 DEF Linking
  <2>3. work.step = "cont link" => work.slot \in Reached
    BY <1>1 DEF Roots, Detached
  <2> QED
    BY <1>3, <2>1, <2>2, <2>3 DEF From
<1>4. ASSUME NEW new, Comes(new), new.head # 0 PROVE new.cluster \in Reached
  <2>1. CASE FromFile(new)
    <3>1. PICK up \in Parents, c \in Clusters :
            table[c] = [dir |-> up, used |-> HEAD] /\ new.cluster = c
      BY <2>1 DEF FromFile, Opens, FileAt, IsFile
    <3>2. table[c].used = HEAD
      BY <3>1
    <3> QED
      BY <1>1, <3>1, <3>2 DEF Roots, Heads
  <2>2. CASE From(new, redirect.cursor)
    BY <1>1, <1>3, <1>4, <2>2 DEF CursorsStand, FileInv
  <2>3. CASE work.step \notin FreeSteps /\ From(new, fs)
    BY <1>1, <1>3, <1>4, <2>3 DEF CursorsStand, FileInv
  <2> QED
    BY <1>4, <2>1, <2>2, <2>3 DEF Comes
<1>5. ASSUME redirect'.cursor.head # 0 PROVE redirect'.cursor.cluster \in Reached'
  <2>1. redirect'.cursor.cluster \in Reached
    BY <1>1, <1>4, <1>5 DEF CursorsCome
  <2>2. table'[redirect'.cursor.cluster].used # FREE
    BY <1>1, <1>5 DEF CursorsStand, Standard, Live
  <2> QED
    BY <1>1, <1>2, <2>1, <2>2, StillReached DEF Live
<1>6. ASSUME work'.step \notin FreeSteps, fs'.head # 0 PROVE fs'.cluster \in Reached'
  <2>1. fs'.cluster \in Reached
    BY <1>1, <1>4, <1>6 DEF CursorsCome
  <2>2. table'[fs'.cluster].used # FREE
    BY <1>1, <1>6 DEF CursorsStand, Standard, Live
  <2> QED
    BY <1>1, <1>2, <2>1, <2>2, StillReached DEF Live
<1> QED
  BY <1>5, <1>6 DEF FileInv, InFile
-----------------------------------------------------------------------------
(* The only cluster in use that a step writes is the one the descriptor     *)
(* stands in during a transfer.                                            *)
LEMMA WritesOwn ==
  ASSUME IInv, CursorInv, Call \/ Service,
         NEW c \in Clusters, Live(c), cluster'[c] # cluster[c]
  PROVE  /\ c = fs.cluster /\ fs.head # 0 /\ work.step \notin FreeSteps
         /\ WriteByte \/ LengthHi \/ LengthLo \/ ContLink
<1>1. cluster \in [Clusters -> Cluster]
  BY DEF IInv, TypeOK, VolumeOK
<1>2. ~ Call
  BY CallOutline DEF Outline, IInv
<1>3. ~ ContHeader
  <2> SUFFICES ASSUME ContHeader PROVE FALSE
    OBVIOUS
  <2>1. PICK d \in Clusters :
          FirstFree(d) /\ cluster' = [cluster EXCEPT ![d].next = 0, ![d].hi = 0, ![d].lo = 0]
    BY DEF ContHeader
  <2>2. d # c
    BY <2>1 DEF FirstFree
  <2> QED
    BY <1>1, <2>1, <2>2
<1>4. WriteByte \/ LengthHi \/ LengthLo \/ ContLink
  BY <1>2, <1>3 DEF Service, NextCluster, ReadByte, TransferDone, GrowFull, TransferReturns,
       ContOwner, ContType, HeadOwner, HeadType, FreeOwner, FreeType, DirName, DirUpper,
       ZeroUpper, ZeroName
<1>5. work.step \in {"transfer", "length hi", "length lo", "cont link"}
  BY <1>4 DEF WriteByte, LengthHi, LengthLo, ContLink
<1>6. c = fs.cluster
  BY <1>1, <1>4 DEF WriteByte, LengthHi, LengthLo, ContLink
<1>7. fs.head # 0 /\ work.step \notin FreeSteps
  BY <1>5 DEF CursorInv, Registers, TransferSteps, LengthSteps, ContSteps, FreeSteps
<1> QED
  BY <1>4, <1>6, <1>7

(* The orphans are the continuations in use that are not reached.           *)
OrphansCut == Orphans = {c \in Clusters : table[c].used = CONT} \ Reached

LEMMA OrphansAre == IInv => OrphansCut
<1> SUFFICES ASSUME IInv PROVE OrphansCut
  OBVIOUS
<1>1. InHand = UNION {ToSet(ChainOf(r)) : r \in Detached}
  BY DEF InHand, Detached
<1> QED
  BY <1>1, ReachedChains DEF Orphans, Roots, OrphansCut

LEMMA OrphansAreNext == IInv' => OrphansCut'
  BY OrphansAre, PTL

LEMMA OrphansStay ==
  ASSUME IInv, CursorInv, FileInv, IInv', Call \/ Service, NEW c \in Orphans
  PROVE  cluster'[c] = cluster[c] /\ c \in Orphans'
<1>1. c \in Clusters /\ table[c].used = CONT /\ c \notin Reached /\ Live(c)
  <2>1. CONT # FREE
    BY DEF CONT, FREE
  <2> QED
    BY <2>1, OrphansAre DEF Live, OrphansCut
<1>2. cluster'[c] = cluster[c]
  BY <1>1, WritesOwn DEF FileInv, InFile
<1>3. c \notin Reached' /\ table'[c].used = CONT
  BY <1>1, KernelSteps, NotReached
<1> QED
  BY <1>1, <1>2, <1>3, OrphansAreNext DEF OrphansCut
-----------------------------------------------------------------------------
(* While a session is open the kernel has nothing open.                     *)
NoRedirection == [on |-> FALSE, swapped |-> FALSE, cursor |-> Closed]
Resting  == session.open => fs = Closed /\ redirect = NoRedirection
CardKept == CardInv /\ CursorInv /\ FileInv /\ Resting

LEMMA AtRest ==
  ASSUME fs' = Closed, redirect' = NoRedirection, work' = Idle PROVE CursorInv' /\ FileInv'
<1>1. /\ fs' = Closed /\ redirect'.cursor = Closed /\ ~ redirect'.on /\ ~ redirect'.swapped
      /\ work'.step = "idle"
  BY IdleFields DEF NoRedirection
<1>2. Good({}, fs', table', cluster') /\ Good({}, redirect'.cursor, table', cluster')
  BY <1>1, ClosedGood
<1>3. fs'.head = 0 /\ redirect'.cursor.head = 0 /\ {} \in SUBSET Clusters /\ {} \cap {} = {}
  BY <1>1 DEF Closed
<1>4. CursorInv'
  BY <1>1, <1>2, <1>3, StepSets, Settled
<1> QED
  BY <1>3, <1>4 DEF FileInv, InFile

LEMMA InitKept == CardInit => CardKept
<1> SUFFICES ASSUME CardInit PROVE CardKept
  OBVIOUS
<1>1. fs.head = 0 /\ redirect.cursor.head = 0 /\ ~ session.open
  BY DEF CardInit, Init, Closed, NoSession
<1> QED
  BY <1>1, InitCard, CursorInit DEF CardInit, CardKept, FileInv, InFile, Resting

LEMMA MachineKept ==
  ASSUME ~ Shared, CardKept, IInv', Call \/ Service PROVE CursorInv' /\ FileInv'
<1>1. CursorInv'
  BY CursorStep DEF CardKept, CardInv, Next
<1> QED
  BY <1>1, FileStep DEF CardKept, CardInv

LEMMA KeptStep == ~ Shared /\ CardKept /\ [CardNext]_cardvars => CardKept'
<1> SUFFICES ASSUME ~ Shared, CardKept, [CardNext]_cardvars PROVE CardKept'
  OBVIOUS
<1>1. CardInv'
  BY CardStep DEF CardKept
<1>2. ASSUME Reset PROVE CursorInv' /\ FileInv' /\ Resting'
  BY <1>2, AtRest DEF Reset, Returns, NoRedirection, Resting
<1>3. CASE PutInReader
  BY <1>1, <1>2, <1>3 DEF PutInReader, Load, Reset, disk, CardKept
<1>4. CASE InReader
  <2>1. session.open /\ UNCHANGED <<fs, redirect, work>>
    BY <1>4 DEF InReader, Run, Exit, Abort
  <2>2. fs' = Closed /\ redirect' = NoRedirection /\ work' = Idle
    BY <2>1 DEF CardKept, CardInv, SessionInv, Resting
  <2> QED
    BY <1>1, <2>2, AtRest DEF CardKept, Resting
<1>5. CASE InMachine
  <2>1. Resting'
    BY <1>5 DEF InMachine, Resting
  <2>2. CASE Call \/ Service
    BY <1>1, <2>1, <2>2, MachineKept DEF CardKept, CardInv
  <2> QED
    BY <1>1, <1>2, <1>5, <2>1, <2>2 DEF InMachine, Next, CardKept
<1>6. CASE UNCHANGED cardvars
  <2>1. UNCHANGED vars /\ session' = session
    BY <1>6 DEF cardvars
  <2>2. CursorInv'
    BY <2>1, CursorStep DEF CardKept, CardInv
  <2>3. UNCHANGED <<table, cluster, fs, redirect, work>>
    BY <2>1 DEF vars
  <2>4. Reached' = Reached
    BY <2>3 DEF Reached, Linking, Roots, Detached, Heads, Live
  <2>5. FileInv'
    BY <2>3, <2>4 DEF CardKept, FileInv, InFile
  <2> QED
    BY <1>1, <2>1, <2>2, <2>3, <2>5 DEF CardKept, Resting
<1> QED
  BY <1>3, <1>4, <1>5, <1>6 DEF CardNext

(* What changes the card outside a session is a service of the kernel.      *)
LEMMA KernelWrites ==
  ASSUME [CardNext]_cardvars, disk' # disk, ~ session.open PROVE Call \/ Service
<1>1. ~ (UNCHANGED cardvars)
  BY DEF cardvars, vars, disk
<1>2. ~ PutInReader /\ ~ InReader
  BY DEF PutInReader, Load, InReader, Run, Exit, Abort
<1>3. ~ Reset
  BY DEF Reset, disk
<1> QED
  BY <1>1, <1>2, <1>3 DEF CardNext, InMachine, Next

(* A continuation that a reset has cut off from its file stays as it is, on *)
(* cards of every size and whatever the services do to files (OrphansInert).*)
THEOREM OrphansStayInert == ~ Shared /\ CardSpec => OrphansInert
<1>1. ~ Shared /\ CardKept /\ CardKept' /\ [CardNext]_cardvars =>
        [disk' # disk /\ ~ session.open /\ ~ session.open' =>
           \A c \in Orphans : cluster'[c] = cluster[c] /\ c \in Orphans']_cardvars
  BY KernelWrites, OrphansStay DEF CardKept, CardInv
<1>2. CASE ~ Shared
  <2>1. CardKept /\ [CardNext]_cardvars => CardKept'
    BY <1>2, KeptStep
  <2>2. CardKept /\ CardKept' /\ [CardNext]_cardvars =>
        [disk' # disk /\ ~ session.open /\ ~ session.open' =>
           \A c \in Orphans : cluster'[c] = cluster[c] /\ c \in Orphans']_cardvars
    BY <1>1, <1>2
  <2> QED
    BY <2>1, <2>2, InitKept, PTL DEF CardSpec, OrphansInert
<1> QED
  BY <1>2
-----------------------------------------------------------------------------
(* Owners.  A file that is open is in the directory its cursor says, as far *)
(* as the cursor can go in a step, and so is the cluster being added to it. *)
InOwnDir(cursor) ==
  cursor.head # 0 =>
    /\ table[cursor.cluster].dir = cursor.parent
    /\ cluster[cursor.head].next # 0 => table[cluster[cursor.head].next].dir = cursor.parent
SlotOwned == work.step \in {"cont type", "cont link"} => table[work.slot].dir = fs.parent
OwnersInv ==
  /\ OwnersAgree /\ SlotOwned /\ InOwnDir(redirect.cursor)
  /\ work.step \notin FreeSteps => InOwnDir(fs)

(* What the clusters of a cursor say of its head and of where it stands.    *)
Filed(cursor) ==
  cursor.head # 0 =>
    /\ table[cursor.head].dir = cursor.parent
    /\ cursor.cluster # cursor.head => ~ Unlinked(cursor.cluster)
CursorsFiled ==
  /\ Filed(redirect.cursor) /\ (work.step \notin FreeSteps => Filed(fs))
  /\ redirect.cursor.head # 0 =>
       /\ work.step \in FreeSteps => redirect.cursor.cluster # work.slot
       /\ work.step = "cont link" => redirect.cursor.head # fs.cluster

LEMMA HeldFiled ==
  ASSUME TypeOK, NEW S \in SUBSET Clusters, NEW cursor, Holds(S, cursor, table, cluster) PROVE Filed(cursor)
<1>1. table[cursor.head] = [dir |-> cursor.parent, used |-> HEAD] /\ cursor.cluster \in S
  BY DEF Holds
<1>2. table[cursor.head].dir = cursor.parent
  BY <1>1
<1>3. ASSUME cursor.cluster # cursor.head PROVE ~ Unlinked(cursor.cluster)
  <2>1. PICK b \in S : cluster[b].next = cursor.cluster
    BY <1>1, <1>3 DEF Holds
  <2>2. b \in Clusters /\ Live(b)
    BY HeldLive
  <2> QED
    BY <2>1, <2>2 DEF Unlinked
<1> QED
  BY <1>2, <1>3 DEF Filed

LEMMA CursorsFiling == IInv /\ CursorInv => CursorsFiled
<1> SUFFICES ASSUME IInv, CursorInv PROVE CursorsFiled
  OBVIOUS
<1>1. PICK S, T \in SUBSET Clusters : Apart(S, T)
  BY DEF CursorInv
<1>2. redirect.cursor.head # 0 => Holds(T, redirect.cursor, table, cluster)
  BY <1>1 DEF Apart, Good
<1>3. work.step \notin FreeSteps /\ fs.head # 0 => Holds(S, fs, table, cluster)
  BY <1>1 DEF Apart, Good, Torn
<1>4. Filed(redirect.cursor)
  BY <1>2, HeldFiled DEF IInv, Filed
<1>5. work.step \notin FreeSteps => Filed(fs)
  BY <1>3, HeldFiled DEF IInv, Filed
<1>6. ASSUME redirect.cursor.head # 0, work.step \in FreeSteps PROVE redirect.cursor.cluster # work.slot
  BY <1>1, <1>2, <1>6 DEF Apart, Holds
<1>7. ASSUME redirect.cursor.head # 0, work.step = "cont link" PROVE redirect.cursor.head # fs.cluster
  <2>1. fs.head # 0 /\ work.step \notin FreeSteps
    BY <1>7 DEF CursorInv, Registers, TransferSteps, ContSteps, FreeSteps
  <2> QED
    BY <1>1, <1>2, <1>3, <1>7, <2>1 DEF Apart, Holds
<1> QED
  BY <1>4, <1>5, <1>6, <1>7 DEF CursorsFiled

LEMMA CursorsFiledNext == IInv' /\ CursorInv' => CursorsFiled'
BY CursorsFiling, PTL
-----------------------------------------------------------------------------
(* Only freeing changes the owner of a cluster in use.                      *)
LEMMA OwnerMoves ==
  ASSUME IInv, Call \/ Service, NEW c \in Clusters, Live(c), table'[c].dir # table[c].dir
  PROVE  FreeOwner /\ c = work.slot /\ table'[c].dir = 0 /\ Unlinked(c) /\ work.step = "free owner"
<1>1. table \in [Clusters -> Entry]
  BY DEF IInv, TypeOK, VolumeOK
<1>2. ~ Call
  BY CallOutline DEF Outline, IInv
<1>3. ~ ContType /\ ~ HeadType /\ ~ FreeType
  <2>1. ASSUME NEW s, NEW use, table' = [table EXCEPT ![s].used = use] PROVE table'[c].dir = table[c].dir
    BY <1>1, <2>1 DEF Entry
  <2> QED
    BY <2>1 DEF ContType, HeadType, FreeType
<1>4. ~ ContOwner /\ ~ HeadOwner
  <2>1. ASSUME work.step \in {"cont owner", "head owner"},
               NEW up, table' = [table EXCEPT ![work.slot].dir = up]
        PROVE  FALSE
    <3>1. work.slot \in Clusters /\ ~ Live(work.slot)
      BY <2>1 DEF IInv, StepOK
    <3> QED
      BY <1>1, <2>1, <3>1
  <2> QED
    BY <2>1 DEF ContOwner, HeadOwner
<1>5. FreeOwner
  BY <1>2, <1>3, <1>4 DEF Service, TransferDone, NextCluster, ReadByte, WriteByte, LengthHi, LengthLo,
       GrowFull, TransferReturns, ContHeader, ContLink, DirName, DirUpper, ZeroUpper, ZeroName
<1>6. work.step = "free owner" /\ table' = [table EXCEPT ![work.slot].dir = 0]
  BY <1>5 DEF FreeOwner
<1>7. work.slot \in Clusters /\ Unlinked(work.slot)
  BY <1>6 DEF IInv, StepOK
<1>8. c = work.slot
  BY <1>1, <1>6
<1>9. table'[c].dir = 0
  BY <1>1, <1>6, <1>8 DEF Entry
<1> QED
  BY <1>5, <1>6, <1>7, <1>8, <1>9

(* Only ContLink adds a link to those of the clusters in use.               *)
LinksStay ==
  \A b \in Clusters : table'[b].used # FREE /\ cluster'[b].next # 0 =>
    Live(b) /\ cluster[b].next = cluster'[b].next

LEMMA LinksStaying ==
  ASSUME IInv, CursorInv, Call \/ Service, ~ ContLink PROVE LinksStay
<1>1. ASSUME Kept PROVE LinksStay
  BY <1>1 DEF Kept, LinksStay, Live
<1>2. ASSUME NEW c \in Clusters, PutToUse(c) PROVE LinksStay
  BY <1>2 DEF PutToUse, LinksStay, Live
<1>3. ASSUME NEW c \in Clusters, Dropped(c) PROVE LinksStay
  BY <1>3 DEF Dropped, LinksStay, Live
<1> QED
  BY <1>1, <1>2, <1>3, CallKeeps, StableKeeps, ContHeaderKeeps, TypeTakes, FreeTypeDrops DEF Service

LEMMA LinkAdded ==
  ASSUME IInv, CursorInv, ContLink
  PROVE  /\ cluster'[fs.cluster].next = work.slot /\ fs.cluster \in Clusters
         /\ \A b \in Clusters : b # fs.cluster => cluster'[b] = cluster[b]
         /\ table' = table /\ work.step = "cont link" /\ cluster[work.slot].next = 0
<1>1. cluster \in [Clusters -> Cluster]
  BY DEF IInv, TypeOK, VolumeOK
<1>2. work.step = "cont link" /\ cluster' = [cluster EXCEPT ![fs.cluster].next = work.slot] /\ table' = table
  BY DEF ContLink
<1>3. fs.cluster \in Clusters /\ cluster[work.slot].next = 0
  BY <1>2, TailFacts
<1>4. cluster[fs.cluster] \in Cluster
  BY <1>1, <1>3
<1>5. cluster'[fs.cluster].next = work.slot
  BY <1>1, <1>2, <1>3, <1>4 DEF Cluster
<1> QED
  BY <1>1, <1>2, <1>3, <1>5
-----------------------------------------------------------------------------
LEMMA Follower == ASSUME IInv, NEW b \in Clusters, Live(b), cluster[b].next # 0
                  PROVE  /\ cluster[b].next \in Clusters /\ Live(cluster[b].next) /\ ~ Unlinked(cluster[b].next)
<1>1. table[cluster[b].next].used = CONT
  BY DEF IInv, ChainsSound
<1>2. cluster[b].next \in Clusters
  BY LinkType DEF IInv, TypeOK
<1> QED
  BY <1>1, <1>2 DEF Live, Unlinked, CONT, FREE

LEMMA AgreeStep ==
  ASSUME IInv, CursorInv, OwnersInv, Call \/ Service PROVE OwnersAgree'
<1> SUFFICES ASSUME NEW b \in Clusters, NEW c \in Clusters, table'[b].used # FREE, cluster'[b].next = c
             PROVE  \/ table'[c].dir = table'[b].dir
                    \/ /\ table'[b].dir = 0
                       /\ \A a \in Clusters : table'[a].used # FREE => cluster'[a].next # b
  BY DEF OwnersAgree, Agree
<1>1. c # 0 /\ b # 0
  BY NotZero
<1>2. CASE ContLink
  <2>1. /\ cluster'[fs.cluster].next = work.slot /\ fs.cluster \in Clusters
        /\ \A a \in Clusters : a # fs.cluster => cluster'[a] = cluster[a]
        /\ table' = table /\ work.step = "cont link" /\ cluster[work.slot].next = 0
    BY <1>2, LinkAdded
  <2>2. fs.head # 0 /\ work.step \notin FreeSteps
    BY <2>1 DEF CursorInv, Registers, TransferSteps, ContSteps, FreeSteps
  <2>3. CASE b = fs.cluster
    BY <2>1, <2>2, <2>3 DEF OwnersInv, InOwnDir, SlotOwned
  <2>4. CASE b # fs.cluster
    <3>1. cluster[b].next = c /\ Live(b)
      BY <2>1, <2>4 DEF Live
    <3>2. CASE table[c].dir = table[b].dir
      BY <2>1, <3>2
    <3>3. CASE table[b].dir = 0 /\ \A a \in Clusters : table[a].used # FREE => cluster[a].next # b
      <4>1. b # work.slot
        BY <1>1, <2>1, <3>1
      <4>2. ASSUME NEW a \in Clusters, table'[a].used # FREE PROVE cluster'[a].next # b
        BY <2>1, <3>3, <4>1, <4>2
      <4> QED
        BY <2>1, <3>3, <4>2
    <3> QED
      BY <3>1, <3>2, <3>3 DEF OwnersInv, OwnersAgree, Agree, Live
  <2> QED
    BY <2>3, <2>4
<1>3. CASE ~ ContLink
  <2>1. LinksStay
    BY <1>3, LinksStaying
  <2>2. Live(b) /\ cluster[b].next = c
    BY <1>1, <2>1 DEF LinksStay
  <2>3. ASSUME Unlinked(b) PROVE \A a \in Clusters : table'[a].used # FREE => cluster'[a].next # b
    BY <1>1, <2>1, <2>3 DEF LinksStay, Unlinked
  <2>4. table'[c].dir = table[c].dir
    <3>1. Live(c) /\ ~ Unlinked(c)
      BY <1>1, <2>2, Follower
    <3> QED
      BY <3>1, OwnerMoves
  <2>5. CASE table'[b].dir # table[b].dir
    BY <2>2, <2>3, <2>5, OwnerMoves
  <2>6. CASE table'[b].dir = table[b].dir
    <3>1. table[c].dir = table[b].dir \/ (table[b].dir = 0 /\ Unlinked(b))
      BY <2>2 DEF OwnersInv, OwnersAgree, Agree, Live, Unlinked
    <3> QED
      BY <2>3, <2>4, <2>6, <3>1
  <2> QED
    BY <2>5, <2>6
<1> QED
  BY <1>2, <1>3

LEMMA SlotStep ==
  ASSUME IInv, OwnersInv, Call \/ Service PROVE SlotOwned'
<1> SUFFICES ASSUME work'.step \in {"cont type", "cont link"} PROVE table'[work'.slot].dir = fs'.parent
  BY DEF SlotOwned
<1>1. work \in Works /\ table \in [Clusters -> Entry]
  BY DEF IInv, TypeOK, VolumeOK
<1>2. ~ Call
  BY CallOutline DEF Outline, IInv, NewFile, NewDirectory
<1>3. ContOwner \/ ContType
  <2>1. ASSUME NEW status, TransferReturns(status) PROVE FALSE
    BY <2>1, IdleFields DEF TransferReturns, Returns
  <2>2. ASSUME Returns(FS_SUCCESS, 0) PROVE FALSE
    BY <2>2, IdleFields DEF Returns
  <2>3. ASSUME NEW step, work' = [work EXCEPT !.step = step], step \notin {"cont type", "cont link"} PROVE FALSE
    BY <1>1, <2>3 DEF Works
  <2>4. ~ LengthHi /\ ~ HeadOwner /\ ~ FreeOwner /\ ~ ZeroUpper
    BY <2>3 DEF LengthHi, HeadOwner, FreeOwner, ZeroUpper
  <2>5. ~ TransferDone /\ ~ GrowFull /\ ~ HeadType /\ ~ DirUpper
    BY <2>1, <2>2 DEF TransferDone, GrowFull, HeadType, DirUpper
  <2>6. ~ ReadByte /\ ~ LengthLo /\ ~ WriteByte
    <3>1. work' # Transferred
      BY <1>1 DEF Transferred, Works
    <3> QED
      BY <2>3, <3>1 DEF ReadByte, LengthLo, WriteByte
  <2>7. ~ NextCluster
    BY DEF NextCluster
  <2>8. ~ ContHeader
    BY <1>1 DEF ContHeader, Works
  <2>9. ~ ContLink
    BY <1>1 DEF ContLink, Works
  <2>10. ~ DirName
    BY <1>1 DEF DirName, Works
  <2>11. ~ FreeType
    BY <1>1, <2>2 DEF FreeType, Works
  <2>12. ~ ZeroName
    BY <1>1, <2>2 DEF ZeroName, Works
  <2> QED
    BY <1>2, <2>4, <2>5, <2>6, <2>7, <2>8, <2>9, <2>10, <2>11, <2>12 DEF Service
<1>4. work'.slot = work.slot /\ fs' = fs
  BY <1>1, <1>3 DEF ContOwner, ContType, Works
<1>5. CASE ContOwner
  <2>1. work.slot \in Clusters
    BY <1>5 DEF ContOwner, IInv, StepOK
  <2> QED
    BY <1>1, <1>4, <1>5, <2>1 DEF ContOwner, Entry
<1>6. CASE ContType
  <2>1. work.slot \in Clusters /\ table[work.slot].dir = fs.parent
    BY <1>6 DEF ContType, IInv, StepOK, OwnersInv, SlotOwned
  <2> QED
    BY <1>1, <1>4, <1>6, <2>1 DEF ContType, Entry
<1> QED
  BY <1>3, <1>5, <1>6

(* A file that has just been opened is in its directory.                    *)
LEMMA OpenedOwned ==
  ASSUME IInv, NEW up, NEW h \in Heads, Valid(h, up), cluster[h].next # 0
  PROVE  table[cluster[h].next].dir = up
<1> DEFINE chain == ChainOf(h)
<1>1. Trail(chain, h) /\ Sound(chain)
  BY RootChain DEF Roots
<1>2. \A i \in 1 .. Len(chain) : table[chain[i]] = [dir |-> up, used |-> IF i = 1 THEN HEAD ELSE CONT]
  BY DEF Valid
<1> HIDE DEF chain
<1>3. Len(chain) \in Nat \ {0} /\ chain[1] = h
  BY <1>1 DEF Trail
<1>4. Len(chain) # 1
  BY <1>1, <1>3 DEF Sound
<1>5. 1 \in 1 .. Len(chain) - 1 /\ 2 \in 1 .. Len(chain)
  <2>1. PICK n \in Nat : n = Len(chain) /\ n # 0 /\ n # 1
    BY <1>3, <1>4
  <2>2. 1 \in 1 .. n - 1 /\ 2 \in 1 .. n
    BY <2>1
  <2> QED
    BY <2>1, <2>2
<1>6. cluster[chain[1]].next = chain[1 + 1]
  BY <1>1, <1>5 DEF Trail
<1>7. table[chain[2]].dir = up
  <2>1. table[chain[2]] = [dir |-> up, used |-> IF 2 = 1 THEN HEAD ELSE CONT]
    BY <1>2, <1>5
  <2> QED
    BY <2>1
<1> QED
  BY <1>3, <1>6, <1>7

LEMMA OwnedStep ==
  ASSUME IInv, CursorInv, OwnersInv, IInv', CursorInv', Call \/ Service PROVE OwnersInv'
<1>1. /\ OwnersAgree' /\ SlotOwned' /\ CursorsCome /\ CursorsStand /\ CursorsStand'
      /\ CursorsFiled /\ CursorsFiled'
  BY AgreeStep, SlotStep, CallComes, ServiceComes, CursorsStanding, CursorsStandNext,
     CursorsFiling, CursorsFiledNext DEF IInv
<1>2. ASSUME NEW c \in Clusters, Live(c), ~ Unlinked(c) PROVE table'[c].dir = table[c].dir
  BY <1>2, OwnerMoves
<1>3. ASSUME NEW old, Standard(old), Filed(old), InOwnDir(old), NEW new, From(new, old),
             new.head # 0, table'[new.head].dir = new.parent,
             new.head \in Clusters, Live(new.head), table'[new.head].used # FREE,
             work.step \in FreeSteps => old.cluster # work.slot,
             work.step = "cont link" /\ old.head = fs.cluster => old.parent = fs.parent
      PROVE  /\ table'[new.cluster].dir = new.parent
             /\ cluster'[new.head].next # 0 => table'[cluster'[new.head].next].dir = new.parent
  <2>1. /\ new.head = old.head /\ new.parent = old.parent /\ old.head # 0
        /\ old.head \in Clusters /\ old.cluster \in Clusters /\ Live(old.cluster)
        /\ old.next = cluster[old.cluster].next /\ table[old.cluster].dir = old.parent
    BY <1>3 DEF From, Standard, InOwnDir, Heads
  <2>2. ASSUME cluster[old.head].next # 0
        PROVE  table'[cluster[old.head].next].dir = old.parent
    <3>1. cluster[old.head].next \in Clusters /\ Live(cluster[old.head].next) /\ ~ Unlinked(cluster[old.head].next)
      BY <1>3, <2>1, <2>2, Follower
    <3> QED
      BY <1>2, <1>3, <2>1, <2>2, <3>1 DEF InOwnDir
  <2>3. ASSUME cluster'[old.head].next # 0 PROVE table'[cluster'[old.head].next].dir = old.parent
    <3>1. CASE ContLink /\ old.head = fs.cluster
      <4>1. cluster'[fs.cluster].next = work.slot /\ table' = table /\ work.step = "cont link"
        BY <3>1, LinkAdded
      <4> QED
        BY <1>3, <3>1, <4>1 DEF OwnersInv, SlotOwned
    <3>2. CASE ContLink /\ old.head # fs.cluster
      BY <2>1, <2>2, <2>3, <3>2, LinkAdded
    <3>3. CASE ~ ContLink
      <4>1. cluster[old.head].next = cluster'[old.head].next
        BY <1>3, <2>1, <2>3, <3>3, LinksStaying DEF LinksStay
      <4> QED
        BY <2>2, <2>3, <4>1
    <3> QED
      BY <3>1, <3>2, <3>3
  <2>4. table'[old.cluster].dir = old.parent
    BY <1>3, <2>1, OwnerMoves DEF FreeSteps
  <2>5. ASSUME old.next # 0 PROVE table'[old.next].dir = old.parent
    <3>1. old.next \in Clusters /\ Live(old.next) /\ ~ Unlinked(old.next)
      BY <2>1, <2>5, Follower
    <3>2. CASE old.cluster = old.head
      BY <2>1, <2>2, <2>5, <3>2
    <3>3. CASE old.cluster # old.head
      <4>1. ~ Unlinked(old.cluster)
        BY <1>3, <2>1, <3>3 DEF Filed
      <4>2. table[old.next].dir = table[old.cluster].dir
        BY <2>1, <3>1, <4>1 DEF OwnersInv, OwnersAgree, Agree, Live, Unlinked
      <4> QED
        BY <1>2, <2>1, <3>1, <4>2
    <3> QED
      BY <3>2, <3>3
  <2>6. ASSUME work.step = "cont link", old = fs PROVE table'[work.slot].dir = old.parent
    <3>1. work.slot \in Clusters /\ Live(work.slot)
      <4>1. work.step = "cont link"
        BY <2>6
      <4>2. work.slot \in Clusters /\ table[work.slot].used = CONT
        BY <4>1, TailFacts
      <4> QED
        BY <4>2 DEF Live, CONT, FREE
    <3>2. table[work.slot].dir = fs.parent
      BY <2>6 DEF OwnersInv, SlotOwned
    <3> QED
      BY <2>6, <3>1, <3>2, OwnerMoves
  <2> QED
    BY <1>3, <2>1, <2>3, <2>4, <2>5, <2>6 DEF From
<1>4. ASSUME NEW new, Comes(new), new.head # 0, table'[new.head].dir = new.parent,
             new.head \in Heads', table'[new.head].used # FREE
      PROVE  /\ table'[new.cluster].dir = new.parent
             /\ cluster'[new.head].next # 0 => table'[cluster'[new.head].next].dir = new.parent
  <2>1. CASE FromFile(new)
    <3>1. PICK up \in Parents, c \in Clusters :
            /\ Valid(c, up) /\ table[c] = [dir |-> up, used |-> HEAD]
            /\ new.head = c /\ new.cluster = c /\ new.parent = up /\ work.step = "idle"
      BY <2>1 DEF FromFile, Opens, FileAt, IsFile
    <3>2. table[c].used = HEAD /\ c \in Heads /\ Live(c)
      BY <3>1 DEF Heads, Live, HEAD, FREE
    <3>3. ASSUME cluster'[c].next # 0 PROVE table'[cluster'[c].next].dir = up
      <4>1. ~ ContLink
        BY <3>1 DEF ContLink
      <4>2. cluster[c].next = cluster'[c].next
        BY <1>4, <3>1, <3>3, <4>1, LinksStaying DEF LinksStay
      <4>3. table[cluster[c].next].dir = up
        BY <3>1, <3>2, <3>3, <4>2, OpenedOwned
      <4>4. cluster[c].next \in Clusters /\ Live(cluster[c].next) /\ ~ Unlinked(cluster[c].next)
        BY <3>2, <3>3, <4>2, Follower
      <4> QED
        BY <1>2, <4>2, <4>3, <4>4
    <3> QED
      BY <1>4, <3>1, <3>3
  <2> SUFFICES ASSUME ~ FromFile(new)
               PROVE  /\ table'[new.cluster].dir = new.parent
                      /\ cluster'[new.head].next # 0 => table'[cluster'[new.head].next].dir = new.parent
    BY <2>1
  <2>2. CASE From(new, redirect.cursor)
    <3>1. redirect.cursor.head = new.head
      BY <2>2 DEF From
    <3>2. new.head \in Clusters /\ Live(new.head)
      BY <1>1, <1>4, <3>1 DEF CursorsStand, Standard, Heads, Live, HEAD, FREE
    <3> QED
      BY <1>1, <1>3, <1>4, <2>2, <3>1, <3>2 DEF CursorsStand, CursorsFiled, OwnersInv
  <2>3. CASE work.step \notin FreeSteps /\ From(new, fs)
    <3>1. fs.head = new.head
      BY <2>3 DEF From
    <3>2. new.head \in Clusters /\ Live(new.head)
      BY <1>1, <1>4, <2>3, <3>1 DEF CursorsStand, Standard, Heads, Live, HEAD, FREE
    <3> QED
      BY <1>1, <1>3, <1>4, <2>3, <3>1, <3>2 DEF CursorsStand, CursorsFiled, OwnersInv
  <2> QED
    BY <1>4, <2>2, <2>3 DEF Comes
<1>5. ASSUME redirect'.cursor.head # 0 PROVE InOwnDir(redirect.cursor)'
  <2>1. Comes(redirect'.cursor)
    BY <1>1 DEF CursorsCome
  <2>2. table'[redirect'.cursor.head].dir = redirect'.cursor.parent
    BY <1>1, <1>5 DEF CursorsFiled, Filed
  <2>3. redirect'.cursor.head \in Heads'
    BY <1>1, <1>5 DEF CursorsStand, Standard
  <2>4. table'[redirect'.cursor.head].used # FREE
    BY <2>3 DEF Heads, HEAD, FREE
  <2> QED
    BY <1>4, <1>5, <2>1, <2>2, <2>3, <2>4 DEF InOwnDir
<1>6. ASSUME work'.step \notin FreeSteps, fs'.head # 0 PROVE InOwnDir(fs)'
  <2>1. Comes(fs')
    BY <1>1, <1>6 DEF CursorsCome
  <2>2. table'[fs'.head].dir = fs'.parent
    BY <1>1, <1>6 DEF CursorsFiled, Filed
  <2>3. fs'.head \in Heads'
    BY <1>1, <1>6 DEF CursorsStand, Standard
  <2>4. table'[fs'.head].used # FREE
    BY <2>3 DEF Heads, HEAD, FREE
  <2> QED
    BY <1>4, <1>6, <2>1, <2>2, <2>3, <2>4 DEF InOwnDir
<1> QED
  BY <1>1, <1>5, <1>6 DEF OwnersInv, InOwnDir
-----------------------------------------------------------------------------
(* The kernel opens what the reader accepts.                                *)

(* The continuations of a file are in one directory.                        *)
LEMMA TailAgrees ==
  ASSUME IInv, OwnersAgree, NEW h \in Heads, NEW i \in 2 .. Len(ChainOf(h))
  PROVE  table[ChainOf(h)[i]].dir = table[ChainOf(h)[2]].dir
<1> DEFINE chain == ChainOf(h)
<1>1. /\ Trail(chain, h) /\ Len(chain) \in Nat
      /\ \A j \in 1 .. Len(chain) : chain[j] \in Clusters /\ Live(chain[j])
  BY RootChain DEF Roots, Trail
<1> HIDE DEF chain
<1> DEFINE T == {j \in 2 .. Len(chain) : table[chain[j]].dir # table[chain[2]].dir}
<1> SUFFICES ASSUME T # {} PROVE FALSE
  BY DEF chain
<1>2. T \in SUBSET Nat
  OBVIOUS
<1>3. PICK k \in T : \A j \in T : k <= j
  <2> HIDE DEF T
  <2> QED
    BY <1>2, Least
<1>4. /\ k \in 2 .. Len(chain) /\ table[chain[k]].dir # table[chain[2]].dir
      /\ k # 2 /\ k \in Nat
  BY <1>1
<1>5. /\ k - 1 \in 2 .. Len(chain) /\ k - 1 \in 1 .. Len(chain) - 1 /\ k - 2 \in 1 .. Len(chain) - 1
      /\ ~ (k <= k - 1) /\ (k - 1) + 1 = k /\ (k - 2) + 1 = k - 1
      /\ k - 1 \in 1 .. Len(chain) /\ k - 2 \in 1 .. Len(chain) /\ k \in 1 .. Len(chain)
  BY <1>1, <1>4
<1>6. table[chain[k - 1]].dir = table[chain[2]].dir
  BY <1>3, <1>5
<1>7. cluster[chain[k - 1]].next = chain[k] /\ cluster[chain[k - 2]].next = chain[k - 1]
  BY <1>1, <1>5 DEF Trail
<1>8. /\ chain[k] \in Clusters /\ chain[k - 1] \in Clusters /\ chain[k - 2] \in Clusters
      /\ Live(chain[k - 1]) /\ Live(chain[k - 2])
  BY <1>1, <1>5
<1> HIDE DEF T
<1>9. table[chain[k]].dir = table[chain[k - 1]].dir
  BY <1>7, <1>8 DEF OwnersAgree, Agree, Live
<1> QED
  BY <1>4, <1>6, <1>9

LEMMA AcceptedOpens ==
  ASSUME IInv, OwnersAgree, HostValid, NEW h \in Heads
  PROVE  Valid(h, table[h].dir) \/ HalfRemoved(h)
<1> DEFINE chain == ChainOf(h)
           up    == table[h].dir
<1>1. /\ Sound(chain) /\ Trail(chain, h) /\ Len(chain) \in Nat \ {0} /\ chain[1] = h
      /\ \A i \in 1 .. Len(chain) : chain[i] \in Clusters /\ Live(chain[i])
  BY RootChain DEF Roots, Trail
<1>2. \A i \in 1 .. Len(chain) : /\ table[chain[i]].used = IF i = 1 THEN HEAD ELSE CONT
                                 /\ Length(chain[i]) <= Capacity(chain[i])
  BY DEF HostValid
<1>3. \A i \in 2 .. Len(chain) : table[chain[i]].dir = table[chain[2]].dir
  BY TailAgrees
<1>4. \A c \in Clusters : table[c] = [dir |-> table[c].dir, used |-> table[c].used] /\ table[c].dir \in Parents
  BY DEF IInv, TypeOK, VolumeOK, Entry
<1>5. ASSUME \A i \in 1 .. Len(chain) : table[chain[i]].dir = up PROVE Valid(h, up)
  <2>1. ASSUME NEW i \in 1 .. Len(chain)
        PROVE  table[chain[i]] = [dir |-> up, used |-> IF i = 1 THEN HEAD ELSE CONT]
    <3>1. chain[i] \in Clusters
      BY <1>1
    <3>2. table[chain[i]] = [dir |-> table[chain[i]].dir, used |-> table[chain[i]].used]
      BY <1>4, <3>1
    <3> QED
      BY <1>2, <1>5, <3>2
  <2> QED
    BY <1>1, <1>2, <2>1 DEF Valid
<1> HIDE DEF chain, up
<1>6. CASE Len(chain) = 1 \/ table[chain[2]].dir = up
  <2>1. ASSUME NEW i \in 1 .. Len(chain) PROVE table[chain[i]].dir = up
    <3>1. CASE i = 1
      BY <1>1, <3>1 DEF up
    <3>2. CASE i # 1
      <4>1. i \in 2 .. Len(chain) /\ Len(chain) # 1
        BY <1>1, <3>2
      <4> QED
        BY <1>3, <1>6, <4>1
    <3> QED
      BY <3>1, <3>2
  <2> QED
    BY <1>5, <2>1 DEF up
<1>7. CASE Len(chain) # 1 /\ table[chain[2]].dir # up
  <2>1. 1 \in 1 .. Len(chain) - 1 /\ 1 \in 1 .. Len(chain) /\ 2 \in 1 .. Len(chain) /\ 1 + 1 = 2
    <3>1. PICK n \in Nat : n = Len(chain) /\ n # 0 /\ n # 1
      BY <1>1, <1>7
    <3>2. 1 \in 1 .. n - 1 /\ 1 \in 1 .. n /\ 2 \in 1 .. n /\ 1 + 1 = 2
      BY <3>1
    <3> QED
      BY <3>1, <3>2
  <2>2. chain[2] \in Clusters /\ h \in Clusters /\ Live(h) /\ cluster[h].next = chain[2]
    BY <1>1, <2>1 DEF Trail
  <2>3. up = 0
    BY <1>7, <2>2 DEF OwnersAgree, Agree, Live, up
  <2>4. table[chain[2]].dir \in Dirs
    <3>1. table[chain[2]].dir \in Parents /\ table[chain[2]].dir # 0
      BY <1>4, <1>7, <2>2, <2>3
    <3> QED
      BY <3>1, FormatAssumption DEF Parents, Dirs
  <2>5. ASSUME NEW c \in ToSet(Tail(chain)) PROVE table[c].dir = table[chain[2]].dir
    <3>1. chain \in Seq(Clusters) /\ chain # <<>>
      BY <1>1 DEF Trail
    <3>2. /\ Tail(chain) \in Seq(Clusters) /\ Len(Tail(chain)) = Len(chain) - 1
          /\ \A i \in 1 .. Len(Tail(chain)) : Tail(chain)[i] = chain[i + 1]
      BY <3>1
    <3>3. PICK i \in 1 .. Len(Tail(chain)) : c = Tail(chain)[i]
      BY DEF ToSet
    <3>4. i + 1 \in 2 .. Len(chain) /\ c = chain[i + 1]
      BY <1>1, <3>2, <3>3
    <3> QED
      BY <1>3, <3>4
  <2> QED
    BY <2>3, <2>4, <2>5 DEF HalfRemoved, up, chain
<1> QED
  BY <1>6, <1>7 DEF up

ImageAgrees == session.open => Agree(session.image.table, session.image.cluster)
CardOwned   == CardKept /\ OwnersInv /\ ImageAgrees

(* While nothing runs and nothing is open, only the volume matters.         *)
LEMMA OwnersAtRest ==
  ASSUME fs' = Closed, redirect' = NoRedirection, work' = Idle, OwnersAgree' PROVE OwnersInv'
<1>1. fs'.head = 0 /\ redirect'.cursor.head = 0 /\ work'.step = "idle"
  BY IdleFields DEF Closed, NoRedirection
<1> QED
  BY <1>1 DEF OwnersInv, SlotOwned, InOwnDir

LEMMA SameOwners == ASSUME OwnersAgree, UNCHANGED disk PROVE OwnersAgree'
BY SameVolume DEF OwnersKept

LEMMA InitOwned == CardInit => CardOwned
<1> SUFFICES ASSUME CardInit PROVE CardOwned
  OBVIOUS
<1>1. fs.head = 0 /\ redirect.cursor.head = 0 /\ ~ session.open /\ work.step = "idle"
  BY IdleFields DEF CardInit, Init, Closed, NoSession
<1>2. \A c \in Clusters : table[c].used = FREE
  BY DEF CardInit, Init, Formatted
<1> QED
  BY <1>1, <1>2, InitKept DEF CardOwned, OwnersInv, SlotOwned, InOwnDir, OwnersAgree, Agree, ImageAgrees

LEMMA SessionOwned ==
  ASSUME CardOwned, InReader PROVE OwnersAgree' /\ ImageAgrees'
<1>1. /\ session.open /\ work = Idle /\ InSession /\ OwnersAgree
      /\ Agree(session.image.table, session.image.cluster)
  BY DEF InReader, Run, Exit, Abort, CardOwned, CardKept, CardInv, SessionInv, InSession, IInv,
         OwnersInv, ImageAgrees
<1>2. CASE Run
  <2>1. Keeps
    BY <1>1, <1>2, CommandKeeps DEF Run
  <2> QED
    BY <1>1, <2>1 DEF Keeps, OwnersKept, GoesOnMarked, ImageAgrees
<1>3. CASE Exit \/ Abort
  <2>1. session' = NoSession /\ (UNCHANGED disk \/ Loads(session.image))
    BY <1>3 DEF Exit, Abort
  <2>2. ~ session'.open
    BY <2>1 DEF NoSession
  <2>3. OwnersAgree'
    <3>1. CASE UNCHANGED disk
      BY <1>1, <3>1, SameOwners
    <3>2. CASE Loads(session.image)
      BY <1>1, <3>2 DEF Loads, OwnersAgree
    <3> QED
      BY <2>1, <3>1, <3>2
  <2> QED
    BY <2>2, <2>3 DEF ImageAgrees
<1> QED
  BY <1>2, <1>3 DEF InReader

LEMMA OwnedCardStep == ~ Shared /\ CardOwned /\ [CardNext]_cardvars => CardOwned'
<1> SUFFICES ASSUME ~ Shared, CardOwned, [CardNext]_cardvars PROVE CardOwned'
  OBVIOUS
<1>1. CardKept' /\ IInv' /\ CursorInv'
  BY KeptStep DEF CardOwned, CardKept, CardInv
<1>2. ASSUME Reset PROVE OwnersInv'
  <2>1. UNCHANGED disk /\ fs' = Closed /\ redirect' = NoRedirection /\ work' = Idle
    BY <1>2 DEF Reset, Returns, NoRedirection, disk
  <2> QED
    BY <2>1, OwnersAtRest, SameOwners DEF CardOwned, OwnersInv
<1>3. CASE PutInReader
  <2>1. Reset
    BY <1>3 DEF PutInReader, Load, Reset, disk
  <2>2. session' = IF HostValid THEN [NoSession EXCEPT !.open = TRUE, !.left = MaxCommands, !.image = Volumes]
                   ELSE NoSession
    BY <1>3 DEF PutInReader, Load
  <2>3. session'.open => session'.image = Volumes
    BY <2>2 DEF NoSession
  <2>4. ImageAgrees'
    BY <2>3 DEF ImageAgrees, CardOwned, OwnersInv, OwnersAgree, Volumes
  <2> QED
    BY <1>1, <1>2, <2>1, <2>4 DEF CardOwned
<1>4. CASE InReader
  <2>1. session.open /\ UNCHANGED <<fs, redirect, work>>
    BY <1>4 DEF InReader, Run, Exit, Abort
  <2>2. fs' = Closed /\ redirect' = NoRedirection /\ work' = Idle
    BY <2>1 DEF CardOwned, CardKept, CardInv, SessionInv, Resting
  <2> QED
    BY <1>1, <1>4, <2>2, SessionOwned, OwnersAtRest DEF CardOwned
<1>5. CASE InMachine
  <2>1. ImageAgrees'
    BY <1>5 DEF InMachine, ImageAgrees
  <2>2. CASE Call \/ Service
    BY <1>1, <2>1, <2>2, OwnedStep DEF CardOwned, CardKept, CardInv
  <2> QED
    BY <1>1, <1>2, <1>5, <2>1, <2>2 DEF InMachine, Next, CardOwned
<1>6. CASE UNCHANGED cardvars
  <2>1. UNCHANGED <<table, cluster, fs, redirect, work, session>>
    BY <1>6 DEF cardvars, vars
  <2>2. OwnersInv' /\ ImageAgrees'
    BY <2>1 DEF CardOwned, OwnersInv, OwnersAgree, SlotOwned, InOwnDir, ImageAgrees
  <2> QED
    BY <1>1, <2>2 DEF CardOwned
<1> QED
  BY <1>3, <1>4, <1>5, <1>6 DEF CardNext

(* Whatever a reset has interrupted and whoever wrote the card since, every *)
(* file of a card the reader accepts is one the kernel opens, except one    *)
(* whose removal was reset at its second byte (KernelOpensAccepted).        *)
THEOREM AcceptedIsOpened == ~ Shared /\ CardSpec => []KernelOpensAccepted
<1>1. CardOwned => KernelOpensAccepted
  BY AcceptedOpens DEF CardOwned, CardKept, CardInv, OwnersInv, KernelOpensAccepted
<1>2. CASE ~ Shared
  <2>1. CardOwned /\ [CardNext]_cardvars => CardOwned'
    BY <1>2, OwnedCardStep
  <2> QED
    BY <1>1, <2>1, InitOwned, PTL DEF CardSpec
<1> QED
  BY <1>2
-----------------------------------------------------------------------------
(* Two bytes count up by one: the low one alone, or with a carry.           *)
LEMMA Times == \A r, a, b \in Nat : a <= b => r * a <= r * b
<1> SUFFICES ASSUME NEW r \in Nat, NEW a \in Nat, NEW b \in Nat, a <= b PROVE r * a <= r * b
  OBVIOUS
<1>1. PICK d \in Nat : b = a + d
  <2>1. b - a \in Nat /\ b = a + (b - a)
    OBVIOUS
  <2> QED
    BY <2>1
<1>2. r * b = (r * a) + (r * d) /\ r * d \in Nat /\ r * a \in Nat
  BY <1>1, ProductNat
<1> QED
  BY <1>2

LEMMA CountsUp ==
  ASSUME NEW r \in Nat, NEW h \in Nat, NEW l \in Nat, NEW k \in Nat, NEW m \in Nat,
         l < r, m < r, (r * k) + m = (r * h) + l + 1
  PROVE  (k = h /\ m = l + 1) \/ (k = h + 1 /\ m = 0 /\ l = r - 1)
<1>1. r * h \in Nat /\ r * k \in Nat /\ r * (h + 1) = (r * h) + r /\ r * (h + 2) = (r * h) + r + r
      /\ r * (k + 1) = (r * k) + r
  BY ProductNat
<1>2. ~ (k + 1 <= h)
  <2> SUFFICES ASSUME k + 1 <= h PROVE FALSE
    OBVIOUS
  <2>1. r * (k + 1) <= r * h
    BY Times
  <2> QED
    BY <1>1, <2>1
<1>3. ~ (h + 2 <= k)
  <2> SUFFICES ASSUME h + 2 <= k PROVE FALSE
    OBVIOUS
  <2>1. r * (h + 2) <= r * k
    BY Times
  <2> QED
    BY <1>1, <2>1
<1>4. k = h \/ k = h + 1
  BY <1>2, <1>3
<1>5. CASE k = h
  BY <1>1, <1>5
<1>6. CASE k = h + 1
  <2>1. r + m = l + 1
    BY <1>1, <1>6
  <2> QED
    BY <1>6, <2>1
<1> QED
  BY <1>4, <1>5, <1>6
-----------------------------------------------------------------------------
LEMMA Halves ==
  ASSUME NEW x \in Nat
  PROVE  /\ x \div RADIX \in Nat /\ x % RADIX \in Nat /\ x % RADIX < RADIX
         /\ (RADIX * (x \div RADIX)) + (x % RADIX) = x
<1>1. RADIX \in Nat /\ RADIX > 0
  BY FormatAssumption
<1>2. \A r, n \in Nat : r > 0 => n \div r \in Nat /\ n % r \in Nat /\ n % r < r
  OBVIOUS
<1> QED
  BY <1>1, <1>2, TwoBytes

LEMMA BytesOf ==
  ASSUME VolumeOK, NEW c \in Clusters
  PROVE  cluster[c].hi \in Nat /\ cluster[c].lo \in Nat /\ cluster[c].lo < RADIX
<1>1. RADIX \in Nat /\ cluster[c] \in Cluster
  BY FormatAssumption DEF VolumeOK
<1>2. cluster[c].hi \in 0 .. RADIX - 1 /\ cluster[c].lo \in 0 .. RADIX - 1
  BY <1>1 DEF Cluster
<1> QED
  BY <1>1, <1>2
-----------------------------------------------------------------------------
(* Between the two bytes of a length, the low one is still that of the old. *)
TornLow ==
  work.step = "length lo" => \E h \in Nat : (RADIX * h) + cluster[fs.cluster].lo = fs.offset

(* The step before the second byte is the first.                            *)
LEMMA TornBegins ==
  ASSUME IInv, Call \/ Service, work'.step = "length lo" PROVE LengthHi
<1>1. work \in Works
  BY DEF IInv, TypeOK
<1>2. ~ Call
  BY CallOutline DEF Outline, IInv, NewFile, NewDirectory
<1>3. ASSUME NEW status, TransferReturns(status) PROVE FALSE
  BY <1>3, IdleFields DEF TransferReturns, Returns
<1>4. ~ Returns(FS_SUCCESS, 0)
  BY IdleFields DEF Returns
<1>5. ASSUME NEW step, work' = [work EXCEPT !.step = step], step # "length lo" PROVE FALSE
  BY <1>1, <1>5 DEF Works
<1>6. work' # Transferred
  BY <1>1 DEF Transferred, Works
<1>7. ~ ContOwner /\ ~ ContType /\ ~ HeadOwner /\ ~ FreeOwner /\ ~ ZeroUpper
  BY <1>5 DEF ContOwner, ContType, HeadOwner, FreeOwner, ZeroUpper
<1>8. ~ TransferDone /\ ~ GrowFull /\ ~ HeadType /\ ~ DirUpper
  BY <1>3, <1>4 DEF TransferDone, GrowFull, HeadType, DirUpper
<1>9. ~ ReadByte /\ ~ LengthLo /\ ~ WriteByte
  BY <1>5, <1>6 DEF ReadByte, LengthLo, WriteByte
<1>10. ~ NextCluster
  BY DEF NextCluster
<1>11. ~ ContHeader /\ ~ ContLink /\ ~ DirName
  BY <1>1 DEF ContHeader, ContLink, DirName, Works
<1>12. ~ FreeType /\ ~ ZeroName
  BY <1>1, <1>4 DEF FreeType, ZeroName, Works
<1> QED
  BY <1>2, <1>7, <1>8, <1>9, <1>10, <1>11, <1>12 DEF Service

(* What the two steps do to the length they write.                          *)
LEMMA LengthHiWrites ==
  ASSUME IInv, CursorInv, LengthHi
  PROVE  /\ fs.cluster \in Clusters /\ fs.offset \in Nat
         /\ cluster'[fs.cluster].hi = (fs.offset + 1) \div RADIX
         /\ cluster'[fs.cluster].lo = cluster[fs.cluster].lo
         /\ Length(fs.cluster) = fs.offset /\ fs' = fs
<1>1. TypeOK /\ VolumeOK /\ work.step = "length hi"
  BY DEF LengthHi, IInv, TypeOK
<1>2. PICK S, T \in SUBSET Clusters : Good(S, fs, table, cluster) /\ fs.cluster \in S
  BY <1>1, InTransfer
<1>3. fs.head # 0 /\ fs.cluster \in Clusters /\ fs' = fs
  BY <1>1, <1>2, InTransfer DEF LengthHi
<1>4. fs.offset \in Nat /\ fs.remaining = 0
  BY <1>1 DEF TypeOK, Cursors, CursorInv, Registers, LengthSteps, AtEnd
<1>5. fs.offset + fs.remaining = Length(fs.cluster)
  BY <1>2, <1>3, SamePayload DEF Good
<1>6. cluster'[fs.cluster] = [cluster[fs.cluster] EXCEPT !.hi = (fs.offset + 1) \div RADIX]
      /\ cluster[fs.cluster] \in Cluster
  BY <1>1, <1>3 DEF LengthHi, VolumeOK
<1> DEFINE high == (fs.offset + 1) \div RADIX
<1>7. cluster'[fs.cluster].hi = high /\ cluster'[fs.cluster].lo = cluster[fs.cluster].lo
  <2>1. cluster'[fs.cluster] = [cluster[fs.cluster] EXCEPT !.hi = high]
    BY <1>6
  <2> HIDE DEF high
  <2> QED
    BY <1>6, <2>1 DEF Cluster
<1> QED
  BY <1>3, <1>4, <1>5, <1>7

LEMMA LengthLoWrites ==
  ASSUME IInv, CursorInv, LengthLo
  PROVE  /\ fs.cluster \in Clusters /\ fs.offset \in Nat /\ work.step = "length lo"
         /\ cluster[fs.cluster].hi = (fs.offset + 1) \div RADIX
         /\ cluster'[fs.cluster].hi = cluster[fs.cluster].hi
         /\ cluster'[fs.cluster].lo = (fs.offset + 1) % RADIX
<1>1. VolumeOK /\ work.step = "length lo" /\ fs.offset \in Nat
  BY DEF LengthLo, IInv, TypeOK, Cursors
<1>2. PICK S, T \in SUBSET Clusters : Torn(S, fs, table, cluster)
  BY <1>1 DEF CursorInv, Apart
<1>3. fs.cluster \in Clusters /\ cluster[fs.cluster].hi = (fs.offset + 1) \div RADIX
  BY <1>2 DEF Torn, Holds
<1> DEFINE low == (fs.offset + 1) % RADIX
<1>4. cluster' = [cluster EXCEPT ![fs.cluster].lo = low]
  BY DEF LengthLo
<1> HIDE DEF low
<1>5. cluster'[fs.cluster].hi = cluster[fs.cluster].hi /\ cluster'[fs.cluster].lo = low
  BY <1>1, <1>3, <1>4, LinksPut
<1> QED
  BY <1>1, <1>3, <1>5 DEF low

LEMMA TornStep == ASSUME IInv, CursorInv, Call \/ Service PROVE TornLow'
<1> SUFFICES ASSUME work'.step = "length lo"
             PROVE  \E h \in Nat : (RADIX * h) + cluster'[fs'.cluster].lo = fs'.offset
  BY DEF TornLow
<1>1. /\ cluster'[fs.cluster].lo = cluster[fs.cluster].lo
      /\ Length(fs.cluster) = fs.offset /\ fs' = fs /\ fs.cluster \in Clusters
  BY TornBegins, LengthHiWrites
<1>2. cluster[fs.cluster].hi \in Nat
  BY <1>1, BytesOf DEF IInv, TypeOK
<1>3. (RADIX * cluster[fs.cluster].hi) + cluster'[fs'.cluster].lo = fs'.offset
  BY <1>1 DEF Length
<1> QED
  BY <1>2, <1>3

(* No length that fits in a cluster gets less.                              *)
LEMMA LengthsGrow ==
  ASSUME IInv, CursorInv, TornLow, Call \/ Service,
         NEW c \in Clusters, Live(c), Length(c) <= CONT_CAP
  PROVE  Length(c) <= Length(c)' /\ Length(c) \in Nat
<1>1. VolumeOK /\ RADIX \in Nat /\ RADIX > 0 /\ CONT_CAP \in Nat /\ Length(c) \in Nat
  BY LengthNat, FormatAssumption, Sizes DEF IInv, TypeOK
<1> DEFINE h == cluster[c].hi
           l == cluster[c].lo
           k == (fs.offset + 1) \div RADIX
           m == (fs.offset + 1) % RADIX
<1>2. h \in Nat /\ l \in Nat /\ l < RADIX /\ Length(c) = (RADIX * h) + l
  BY <1>1, BytesOf DEF Length
<1>3. ASSUME fs.offset \in Nat
      PROVE  k \in Nat /\ m \in Nat /\ m < RADIX /\ (RADIX * k) + m = fs.offset + 1
  <2>1. fs.offset + 1 \in Nat
    BY <1>3
  <2> QED
    BY <2>1, Halves
<1>4. Length(c)' = (RADIX * cluster'[c].hi) + cluster'[c].lo
  BY DEF Length
<1>5. SUFFICES ASSUME cluster'[c] # cluster[c] PROVE Length(c) <= Length(c)'
  <2>1. ASSUME cluster'[c] = cluster[c] PROVE Length(c)' = Length(c)
    BY <1>4, <2>1 DEF Length
  <2> QED
    BY <1>1, <2>1
<1>6. c = fs.cluster /\ (WriteByte \/ LengthHi \/ LengthLo \/ ContLink)
  BY <1>5, WritesOwn
<1>7. CASE WriteByte \/ ContLink
  <2>1. cluster'[c].hi = h /\ cluster'[c].lo = l
    <3>1. CASE WriteByte
      BY <1>1, <1>6, <3>1, LinksPut DEF WriteByte
    <3>2. CASE ContLink
      BY <1>1, <1>6, <3>2, LinksPut DEF ContLink
    <3> QED
      BY <1>7, <3>1, <3>2
  <2> QED
    BY <1>1, <1>2, <1>4, <2>1
<1>8. CASE LengthHi
  <2>1. fs.offset \in Nat /\ cluster'[c].hi = k /\ cluster'[c].lo = l /\ (RADIX * h) + l = fs.offset
    BY <1>2, <1>6, <1>8, LengthHiWrites
  <2>2. k \in Nat /\ m \in Nat /\ m < RADIX /\ (RADIX * k) + m = (RADIX * h) + l + 1
    BY <1>3, <2>1
  <2> HIDE DEF h, l, k, m
  <2>3. k = h \/ k = h + 1
    BY <1>1, <1>2, <2>2, CountsUp
  <2>4. RADIX * h <= RADIX * k /\ RADIX * h \in Nat /\ RADIX * k \in Nat
    BY <1>1, <1>2, <2>2, <2>3, Times, ProductNat
  <2> QED
    BY <1>2, <1>4, <2>1, <2>4
<1>9. CASE LengthLo
  <2>1. fs.offset \in Nat /\ work.step = "length lo" /\ h = k /\ cluster'[c].hi = k /\ cluster'[c].lo = m
    BY <1>6, <1>9, LengthLoWrites
  <2>2. PICK old \in Nat : (RADIX * old) + l = fs.offset
    BY <1>6, <2>1 DEF TornLow
  <2>3. k \in Nat /\ m \in Nat /\ m < RADIX /\ (RADIX * k) + m = (RADIX * old) + l + 1
    BY <1>3, <2>1, <2>2
  <2>4. Length(c) = (RADIX * k) + l /\ Length(c)' = (RADIX * k) + m
    BY <1>2, <1>4, <2>1
  <2> HIDE DEF h, l, k, m
  <2>5. (k = old /\ m = l + 1) \/ (k = old + 1 /\ l = RADIX - 1)
    BY <1>1, <1>2, <2>2, <2>3, CountsUp
  <2>6. ~ (k = old + 1 /\ l = RADIX - 1)
    <3> SUFFICES ASSUME k = old + 1, l = RADIX - 1 PROVE FALSE
      OBVIOUS
    <3>1. RADIX * k = (RADIX * old) + RADIX /\ RADIX * old \in Nat
      BY <1>1, <2>2, ProductNat
    <3> QED
      BY <1>1, <2>4, <3>1, LengthAssumption
  <2>7. RADIX * k \in Nat
    BY <1>1, <2>3, ProductNat
  <2> QED
    BY <1>2, <2>3, <2>4, <2>5, <2>6, <2>7
<1> QED
  BY <1>6, <1>7, <1>8, <1>9
-----------------------------------------------------------------------------
(* The link of a cluster in use that has one is not written.                *)
LEMMA NextStays ==
  ASSUME IInv, CursorInv, Call \/ Service, NEW c \in Clusters, Live(c), cluster[c].next # 0
  PROVE  cluster'[c].next = cluster[c].next
<1>1. SUFFICES ASSUME cluster'[c] # cluster[c] PROVE cluster'[c].next = cluster[c].next
  OBVIOUS
<1>2. c = fs.cluster /\ (WriteByte \/ LengthHi \/ LengthLo \/ ContLink) /\ VolumeOK
  BY <1>1, WritesOwn DEF IInv, TypeOK
<1>3. ~ ContLink
  <2>1. ASSUME ContLink PROVE cluster[fs.cluster].next = 0
    BY <2>1, TailFacts DEF ContLink
  <2> QED
    BY <1>2, <2>1
<1>4. CASE WriteByte
  BY <1>2, <1>4, LinksPut DEF WriteByte
<1>5. CASE LengthHi
  BY <1>2, <1>5, LinksPut DEF LengthHi
<1>6. CASE LengthLo
  BY <1>2, <1>6, LinksPut DEF LengthLo
<1> QED
  BY <1>2, <1>3, <1>4, <1>5, <1>6

(* The chain of a file, cluster by cluster.                                 *)
Leads(h) ==
  /\ Len(ChainOf(h)) \in Nat \ {0} /\ ChainOf(h)[1] = h
  /\ \A i \in 1 .. Len(ChainOf(h)) : ChainOf(h)[i] \in Clusters
  /\ \A i \in 1 .. Len(ChainOf(h)), c \in Clusters : ChainOf(h)[i] = c =>
       /\ Live(c)
       /\ i = Len(ChainOf(h)) => cluster[c].next = 0
       /\ i # Len(ChainOf(h)) => cluster[c].next = ChainOf(h)[i + 1]
FilesLead == \A h \in Heads : Leads(h)

LEMMA FilesLeading == IInv => FilesLead
<1> SUFFICES ASSUME IInv, NEW h \in Heads PROVE Leads(h)
  BY DEF FilesLead
<1> DEFINE q == ChainOf(h)
<1>1. Trail(q, h) /\ Sound(q) /\ \A i \in 1 .. Len(q) : q[i] \in Clusters /\ Live(q[i])
  BY RootChain DEF Roots
<1>2. Len(q) \in Nat \ {0} /\ q[1] = h /\ cluster[q[Len(q)]].next = 0
  BY <1>1 DEF Trail, Sound
<1>3. ASSUME NEW i \in 1 .. Len(q), i # Len(q) PROVE cluster[q[i]].next = q[i + 1]
  <2>1. i \in 1 .. Len(q) - 1
    BY <1>2, <1>3
  <2> QED
    BY <1>1, <2>1 DEF Trail
<1> QED
  BY <1>1, <1>2, <1>3 DEF Leads

LEMMA FilesLeadingNext == IInv' => FilesLead'
  BY FilesLeading, PTL

(* A file keeps the clusters of its chain, in their order.                  *)
LEMMA ChainsExtend ==
  ASSUME IInv, CursorInv, IInv', Call \/ Service, NEW h \in Heads, h \in Heads'
  PROVE  /\ Len(ChainOf(h)) \in Nat /\ Len(ChainOf(h)') \in Nat
         /\ Len(ChainOf(h)) <= Len(ChainOf(h)')
         /\ \A i \in 1 .. Len(ChainOf(h)) : ChainOf(h)'[i] = ChainOf(h)[i]
<1> DEFINE q == ChainOf(h)
           r == ChainOf(h)'
           Same(i) == i <= Len(r) /\ r[i] = q[i]
           T == {k \in 1 .. Len(q) : ~ Same(k)}
<1>1. /\ Len(q) \in Nat \ {0} /\ q[1] = h
      /\ \A i \in 1 .. Len(q) : q[i] \in Clusters
      /\ \A i \in 1 .. Len(q), c \in Clusters : q[i] = c =>
           Live(c) /\ (i # Len(q) => cluster[c].next = q[i + 1])
  BY FilesLeading DEF FilesLead, Leads
<1>2. /\ Len(r) \in Nat \ {0} /\ r[1] = h
      /\ \A i \in 1 .. Len(r), c \in Clusters : r[i] = c =>
           /\ i = Len(r) => cluster'[c].next = 0
           /\ i # Len(r) => cluster'[c].next = r[i + 1]
  BY FilesLeadingNext DEF FilesLead, Leads
<1> HIDE DEF q, r
<1>3. T = {}
  <2> SUFFICES ASSUME T # {} PROVE FALSE
    OBVIOUS
  <2>1. PICK k \in T : \A m \in T : k <= m
    <3>1. T \in SUBSET Nat
      BY <1>1
    <3> HIDE DEF T
    <3> QED
      BY <3>1, Least
  <2>2. k \in 1 .. Len(q) /\ ~ Same(k)
    BY <2>1
  <2>3. k # 1
    BY <1>1, <1>2, <2>2
  <2>4. k - 1 \in 1 .. Len(q) /\ k - 1 # Len(q) /\ (k - 1) + 1 = k /\ ~ (k <= k - 1)
    BY <1>1, <2>2, <2>3
  <2>5. Same(k - 1)
    BY <2>1, <2>4
  <2>6. PICK c \in Clusters : q[k - 1] = c
    BY <1>1, <2>4
  <2>7. Live(c) /\ cluster[c].next = q[k] /\ q[k] # 0
    BY <1>1, <2>2, <2>4, <2>6, NotZero
  <2>8. cluster'[c].next = q[k]
    BY <2>7, NextStays
  <2>9. k - 1 \in 1 .. Len(r) /\ r[k - 1] = c
    BY <1>2, <2>4, <2>5, <2>6
  <2>10. k - 1 # Len(r) /\ r[k] = q[k]
    BY <1>2, <2>4, <2>7, <2>8, <2>9
  <2> QED
    BY <1>2, <2>2, <2>9, <2>10
<1>4. \A i \in 1 .. Len(q) : Same(i)
  BY <1>3
<1>5. Same(Len(q))
  BY <1>1, <1>4
<1> QED
  BY <1>1, <1>2, <1>4, <1>5 DEF q, r
-----------------------------------------------------------------------------
(* The bytes of a file, counted along its chain.                            *)
Held(c) == [j \in 1 .. Length(c) |-> cluster[c].data[j - 1]]
Values   == {cluster[c].data[i] : c \in Clusters, i \in Nat}

LEMMA BytesCount ==
  ASSUME VolumeOK, NEW c \in Clusters
  PROVE  Length(c) \in Nat /\ Held(c) \in Seq(Values) /\ Len(Held(c)) = Length(c)
<1>1. Length(c) \in Nat
  BY LengthNat
<1>2. ASSUME NEW j \in 1 .. Length(c) PROVE cluster[c].data[j - 1] \in Values
  <2>1. j - 1 \in Nat
    BY <1>1
  <2> QED
    BY <2>1 DEF Values
<1> DEFINE n == Length(c)
           e(j) == cluster[c].data[j - 1]
<1>3. Held(c) = [j \in 1 .. n |-> e(j)]
  BY DEF Held
<1>4. n \in Nat /\ \A j \in 1 .. n : e(j) \in Values
  BY <1>1, <1>2
<1> HIDE DEF n, e
<1>5. [j \in 1 .. n |-> e(j)] \in Seq(Values) /\ Len([j \in 1 .. n |-> e(j)]) = n
  BY <1>4
<1> QED
  BY <1>1, <1>3, <1>5 DEF n

(* What has been read after each cluster of a chain.                        *)
Reads(chain, at) ==
  at = [k \in 0 .. Len(chain) |-> IF k = 0 THEN <<>> ELSE at[k - 1] \o Held(chain[k])]

LEMMA ContentUnfolds ==
  ASSUME VolumeOK, NEW h, ChainOf(h) \in Seq(Clusters)
  PROVE  \E at : Reads(ChainOf(h), at) /\ Content(h) = at[Len(ChainOf(h))]
<1> DEFINE chain == ChainOf(h)
           n == Len(chain)
           V == Seq(Values)
           g == [i \in 1 .. n |-> [s \in V |-> s \o Held(chain[i])]]
<1>1. n \in Nat /\ \A i \in 1 .. n : chain[i] \in Clusters
  OBVIOUS
<1>2. \A i \in 1 .. n : Held(chain[i]) \in V
  BY <1>1, BytesCount
<1>3. <<>> \in V /\ \A s, t \in V : s \o t \in V
  BY ConcatProperties
<1>4. PICK f \in [0 .. n -> V] : f[0] = <<>> /\ \A i \in 1 .. n : f[i] = g[i][f[i - 1]]
  <2> HIDE DEF n, V, chain
  <2>1. g \in Maps(n, V)
    BY <1>2, <1>3 DEF Maps
  <2> HIDE DEF g
  <2>2. \E f : Iterates(f, n, V, <<>>, g)
    BY <1>1, <1>3, <2>1, StepByStep
  <2> QED
    BY <2>2 DEF Iterates
<1>5. f = [i \in 0 .. n |-> IF i = 0 THEN <<>> ELSE f[i - 1] \o Held(chain[i])]
  <2> HIDE DEF n, V, chain
  <2>1. ASSUME NEW i \in 0 .. n
        PROVE  f[i] = IF i = 0 THEN <<>> ELSE f[i - 1] \o Held(chain[i])
    <3>1. CASE i = 0
      BY <1>4, <3>1
    <3>2. CASE i # 0
      <4>1. i \in 1 .. n /\ i - 1 \in 0 .. n
        BY <1>1, <3>2
      <4>2. f[i - 1] \in V /\ f[i] = g[i][f[i - 1]]
        BY <1>4, <4>1
      <4> QED
        BY <3>2, <4>1, <4>2
    <3> QED
      BY <3>1, <3>2
  <2> QED
    BY <1>4, <2>1
<1> DEFINE at == CHOOSE x : x = [i \in 0 .. n |-> IF i = 0 THEN <<>> ELSE x[i - 1] \o Held(chain[i])]
<1>6. at = [i \in 0 .. n |-> IF i = 0 THEN <<>> ELSE at[i - 1] \o Held(chain[i])]
  <2> HIDE DEF n, chain
  <2> QED
    BY <1>5
<1>7. Content(h) = at[n]
  BY DEF Content, Held
<1>8. Reads(chain, at)
  BY <1>6 DEF Reads
<1> HIDE DEF at
<1> QED
  BY <1>7, <1>8

(* The lengths of the clusters add up to that of the file.                  *)
Counts(h, f) ==
  /\ f \in [0 .. Len(ChainOf(h)) -> Nat]
  /\ f[0] = 0 /\ f[Len(ChainOf(h))] = Len(Content(h))
  /\ \A k \in 1 .. Len(ChainOf(h)), c \in Clusters : ChainOf(h)[k] = c =>
       f[k] = f[k - 1] + Length(c) /\ f[k - 1] <= f[k]
FilesCount == \A h \in Heads : \E f : Counts(h, f)

LEMMA FilesCounting == IInv => FilesCount
<1> SUFFICES ASSUME IInv, NEW h \in Heads PROVE \E f : Counts(h, f)
  BY DEF FilesCount
<1> DEFINE chain == ChainOf(h)
           n == Len(chain)
<1>1. VolumeOK /\ chain \in Seq(Clusters)
  BY RootChain DEF Roots, Trail, IInv, TypeOK
<1>2. PICK at : Reads(chain, at) /\ Content(h) = at[n]
  BY <1>1, ContentUnfolds
<1>3. n \in Nat /\ \A i \in 1 .. n : chain[i] \in Clusters
  BY <1>1
<1>4. at[0] = <<>> /\ \A k \in 1 .. n : at[k] = at[k - 1] \o Held(chain[k])
  <2>1. at = [k \in 0 .. n |-> IF k = 0 THEN <<>> ELSE at[k - 1] \o Held(chain[k])]
    BY <1>2 DEF Reads
  <2> HIDE DEF chain, n
  <2>2. ASSUME NEW k \in 1 .. n PROVE at[k] = at[k - 1] \o Held(chain[k])
    <3>1. k \in 0 .. n /\ k # 0
      BY <1>3
    <3> QED
      BY <2>1, <3>1
  <2>3. at[0] = <<>>
    BY <1>3, <2>1
  <2> QED
    BY <2>2, <2>3
<1> HIDE DEF chain, n
<1>5. \A k \in 0 .. n : at[k] \in Seq(Values)
  <2> DEFINE T == {k \in 0 .. n : at[k] \notin Seq(Values)}
  <2>1. SUFFICES ASSUME T # {} PROVE FALSE
    OBVIOUS
  <2>2. PICK k \in T : \A m \in T : k <= m
    <3>1. T \in SUBSET Nat
      BY <1>3
    <3> HIDE DEF T
    <3> QED
      BY <2>1, <3>1, Least
  <2>3. k \in 0 .. n /\ at[k] \notin Seq(Values)
    BY <2>2
  <2>4. k # 0
    BY <1>4, <2>3, EmptySeq
  <2>5. k \in 1 .. n /\ k - 1 \in 0 .. n /\ ~ (k <= k - 1)
    BY <1>3, <2>3, <2>4
  <2>6. at[k - 1] \in Seq(Values)
    BY <2>2, <2>5
  <2>7. Held(chain[k]) \in Seq(Values) /\ at[k] = at[k - 1] \o Held(chain[k])
    BY <1>1, <1>3, <1>4, <2>5, BytesCount
  <2> QED
    BY <2>3, <2>6, <2>7, ConcatProperties
<1> DEFINE f == [k \in 0 .. n |-> Len(at[k])]
<1>6. f \in [0 .. n -> Nat]
  BY <1>5, LenProperties
<1>7. f[0] = 0 /\ f[n] = Len(Content(h))
  BY <1>2, <1>3, <1>4
<1>8. ASSUME NEW k \in 1 .. n, NEW c \in Clusters, chain[k] = c
      PROVE  f[k] = f[k - 1] + Length(c) /\ f[k - 1] <= f[k]
  <2>1. k \in 0 .. n /\ k - 1 \in 0 .. n
    BY <1>3
  <2>2. /\ Length(c) \in Nat /\ Held(c) \in Seq(Values) /\ Len(Held(c)) = Length(c)
        /\ at[k - 1] \in Seq(Values) /\ at[k] = at[k - 1] \o Held(c)
    BY <1>1, <1>4, <1>5, <1>8, <2>1, BytesCount
  <2>3. Len(at[k]) = Len(at[k - 1]) + Length(c) /\ Len(at[k - 1]) \in Nat
    <3>1. PICK s, t \in Seq(Values) : s = at[k - 1] /\ t = Held(c)
      BY <2>2
    <3>2. Len(s \o t) = Len(s) + Len(t) /\ Len(s) \in Nat
      BY ConcatProperties, LenProperties
    <3> QED
      BY <2>2, <3>1, <3>2
  <2> QED
    BY <2>1, <2>2, <2>3
<1> HIDE DEF f
<1>9. Counts(h, f)
  BY <1>6, <1>7, <1>8 DEF Counts, n, chain
<1> QED
  BY <1>9

LEMMA FilesCountingNext == IInv' => FilesCount'
  BY FilesCounting, PTL
-----------------------------------------------------------------------------
(* A sum does not get less if none of its terms does.                       *)
LEMMA SumsGrow ==
  ASSUME NEW n \in Nat, NEW m \in Nat, n <= m,
         NEW f \in [0 .. n -> Nat], NEW g \in [0 .. m -> Nat], f[0] = 0, g[0] = 0,
         \A k \in 1 .. n : f[k] + g[k - 1] <= g[k] + f[k - 1],
         \A k \in 1 .. m : g[k - 1] <= g[k]
  PROVE  f[n] <= g[m]
<1> DEFINE Under(k) == IF k <= n THEN f[k] <= g[k] ELSE f[n] <= g[k]
           T == {k \in 0 .. m : ~ Under(k)}
<1>1. T = {}
  <2> SUFFICES ASSUME T # {} PROVE FALSE
    OBVIOUS
  <2>1. PICK k \in T : \A j \in T : k <= j
    <3>1. T \in SUBSET Nat
      OBVIOUS
    <3> HIDE DEF T
    <3> QED
      BY <3>1, Least
  <2>2. k \in 0 .. m /\ ~ Under(k)
    BY <2>1
  <2>3. k # 0
    BY <2>2
  <2>4. k \in 1 .. m /\ k - 1 \in 0 .. m /\ ~ (k <= k - 1)
    BY <2>2, <2>3
  <2>5. Under(k - 1)
    BY <2>1, <2>4
  <2>6. g[k - 1] <= g[k] /\ g[k - 1] \in Nat /\ g[k] \in Nat
    BY <2>2, <2>4
  <2>7. CASE k <= n
    <3>1. k \in 1 .. n /\ k - 1 \in 0 .. n /\ k \in 0 .. n
      BY <2>4, <2>7
    <3>2. f[k] + g[k - 1] <= g[k] + f[k - 1] /\ f[k] \in Nat /\ f[k - 1] \in Nat
      BY <3>1
    <3>3. f[k - 1] <= g[k - 1]
      BY <2>5, <3>1
    <3>4. f[k] <= g[k]
      <4>1. PICK a, b, x, y \in Nat : a = f[k] /\ b = f[k - 1] /\ x = g[k] /\ y = g[k - 1]
        BY <2>6, <3>2
      <4>2. a + y <= x + b /\ b <= y
        BY <3>2, <3>3, <4>1
      <4>3. a <= x
        BY <4>2
      <4> QED
        BY <4>1, <4>3
    <3> QED
      BY <2>2, <2>7, <3>4
  <2>8. CASE ~ (k <= n)
    <3>1. f[n] \in Nat /\ f[n] <= g[k - 1]
      <4>1. CASE k - 1 <= n
        <5>1. k - 1 = n
          BY <2>4, <2>8, <4>1
        <5> QED
          BY <2>5, <5>1
      <4>2. CASE ~ (k - 1 <= n)
        BY <2>5, <4>2
      <4> QED
        BY <4>1, <4>2
    <3> QED
      BY <2>2, <2>6, <2>8, <3>1
  <2> QED
    BY <2>7, <2>8
<1>2. Under(m)
  <2>1. m \in 0 .. m
    OBVIOUS
  <2> QED
    BY <1>1, <2>1
<1>3. CASE m <= n
  BY <1>2, <1>3
<1>4. CASE ~ (m <= n)
  BY <1>2, <1>4
<1> QED
  BY <1>3, <1>4
-----------------------------------------------------------------------------
LengthsNat == \A c \in Clusters : Length(c) \in Nat
LEMMA LengthsNatural == VolumeOK => LengthsNat
  BY LengthNat DEF LengthsNat
LEMMA LengthsNatNext == VolumeOK' => LengthsNat'
  BY LengthsNatural, PTL

(* No step of the kernel makes a file shorter whose chain was right before. *)
LEMMA FilesGrow ==
  ASSUME IInv, CursorInv, TornLow, IInv', Call \/ Service,
         NEW h \in Heads, h \in Heads', Valid(h, table[h].dir)
  PROVE  Len(Content(h)) <= Len(Content(h)')
<1>1. PICK f : Counts(h, f)
  BY FilesCounting DEF FilesCount
<1>2. PICK g : Counts(h, g)'
  BY FilesCountingNext DEF FilesCount
<1> DEFINE n == Len(ChainOf(h))
           m == Len(ChainOf(h)')
<1>3. /\ n \in Nat /\ m \in Nat /\ n <= m
      /\ \A i \in 1 .. n : ChainOf(h)'[i] = ChainOf(h)[i]
  BY ChainsExtend
<1>4. \A k \in 1 .. n : ChainOf(h)[k] \in Clusters
  BY FilesLeading DEF FilesLead, Leads
<1>5. \A k \in 1 .. m : ChainOf(h)'[k] \in Clusters
  BY FilesLeadingNext DEF FilesLead, Leads
<1>6. /\ f \in [0 .. n -> Nat] /\ f[0] = 0 /\ f[n] = Len(Content(h))
      /\ \A k \in 1 .. n, c \in Clusters : ChainOf(h)[k] = c => f[k] = f[k - 1] + Length(c)
  BY <1>1 DEF Counts
<1>7. /\ g \in [0 .. m -> Nat] /\ g[0] = 0 /\ g[m] = Len(Content(h)')
      /\ \A k \in 1 .. m, c \in Clusters : ChainOf(h)'[k] = c =>
           g[k] = g[k - 1] + Length(c)' /\ g[k - 1] <= g[k]
  BY <1>2 DEF Counts
<1>8. \A k \in 1 .. m : g[k - 1] <= g[k]
  BY <1>5, <1>7
<1>9. ASSUME NEW k \in 1 .. n PROVE f[k] + g[k - 1] <= g[k] + f[k - 1]
  <2>1. PICK c \in Clusters : ChainOf(h)[k] = c
    BY <1>4
  <2>2. k \in 1 .. m /\ ChainOf(h)'[k] = c
    BY <1>3, <2>1
  <2>3. Live(c)
    BY <2>1, FilesLeading DEF FilesLead, Leads
  <2>4. Length(c) <= CONT_CAP
    <3>1. Length(c) <= Capacity(c)
      BY <2>1 DEF Valid
    <3>2. Length(c) \in Nat
      BY LengthNat DEF IInv, TypeOK
    <3> QED
      BY <3>1, <3>2, Sizes DEF Capacity
  <2>5. Length(c) <= Length(c)' /\ Length(c) \in Nat
    BY <2>3, <2>4, LengthsGrow
  <2>6. Length(c)' \in Nat
    BY LengthsNatNext DEF IInv, TypeOK, LengthsNat
  <2>7. f[k] = f[k - 1] + Length(c) /\ g[k] = g[k - 1] + Length(c)'
    BY <1>6, <1>7, <2>1, <2>2
  <2>8. f[k - 1] \in Nat /\ g[k - 1] \in Nat
    <3>1. k - 1 \in 0 .. n /\ k - 1 \in 0 .. m
      BY <1>3, <2>2
    <3> HIDE DEF n, m
    <3> QED
      BY <1>6, <1>7, <3>1
  <2> QED
    BY <2>5, <2>6, <2>7, <2>8
<1>10. f[n] <= g[m]
  <2> HIDE DEF n, m
  <2> QED
    BY <1>3, <1>6, <1>7, <1>8, <1>9, SumsGrow
<1> QED
  BY <1>6, <1>7, <1>10

CardTorn == CardKept /\ TornLow

LEMMA TornCardStep == ~ Shared /\ CardTorn /\ [CardNext]_cardvars => CardTorn'
<1> SUFFICES ASSUME ~ Shared, CardTorn, [CardNext]_cardvars PROVE TornLow'
  BY KeptStep DEF CardTorn
<1>1. ASSUME work' = Idle PROVE TornLow'
  BY <1>1, IdleFields DEF TornLow
<1>2. CASE PutInReader
  BY <1>1, <1>2 DEF PutInReader, Returns
<1>3. CASE InReader
  <2>1. session.open /\ work' = work
    BY <1>3 DEF InReader, Run, Exit, Abort
  <2>2. work = Idle
    BY <2>1 DEF CardTorn, CardKept, CardInv, SessionInv
  <2> QED
    BY <1>1, <2>1, <2>2
<1>4. CASE InMachine
  <2>1. CASE Call \/ Service
    BY <2>1, TornStep DEF CardTorn, CardKept, CardInv
  <2>2. CASE Reset
    BY <1>1, <2>2 DEF Reset, Returns
  <2> QED
    BY <1>4, <2>1, <2>2 DEF InMachine, Next
<1>5. CASE UNCHANGED cardvars
  BY <1>5 DEF CardTorn, TornLow, cardvars, vars
<1> QED
  BY <1>2, <1>3, <1>4, <1>5 DEF CardNext

LEMMA InitTorn == CardInit => CardTorn
<1> SUFFICES ASSUME CardInit PROVE TornLow
  BY InitKept DEF CardTorn
<1>1. work = Idle
  BY DEF CardInit, Init
<1> QED
  BY <1>1, IdleFields DEF TornLow

LEMMA FilesGrowing ==
  CardTorn /\ CardTorn' /\ [CardNext]_cardvars =>
    [disk' # disk /\ ~ session.open /\ ~ session.open' =>
       \A h \in Heads :
         h \in Heads' /\ Valid(h, table[h].dir) /\ Valid(h, table[h].dir)' =>
           Len(Content(h)') >= Len(Content(h))]_cardvars
<1> SUFFICES ASSUME CardTorn, CardTorn', [CardNext]_cardvars,
                    disk' # disk, ~ session.open, NEW h \in Heads, h \in Heads',
                    Valid(h, table[h].dir)
             PROVE  Len(Content(h)') >= Len(Content(h))
  OBVIOUS
<1>1. Call \/ Service
  BY KernelWrites
<1>2. Len(Content(h)) <= Len(Content(h)')
  BY <1>1, FilesGrow DEF CardTorn, CardKept, CardInv
<1> QED
  BY <1>2

(* A file whose chain is right before and after a byte the kernel writes is *)
(* no shorter after it: a length with one byte written is either more than  *)
(* the old one or more than a cluster holds (WholeFilesKeepBytes).          *)
THEOREM WholeFilesGrow == ~ Shared /\ CardSpec => WholeFilesKeepBytes
<1>1. CASE ~ Shared
  <2>1. CardTorn /\ [CardNext]_cardvars => CardTorn'
    BY <1>1, TornCardStep
  <2> QED
    BY <2>1, InitTorn, FilesGrowing, PTL DEF CardSpec, WholeFilesKeepBytes
<1> QED
  BY <1>1
=============================================================================
