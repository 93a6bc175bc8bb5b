-------------------------------- MODULE Afs --------------------------------
(***************************************************************************)
(* The card reader: a session of the host tool on the image of a card       *)
(* (cardreader/include/afs.hh and src/main.cc).  The tool loads the whole  *)
(* image, refuses it unless it is HostValid, runs its commands on the copy *)
(* in memory and writes that back, when a command has changed it, by       *)
(* renaming a new file over the old one.                                   *)
(*                                                                         *)
(* While a session is open the volume of module Volume is the copy, and     *)
(* session.image the card.  A path is [absolute, parts]; "." and empty     *)
(* parts, which directory() skips, are left out.  A part may be the name   *)
(* "..", one with a byte no name may have, or one longer than its field.   *)
(* File names are taken whole: base, dot and extension; touch's refusals   *)
(* of an extension, empty or too long, are those of the last two.          *)
(***************************************************************************)
EXTENDS Volume, SequencesExt

CONSTANTS
  HostPaths,   (* the paths typed at the tool                              *)
  Contents,    (* the host files it imports                                *)
  Above, Bad, Long, (* the parts "..", with an illegal byte, too long      *)
  MaxCommands, (* bound on the commands of a session                       *)
  Refusal      (* no image, no content                                     *)

Special == {Above, Bad, Long}
ASSUME HostAssumption ==
  /\ HostPaths \subseteq [absolute : BOOLEAN, parts : Seq(Names \cup Special)]
  /\ Contents \subseteq Seq(Data) /\ MaxCommands \in Nat

VARIABLE session
  (* open, the directory commands start from, whether the copy was changed, *)
  (* the card, and the code and content of the last command                *)

OK       == 0
INVALID_DIRNAME_FILENAME       == 1
DIRNAME_FILENAME_TOO_LONG      == 2
DIRNAME_FILENAME_ALREADY_EXIST == 4
NO_MORE_SPACE                  == -1
NOT_THERE                      == 6   (* what rm and cd report             *)
Codes == {OK, INVALID_DIRNAME_FILENAME, DIRNAME_FILENAME_TOO_LONG,
          DIRNAME_FILENAME_ALREADY_EXIST, NO_MORE_SPACE, NOT_THERE}

NoSession == [open |-> FALSE, left |-> 0, current |-> 0, dirty |-> FALSE, image |-> Refusal,
              code |-> OK, content |-> Refusal]

Volumes == [table |-> table, dirs |-> dirs, cluster |-> cluster]
Loads(v) == table' = v.table /\ dirs' = v.dirs /\ cluster' = v.cluster

(* A command ends with a code; only what succeeds makes the copy dirty.    *)
Ends(code) == session' = [session EXCEPT !.left = @ - 1, !.code = code, !.content = Refusal]
Fails(code) == Ends(code) /\ UNCHANGED disk
(* Mutant: nobody is told.                                                  *)
ChangesUnmarked(v) ==
  Loads(v) /\ session' = [session EXCEPT !.left = @ - 1, !.code = OK, !.content = Refusal]
Changes(v) ==
  Loads(v) /\ session' = [session EXCEPT !.left = @ - 1, !.code = OK, !.content = Refusal, !.dirty = TRUE]
-----------------------------------------------------------------------------
(* child and file: the first record, the first head.                       *)
HostChild(part, up) ==
  IF part \in Special THEN NoEntry
  ELSE LET d == Child(up, part) IN IF d \in Parents THEN d ELSE NoEntry
FilesIn(part, up) == IF part \in Special THEN {} ELSE {c \in Clusters : IsFile(c, up, part)}

(* directory: ".." leads from the root to the root.                        *)
Directory(path) ==
  LET Into(up, part) ==
        IF up = NoEntry THEN NoEntry
        ELSE IF part # Above THEN HostChild(part, up)
        ELSE IF up = 0 THEN 0 ELSE dirs[up].upper
      at[i \in 0 .. Len(path.parts)] ==
        IF i = 0 THEN IF path.absolute THEN 0 ELSE session.current
        ELSE Into(at[i - 1], path.parts[i])
  IN at[Len(path.parts)]

(* parent: the directory of the last part; the root itself has none.       *)
ParentOf(path) ==
  IF path.parts = <<>> THEN NoEntry ELSE Directory([path EXCEPT !.parts = Front(@)])
LastOf(path) == IF path.parts = <<>> THEN Bad ELSE Last(path.parts)
Taken(path, up) ==
  HostChild(LastOf(path), up) # NoEntry \/ FilesIn(LastOf(path), up) # {}

(* The directories from d to the root.                                     *)
Upward(d) ==
  LET at[k \in 0 .. D] == IF k = 0 THEN d ELSE IF at[k - 1] = 0 THEN 0 ELSE dirs[at[k - 1]].upper
  IN {at[k] : k \in 0 .. D} \ {0}
-----------------------------------------------------------------------------
NoRecord  == [upper |-> 0, name |-> [i \in 1 .. DIRNAME |-> 0]]
Zeroed    == [name |-> NoName, next |-> 0, hi |-> 0, lo |-> 0, data |-> [i \in Places |-> 0]]
NoOwner   == [dir |-> 0, used |-> FREE]

(* free_file, for the files whose heads these are.                         *)
Freed(heads) ==
  LET gone == UNION {ToSet(ChainOf(h)) : h \in heads}
  IN [Volumes EXCEPT !.table   = [c \in Clusters |-> IF c \in gone THEN NoOwner ELSE @[c]],
                     !.cluster = [c \in Clusters |-> IF c \in gone THEN Zeroed ELSE @[c]]]

(* free_dir, with everything below.                                        *)
FreedDirectory(d) ==
  LET below == {e \in Dirs : IsDir(e) /\ d \in Upward(e)}
  IN [Freed({h \in Heads : table[h].dir \in below}) EXCEPT
        !.dirs = [e \in Dirs |-> IF e \in below THEN NoRecord ELSE @[e]]]

MakeDir(path) ==
  LET up == ParentOf(path)
      name == LastOf(path)
  IN \/ (up = NoEntry \/ name \in {Above, Bad}) /\ Fails(INVALID_DIRNAME_FILENAME)
     \/ /\ up # NoEntry /\ name \notin {Above, Bad}
        /\ \/ name = Long /\ Fails(DIRNAME_FILENAME_TOO_LONG)
           \/ name # Long /\ ~ NamesDir(name) /\ Fails(DIRNAME_FILENAME_TOO_LONG)
           \/ name # Long /\ NamesDir(name) /\ Taken(path, up) /\ Fails(DIRNAME_FILENAME_ALREADY_EXIST)
           \/ /\ name # Long /\ NamesDir(name) /\ ~ Taken(path, up)
              /\ \/ NoFreeDir /\ Fails(NO_MORE_SPACE)
                 \/ \E d \in Dirs :
                      /\ FirstFreeDir(d)
                      /\ Changes([Volumes EXCEPT !.dirs[d] =
                                    [upper |-> up, name |-> [i \in 1 .. DIRNAME |-> name[i]]]])

(* touch, without its effect: why it fails, or the cluster it takes.       *)
TouchCode(path) ==
  LET up == ParentOf(path)
  IN IF up = NoEntry \/ LastOf(path) \in {Above, Bad} THEN INVALID_DIRNAME_FILENAME
     ELSE IF LastOf(path) = Long THEN DIRNAME_FILENAME_TOO_LONG
     ELSE IF Taken(path, up) THEN DIRNAME_FILENAME_ALREADY_EXIST
     ELSE IF Full THEN NO_MORE_SPACE ELSE OK
FirstUnused == Min({c \in Clusters : ~ Live(c)})
Touched(path) ==
  [Volumes EXCEPT !.table[FirstUnused] = [dir |-> ParentOf(path), used |-> HEAD],
                  !.cluster[FirstUnused] = [Zeroed EXCEPT !.name = LastOf(path)]]
HostTouch(path) ==
  LET code == TouchCode(path)
  IN IF code = OK THEN Changes(Touched(path)) ELSE Fails(code)

(* set_content: the clusters a content of n bytes takes are the head, and  *)
(* the lowest ones that are unused or the file's own; none is written      *)
(* before all are known.  What no card can hold is refused while it is     *)
(* read, before the path is looked at.                                     *)
Oversize(content) == Len(content) > HEAD_CAP + (Cardinality(Clusters) - 1) * CONT_CAP
Need(n) == IF n <= HEAD_CAP THEN 1 ELSE 1 + (n - HEAD_CAP + CONT_CAP - 1) \div CONT_CAP
Usable(head, own) == {c \in Clusters \ {head} : ~ Live(c) \/ c \in own}
Place(head, own, c) ==
  IF c = head THEN 1 ELSE 1 + Cardinality({b \in Usable(head, own) : b <= c})
Takes(head, own, n) == {c \in {head} \cup Usable(head, own) : Place(head, own, c) <= Need(n)}
HasRoom(head, own, n) == Cardinality(Usable(head, own)) >= Need(n) - 1

(* The part of the content that goes into the jth of them.                 *)
Before(j) == IF j = 1 THEN 0 ELSE HEAD_CAP + (j - 2) * CONT_CAP
Part(j, content) == SubSeq(content, Before(j) + 1, Min({Len(content), Before(j + 1)}))

(* Mutant: the continuations are left to the root.                          *)
OwnedByRoot(up, j) == [dir |-> IF j = 1 THEN up ELSE 0, used |-> IF j = 1 THEN HEAD ELSE CONT]
Owned(up, j) == [dir |-> up, used |-> IF j = 1 THEN HEAD ELSE CONT]

(* A cluster of the file, once the content is in it.                        *)
Filled(head, own, name, content, c) ==
  LET base == IF c \in own THEN Zeroed ELSE cluster[c]
      j    == Place(head, own, c)
      part == Part(j, content)
  IN [name |-> IF c = head THEN name ELSE base.name,
      next |-> IF j < Need(Len(content))
               THEN CHOOSE b \in Takes(head, own, Len(content)) : Place(head, own, b) = j + 1 ELSE 0,
      hi   |-> Len(part) \div RADIX, lo |-> Len(part) % RADIX,
      data |-> [i \in Places |-> IF i < Len(part) THEN part[i + 1] ELSE base.data[i]]]

Stored(head, own, up, name, content) ==
  LET ids == Takes(head, own, Len(content))
  IN [Volumes EXCEPT
        !.table = [c \in Clusters |-> IF c \in ids THEN Owned(up, Place(head, own, c))
                                      ELSE IF c \in own THEN NoOwner ELSE @[c]],
        !.cluster = [c \in Clusters |-> IF c \in ids THEN Filled(head, own, name, content, c)
                                        ELSE IF c \in own THEN Zeroed ELSE @[c]]]

SetContent(path, content) ==
  LET up == ParentOf(path)
      heads == IF up = NoEntry THEN {} ELSE FilesIn(LastOf(path), up)
      head == Min(heads)
      own == ToSet(ChainOf(head))
  IN \/ Oversize(content) /\ Fails(NO_MORE_SPACE)
     \/ heads = {} /\ ~ Oversize(content) /\ Fails(INVALID_DIRNAME_FILENAME)
     \/ /\ heads # {} /\ ~ Oversize(content)
        /\ \/ ~ HasRoom(head, own, Len(content)) /\ Fails(NO_MORE_SPACE)
           \/ /\ HasRoom(head, own, Len(content))
              /\ Changes(Stored(head, own, up, LastOf(path), content))

(* put: touch, unless the name is taken, and set_content; on a copy that    *)
(* becomes the volume when both succeed.                                   *)
(* Mutant: on the volume itself.                                            *)
PutFailedInPlace(path) == Loads(Touched(path)) /\ Ends(NO_MORE_SPACE)
PutFailed(path) == Fails(NO_MORE_SPACE)

Put(path, content) ==
  LET code == TouchCode(path)
      head == FirstUnused
  IN \/ code = DIRNAME_FILENAME_ALREADY_EXIST /\ SetContent(path, content)
     \/ /\ code = OK
        /\ \/ ~ HasRoom(head, {head}, Len(content)) /\ PutFailed(path)
           \/ /\ HasRoom(head, {head}, Len(content))
              /\ Changes(Stored(head, {head}, ParentOf(path), LastOf(path), content))
     \/ code \notin {OK, DIRNAME_FILENAME_ALREADY_EXIST} /\ Fails(code)

(* remove: a file, else a directory and all below it; a session that       *)
(* stands there goes back to the root.                                     *)
(* Mutant: only one that stands in the directory itself.                    *)
StaysOutsideOnly(d) == IF session.current = d THEN 0 ELSE session.current
StaysOutside(d) == IF d \in Upward(session.current) THEN 0 ELSE session.current

HostRemove(path) ==
  LET up == ParentOf(path)
      heads == IF up = NoEntry THEN {} ELSE FilesIn(LastOf(path), up)
      d == IF up = NoEntry THEN NoEntry ELSE HostChild(LastOf(path), up)
  IN \/ heads # {} /\ Changes(Freed({Min(heads)}))
     \/ heads = {} /\ d = NoEntry /\ Fails(NOT_THERE)
     \/ /\ heads = {} /\ d # NoEntry
        /\ Loads(FreedDirectory(d))
        /\ session' = [session EXCEPT !.current = StaysOutside(d), !.dirty = TRUE,
                                      !.left = @ - 1, !.code = OK, !.content = Refusal]

ChangeDirectory(path) ==
  LET d == Directory(path)
  IN /\ UNCHANGED disk
     /\ session' = [session EXCEPT !.current = IF d = NoEntry THEN @ ELSE d,
                                   !.left = @ - 1, !.code = IF d = NoEntry THEN NOT_THERE ELSE OK,
                                   !.content = Refusal]

GetContent(path) ==
  LET up == ParentOf(path)
      heads == IF up = NoEntry THEN {} ELSE FilesIn(LastOf(path), up)
      chain == ChainOf(Min(heads))
      Payload(c) == [i \in 1 .. Length(c) |-> cluster[c].data[i - 1]]
  IN /\ UNCHANGED disk
     /\ session' = [session EXCEPT
          !.left = @ - 1, !.code = IF heads = {} THEN INVALID_DIRNAME_FILENAME ELSE OK,
          !.content = IF heads = {} THEN Refusal
                      ELSE FlattenSeq([j \in 1 .. Len(chain) |-> Payload(chain[j])])]

Command ==
  \E path \in HostPaths :
    \/ MakeDir(path) \/ HostTouch(path) \/ HostRemove(path) \/ ChangeDirectory(path) \/ GetContent(path)
    \/ \E content \in Contents : SetContent(path, content) \/ Put(path, content)
-----------------------------------------------------------------------------
(* main.  A card that is not HostValid is refused; the session ends with   *)
(* exit or the end of the input, which save what has been changed, or is   *)
(* killed, or cannot save, and leaves the card as it was.                  *)
Load ==
  /\ ~ session.open /\ UNCHANGED disk
  /\ session' = IF HostValid THEN [NoSession EXCEPT !.open = TRUE, !.left = MaxCommands, !.image = Volumes]
                 ELSE NoSession
Run == session.open /\ session.left > 0 /\ Command
Exit == /\ session.open /\ session' = NoSession
        /\ IF session.dirty THEN UNCHANGED disk ELSE Loads(session.image)
Abort == session.open /\ session' = NoSession /\ Loads(session.image)
=============================================================================
