-------------------------------- MODULE Card --------------------------------
(***************************************************************************)
(* One card in two hands.  The kernel changes it a byte at a time and may   *)
(* be reset, or the emulator quit, at any byte; the card reader takes the  *)
(* image as the kernel left it, or refuses it, and a machine started       *)
(* afterwards finds what the session left.  The two do not run at once.    *)
(***************************************************************************)
EXTENDS KernelFs, Afs, VolumeTree

(* A length whose high byte has got the carry and whose low byte has not is *)
(* more than a cluster has room for: 320 < 511.                            *)
ASSUME LengthAssumption == CONT_CAP < 2 * RADIX - 1

cardvars == <<vars, session>>

CardInit == Init /\ session = NoSession

(* The emulator quits: nothing of the kernel remains but the card.          *)
PutInReader ==
  /\ Load /\ resets < MaxResets /\ resets' = resets + 1
  /\ fs' = Closed /\ redirect' = [on |-> FALSE, swapped |-> FALSE, cursor |-> Closed]
  /\ Returns(FS_SUCCESS, 0)

InReader == (Run \/ Exit \/ Abort) /\ UNCHANGED <<fs, redirect, work, result, resets>>
InMachine == ~ session.open /\ Next /\ UNCHANGED session

CardNext == PutInReader \/ InReader \/ InMachine
CardSpec == CardInit /\ [][CardNext]_cardvars
-----------------------------------------------------------------------------
(* A session never turns a card it has accepted into one it would refuse,   *)
(* and commands always start from a directory there is, whatever has been  *)
(* removed.                                                                *)
SessionSound ==
  session.open => HostValid /\ session.current \in Parents /\ ValidDir(session.current)

(* What a session would lose by not saving is marked.                      *)
NothingUnmarked == session.open /\ ~ session.dirty => Volumes = session.image

(* Every file of a card the reader accepts is one the kernel opens, whoever *)
(* wrote it and whatever was reset; except one whose removal was reset when *)
(* its head, and nothing more, had been given to the root: the reader does *)
(* not look at the owner of a continuation, the kernel does.               *)
HalfRemoved(h) ==
  /\ table[h].dir = 0
  /\ \E d \in Dirs : \A c \in ToSet(Tail(ChainOf(h))) : table[c].dir = d
KernelOpensAccepted ==
  \A h \in Heads : Valid(h, table[h].dir) \/ HalfRemoved(h) \/ ~ HostValid

(* At no byte the kernel writes does a file shrink that its own chain says  *)
(* is whole, before and after: the bytes of a length are written in an     *)
(* order in which a torn one is recognised.                                *)
WholeFilesKeepBytes ==
  [][disk' # disk /\ ~ session.open /\ ~ session.open' =>
       \A h \in Heads :
         h \in Heads' /\ Valid(h, table[h].dir) /\ Valid(h, table[h].dir)' =>
           Len(Content(h)') >= Len(Content(h))]_cardvars

(* A continuation that a reset has cut off from its file stays as it is:    *)
(* no service finds it, writes it, frees it or makes it part of another    *)
(* file, whatever it does to the files and clusters it has in hand.        *)
InHand ==
  IF work.step \in {"cont link", "free owner", "free type"} THEN ToSet(ChainOf(work.slot)) ELSE {}
Orphans == {c \in Clusters : table[c].used = CONT} \
             (InHand \cup UNION {ToSet(ChainOf(h)) : h \in Heads})
OrphansInert ==
  [][disk' # disk /\ ~ session.open /\ ~ session.open' =>
       \A c \in Orphans : cluster'[c] = cluster[c] /\ c \in Orphans']_cardvars
=============================================================================
