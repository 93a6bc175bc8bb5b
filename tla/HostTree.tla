------------------------------ MODULE HostTree ------------------------------
(***************************************************************************)
(* What a session of the card reader promises: commands on a tree of named *)
(* files, each of which happens or fails as a whole, from a directory that *)
(* always exists; and a card that holds the tree of before the session     *)
(* until the session ends, and then that or the new one.                   *)
(***************************************************************************)
EXTENDS Integers, Sequences, SequencesExt

CONSTANTS
  TreePaths,    (* the paths of the tree                                   *)
  HostPaths, Contents, Above, Bad, Long,   (* as in Afs                     *)
  Nameable(_),  (* whether a name fits a directory record                  *)
  Oversize(_),  (* whether no card holds the content                       *)
  Absent, Folder, Refusal

VARIABLES
  card,     (* the tree on the card                                         *)
  tree,     (* the tree of the session, Refusal while there is none         *)
  cwd,      (* the directory commands start from                            *)
  code,     (* of the last command                                          *)
  content   (* what it printed                                              *)

vars == <<card, tree, cwd, code, content>>

OK      == 0
INVALID == 1
LONG    == 2
TAKEN   == 4
MISSING == 6
SPACE   == -1

IsDir(path)  == path \in TreePaths /\ tree[path] = Folder
IsFile(path) == path \in TreePaths /\ tree[path] \notin {Absent, Folder}
IsThere(path) == IsDir(path) \/ IsFile(path)

Nowhere == <<Above>>
Resolve(path) ==
  LET Into(at, part) ==
        IF at = Nowhere THEN Nowhere
        ELSE IF part = Above THEN IF at = <<>> THEN <<>> ELSE Front(at)
        ELSE IF IsDir(Append(at, part)) THEN Append(at, part) ELSE Nowhere
  IN FoldLeft(Into, IF path.absolute THEN <<>> ELSE cwd, path.parts)
LastOf(path) == IF path.parts = <<>> THEN Bad ELSE Last(path.parts)
Within(path) == IF path.parts = <<>> THEN Nowhere ELSE Resolve([path EXCEPT !.parts = Front(@)])
Target(path) == Append(Within(path), LastOf(path))

(* A name that nothing can be made of, and why.                            *)
Unusable(path, why) ==
  \/ why = INVALID /\ (Within(path) = Nowhere \/ LastOf(path) \in {Above, Bad})
  \/ why = LONG /\ Within(path) # Nowhere /\ LastOf(path) = Long
Creatable(path) ==
  /\ Within(path) # Nowhere /\ LastOf(path) \notin {Above, Bad, Long}
  /\ ~ IsThere(Target(path))
Exists(path) == Within(path) # Nowhere /\ IsThere(Target(path))

Replies(c) == code' = c /\ content' = Refusal
Fails(c) == Replies(c) /\ UNCHANGED <<card, tree, cwd>>
Makes(path, what) ==
  /\ Replies(OK) /\ UNCHANGED <<card, cwd>>
  /\ Target(path) \in TreePaths /\ tree' = [tree EXCEPT ![Target(path)] = what]
-----------------------------------------------------------------------------
MakeDir(path) ==
  \/ \E why \in {INVALID, LONG} : Fails(why) /\ Unusable(path, why)
  \/ Fails(TAKEN) /\ Exists(path) /\ Nameable(LastOf(path))
  \/ Fails(LONG) /\ (Exists(path) \/ Creatable(path)) /\ ~ Nameable(LastOf(path))
  \/ Fails(SPACE) /\ Creatable(path) /\ Nameable(LastOf(path))
  \/ Makes(path, Folder) /\ Creatable(path) /\ Nameable(LastOf(path))

Touch(path) ==
  \/ \E why \in {INVALID, LONG} : Fails(why) /\ Unusable(path, why)
  \/ Fails(TAKEN) /\ Exists(path)
  \/ Fails(SPACE) /\ Creatable(path)
  \/ Makes(path, <<>>) /\ Creatable(path)

(* set and put store the whole content or nothing; put makes the file.     *)
(* A content no card holds is refused whether set finds the file or not.   *)
HoldsFile(path) == Exists(path) /\ IsFile(Target(path))
SetContent(path, bytes) ==
  \/ Fails(INVALID) /\ ~ HoldsFile(path) /\ ~ Oversize(bytes)
  \/ Fails(SPACE) /\ (HoldsFile(path) \/ Oversize(bytes))
  \/ ~ Oversize(bytes) /\ Makes(path, bytes) /\ HoldsFile(path)
Put(path, bytes) ==
  \/ \E why \in {INVALID, LONG} : Fails(why) /\ Unusable(path, why)
  \/ SetContent(path, bytes) /\ Exists(path)
  \/ Fails(SPACE) /\ Creatable(path)
  \/ ~ Oversize(bytes) /\ Makes(path, bytes) /\ Creatable(path)

(* rm takes everything below, and a session that stands there to the root. *)
RemovePath(path) ==
  \/ Fails(MISSING) /\ ~ Exists(path)
  \/ LET gone == {p \in TreePaths : IsPrefix(Target(path), p)}
     IN /\ Replies(OK) /\ card' = card /\ Exists(path)
        /\ tree' = [p \in TreePaths |-> IF p \in gone THEN Absent ELSE tree[p]]
        /\ cwd' = IF cwd \in gone THEN <<>> ELSE cwd

ChangeDirectory(path) ==
  \/ Fails(MISSING) /\ Resolve(path) = Nowhere
  \/ /\ Replies(OK) /\ UNCHANGED <<card, tree>>
     /\ Resolve(path) # Nowhere /\ cwd' = Resolve(path)

GetContent(path) ==
  \/ Fails(INVALID) /\ ~ HoldsFile(path)
  \/ /\ code' = OK /\ UNCHANGED <<card, tree, cwd>>
     /\ HoldsFile(path) /\ content' = tree[Target(path)]
-----------------------------------------------------------------------------
(* While no session is open the kernel may do anything to the card.         *)
Elsewhere == tree = Refusal /\ UNCHANGED <<tree, cwd, code, content>>
Load == tree = Refusal /\ tree' = card' /\ cwd' = <<>> /\ Replies(OK)
Leaves == tree # Refusal /\ tree' = Refusal /\ cwd' = <<>> /\ Replies(OK)
Exit  == Leaves /\ card' = tree
Abort == Leaves /\ card' = card

Next ==
  \/ Elsewhere \/ Load \/ Exit \/ Abort
  \/ /\ tree # Refusal
     /\ \E path \in HostPaths :
          \/ MakeDir(path) \/ Touch(path) \/ RemovePath(path) \/ ChangeDirectory(path) \/ GetContent(path)
          \/ \E bytes \in Contents : SetContent(path, bytes) \/ Put(path, bytes)

Spec == tree = Refusal /\ [][Next]_vars
=============================================================================
