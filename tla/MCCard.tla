------------------------------- MODULE MCCard -------------------------------
(* A small card, with a directory in a directory.                           *)
EXTENDS Card

MCDir   == <<1, 0>>
MCFile  == <<1, 1>>
MCPaths == {<<MCDir>>, <<MCFile>>, <<MCDir, MCFile>>}
MCBuffers == {<<0, 0>>}
At0(parts) == [absolute |-> TRUE, parts |-> parts]
Here(parts) == [absolute |-> FALSE, parts |-> parts]
MCHostPaths == {At0(<<MCDir>>), At0(<<MCDir, MCDir>>), Here(<<MCFile>>),
                Here(<<Above>>), Here(<<Long>>)}
MCContents == {<<0, 0>>, <<0, 0, 0, 0>>}
(* MCFile is too long for a directory.                                     *)
MCTreePaths ==
  {<<>>} \cup {Append([j \in 1 .. n |-> MCDir], name) : n \in 0 .. D, name \in {MCDir, MCFile}}

(* History: the session seen as a tree, and the card where it was last      *)
(* looked at.                                                              *)
VARIABLE seen
mcvars == <<cardvars, seen>>

Cwd == CHOOSE path \in MCTreePaths : Walk(path) = session.current
Unseen == [card |-> Refusal, tree |-> Refusal, cwd |-> <<>>]
MCInit == CardInit /\ seen = Unseen

Inserted == LET tree == TreeOf(MCTreePaths) IN [card |-> tree, tree |-> tree, cwd |-> <<>>]
Now == IF disk' = disk THEN seen.tree ELSE TreeOf(MCTreePaths)'
MCNext ==
  \/ InMachine /\ seen' = Unseen
  \/ PutInReader /\ seen' = IF session'.open THEN Inserted ELSE Unseen
  \/ /\ InReader
     /\ \/ ~ session'.open /\ seen' = [Unseen EXCEPT !.card = Now]
        \/ /\ session'.open
           /\ seen' = [seen EXCEPT !.tree = Now,
                        !.cwd = IF session'.current = session.current THEN @ ELSE Cwd']

(* No action reads what the last service returned, and no property here     *)
(* but TypeOK, which CardProofs proves: states that differ in no more than *)
(* that are explored once.                                                 *)
MCView == <<table, dirs, cluster, fs, redirect, work, resets, session, seen>>

MCSpec == MCInit /\ [][MCNext]_mcvars

Tree == INSTANCE HostTree WITH
  TreePaths <- MCTreePaths, Nameable <- NamesDir,
  card <- seen.card, tree <- seen.tree, cwd <- seen.cwd,
  code <- session.code, content <- session.content

(* Every command does to the files what it promises or nothing, and the     *)
(* card holds the old files until all the new ones are there.              *)
ImplementsHostTree == Tree!Spec
=============================================================================
