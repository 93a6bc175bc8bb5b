----------------------------- MODULE MCSession ------------------------------
(* Session with a boot volume, a data volume and an address without one.   *)
EXTENDS Session

MCDevices == {"boot", "data", "gpu"}
MCPaths   == {"/bin/init", "/a"}

Shell  == [flags |-> {"console", "fs"}, sound |-> TRUE]
Viewer == [flags |-> {"console"}, sound |-> TRUE]
Filer  == [flags |-> {"fs"}, sound |-> TRUE]
Torn   == [flags |-> {"fs"}, sound |-> FALSE]
MCPrograms == {Shell, Viewer, Filer, Torn}

(* A card with a shell and a command, perhaps damaged, one without init, or *)
(* no card at all.                                                         *)
Card(init, a) == [path \in MCPaths |-> IF path = "/a" THEN a ELSE init]
MCDisks ==
  {[device \in MCDevices |-> CASE device = "boot" -> boot
                               [] device = "data" -> Card(Viewer, Folder)
                               [] OTHER -> NoVolume] :
     boot \in {NoVolume, Card(Nothing, Viewer), Card(Torn, Viewer)}
              \cup {Card(Shell, c) : c \in {Viewer, Filer, Torn, Damaged}}}

MCTexts == {<<1>>, <<1, 2>>}
MCWritable == {Rubbish}
MCVolatile == {<<"boot", "/bin/init">>}

=============================================================================
