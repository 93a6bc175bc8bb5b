------------------------------ MODULE Session -------------------------------
(***************************************************************************)
(* The kernel's one process and the session around it: entry, the program  *)
(* loader, exec, run and the return to init, the selected volume, the      *)
(* grants and the soft reset (os/kernel.anc216, kernel/loader.anc216,      *)
(* kernel/syscall_session, syscall_files, syscall_dispatch).  Interrupts   *)
(* are masked while the kernel works and a reset discards every kernel     *)
(* word, so an action is a whole service.  What a file holds is only what  *)
(* the loader tells apart; the transfers are the business of KernelFs.     *)
(*                                                                         *)
(*   mode    what the processor does                                       *)
(*   kernel  the words of the loader and of the session                    *)
(*   fs      fs_device (NoDevice when nothing is mounted) and the file of  *)
(*           the descriptor                                                *)
(*   user    the program in user memory, the bytes at the argument pointer *)
(*           and the length its R2 had at entry                            *)
(*   video   whether the protection registers grant the display            *)
(*   disk    the volumes                                                   *)
(*   result  R7 of the last service                                        *)
(***************************************************************************)
EXTENDS Naturals, Sequences

CONSTANTS
  Devices,   (* the addresses a program may mount                          *)
  Boot,      (* BOOT_DEVICE, one of them                                   *)
  Paths,     (* the paths programs use                                     *)
  InitPath,  (* init_path, one of them                                     *)
  Programs,  (* executables: the permissions in the header, and whether    *)
             (* the symbol records after it are sound                      *)
  Disks,     (* the volumes attached at power on                           *)
  Volatile,  (* the places <<device, path>> that programs change           *)
  Writable,  (* what programs make of a file they write                    *)
  Texts,     (* the argument bytes programs pass to run                    *)
  Capacity   (* SHELL_PATH_CAPACITY                                        *)

(* A Damaged file is one whose chain the kernel refuses.                   *)
CONSTANTS NoDevice, NoVolume, Closed, Off, Root, BadBuffer, Nothing, Folder, Rubbish, Damaged,
          Cleared, Nobody

Permissions == {"console", "fs"}
Contents    == {Nothing, Folder, Rubbish, Damaged} \cup Programs
Volumes     == {NoVolume} \cup [Paths -> Contents]

ASSUME SessionAssumption ==
  /\ Boot \in Devices /\ NoDevice \notin Devices /\ InitPath \in Paths
  /\ Programs \subseteq [flags : SUBSET Permissions, sound : BOOLEAN]
  /\ Programs \cap {Nothing, Folder, Rubbish, Damaged} = {}
  /\ NoVolume \notin [Paths -> Contents]
  /\ Disks \subseteq [Devices -> Volumes]
  /\ Volatile \subseteq Devices \X Paths /\ Writable \subseteq {Rubbish} \cup Programs
  /\ {Closed, BadBuffer, Root} \cap Paths = {}
  /\ Closed \notin Devices \X Paths
  /\ Nothing \notin {Folder, Rubbish, Damaged} /\ Damaged \notin {Folder, Rubbish}
  /\ \A text \in Texts : text \in Seq(Nat)
  /\ Nobody \notin [program : Programs, text : Texts \cup {<<>>, Cleared}, length : Nat,
                    returns : BOOLEAN, draws : BOOLEAN]

SUCCESS       == 0
INVALID       == 1
BAD_DEVICE    == 2
NOT_FOUND     == 3
NO_DESCRIPTOR == 4
CORRUPT_CHAIN == 5
BAD_EXEC      == 7
UNSUPPORTED   == 8
PERMISSION    == 9
Statuses == {SUCCESS, INVALID, BAD_DEVICE, NOT_FOUND, NO_DESCRIPTOR,
             CORRUPT_CHAIN, BAD_EXEC, UNSUPPORTED, PERMISSION}
-----------------------------------------------------------------------------

VARIABLES mode, kernel, fs, user, video, disk, result

vars == <<mode, kernel, fs, user, video, disk, result>>

(* The data words of the kernel image as firmware copies them.             *)
Fresh == [active |-> FALSE, flags |-> {}, staged |-> {}, launch |-> FALSE,
          returns |-> FALSE, arguments |-> <<>>, length |-> 0,
          session |-> Boot, cwd |-> Root, redirect |-> Off]

NoUser == [program |-> Nothing, text |-> Cleared, length |-> 0]

NoFs   == [device |-> NoDevice, file |-> Closed]

Init ==
  /\ mode = "off" /\ kernel = Fresh /\ fs = NoFs /\ user = NoUser
  /\ video = FALSE /\ disk \in Disks /\ result = SUCCESS
-----------------------------------------------------------------------------
(* The filesystem as the session uses it.                                  *)

(* fs_mount: the device must hold a volume.                                *)
Mounted(device) ==
  [device |-> IF disk[device] = NoVolume THEN NoDevice ELSE device, file |-> Closed]

(* fs_open, after the check of the path's buffer.                          *)
OpenStatus(device, path) ==
  IF path = BadBuffer THEN INVALID
  ELSE IF device = NoDevice THEN BAD_DEVICE
  ELSE IF disk[device][path] \in {Nothing, Folder} THEN NOT_FOUND
  ELSE IF disk[device][path] = Damaged THEN CORRUPT_CHAIN ELSE SUCCESS

Shut == [fs EXCEPT !.file = Closed]
-----------------------------------------------------------------------------
(* The loader.  k and f are the kernel words and the descriptor it starts  *)
(* with.  If it returns at all, its caller goes on: entry and              *)
(* shell_restart stop, exec and run report the status to the program.      *)

Replies(status) == result' = status /\ mode' = "user"

Idles(status, k, f) ==
  /\ mode' = "idle" /\ kernel' = k /\ fs' = f /\ UNCHANGED <<user, video, disk, result>>

ExecFails(status, k, f) ==
  kernel' = k /\ fs' = f /\ Replies(status) /\ UNCHANGED <<user, video, disk>>

(* Mutant: the failed launch leaves its request for the arguments.         *)
LaunchErrorPending(status, k, f) ==
  /\ kernel' = [k EXCEPT !.length = 0]
  /\ fs' = Mounted(k.session) /\ Replies(status) /\ UNCHANGED <<user, video, disk>>

LaunchError(status, k, f) ==
  /\ kernel' = [k EXCEPT !.launch = FALSE, !.length = 0]
  /\ fs' = Mounted(k.session) /\ Replies(status) /\ UNCHANGED <<user, video, disk>>

Fails(caller, status, k, f) ==
  \/ caller = "kernel" /\ Idles(status, k, f)
  \/ caller = "exec" /\ ExecFails(status, k, f)
  \/ caller = "run" /\ LaunchError(status, k, f)

(* Mutant: the permissions change when the header has been read.           *)
StagedEarly(k, program) == [k EXCEPT !.staged = program.flags, !.flags = program.flags]

(* The end of exec_header.                                                 *)
Staged(k, program) == [k EXCEPT !.staged = program.flags]

(* From exec_clear on: the old program is gone; the new one starts with    *)
(* its own permissions, no grant, no file and the session's volume.        *)
Enters(k, program) ==
  /\ kernel' = [k EXCEPT !.active = TRUE, !.flags = k.staged,
                         !.returns = k.launch, !.launch = FALSE]
  /\ user' = [program |-> program, length |-> k.length,
              text |-> IF k.launch THEN k.arguments ELSE Cleared]
  /\ video' = FALSE /\ fs' = Mounted(k.session)
  /\ mode' = "user" /\ result' = SUCCESS /\ disk' = disk

(* exec_open_file.                                                         *)
ExecOpenFile(k, f, caller) ==
  LET file == disk[f.device][f.file] IN
    \/ file \notin Programs /\ Fails(caller, BAD_EXEC, k, f)
    \/ /\ file \in Programs
       /\ IF file.sound THEN Enters(Staged(k, file), file)
          ELSE Fails(caller, BAD_EXEC, Staged(k, file), f)

(* fs_open and, if it finds the file, exec_open_file; run asks for the     *)
(* hand-over of its arguments in between.                                  *)
Launch(path, k, f, caller) ==
  LET status == OpenStatus(f.device, path) IN
    \/ status # SUCCESS /\ Fails(caller, status, k, [f EXCEPT !.file = Closed])
    \/ /\ status = SUCCESS
       /\ ExecOpenFile([k EXCEPT !.launch = @ \/ caller = "run"], [f EXCEPT !.file = path], caller)
-----------------------------------------------------------------------------
(* Power, reset and the end of a program.                                  *)

PowerOn == mode = "off" /\ mode' = "entry" /\ UNCHANGED <<kernel, fs, user, video, disk, result>>

Entry == mode = "entry" /\ Launch(InitPath, kernel, Mounted(Boot), "kernel")

(* soft_reset: nothing masks it.  The firmware copies the kernel image     *)
(* over the old one; user memory, the protection registers and the volumes *)
(* stay as they are.                                                       *)
SoftReset ==
  /\ mode # "off" /\ mode' = "entry" /\ kernel' = Fresh /\ fs' = NoFs
  /\ UNCHANGED <<user, video, disk, result>>

(* The shutdown pin, poweroff or a kernel that stopped: the volumes stay.  *)
Shutdown ==
  /\ mode # "off" /\ mode' = "off" /\ kernel' = Fresh /\ fs' = NoFs /\ user' = NoUser
  /\ video' = FALSE /\ disk' = disk /\ result' = SUCCESS

(* shell_restart, after a program that run started.                        *)
ShellRestart(k) ==
  Launch(InitPath, [k EXCEPT !.returns = FALSE, !.launch = FALSE, !.length = 0],
         Mounted(Boot), "kernel")

(* process_finish, for exit, a fault and an unusable stack alike.          *)
ProcessFinish ==
  LET k == [kernel EXCEPT !.active = FALSE] IN
    /\ mode = "user"
    /\ \/ kernel.returns /\ ShellRestart(k)
       \/ ~ kernel.returns /\ Idles(SUCCESS, k, Shut)
-----------------------------------------------------------------------------
(* Services.  syscall_dispatch: one policy for the permissions.            *)

InUser(permission) == mode = "user" /\ permission \in kernel.flags

Denied ==
  /\ mode = "user" /\ kernel.flags # Permissions /\ Replies(PERMISSION)
  /\ UNCHANGED <<kernel, fs, user, video, disk>>
Unsupported ==
  mode = "user" /\ Replies(UNSUPPORTED) /\ UNCHANGED <<kernel, fs, user, video, disk>>

(* Reading, rewind, size, getcwd and the console: nothing the session      *)
(* keeps changes.                                                          *)
Asks(status) ==
  /\ mode = "user" /\ kernel.flags # {} /\ Replies(status)
  /\ UNCHANGED <<kernel, fs, user, video, disk>>

(* syscall_exec: from the mounted volume; a bad buffer is seen first.      *)
Exec(path) ==
  /\ InUser("fs")
  /\ \/ path = BadBuffer /\ ExecFails(INVALID, kernel, fs)
     \/ path # BadBuffer /\ Launch(path, kernel, fs, "exec")

(* syscall_run: the arguments are kept before the boot volume is mounted   *)
(* and the path is looked at.                                              *)
Run(path, text) ==
  /\ InUser("fs")
  /\ \/ /\ Len(text) >= Capacity /\ Replies(INVALID)
        /\ UNCHANGED <<kernel, fs, user, video, disk>>
     \/ /\ Len(text) < Capacity
        /\ Launch(path, [kernel EXCEPT !.arguments = text, !.length = Len(text)],
                  Mounted(Boot), "run")

(* Mutant: the session's choice follows whatever was mounted.              *)
MountUnchecked(device) ==
  /\ InUser("fs") /\ fs' = Mounted(device) /\ UNCHANGED <<user, video, disk>>
  /\ kernel' = [kernel EXCEPT !.session = fs'.device, !.cwd = Root]
  /\ Replies(IF disk[device] = NoVolume THEN BAD_DEVICE ELSE SUCCESS)

(* syscall_mount: a new volume starts at its root; a failure leaves no     *)
(* volume mounted but the session's choice as it was.                      *)
Mount(device) ==
  /\ InUser("fs") /\ fs' = Mounted(device) /\ UNCHANGED <<user, video, disk>>
  /\ \/ /\ disk[device] # NoVolume /\ Replies(SUCCESS)
        /\ kernel' = [kernel EXCEPT !.session = device, !.cwd = Root]
     \/ disk[device] = NoVolume /\ kernel' = kernel /\ Replies(BAD_DEVICE)

(* syscall_chdir; like every lookup, fs_directory closes the descriptor.   *)
Chdir(path) ==
  /\ InUser("fs") /\ UNCHANGED <<user, video, disk>>
  /\ \/ path = BadBuffer /\ Replies(INVALID) /\ UNCHANGED <<kernel, fs>>
     \/ path # BadBuffer /\ fs' = Shut /\ fs.device = NoDevice
        /\ Replies(BAD_DEVICE) /\ kernel' = kernel
     \/ /\ path # BadBuffer /\ fs' = Shut /\ fs.device # NoDevice
        /\ IF path = Root \/ disk[fs.device][path] = Folder
           THEN Replies(SUCCESS) /\ kernel' = [kernel EXCEPT !.cwd = path]
           ELSE Replies(NOT_FOUND) /\ kernel' = kernel

Open(path) ==
  LET status == OpenStatus(fs.device, path) IN
    /\ InUser("fs") /\ UNCHANGED <<kernel, user, video, disk>> /\ Replies(status)
    /\ fs' = IF path = BadBuffer THEN fs
             ELSE [fs EXCEPT !.file = IF status = SUCCESS THEN path ELSE Closed]
CloseFile ==
  /\ InUser("fs") /\ fs' = Shut /\ UNCHANGED <<kernel, user, video, disk>>
  /\ Replies(IF fs.file = Closed THEN NO_DESCRIPTOR ELSE SUCCESS)

Becomes(device, path, content) ==
  <<device, path>> \in Volatile /\ disk' = [disk EXCEPT ![device][path] = content]

Write(content) ==
  /\ InUser("fs") /\ UNCHANGED <<kernel, fs, user, video>>
  /\ \/ fs.file = Closed /\ Replies(NO_DESCRIPTOR) /\ disk' = disk
     \/ fs.file # Closed /\ Replies(SUCCESS) /\ Becomes(fs.device, fs.file, content)

(* directory, list, fstat, and the others when they change nothing.        *)
Look(status) ==
  /\ InUser("fs") /\ fs' = Shut /\ Replies(status) /\ UNCHANGED <<kernel, user, video, disk>>
  /\ IF fs.device = NoDevice THEN status = BAD_DEVICE
     ELSE status \in {SUCCESS, NOT_FOUND, CORRUPT_CHAIN}

(* touch and mkdir of a new name; remove, which refuses a damaged file     *)
(* (Look).  An empty file is no program.                                   *)
(* Programs leave the target of the redirection alone.                     *)
Create(path, content) ==
  /\ InUser("fs") /\ fs.device # NoDevice /\ disk[fs.device][path] = Nothing
  /\ fs' = Shut /\ Replies(SUCCESS) /\ Becomes(fs.device, path, content)
  /\ UNCHANGED <<kernel, user, video>>
Remove(path) ==
  /\ InUser("fs") /\ fs.device # NoDevice /\ disk[fs.device][path] \notin {Nothing, Damaged}
  /\ kernel.redirect # <<fs.device, path>>
  /\ fs' = Shut /\ Replies(SUCCESS) /\ Becomes(fs.device, path, Nothing)
  /\ UNCHANGED <<kernel, user, video>>

(* syscall_video with the display attached.                                *)
Video(grants) ==
  /\ InUser("console") /\ Replies(SUCCESS) /\ video' = grants
  /\ UNCHANGED <<kernel, fs, user, disk>>

(* syscall_redct: the descriptor is put back; a failure keeps the target.  *)
Redirect(path) ==
  LET status == OpenStatus(fs.device, path) IN
    /\ InUser("fs") /\ Replies(status) /\ UNCHANGED <<fs, user, video, disk>>
    /\ kernel' = IF status = SUCCESS THEN [kernel EXCEPT !.redirect = <<fs.device, path>>]
                 ELSE kernel
RedirectOff ==
  /\ InUser("fs") /\ Replies(SUCCESS) /\ kernel' = [kernel EXCEPT !.redirect = Off]
  /\ UNCHANGED <<fs, user, video, disk>>

(* syscall_print, to the display or to the redirection's file.             *)
PrintText(content) ==
  /\ InUser("console") /\ UNCHANGED <<kernel, fs, user, video>>
  /\ \/ Replies(SUCCESS) /\ disk' = disk
     \/ /\ kernel.redirect # Off
        /\ IF kernel.redirect[1] = fs.device
           THEN Replies(SUCCESS) /\ Becomes(fs.device, kernel.redirect[2], content)
           ELSE Replies(BAD_DEVICE) /\ disk' = disk

Arguments == Paths \cup {BadBuffer}

Service ==
  \/ ProcessFinish \/ Denied \/ Unsupported \/ CloseFile \/ RedirectOff
  \/ \E path \in Arguments :
       Exec(path) \/ Open(path) \/ Redirect(path) \/ \E text \in Texts : Run(path, text)
  \/ \E path \in Arguments \cup {Root} : Chdir(path)
  \/ \E device \in Devices : Mount(device)
  \/ \E status \in Statuses : Look(status)
  \/ \E status \in {SUCCESS, INVALID, BAD_DEVICE, NO_DESCRIPTOR} : Asks(status)
  \/ \E path \in Paths :
       Remove(path) \/ \E content \in {Rubbish, Folder} : Create(path, content)
  \/ \E content \in Writable : Write(content) \/ PrintText(content)
  \/ \E grants \in BOOLEAN : Video(grants)

Next == PowerOn \/ Entry \/ SoftReset \/ Shutdown \/ Service

Spec == Init /\ [][Next]_vars
-----------------------------------------------------------------------------
(* Type correctness.  A descriptor is only open on a mounted volume, and   *)
(* the volume the session would come back to exists.                       *)
TypeOK ==
  /\ mode \in {"entry", "user", "idle", "off"}
  /\ kernel \in [active : BOOLEAN, flags : SUBSET Permissions, staged : SUBSET Permissions,
                 launch : BOOLEAN, returns : BOOLEAN, arguments : Texts \cup {<<>>},
                 length : Nat, session : Devices, cwd : Paths \cup {Root},
                 redirect : {Off} \cup (Devices \X Paths)]
  /\ fs \in [device : Devices \cup {NoDevice}, file : Paths \cup {Closed}]
  /\ user \in [program : Programs \cup {Nothing}, text : Texts \cup {<<>>, Cleared}, length : Nat]
  /\ video \in BOOLEAN /\ disk \in [Devices -> Volumes] /\ result \in Statuses

(* Mounting, launching and failing to launch, in any order, leave a        *)
(* running program with the permissions of its own header, with the        *)
(* display only if it may draw, with a file only if it may use files, on   *)
(* the session's volume or on none, and leave no launch half requested.    *)
SessionHeld ==
  /\ fs.device # NoDevice => disk[fs.device] # NoVolume
  /\ mode = "user" =>
       /\ kernel.active /\ ~ kernel.launch /\ kernel.flags = user.program.flags
       /\ video => "console" \in kernel.flags
       /\ fs.device \in {kernel.session, NoDevice}
       /\ fs.file # Closed => fs.device # NoDevice /\ "fs" \in kernel.flags
-----------------------------------------------------------------------------
(* The kernel keeps what it promises about programs: its words for the     *)
(* loader, staged, pending and left over from earlier launches, implement  *)
(* one process after another as Processes describes them.  The words that  *)
(* only run is to set keep their values until the next launch, so exec     *)
(* starts a program with the last run's length in R2 (loader.anc216); the  *)
(* process of the interface has an argument length only if run made it.    *)
Running == mode = "user"

ThePower == IF mode = "off" THEN "off" ELSE IF mode = "entry" THEN "starting" ELSE "on"

TheProcess ==
  IF Running THEN [program |-> user.program, text |-> user.text,
                   length |-> IF kernel.returns THEN user.length ELSE 0,
                   returns |-> kernel.returns, draws |-> video]
  ELSE Nobody

TheSession ==
  IF Running THEN [selected |-> kernel.session, mounted |-> fs.device,
                   file |-> IF fs.file # Closed THEN <<fs.device, fs.file>> ELSE Closed,
                   cwd |-> kernel.cwd, target |-> kernel.redirect]
  ELSE [selected |-> Boot, mounted |-> Boot, file |-> Closed, cwd |-> Root,
        target |-> Off]

Abstract == INSTANCE Processes WITH
  power <- ThePower, process <- TheProcess, session <- TheSession, status <- result

ImplementsProcesses == Abstract!Spec
=============================================================================
