---------------------------- MODULE SessionProofs ----------------------------
(***************************************************************************)
(* Proofs about the kernel's session, for every set of volumes, paths and  *)
(* programs: its types, what a running program can count on (SessionHeld), *)
(* and that the words of the loader implement Processes.                   *)
(***************************************************************************)
EXTENDS Session, TLAPS

Words  == [active : BOOLEAN, flags : SUBSET Permissions, staged : SUBSET Permissions,
           launch : BOOLEAN, returns : BOOLEAN, arguments : Texts \cup {<<>>},
           length : Nat, session : Devices, cwd : Paths \cup {Root},
           redirect : {Off} \cup (Devices \X Paths)]
Mounts == [device : Devices \cup {NoDevice}, file : Paths \cup {Closed}]
Users  == [program : Programs \cup {Nothing}, text : Texts \cup {<<>>, Cleared}, length : Nat]

(* What mounting leaves: a file is only open on a volume that is there.    *)
Usable(f) ==
  /\ f.device # NoDevice => disk[f.device] # NoVolume
  /\ f.file # Closed => f.device # NoDevice

(* The facts SessionHeld rests on: a kernel that starts has fresh words,   *)
(* and a program only ever runs on a machine with a boot volume, with its  *)
(* session on a volume that exists.                                        *)
Grounded ==
  /\ mode \in {"off", "entry"} => kernel = Fresh
  /\ mode = "user" =>
       user.program \in Programs /\ disk[Boot] # NoVolume /\ disk[kernel.session] # NoVolume

IInv == TypeOK /\ SessionHeld /\ Grounded

(* The words k a launch that failed leaves, when it began with the words   *)
(* k0: only the staged permissions and the pending request can differ.     *)
Remains(k0, k, handsOver) ==
  \E staged \in SUBSET Permissions, launch \in BOOLEAN :
    /\ k = [k0 EXCEPT !.staged = staged, !.launch = launch]
    /\ ~ k0.launch /\ ~ handsOver => ~ launch

(* How a launch goes: the program it finds and starts, or why it refuses.  *)
Found(path, f) ==
  /\ OpenStatus(f.device, path) = SUCCESS
  /\ disk[f.device][path] \in Programs /\ disk[f.device][path].sound

Starting(path, k, f, handsOver) ==
  /\ Found(path, f)
  /\ Enters(Staged([k EXCEPT !.launch = @ \/ handsOver], disk[f.device][path]), disk[f.device][path])

Refuses(status, file, path, f) ==
  \/ status = OpenStatus(f.device, path) /\ status # SUCCESS /\ file = Closed
  \/ OpenStatus(f.device, path) = SUCCESS /\ ~ Found(path, f) /\ status = BAD_EXEC /\ file = path
-----------------------------------------------------------------------------
LEMMA TypeIs ==
  TypeOK <=> /\ mode \in {"entry", "user", "idle", "off"}
             /\ kernel \in Words /\ fs \in Mounts /\ user \in Users
             /\ video \in BOOLEAN /\ disk \in [Devices -> Volumes] /\ result \in Statuses
BY DEF TypeOK, Words, Mounts, Users

LEMMA TypeIsNext ==
  TypeOK' <=> /\ mode' \in {"entry", "user", "idle", "off"}
              /\ kernel' \in Words /\ fs' \in Mounts /\ user' \in Users
              /\ video' \in BOOLEAN /\ disk' \in [Devices -> Volumes] /\ result' \in Statuses
BY DEF TypeOK, Words, Mounts, Users

LEMMA FreshType == Fresh \in Words
BY SessionAssumption DEF Fresh, Words, Permissions

LEMMA MountedType ==
  ASSUME NEW device \in Devices
  PROVE  Mounted(device) \in Mounts /\ Usable(Mounted(device)) /\ Mounted(device).file = Closed
         /\ Mounted(device).device \in {device, NoDevice}
         /\ (disk[device] # NoVolume => Mounted(device).device = device)
BY SessionAssumption DEF Mounted, Mounts, Usable

(* A file that can be opened is on a volume that is there.                 *)
LEMMA OpenFound ==
  ASSUME TypeOK, NEW f \in Mounts, Usable(f), NEW path \in Arguments,
         OpenStatus(f.device, path) = SUCCESS
  PROVE  /\ path \in Paths /\ f.device \in Devices /\ f.device # NoDevice
         /\ disk[f.device] # NoVolume /\ disk[f.device] \in [Paths -> Contents]
         /\ disk[f.device][path] \in Contents /\ disk[f.device][path] \notin {Nothing, Folder, Damaged}
<1>1. /\ path # BadBuffer /\ f.device # NoDevice
      /\ disk[f.device][path] \notin {Nothing, Folder, Damaged}
  BY DEF OpenStatus, SUCCESS, INVALID, BAD_DEVICE, NOT_FOUND, CORRUPT_CHAIN
<1>2. path \in Paths /\ f.device \in Devices
  BY <1>1 DEF Arguments, Mounts
<1>3. disk[f.device] # NoVolume
  BY <1>1 DEF Usable
<1>4. disk[f.device] \in [Paths -> Contents]
  BY <1>2, <1>3, TypeIs DEF Volumes
<1> QED
  BY <1>1, <1>2, <1>3, <1>4

LEMMA OpenStatusType ==
  ASSUME NEW device, NEW path
  PROVE  OpenStatus(device, path) \in {SUCCESS, INVALID, BAD_DEVICE, NOT_FOUND, CORRUPT_CHAIN}
BY DEF OpenStatus

LEMMA SomeStatuses == {SUCCESS, INVALID, BAD_DEVICE, NOT_FOUND, NO_DESCRIPTOR, CORRUPT_CHAIN, BAD_EXEC,
                       UNSUPPORTED, PERMISSION} \subseteq Statuses
BY DEF Statuses

LEMMA ProgramType ==
  ASSUME NEW program \in Programs
  PROVE  program.flags \in SUBSET Permissions /\ program.sound \in BOOLEAN
BY SessionAssumption

(* One volume's entry changes: the volumes stay volumes, and those there.  *)
LEMMA BecomesType ==
  ASSUME TypeOK, NEW device \in Devices, NEW path \in Paths, NEW content \in Contents,
         disk[device] # NoVolume, Becomes(device, path, content)
  PROVE  /\ disk' \in [Devices -> Volumes]
         /\ \A d \in Devices : disk[d] # NoVolume => disk'[d] # NoVolume
<1>1. disk[device] \in [Paths -> Contents]
  BY TypeIs DEF Volumes
<1>2. [disk[device] EXCEPT ![path] = content] \in [Paths -> Contents]
  BY <1>1
<1>3. disk' = [disk EXCEPT ![device] = [disk[device] EXCEPT ![path] = content]]
  BY DEF Becomes
<1>4. disk \in [Devices -> Volumes]
  BY TypeIs
<1> QED
  BY <1>2, <1>3, <1>4, SessionAssumption DEF Volumes
-----------------------------------------------------------------------------
LEMMA RefusesType ==
  ASSUME TypeOK, NEW f \in Mounts, Usable(f), NEW path \in Arguments, NEW status, NEW file,
         Refuses(status, file, path, f)
  PROVE  /\ status \in Statuses /\ status \in {INVALID, BAD_DEVICE, NOT_FOUND, CORRUPT_CHAIN, BAD_EXEC}
         /\ file \in Paths \cup {Closed}
         /\ [f EXCEPT !.file = file] \in Mounts /\ Usable([f EXCEPT !.file = file])
<1>1. CASE status = OpenStatus(f.device, path) /\ status # SUCCESS /\ file = Closed
  BY <1>1, OpenStatusType, SomeStatuses DEF Mounts, Usable
<1>2. CASE OpenStatus(f.device, path) = SUCCESS /\ status = BAD_EXEC /\ file = path
  BY <1>2, OpenFound, SomeStatuses DEF Mounts, Usable
<1> QED
  BY <1>1, <1>2 DEF Refuses

LEMMA PendingType ==
  ASSUME NEW k \in Words, NEW handsOver \in BOOLEAN
  PROVE  /\ Remains(k, k, handsOver)
         /\ [k EXCEPT !.launch = @ \/ handsOver] \in Words
         /\ Remains(k, [k EXCEPT !.launch = @ \/ handsOver], handsOver)
         /\ \A program \in Programs :
              Remains(k, Staged([k EXCEPT !.launch = @ \/ handsOver], program), handsOver)
<1>1. k.launch \in BOOLEAN /\ (k.launch \/ handsOver) \in BOOLEAN /\ k.staged \in SUBSET Permissions
  BY DEF Words
<1>2. Remains(k, k, handsOver)
  <2>1. k = [k EXCEPT !.staged = k.staged, !.launch = k.launch]
    BY DEF Words
  <2> QED
    BY <1>1, <2>1 DEF Remains
<1>3. [k EXCEPT !.launch = @ \/ handsOver] \in Words
  BY <1>1 DEF Words
<1>4. Remains(k, [k EXCEPT !.launch = @ \/ handsOver], handsOver)
  <2>1. [k EXCEPT !.launch = @ \/ handsOver]
          = [k EXCEPT !.staged = k.staged, !.launch = k.launch \/ handsOver]
    BY DEF Words
  <2> QED
    BY <1>1, <2>1 DEF Remains
<1>5. ASSUME NEW program \in Programs
      PROVE  Remains(k, Staged([k EXCEPT !.launch = @ \/ handsOver], program), handsOver)
  <2>1. Staged([k EXCEPT !.launch = @ \/ handsOver], program)
          = [k EXCEPT !.staged = program.flags, !.launch = k.launch \/ handsOver]
    BY DEF Words, Staged
  <2>2. program.flags \in SUBSET Permissions
    BY ProgramType
  <2> QED
    BY <1>1, <2>1, <2>2 DEF Remains
<1> QED
  BY <1>2, <1>3, <1>4, <1>5

LEMMA LaunchOrFails ==
  ASSUME TypeOK, NEW k \in Words, NEW f \in Mounts, NEW path, NEW caller, NEW handsOver \in BOOLEAN,
         handsOver <=> caller = "run", Launch(path, k, f, caller)
  PROVE  \/ Starting(path, k, f, handsOver)
         \/ \E status, file, k1 : /\ Refuses(status, file, path, f) /\ Remains(k, k1, handsOver)
                                  /\ Fails(caller, status, k1, [f EXCEPT !.file = file])
<1> DEFINE k1 == [k EXCEPT !.launch = @ \/ handsOver]
           f1 == [f EXCEPT !.file = path]
           status == OpenStatus(f.device, path)
           file == disk[f.device][path]
<1>1. CASE status # SUCCESS /\ Fails(caller, status, k, [f EXCEPT !.file = Closed])
  BY <1>1, PendingType DEF Refuses
<1>2. CASE status = SUCCESS /\ ExecOpenFile(k1, f1, caller)
  <2>1. f1.device = f.device /\ f1.file = path
    BY DEF Mounts
  <2>2. CASE file \notin Programs /\ Fails(caller, BAD_EXEC, k1, f1)
    BY <1>2, <2>2, PendingType DEF Refuses, Found
  <2>3. CASE file \in Programs /\ file.sound /\ Enters(Staged(k1, file), file)
    BY <1>2, <2>3 DEF Starting, Found
  <2>4. CASE file \in Programs /\ ~ file.sound /\ Fails(caller, BAD_EXEC, Staged(k1, file), f1)
    BY <1>2, <2>4, PendingType DEF Refuses, Found
  <2> QED
    BY <1>2, <2>1, <2>2, <2>3, <2>4 DEF ExecOpenFile
<1>3. [k EXCEPT !.launch = @ \/ caller = "run"] = k1
  <2>1. (k.launch \/ caller = "run") = (k.launch \/ handsOver)
    BY DEF Words
  <2> QED
    BY <2>1
<1>4. \/ status # SUCCESS /\ Fails(caller, status, k, [f EXCEPT !.file = Closed])
      \/ status = SUCCESS /\ ExecOpenFile(k1, f1, caller)
  BY <1>3 DEF Launch
<1> QED
  BY <1>1, <1>2, <1>4

LEMMA LaunchOrIdles ==
  ASSUME TypeOK, NEW k \in Words, NEW f \in Mounts, NEW path, Launch(path, k, f, "kernel")
  PROVE  \/ Starting(path, k, f, FALSE)
         \/ \E status, file, k1 : /\ Refuses(status, file, path, f) /\ Remains(k, k1, FALSE)
                                  /\ Idles(status, k1, [f EXCEPT !.file = file])
<1>1. \/ Starting(path, k, f, FALSE)
      \/ \E status, file, k1 : /\ Refuses(status, file, path, f) /\ Remains(k, k1, FALSE)
                               /\ Fails("kernel", status, k1, [f EXCEPT !.file = file])
  BY LaunchOrFails
<1> QED
  BY <1>1 DEF Fails

LEMMA LaunchOrExecFails ==
  ASSUME TypeOK, NEW k \in Words, NEW f \in Mounts, NEW path, Launch(path, k, f, "exec")
  PROVE  \/ Starting(path, k, f, FALSE)
         \/ \E status, file, k1 : /\ Refuses(status, file, path, f) /\ Remains(k, k1, FALSE)
                                  /\ ExecFails(status, k1, [f EXCEPT !.file = file])
<1>1. \/ Starting(path, k, f, FALSE)
      \/ \E status, file, k1 : /\ Refuses(status, file, path, f) /\ Remains(k, k1, FALSE)
                               /\ Fails("exec", status, k1, [f EXCEPT !.file = file])
  BY LaunchOrFails
<1> QED
  BY <1>1 DEF Fails

LEMMA LaunchOrLaunchError ==
  ASSUME TypeOK, NEW k \in Words, NEW f \in Mounts, NEW path, Launch(path, k, f, "run")
  PROVE  \/ Starting(path, k, f, TRUE)
         \/ \E status, file, k1 : /\ Refuses(status, file, path, f) /\ Remains(k, k1, TRUE)
                                  /\ LaunchError(status, k1, [f EXCEPT !.file = file])
<1>1. \/ Starting(path, k, f, TRUE)
      \/ \E status, file, k1 : /\ Refuses(status, file, path, f) /\ Remains(k, k1, TRUE)
                               /\ Fails("run", status, k1, [f EXCEPT !.file = file])
  BY LaunchOrFails
<1> QED
  BY <1>1 DEF Fails

-----------------------------------------------------------------------------
(* The invariant, one lemma for each way a service ends.                   *)

LEMMA RemainsType ==
  ASSUME NEW k0 \in Words, NEW k, NEW handsOver \in BOOLEAN, Remains(k0, k, handsOver)
  PROVE  /\ k \in Words
         /\ k.active = k0.active /\ k.flags = k0.flags /\ k.returns = k0.returns
         /\ k.session = k0.session /\ k.cwd = k0.cwd /\ k.redirect = k0.redirect
         /\ k.length = k0.length /\ k.arguments = k0.arguments
         /\ (~ k0.launch /\ ~ handsOver => ~ k.launch)
<1>1. PICK staged \in SUBSET Permissions, launch \in BOOLEAN :
         /\ k = [k0 EXCEPT !.staged = staged, !.launch = launch]
         /\ ~ k0.launch /\ ~ handsOver => ~ launch
  BY DEF Remains
<1> QED
  BY <1>1 DEF Words

LEMMA EntersSafe ==
  ASSUME TypeOK, NEW k \in Words, NEW program \in Programs, k.staged = program.flags,
         disk[Boot] # NoVolume, disk[k.session] # NoVolume, Enters(k, program)
  PROVE  IInv'
<1>1. k.session \in Devices /\ k.launch \in BOOLEAN /\ k.arguments \in Texts \cup {<<>>}
      /\ k.length \in Nat
  BY DEF Words
<1>2. kernel' \in Words /\ kernel'.active /\ ~ kernel'.launch /\ kernel'.flags = program.flags
      /\ kernel'.session = k.session
  BY <1>1 DEF Enters, Words
<1>3. user' \in Users /\ user'.program = program
  BY <1>1 DEF Enters, Users
<1>4. /\ fs' \in Mounts /\ fs'.file = Closed /\ fs'.device \in {k.session, NoDevice}
      /\ (fs'.device # NoDevice => disk[fs'.device] # NoVolume)
  BY <1>1, MountedType DEF Enters, Usable
<1>5. mode' = "user" /\ video' = FALSE /\ disk' = disk /\ result' \in Statuses
  BY SomeStatuses DEF Enters
<1>6. TypeOK'
  BY <1>2, <1>3, <1>4, <1>5, TypeIs, TypeIsNext
<1>7. SessionHeld'
  BY <1>2, <1>3, <1>4, <1>5 DEF SessionHeld
<1>8. Grounded'
  BY <1>2, <1>3, <1>5 DEF Grounded
<1> QED
  BY <1>6, <1>7, <1>8 DEF IInv

LEMMA StartingSafe ==
  ASSUME TypeOK, NEW k \in Words, NEW f \in Mounts, NEW path, NEW handsOver \in BOOLEAN,
         disk[Boot] # NoVolume, disk[k.session] # NoVolume, Starting(path, k, f, handsOver)
  PROVE  IInv'
<1> DEFINE program == disk[f.device][path]
           k1 == Staged([k EXCEPT !.launch = @ \/ handsOver], program)
<1>1. program \in Programs /\ Enters(k1, program)
  BY DEF Starting, Found
<1>2. k1 \in Words /\ k1.session = k.session
  BY <1>1, PendingType, RemainsType
<1>3. k1.staged = program.flags
  BY DEF Staged, Words
<1> HIDE DEF program, k1
<1> QED
  BY <1>1, <1>2, <1>3, EntersSafe

(* A service that leaves the program running with its words but for those  *)
(* that do not matter, the mounted volume, and a file only if it may.      *)
LEMMA ReplySafe ==
  ASSUME IInv, mode = "user", mode' = "user", result' \in Statuses,
         user' = user, disk' \in [Devices -> Volumes],
         \A d \in Devices : disk[d] # NoVolume => disk'[d] # NoVolume,
         kernel' \in Words, kernel'.active, ~ kernel'.launch, kernel'.flags = kernel.flags,
         disk[kernel'.session] # NoVolume,
         fs' \in Mounts, Usable(fs'), fs'.device \in {kernel'.session, NoDevice},
         fs'.file # Closed => "fs" \in kernel.flags,
         video' \in BOOLEAN, video' => video \/ "console" \in kernel.flags
  PROVE  IInv'
<1>1. TypeOK'
  BY TypeIs, TypeIsNext DEF IInv
<1>2. kernel'.session \in Devices /\ fs'.device \in Devices \cup {NoDevice}
  BY DEF Words, Mounts
<1>3. (fs'.device # NoDevice => disk'[fs'.device] # NoVolume) /\ disk'[kernel'.session] # NoVolume
  BY <1>2 DEF Usable
<1>4. disk'[Boot] # NoVolume
  BY SessionAssumption DEF IInv, Grounded
<1>5. SessionHeld'
  BY <1>3 DEF IInv, SessionHeld, Usable
<1>6. Grounded'
  BY <1>3, <1>4 DEF IInv, Grounded
<1> QED
  BY <1>1, <1>5, <1>6 DEF IInv

(* Power, resets and idling: nothing runs afterwards.                      *)
LEMMA StopSafe ==
  ASSUME IInv, mode' \in {"entry", "idle", "off"}, kernel' \in Words, mode' # "idle" => kernel' = Fresh,
         fs' \in Mounts, Usable(fs'), user' \in Users, video' \in BOOLEAN, disk' = disk,
         result' \in Statuses
  PROVE  IInv'
<1>1. TypeOK'
  BY TypeIs, TypeIsNext DEF IInv
<1>2. SessionHeld' /\ Grounded'
  BY DEF SessionHeld, Grounded, Usable
<1> QED
  BY <1>1, <1>2 DEF IInv
-----------------------------------------------------------------------------
LEMMA InvType ==
  ASSUME IInv
  PROVE  /\ TypeOK /\ kernel \in Words /\ fs \in Mounts /\ user \in Users /\ video \in BOOLEAN
         /\ disk \in [Devices -> Volumes] /\ result \in Statuses
BY TypeIs DEF IInv

(* What a running program finds.                                           *)
LEMMA UserFacts ==
  ASSUME IInv, mode = "user"
  PROVE  /\ kernel.active /\ ~ kernel.launch /\ kernel.flags = user.program.flags
         /\ user.program \in Programs /\ kernel.session \in Devices /\ kernel.cwd \in Paths \cup {Root}
         /\ disk[Boot] # NoVolume /\ disk[kernel.session] # NoVolume
         /\ Usable(fs) /\ fs.device \in {kernel.session, NoDevice}
         /\ (fs.file # Closed => "fs" \in kernel.flags)
         /\ Shut \in Mounts /\ Usable(Shut) /\ Shut.device = fs.device /\ Shut.file = Closed
BY InvType DEF IInv, SessionHeld, Grounded, Usable, Shut, Mounts, Words

LEMMA NothingRuns ==
  NoFs \in Mounts /\ Usable(NoFs) /\ NoUser \in Users /\ NoFs.device = NoDevice
BY SessionAssumption DEF NoFs, NoUser, Mounts, Usable, Users

LEMMA InitInv == Init => IInv
<1> SUFFICES ASSUME Init PROVE IInv
  OBVIOUS
<1>1. SUCCESS \in Statuses
  BY SomeStatuses
<1>2. disk \in [Devices -> Volumes]
  BY SessionAssumption DEF Init
<1>3. TypeOK
  BY <1>1, <1>2, FreshType, NothingRuns, TypeIs DEF Init
<1>4. SessionHeld /\ Grounded
  BY NothingRuns DEF Init, SessionHeld, Grounded
<1> QED
  BY <1>3, <1>4 DEF IInv

LEMMA IdlesSafe ==
  ASSUME IInv, NEW status, NEW k \in Words, NEW f \in Mounts, Usable(f), Idles(status, k, f)
  PROVE  IInv'
BY InvType, StopSafe DEF Idles

LEMMA EntryInv == ASSUME IInv, Entry PROVE IInv'
<1> DEFINE f == Mounted(Boot)
<1>1. f \in Mounts /\ Usable(f) /\ Boot \in Devices /\ InitPath \in Arguments
  BY MountedType, SessionAssumption DEF Arguments
<1>2. kernel = Fresh /\ kernel \in Words
  BY FreshType DEF IInv, Grounded, Entry
<1>3. Launch(InitPath, kernel, f, "kernel")
  BY DEF Entry
<1>4. CASE Starting(InitPath, kernel, f, FALSE)
  <2>1. disk[Boot] # NoVolume
    BY <1>1, <1>4, InvType, OpenFound DEF Starting, Found, Mounted
  <2>2. kernel.session = Boot
    BY <1>2 DEF Fresh
  <2> QED
    BY <1>1, <1>2, <1>4, <2>1, <2>2, InvType, StartingSafe
<1>5. ASSUME NEW status, NEW file, NEW k1, Refuses(status, file, InitPath, f),
             Remains(kernel, k1, FALSE), Idles(status, k1, [f EXCEPT !.file = file])
      PROVE  IInv'
  BY <1>1, <1>2, <1>5, InvType, RefusesType, RemainsType, IdlesSafe
<1> HIDE DEF f
<1> QED
  BY <1>1, <1>2, <1>3, <1>4, <1>5, InvType, LaunchOrIdles

LEMMA PowerInv ==
  ASSUME IInv, PowerOn \/ SoftReset \/ Shutdown
  PROVE  IInv'
<1>1. NoFs \in Mounts /\ Usable(NoFs) /\ NoUser \in Users /\ SUCCESS \in Statuses
  BY NothingRuns, SomeStatuses
<1>2. CASE PowerOn
  <2>1. kernel = Fresh
    BY <1>2 DEF PowerOn, IInv, Grounded
  <2>2. mode' \in {"entry", "user", "idle", "off"} /\ mode' = "entry"
    BY <1>2 DEF PowerOn
  <2>3. TypeOK'
    BY <1>2, <2>2, InvType, TypeIsNext DEF PowerOn
  <2>4. SessionHeld'
    BY <1>2 DEF IInv, SessionHeld, PowerOn
  <2>5. Grounded'
    BY <1>2, <2>1 DEF Grounded, PowerOn
  <2> QED
    BY <2>3, <2>4, <2>5 DEF IInv
<1>3. CASE SoftReset
  BY <1>1, <1>3, InvType, FreshType, StopSafe DEF SoftReset
<1>4. CASE Shutdown
  BY <1>1, <1>4, InvType, FreshType, StopSafe DEF Shutdown
<1> QED
  BY <1>2, <1>3, <1>4

LEMMA FinishInv == ASSUME IInv, ProcessFinish PROVE IInv'
<1> DEFINE k == [kernel EXCEPT !.active = FALSE]
           k0 == [k EXCEPT !.returns = FALSE, !.launch = FALSE, !.length = 0]
           f == Mounted(Boot)
<1>1. mode = "user" /\ k \in Words /\ k0 \in Words /\ k0.session = kernel.session
  BY InvType DEF Words, ProcessFinish
<1>2. f \in Mounts /\ Usable(f) /\ InitPath \in Arguments
  BY MountedType, SessionAssumption DEF Arguments
<1>3. disk[Boot] # NoVolume /\ disk[k0.session] # NoVolume
  BY <1>1, UserFacts
<1>4. CASE Idles(SUCCESS, k, Shut)
  BY <1>1, <1>4, UserFacts, IdlesSafe
<1>5. CASE Launch(InitPath, k0, f, "kernel")
  <2>1. CASE Starting(InitPath, k0, f, FALSE)
    BY <1>1, <1>2, <1>3, <2>1, InvType, StartingSafe
  <2>2. ASSUME NEW status, NEW file, NEW k1, Refuses(status, file, InitPath, f),
               Remains(k0, k1, FALSE), Idles(status, k1, [f EXCEPT !.file = file])
        PROVE  IInv'
    BY <1>1, <1>2, <2>2, InvType, RefusesType, RemainsType, IdlesSafe
  <2> HIDE DEF f, k0
  <2> QED
    BY <1>1, <1>2, <1>5, <2>1, <2>2, InvType, LaunchOrIdles
<1> QED
  BY <1>4, <1>5 DEF ProcessFinish, ShellRestart

LEMMA ExecInv == ASSUME IInv, NEW path \in Arguments, Exec(path) PROVE IInv'
<1>1. mode = "user" /\ "fs" \in kernel.flags /\ kernel.launch = FALSE
  BY InvType, UserFacts DEF Exec, InUser, Words
<1>2. ASSUME NEW status \in Statuses, NEW k \in Words, Remains(kernel, k, FALSE), NEW f \in Mounts,
             Usable(f), f.device = fs.device, ExecFails(status, k, f)
      PROVE  IInv'
  <2>1. k.active /\ k.flags = kernel.flags /\ k.session = kernel.session /\ ~ k.launch
    BY <1>1, <1>2, InvType, UserFacts, RemainsType
  <2> QED
    BY <1>1, <1>2, <2>1, InvType, UserFacts, ReplySafe DEF ExecFails, Replies
<1>3. CASE path = BadBuffer /\ ExecFails(INVALID, kernel, fs)
  BY <1>1, <1>2, <1>3, InvType, UserFacts, PendingType, SomeStatuses
<1>4. CASE Launch(path, kernel, fs, "exec")
  <2>1. CASE Starting(path, kernel, fs, FALSE)
    BY <1>1, <2>1, InvType, UserFacts, StartingSafe
  <2>2. ASSUME NEW status, NEW file, NEW k1, Refuses(status, file, path, fs),
               Remains(kernel, k1, FALSE), ExecFails(status, k1, [fs EXCEPT !.file = file])
        PROVE  IInv'
    <3>1. [fs EXCEPT !.file = file].device = fs.device
      BY InvType DEF Mounts
    <3> QED
      BY <1>1, <1>2, <2>2, <3>1, InvType, UserFacts, RefusesType, RemainsType
  <2> QED
    BY <1>1, <1>4, <2>1, <2>2, InvType, LaunchOrExecFails
<1> QED
  BY <1>3, <1>4 DEF Exec

LEMMA RunInv ==
  ASSUME IInv, NEW path \in Arguments, NEW text \in Texts, Run(path, text)
  PROVE  IInv'
<1> DEFINE k0 == [kernel EXCEPT !.arguments = text, !.length = Len(text)]
           f == Mounted(Boot)
<1>1. mode = "user" /\ "fs" \in kernel.flags
  BY DEF Run, InUser
<1>2. Len(text) \in Nat
  BY SessionAssumption
<1>3. k0 \in Words /\ k0.session = kernel.session /\ k0.active = kernel.active /\ k0.flags = kernel.flags
  BY <1>2, InvType DEF Words
<1>4. f \in Mounts /\ Usable(f)
  BY MountedType, SessionAssumption
<1>5. CASE Replies(INVALID) /\ UNCHANGED <<kernel, fs, user, video, disk>>
  BY <1>1, <1>5, InvType, UserFacts, SomeStatuses, ReplySafe DEF Replies
<1>6. CASE Launch(path, k0, f, "run")
  <2>1. CASE Starting(path, k0, f, TRUE)
    BY <1>1, <1>3, <1>4, <2>1, InvType, UserFacts, StartingSafe
  <2>2. ASSUME NEW status, NEW file, NEW k1, Refuses(status, file, path, f),
               Remains(k0, k1, TRUE), LaunchError(status, k1, [f EXCEPT !.file = file])
        PROVE  IInv'
    <3>1. k1 \in Words /\ k1.active /\ k1.flags = kernel.flags /\ k1.session = kernel.session
      BY <1>1, <1>3, <2>2, UserFacts, RemainsType
    <3>2. /\ kernel' \in Words /\ kernel'.active /\ ~ kernel'.launch
          /\ kernel'.flags = kernel.flags /\ kernel'.session = kernel.session
      BY <2>2, <3>1 DEF LaunchError, Words
    <3>3. /\ fs' \in Mounts /\ Usable(fs') /\ fs'.file = Closed
          /\ fs'.device \in {kernel.session, NoDevice}
      BY <1>1, <2>2, <3>1, UserFacts, MountedType DEF LaunchError
    <3>4. status \in Statuses
      BY <1>4, <2>2, InvType, RefusesType
    <3> QED
      BY <1>1, <2>2, <3>2, <3>3, <3>4, InvType, UserFacts, ReplySafe DEF LaunchError, Replies
  <2> HIDE DEF f, k0
  <2> QED
    BY <1>1, <1>3, <1>4, <1>6, <2>1, <2>2, InvType, LaunchOrLaunchError
<1> QED
  BY <1>5, <1>6 DEF Run

(* Services that neither launch nor change a volume.                       *)
LEMMA MountInv == ASSUME IInv, NEW device \in Devices, Mount(device) PROVE IInv'
<1>1. mode = "user" /\ "fs" \in kernel.flags /\ mode' = "user" /\ UNCHANGED <<user, video, disk>>
  BY DEF Mount, InUser, Replies
<1>2. fs' \in Mounts /\ Usable(fs') /\ fs'.file = Closed /\ result' \in Statuses
  BY MountedType, SomeStatuses DEF Mount, Replies
<1>3. CASE disk[device] # NoVolume /\ kernel' = [kernel EXCEPT !.session = device, !.cwd = Root]
  <2>1. /\ kernel' \in Words /\ kernel'.active = kernel.active /\ kernel'.launch = kernel.launch
        /\ kernel'.flags = kernel.flags /\ kernel'.session = device
    BY <1>3, InvType DEF Words
  <2>2. fs'.device \in {device, NoDevice}
    BY MountedType DEF Mount
  <2> QED
    BY <1>1, <1>2, <1>3, <2>1, <2>2, InvType, UserFacts, ReplySafe
<1>4. CASE disk[device] = NoVolume /\ kernel' = kernel
  <2>1. fs'.device = NoDevice
    BY <1>4 DEF Mount, Mounted
  <2> QED
    BY <1>1, <1>2, <1>4, <2>1, InvType, UserFacts, ReplySafe
<1> QED
  BY <1>3, <1>4 DEF Mount

LEMMA ChdirInv == ASSUME IInv, NEW path \in Arguments \cup {Root}, Chdir(path) PROVE IInv'
<1>1. mode = "user" /\ "fs" \in kernel.flags /\ mode' = "user" /\ UNCHANGED <<user, video, disk>>
  BY DEF Chdir, InUser, Replies
<1>2. result' \in Statuses /\ fs' \in {fs, Shut}
  BY SomeStatuses DEF Chdir, Replies
<1>3. CASE kernel' = kernel
  BY <1>1, <1>2, <1>3, InvType, UserFacts, ReplySafe
<1>4. CASE path # BadBuffer /\ kernel' = [kernel EXCEPT !.cwd = path]
  <2>1. path \in Paths \cup {Root}
    BY <1>4 DEF Arguments
  <2>2. /\ kernel' \in Words /\ kernel'.active = kernel.active /\ kernel'.launch = kernel.launch
        /\ kernel'.flags = kernel.flags /\ kernel'.session = kernel.session
    BY <1>4, <2>1, InvType DEF Words
  <2> QED
    BY <1>1, <1>2, <2>2, InvType, UserFacts, ReplySafe
<1> QED
  BY <1>3, <1>4 DEF Chdir

LEMMA OpenInv == ASSUME IInv, NEW path \in Arguments, Open(path) PROVE IInv'
<1>1. mode = "user" /\ "fs" \in kernel.flags /\ mode' = "user" /\ UNCHANGED <<kernel, user, video, disk>>
  BY DEF Open, InUser, Replies
<1>2. result' \in Statuses
  BY OpenStatusType, SomeStatuses DEF Open, Replies
<1>3. CASE fs' \in {fs, Shut}
  BY <1>1, <1>2, <1>3, InvType, UserFacts, ReplySafe
<1>4. CASE OpenStatus(fs.device, path) = SUCCESS /\ fs' = [fs EXCEPT !.file = path]
  <2>1. path \in Paths /\ fs.device # NoDevice /\ disk[fs.device] # NoVolume
    BY <1>1, <1>4, InvType, UserFacts, OpenFound
  <2>2. fs' \in Mounts /\ fs'.device = fs.device /\ Usable(fs')
    BY <1>4, <2>1, InvType DEF Mounts, Usable
  <2> QED
    BY <1>1, <1>2, <2>2, InvType, UserFacts, ReplySafe
<1> QED
  BY <1>3, <1>4 DEF Open, Shut

LEMMA RedirectInv ==
  ASSUME IInv, RedirectOff \/ \E path \in Arguments : Redirect(path)
  PROVE  IInv'
<1>1. mode = "user" /\ mode' = "user" /\ UNCHANGED <<fs, user, video, disk>>
  BY DEF Redirect, RedirectOff, InUser, Replies
<1>2. result' \in Statuses
  BY OpenStatusType, SomeStatuses DEF Redirect, RedirectOff, Replies
<1>3. CASE kernel' = kernel
  BY <1>1, <1>2, <1>3, InvType, UserFacts, ReplySafe
<1>4. ASSUME NEW target \in {Off} \cup (Devices \X Paths), kernel' = [kernel EXCEPT !.redirect = target]
      PROVE  IInv'
  <2>1. /\ kernel' \in Words /\ kernel'.active = kernel.active /\ kernel'.launch = kernel.launch
        /\ kernel'.flags = kernel.flags /\ kernel'.session = kernel.session
    BY <1>4, InvType DEF Words
  <2> QED
    BY <1>1, <1>2, <2>1, InvType, UserFacts, ReplySafe
<1>5. CASE RedirectOff
  BY <1>4, <1>5 DEF RedirectOff
<1>6. ASSUME NEW path \in Arguments, Redirect(path)
      PROVE  IInv'
  <2>1. CASE OpenStatus(fs.device, path) = SUCCESS
    <3>1. fs.device \in Devices /\ path \in Paths
      BY <1>1, <2>1, InvType, UserFacts, OpenFound
    <3> QED
      BY <1>4, <1>6, <2>1, <3>1 DEF Redirect
  <2> QED
    BY <1>3, <1>6, <2>1 DEF Redirect
<1> QED
  BY <1>5, <1>6

LEMMA VideoInv == ASSUME IInv, NEW grants \in BOOLEAN, Video(grants) PROVE IInv'
<1>1. mode = "user" /\ mode' = "user" /\ "console" \in kernel.flags /\ video' = grants
      /\ UNCHANGED <<kernel, fs, user, disk>> /\ result' \in Statuses
  BY SomeStatuses DEF Video, InUser, Replies
<1> QED
  BY <1>1, InvType, UserFacts, ReplySafe

LEMMA QuietInv ==
  ASSUME IInv,
         \/ Denied \/ Unsupported \/ CloseFile
         \/ \E status \in Statuses : Look(status)
         \/ \E status \in {SUCCESS, INVALID, BAD_DEVICE, NO_DESCRIPTOR} : Asks(status)
  PROVE  IInv'
<1>1. mode = "user" /\ mode' = "user" /\ UNCHANGED <<kernel, user, video, disk>> /\ fs' \in {fs, Shut}
  BY DEF Denied, Unsupported, CloseFile, Look, Asks, InUser, Replies
<1>2. result' \in Statuses
  BY SomeStatuses DEF Denied, Unsupported, CloseFile, Look, Asks, Replies
<1> QED
  BY <1>1, <1>2, InvType, UserFacts, ReplySafe

(* Services that change a volume.                                          *)
LEMMA ChangeInv ==
  ASSUME IInv, mode = "user", mode' = "user", result' \in Statuses, UNCHANGED <<kernel, user, video>>,
         fs' \in {fs, Shut}, NEW device \in Devices, disk[device] # NoVolume,
         NEW path \in Paths, NEW content \in Contents, Becomes(device, path, content)
  PROVE  IInv'
BY InvType, UserFacts, BecomesType, ReplySafe

LEMMA SomeContents == Writable \cup {Nothing, Rubbish, Folder} \subseteq Contents
BY SessionAssumption DEF Contents

LEMMA CreateInv ==
  ASSUME IInv,
         \E path \in Paths : Remove(path) \/ \E content \in {Rubbish, Folder} : Create(path, content)
  PROVE  IInv'
<1>1. PICK path \in Paths, content \in {Nothing, Rubbish, Folder} :
         /\ mode = "user" /\ mode' = "user" /\ result' \in Statuses /\ UNCHANGED <<kernel, user, video>>
         /\ fs' = Shut /\ fs.device # NoDevice /\ Becomes(fs.device, path, content)
  BY SomeStatuses DEF Create, Remove, InUser, Replies
<1>2. fs.device \in Devices /\ disk[fs.device] # NoVolume
  BY <1>1, InvType, UserFacts DEF Mounts, Usable
<1> QED
  BY <1>1, <1>2, SomeContents, ChangeInv

LEMMA WriteInv == ASSUME IInv, NEW content \in Writable, Write(content) PROVE IInv'
<1>1. mode = "user" /\ mode' = "user" /\ result' \in Statuses /\ UNCHANGED <<kernel, fs, user, video>>
  BY SomeStatuses DEF Write, InUser, Replies
<1>2. CASE disk' = disk
  BY <1>1, <1>2, InvType, UserFacts, ReplySafe
<1>3. CASE fs.file # Closed /\ Becomes(fs.device, fs.file, content)
  <2>1. fs.device \in Devices /\ fs.file \in Paths /\ disk[fs.device] # NoVolume
    BY <1>1, <1>3, InvType, UserFacts DEF Mounts, Usable
  <2> QED
    BY <1>1, <1>3, <2>1, SomeContents, ChangeInv
<1> QED
  BY <1>2, <1>3 DEF Write

LEMMA PrintInv == ASSUME IInv, NEW content \in Writable, PrintText(content) PROVE IInv'
<1>1. mode = "user" /\ mode' = "user" /\ result' \in Statuses /\ UNCHANGED <<kernel, fs, user, video>>
  BY SomeStatuses DEF PrintText, InUser, Replies
<1>2. CASE disk' = disk
  BY <1>1, <1>2, InvType, UserFacts, ReplySafe
<1>3. CASE /\ kernel.redirect # Off /\ kernel.redirect[1] = fs.device
           /\ Becomes(fs.device, kernel.redirect[2], content)
  <2>1. kernel.redirect[1] \in Devices /\ kernel.redirect[2] \in Paths
    BY <1>3, InvType DEF Words
  <2>2. disk[fs.device] # NoVolume
    BY <1>1, <1>3, <2>1, UserFacts, SessionAssumption DEF Usable
  <2> QED
    BY <1>1, <1>3, <2>1, <2>2, SomeContents, ChangeInv
<1> QED
  BY <1>2, <1>3 DEF PrintText

LEMMA NextInv == IInv /\ [Next]_vars => IInv'
<1> SUFFICES ASSUME IInv, [Next]_vars PROVE IInv'
  OBVIOUS
<1>1. CASE PowerOn \/ SoftReset \/ Shutdown
  BY <1>1, PowerInv
<1>2. CASE Entry
  BY <1>2, EntryInv
<1>3. CASE Service
  <2>1. CASE ProcessFinish
    BY <2>1, FinishInv
  <2>2. CASE \/ Denied \/ Unsupported \/ CloseFile
             \/ \E status \in Statuses : Look(status)
             \/ \E status \in {SUCCESS, INVALID, BAD_DEVICE, NO_DESCRIPTOR} : Asks(status)
    BY <2>2, QuietInv
  <2>3. CASE RedirectOff \/ \E path \in Arguments : Redirect(path)
    BY <2>3, RedirectInv
  <2>4. CASE \E path \in Arguments : Exec(path) \/ Open(path) \/ \E text \in Texts : Run(path, text)
    BY <2>4, ExecInv, OpenInv, RunInv
  <2>5. CASE \/ \E path \in Arguments \cup {Root} : Chdir(path)
             \/ \E device \in Devices : Mount(device)
             \/ \E grants \in BOOLEAN : Video(grants)
    BY <2>5, ChdirInv, MountInv, VideoInv
  <2>6. CASE \/ \E path \in Paths :
                  Remove(path) \/ \E content \in {Rubbish, Folder} : Create(path, content)
             \/ \E content \in Writable : Write(content) \/ PrintText(content)
    BY <2>6, CreateInv, WriteInv, PrintInv
  <2> QED
    BY <1>3, <2>1, <2>2, <2>3, <2>4, <2>5, <2>6 DEF Service
<1>4. CASE UNCHANGED vars
  BY <1>4 DEF vars, IInv, TypeOK, SessionHeld, Grounded
<1> QED
  BY <1>1, <1>2, <1>3, <1>4 DEF Next

LEMMA Invariant == Spec => []IInv
BY InitInv, NextInv, PTL DEF Spec

(* Every word of the kernel, of the session and of the volumes keeps its   *)
(* type: no launch, mount, failure or reset leaves the session on a device *)
(* that does not exist or hands out a status nobody documents.             *)
THEOREM TypeCorrect == Spec => []TypeOK
BY Invariant, PTL DEF IInv

(* Whatever launches, mounts and redirections came before and however they *)
(* failed: a running program has the permissions of its own header, the    *)
(* display only if it may draw, files only if it may use files, on the     *)
(* session's volume or on none (loader.anc216, syscall_session).           *)
THEOREM SessionAlwaysHeld == Spec => []SessionHeld
BY Invariant, PTL DEF IInv
-----------------------------------------------------------------------------
(* The refinement of Processes.                                            *)

LEMMA ViewOfUser ==
  ASSUME IInv, mode = "user"
  PROVE  /\ ThePower = "on" /\ TheProcess # Nobody
         /\ TheProcess = [program |-> user.program, text |-> user.text,
                          length |-> IF kernel.returns THEN user.length ELSE 0, returns |-> kernel.returns, draws |-> video]
         /\ TheProcess.program = user.program /\ TheProcess.returns = kernel.returns
         /\ TheSession = [selected |-> kernel.session, mounted |-> fs.device,
                          file |-> IF fs.file # Closed THEN <<fs.device, fs.file>> ELSE Closed,
                          cwd |-> kernel.cwd, target |-> kernel.redirect]
<1>1. TheProcess = [program |-> user.program, text |-> user.text,
                    length |-> IF kernel.returns THEN user.length ELSE 0, returns |-> kernel.returns, draws |-> video]
  BY DEF TheProcess, Running
<1>2. /\ user.program \in Programs /\ user.text \in Texts \cup {<<>>, Cleared} /\ user.length \in Nat
      /\ kernel.returns \in BOOLEAN /\ video \in BOOLEAN
  BY InvType, UserFacts DEF Users, Words
<1>3. TheProcess \in [program : Programs, text : Texts \cup {<<>>, Cleared}, length : Nat,
                      returns : BOOLEAN, draws : BOOLEAN]
  BY <1>1, <1>2
<1>4. TheProcess # Nobody
  BY <1>3, SessionAssumption
<1> QED
  BY <1>1, <1>4 DEF ThePower, TheSession, Running

(* The program a launch puts in the place of the last one.                 *)
LEMMA ViewOfStarting ==
  ASSUME IInv, NEW k \in Words, NEW f \in Mounts, NEW path, NEW handsOver \in BOOLEAN,
         disk[k.session] # NoVolume, ~ k.launch, Starting(path, k, f, handsOver)
  PROVE  /\ ThePower' = "on"
         /\ TheProcess' = [program |-> disk[f.device][path],
                           text |-> IF handsOver THEN k.arguments ELSE Cleared,
                           length |-> IF handsOver THEN k.length ELSE 0,
                           returns |-> handsOver, draws |-> FALSE]
         /\ TheSession' = [selected |-> k.session, mounted |-> k.session, file |-> Closed,
                           cwd |-> k.cwd, target |-> k.redirect]
         /\ result' = 0 /\ disk' = disk
<1> DEFINE program == disk[f.device][path]
           k1 == Staged([k EXCEPT !.launch = @ \/ handsOver], program)
<1>1. program \in Programs /\ Enters(k1, program)
  BY DEF Starting, Found
<1>2. /\ k1 \in Words /\ k1.session = k.session /\ k1.cwd = k.cwd /\ k1.redirect = k.redirect
      /\ k1.length = k.length /\ k1.arguments = k.arguments
  BY <1>1, PendingType, RemainsType
<1>3. k1.launch = handsOver
  BY DEF Staged, Words
<1> HIDE DEF program, k1
<1>4. /\ kernel'.session = k.session /\ kernel'.cwd = k.cwd /\ kernel'.redirect = k.redirect
      /\ kernel'.length = k.length /\ kernel'.returns = handsOver
  BY <1>1, <1>2, <1>3 DEF Enters, Words
<1>5. fs' = [device |-> k.session, file |-> Closed]
  BY <1>1, <1>2 DEF Enters, Mounted
<1>6. /\ user'.program = program /\ user'.length = k.length
      /\ user'.text = IF handsOver THEN k.arguments ELSE Cleared
  BY <1>1, <1>2, <1>3 DEF Enters
<1>7. mode' = "user" /\ video' = FALSE /\ disk' = disk /\ result' = 0
  BY <1>1 DEF Enters, SUCCESS
<1>8. TheProcess' = [program |-> program, text |-> IF handsOver THEN k.arguments ELSE Cleared,
                     length |-> IF handsOver THEN k.length ELSE 0,
                     returns |-> handsOver, draws |-> FALSE]
  BY <1>4, <1>6, <1>7 DEF TheProcess, Running
<1>9. TheSession' = [selected |-> k.session, mounted |-> k.session, file |-> Closed,
                     cwd |-> k.cwd, target |-> k.redirect]
  BY <1>4, <1>5, <1>7 DEF TheSession, Running
<1>10. ThePower' = "on"
  BY <1>7 DEF ThePower
<1> QED
  BY <1>7, <1>8, <1>9, <1>10 DEF program

LEMMA ViewOfStop ==
  ASSUME IInv, mode' # "user"
  PROVE  TheProcess' = Nobody /\ TheSession' = Abstract!NewSession
BY DEF TheProcess, TheSession, Running, Abstract!NewSession

(* Both levels find the same files and the same reasons.                   *)
LEMMA SamePaths ==
  ASSUME TypeOK, NEW f \in Mounts, Usable(f), NEW path \in Arguments
  PROVE  /\ OpenStatus(f.device, path) = SUCCESS <=> Abstract!Present(f.device, path)
         /\ Found(path, f) <=> Abstract!Runnable(f.device, path)
         /\ OpenStatus(f.device, path) # SUCCESS =>
              Abstract!Missing(f.device, path, OpenStatus(f.device, path))
<1>1. ASSUME OpenStatus(f.device, path) = SUCCESS
      PROVE  Abstract!Present(f.device, path)
  BY <1>1, OpenFound DEF Abstract!Present
<1>2. ASSUME Abstract!Present(f.device, path)
      PROVE  OpenStatus(f.device, path) = SUCCESS
  <2>1. path # BadBuffer
    BY <1>2, SessionAssumption DEF Abstract!Present
  <2> QED
    BY <1>2, <2>1 DEF Abstract!Present, OpenStatus
<1>3. ASSUME OpenStatus(f.device, path) # SUCCESS
      PROVE  Abstract!Missing(f.device, path, OpenStatus(f.device, path))
  <2>1. ~ Abstract!Present(f.device, path)
    BY <1>2, <1>3
  <2>2. f.device # NoDevice => disk[f.device] # NoVolume
    BY DEF Usable
  <2>3. path # BadBuffer => path \in Paths
    BY DEF Arguments
  <2>4. CASE path = BadBuffer \/ f.device = NoDevice
    BY <2>4 DEF Abstract!Missing, OpenStatus, INVALID, BAD_DEVICE
  <2>5. CASE path # BadBuffer /\ f.device # NoDevice /\ disk[f.device][path] \in {Nothing, Folder}
    <3>1. ~ Abstract!Spoilt(f.device, path)
      BY <2>5, SessionAssumption DEF Abstract!Spoilt
    <3> QED
      BY <2>1, <2>5, <3>1 DEF Abstract!Missing, OpenStatus, NOT_FOUND
  <2>6. CASE path # BadBuffer /\ f.device # NoDevice /\ disk[f.device][path] \notin {Nothing, Folder}
    <3>1. disk[f.device][path] = Damaged
      BY <1>3, <2>6 DEF OpenStatus
    <3>2. Abstract!Spoilt(f.device, path) /\ OpenStatus(f.device, path) = 5
      BY <2>2, <2>3, <2>6, <3>1 DEF Abstract!Spoilt, OpenStatus, CORRUPT_CHAIN
    <3> QED
      BY <2>6, <3>2 DEF Abstract!Missing
  <2> QED
    BY <2>4, <2>5, <2>6
<1>4. Found(path, f) <=> Abstract!Runnable(f.device, path)
  BY <1>1, <1>2 DEF Found, Abstract!Runnable
<1> QED
  BY <1>1, <1>2, <1>3, <1>4

LEMMA InitAbstract == Init => Abstract!Init
BY DEF Init, Abstract!Init, ThePower, TheProcess, TheSession, Running, Abstract!NewSession, SUCCESS

(* What the session is after a service that keeps the program running.     *)
LEMMA ViewOfReply ==
  ASSUME mode' = "user"
  PROVE  /\ ThePower' = "on"
         /\ TheProcess' = [program |-> user'.program, text |-> user'.text,
                           length |-> IF kernel'.returns THEN user'.length ELSE 0, returns |-> kernel'.returns, draws |-> video']
         /\ TheSession' = [selected |-> kernel'.session, mounted |-> fs'.device,
                           file |-> IF fs'.file # Closed THEN <<fs'.device, fs'.file>> ELSE Closed,
                           cwd |-> kernel'.cwd, target |-> kernel'.redirect]
BY DEF ThePower, TheProcess, TheSession, Running

LEMMA SameProcess ==
  ASSUME IInv, mode = "user", mode' = "user", user' = user, kernel'.returns = kernel.returns,
         video' = video
  PROVE  TheProcess' = TheProcess
BY ViewOfUser, ViewOfReply

LEMMA SameSession ==
  ASSUME IInv, mode = "user", mode' = "user", UNCHANGED <<kernel, fs>>
  PROVE  TheSession' = TheSession
BY ViewOfUser, ViewOfReply

LEMMA ShutSession ==
  ASSUME IInv, mode = "user", mode' = "user", kernel' = kernel, fs' = Shut
  PROVE  TheSession' = Abstract!Without
<1>1. fs'.device = fs.device /\ fs'.file = Closed
  BY InvType DEF Shut, Mounts
<1> QED
  BY <1>1, ViewOfUser, ViewOfReply DEF Abstract!Without

LEMMA MayUse ==
  ASSUME IInv, NEW permission, InUser(permission)
  PROVE  Abstract!May(permission)
BY ViewOfUser, UserFacts DEF InUser, Abstract!May

(* A program takes over the session.                                       *)
IsSession(s) == s = [selected |-> s.selected, mounted |-> s.mounted, file |-> s.file,
                     cwd |-> s.cwd, target |-> s.target]

LEMMA Handover ==
  ASSUME NEW s, IsSession(s)
  PROVE  [s EXCEPT !.file = Closed, !.mounted = s.selected]
           = [selected |-> s.selected, mounted |-> s.selected, file |-> Closed, cwd |-> s.cwd,
              target |-> s.target]
<1>1. PICK s1 : s1 = [s EXCEPT !.file = Closed]
  OBVIOUS
<1>2. s1 = [selected |-> s.selected, mounted |-> s.mounted, file |-> Closed, cwd |-> s.cwd,
            target |-> s.target]
  BY <1>1 DEF IsSession
<1>3. PICK s2 : s2 = [s1 EXCEPT !.mounted = s.selected]
  OBVIOUS
<1>4. s2 = [selected |-> s.selected, mounted |-> s.selected, file |-> Closed, cwd |-> s.cwd,
            target |-> s.target]
  BY <1>2, <1>3
<1>5. [s EXCEPT !.file = Closed, !.mounted = s.selected] = s2
  BY <1>1, <1>3
<1> QED
  BY <1>4, <1>5

(* The two ways init's launch can go.                                      *)
LaunchEnds(k) ==
  \/ Starting(InitPath, k, Mounted(Boot), FALSE)
  \/ \E status, file, k1 : /\ Refuses(status, file, InitPath, Mounted(Boot)) /\ Remains(k, k1, FALSE)
                           /\ Idles(status, k1, [Mounted(Boot) EXCEPT !.file = file])

LEMMA InitLaunched ==
  ASSUME TypeOK, NEW k \in Words, Launch(InitPath, k, Mounted(Boot), "kernel")
  PROVE  LaunchEnds(k)
<1>1. Mounted(Boot) \in Mounts
  BY MountedType, SessionAssumption
<1> QED
  BY <1>1, LaunchOrIdles DEF LaunchEnds

LEMMA BootStart ==
  ASSUME IInv, NEW k \in Words, disk[Boot] # NoVolume => disk[k.session] # NoVolume, ~ k.launch,
         k.length = 0, LaunchEnds(k),
         NEW mounted, NEW opened,
         TheSession = [selected |-> k.session, mounted |-> mounted, file |-> opened,
                       cwd |-> k.cwd, target |-> k.redirect]
  PROVE  ThePower' = "on" /\ Abstract!StartsInit
<1> DEFINE f == Mounted(Boot)
<1>1. f \in Mounts /\ Usable(f) /\ InitPath \in Arguments /\ InitPath \in Paths
  BY MountedType, SessionAssumption DEF Arguments
<1>2. disk[Boot] = NoVolume => ~ Abstract!Runnable(Boot, InitPath) /\ f.device = NoDevice
  BY DEF Abstract!Runnable, Abstract!Present, Mounted
<1>3. disk[Boot] # NoVolume => f.device = Boot
  BY DEF Mounted
<1>4. Found(InitPath, f) <=> Abstract!Runnable(Boot, InitPath)
  <2>1. Found(InitPath, f) <=> Abstract!Runnable(f.device, InitPath)
    BY <1>1, InvType, SamePaths
  <2>2. ~ Abstract!Runnable(NoDevice, InitPath)
    BY DEF Abstract!Runnable, Abstract!Present
  <2> QED
    BY <1>2, <1>3, <2>1, <2>2
<1>5. CASE Starting(InitPath, k, f, FALSE)
  <2>1. Abstract!Runnable(Boot, InitPath) /\ disk[Boot] # NoVolume
    BY <1>2, <1>4, <1>5 DEF Starting
  <2>2. f.device = Boot /\ disk[k.session] # NoVolume
    BY <1>3, <2>1
  <2>3. /\ ThePower' = "on"
        /\ TheProcess' = [program |-> disk[Boot][InitPath], text |-> Cleared,
                          length |-> 0, returns |-> FALSE, draws |-> FALSE]
        /\ TheSession' = [selected |-> k.session, mounted |-> k.session, file |-> Closed,
                          cwd |-> k.cwd, target |-> k.redirect]
        /\ result' = 0 /\ disk' = disk
    BY <1>1, <1>5, <2>2, ViewOfStarting
  <2>4. TheSession' = [TheSession EXCEPT !.file = Closed, !.mounted = TheSession.selected]
    <3>1. [TheSession EXCEPT !.file = Closed, !.mounted = TheSession.selected]
            = [selected |-> k.session, mounted |-> k.session, file |-> Closed,
               cwd |-> k.cwd, target |-> k.redirect]
      <4>1. /\ IsSession(TheSession) /\ TheSession.selected = k.session
            /\ TheSession.cwd = k.cwd /\ TheSession.target = k.redirect
        BY DEF IsSession
      <4> QED
        BY ONLY <4>1, Handover
    <3> QED
      BY <2>3, <3>1
  <2> QED
    BY <2>1, <2>3, <2>4 DEF Abstract!StartsInit, Abstract!Starts
<1>6. ASSUME NEW status, NEW file, NEW k1, Refuses(status, file, InitPath, f),
             Remains(k, k1, FALSE), Idles(status, k1, [f EXCEPT !.file = file])
      PROVE  ThePower' = "on" /\ Abstract!StartsInit
  <2>1. ~ Abstract!Runnable(Boot, InitPath)
    BY <1>4, <1>6 DEF Refuses, Found
  <2>2. mode' = "idle" /\ disk' = disk /\ result' = result
    BY <1>6 DEF Idles
  <2>3. TheProcess' = Nobody /\ TheSession' = Abstract!NewSession
    BY <2>2, ViewOfStop
  <2> QED
    BY <2>1, <2>2, <2>3 DEF Abstract!StartsInit, Abstract!Stops, ThePower
<1> QED
  BY <1>5, <1>6 DEF LaunchEnds

LEMMA PowerAbstract ==
  ASSUME IInv, PowerOn \/ SoftReset \/ Shutdown
  PROVE  Abstract!PowerOn \/ Abstract!Reset \/ Abstract!PowerOff
<1>1. CASE PowerOn
  BY <1>1 DEF PowerOn, Abstract!PowerOn, Abstract!Same, ThePower, TheProcess, TheSession, Running
<1>2. CASE SoftReset
  <2>1. TheProcess' = Nobody /\ TheSession' = Abstract!NewSession
    BY <1>2, ViewOfStop DEF SoftReset
  <2> QED
    BY <1>2, <2>1, InvType DEF SoftReset, Abstract!Reset, Abstract!Stops, ThePower
<1>3. CASE Shutdown
  <2>1. TheProcess' = Nobody /\ TheSession' = Abstract!NewSession
    BY <1>3, ViewOfStop DEF Shutdown
  <2> QED
    BY <1>3, <2>1 DEF Shutdown, Abstract!PowerOff, ThePower, SUCCESS
<1> QED
  BY <1>1, <1>2, <1>3

LEMMA EntryAbstract == ASSUME IInv, Entry PROVE Abstract!Start
<1>1. kernel = Fresh /\ ThePower = "starting" /\ mode # "user"
  BY DEF IInv, Grounded, Entry, ThePower
<1>2. TheSession = [selected |-> Boot, mounted |-> Boot, file |-> Closed, cwd |-> Root,
                    target |-> Off]
  BY <1>1 DEF TheSession, Running
<1>3. /\ kernel \in Words /\ kernel.session = Boot /\ kernel.cwd = Root /\ kernel.redirect = Off
      /\ ~ kernel.launch /\ kernel.length = 0
  BY <1>1, FreshType DEF Fresh
<1>4. ThePower' = "on" /\ Abstract!StartsInit
  BY <1>2, <1>3, InvType, InitLaunched, BootStart DEF Entry
<1> QED
  BY <1>1, <1>4 DEF Abstract!Start

LEMMA FinishAbstract == ASSUME IInv, ProcessFinish PROVE Abstract!End
<1> DEFINE k == [kernel EXCEPT !.active = FALSE]
           k0 == [k EXCEPT !.returns = FALSE, !.launch = FALSE, !.length = 0]
<1>1. mode = "user"
  BY DEF ProcessFinish
<1>2. /\ k0 \in Words /\ k0.session = kernel.session /\ k0.cwd = kernel.cwd
      /\ k0.redirect = kernel.redirect /\ ~ k0.launch /\ k0.length = 0
  BY InvType DEF Words
<1>3. disk[k0.session] # NoVolume
  BY <1>1, <1>2, UserFacts
<1>4. CASE kernel.returns /\ Launch(InitPath, k0, Mounted(Boot), "kernel")
  <2>1. PICK mounted, opened :
          TheSession = [selected |-> k0.session, mounted |-> mounted, file |-> opened,
                        cwd |-> k0.cwd, target |-> k0.redirect]
    BY <1>1, <1>2, ViewOfUser
  <2> HIDE DEF k0
  <2>2. ThePower' = "on" /\ Abstract!StartsInit
    BY <1>2, <1>3, <1>4, <2>1, InvType, InitLaunched, BootStart
  <2> QED
    BY <1>1, <1>4, <2>2, ViewOfUser DEF Abstract!End
<1>5. CASE ~ kernel.returns /\ Idles(SUCCESS, k, Shut)
  <2>1. mode' = "idle" /\ UNCHANGED <<disk, result>>
    BY <1>5 DEF Idles
  <2>2. TheProcess' = Nobody /\ TheSession' = Abstract!NewSession /\ ThePower' = "on"
    BY <2>1, ViewOfStop DEF ThePower
  <2> QED
    BY <1>1, <1>5, <2>1, <2>2, ViewOfUser DEF Abstract!End, Abstract!Stops
<1> QED
  BY <1>4, <1>5 DEF ProcessFinish, ShellRestart

LEMMA SessionIs ==
  ASSUME IInv, mode = "user"
  PROVE  /\ IsSession(TheSession) /\ TheSession.selected = kernel.session
         /\ TheSession.mounted = fs.device /\ TheSession.cwd = kernel.cwd
         /\ TheSession.target = kernel.redirect
         /\ TheSession.file = IF fs.file # Closed THEN <<fs.device, fs.file>> ELSE Closed
BY ViewOfUser DEF IsSession

LEMMA SessionFile ==
  ASSUME IInv, mode = "user"
  PROVE  TheSession.file = Closed <=> fs.file = Closed
<1>1. fs.file # Closed => <<fs.device, fs.file>> \in Devices \X Paths
  BY InvType, UserFacts DEF Mounts, Usable
<1> QED
  BY <1>1, SessionIs, SessionAssumption

LEMMA ExecAbstract == ASSUME IInv, NEW path \in Arguments, Exec(path) PROVE Abstract!Exec(path)
<1> DEFINE volume == TheSession.mounted
<1>1. mode = "user" /\ Abstract!May("fs") /\ ThePower = "on" /\ volume = fs.device
  BY MayUse, ViewOfUser, SessionIs DEF Exec, InUser
<1>2. fs \in Mounts /\ Usable(fs) /\ kernel \in Words /\ ~ kernel.launch /\ TypeOK
  BY <1>1, InvType, UserFacts
<1>3. CASE path = BadBuffer /\ ExecFails(INVALID, kernel, fs)
  <2>1. mode' = "user" /\ result' = 1 /\ UNCHANGED <<kernel, fs, user, video, disk>>
    BY <1>3 DEF ExecFails, Replies, INVALID
  <2>2. UNCHANGED <<ThePower, TheProcess, TheSession>>
    BY <1>1, <2>1, SameProcess, SameSession, ViewOfReply
  <2>3. Abstract!Missing(volume, path, 1)
    BY <1>3 DEF Abstract!Missing
  <2>4. \E code \in Abstract!Failures :
          /\ Abstract!Missing(volume, path, code) /\ Abstract!Replies(code)
          /\ UNCHANGED <<TheProcess, disk>>
          /\ TheSession' = IF code = 1 THEN TheSession ELSE Abstract!Without
    BY <1>1, <2>1, <2>2, <2>3 DEF Abstract!Replies, Abstract!Failures
  <2> QED
    BY <1>1, <2>2, <2>4 DEF Abstract!Exec
<1>4. CASE Starting(path, kernel, fs, FALSE)
  <2>1. Abstract!Runnable(volume, path) /\ fs.device # NoDevice /\ disk[kernel.session] # NoVolume
    BY <1>1, <1>2, <1>4, SamePaths, UserFacts DEF Starting, Abstract!Runnable, Abstract!Present
  <2>2. /\ ThePower' = "on"
        /\ TheProcess' = [program |-> disk[volume][path], text |-> Cleared,
                          length |-> 0, returns |-> FALSE, draws |-> FALSE]
        /\ TheSession' = [selected |-> kernel.session, mounted |-> kernel.session, file |-> Closed,
                          cwd |-> kernel.cwd, target |-> kernel.redirect]
        /\ result' = 0 /\ disk' = disk
    BY <1>1, <1>2, <1>4, <2>1, ViewOfStarting
  <2>3. /\ IsSession(TheSession) /\ TheSession.selected = kernel.session
        /\ TheSession.cwd = kernel.cwd /\ TheSession.target = kernel.redirect
    BY <1>1, SessionIs
  <2>4. TheSession' = [TheSession EXCEPT !.file = Closed, !.mounted = TheSession.selected]
    BY ONLY <2>2, <2>3, Handover
  <2>5. Abstract!Starts(disk[volume][path], Cleared, 0, FALSE)
    BY <2>2, <2>3, <2>4 DEF Abstract!Starts
  <2> QED
    BY <1>1, <2>1, <2>2, <2>5 DEF Abstract!Exec
<1>5. ASSUME NEW status, NEW file, NEW k, Refuses(status, file, path, fs),
             Remains(kernel, k, FALSE), ExecFails(status, k, [fs EXCEPT !.file = file])
      PROVE  Abstract!Exec(path)
  <2>1. mode' = "user" /\ result' = status /\ kernel' = k /\ UNCHANGED <<user, video, disk>>
    BY <1>5 DEF ExecFails, Replies
  <2>2. /\ kernel'.returns = kernel.returns /\ kernel'.session = kernel.session
        /\ kernel'.cwd = kernel.cwd /\ kernel'.redirect = kernel.redirect
        /\ kernel'.length = kernel.length
    BY <1>2, <1>5, <2>1, RemainsType
  <2>3. fs'.device = fs.device /\ fs'.file = file
    BY <1>2, <1>5 DEF ExecFails, Mounts
  <2>4. UNCHANGED <<ThePower, TheProcess>>
    BY <1>1, <2>1, <2>2, SameProcess, ViewOfReply
  <2>5. TheSession' = [selected |-> kernel.session, mounted |-> fs.device,
                       file |-> IF file # Closed THEN <<fs.device, file>> ELSE Closed,
                       cwd |-> kernel.cwd, target |-> kernel.redirect]
    BY <2>1, <2>2, <2>3, ViewOfReply
  <2>6. CASE status = OpenStatus(fs.device, path) /\ status # SUCCESS /\ file = Closed
    <3>1. Abstract!Missing(volume, path, status)
      BY <1>1, <1>2, <2>6, SamePaths
    <3>2. TheSession' = Abstract!Without
      BY <1>1, <2>5, <2>6, ViewOfUser DEF Abstract!Without
    <3>3. status \in Abstract!Failures /\ (status = 1 => path = BadBuffer)
      BY <3>1 DEF Abstract!Missing, Abstract!Failures
    <3>4. CASE path # BadBuffer
      BY <1>1, <2>1, <2>4, <3>1, <3>2, <3>3, <3>4 DEF Abstract!Exec, Abstract!Replies
    <3>5. CASE path = BadBuffer
      BY <1>3, <3>5 DEF Exec
    <3> QED
      BY <3>4, <3>5
  <2>7. CASE OpenStatus(fs.device, path) = SUCCESS /\ ~ Found(path, fs) /\ status = BAD_EXEC /\ file = path
    <3>1. Abstract!Present(volume, path) /\ ~ Abstract!Runnable(volume, path)
      BY <1>1, <1>2, <2>7, SamePaths
    <3>2. file # Closed
      BY <2>7, <3>1, SessionAssumption DEF Abstract!Present
    <3>3. TheSession' = [TheSession EXCEPT !.file = <<volume, path>>]
      BY <1>1, <2>5, <2>7, <3>2, ViewOfUser
    <3> QED
      BY <1>1, <2>1, <2>4, <2>7, <3>1, <3>3 DEF Abstract!Exec, Abstract!Replies, BAD_EXEC
  <2> QED
    BY <1>5, <2>6, <2>7 DEF Refuses
<1>6. CASE Launch(path, kernel, fs, "exec")
  <2>1. \/ Starting(path, kernel, fs, FALSE)
        \/ \E status, file, k : /\ Refuses(status, file, path, fs) /\ Remains(kernel, k, FALSE)
                                /\ ExecFails(status, k, [fs EXCEPT !.file = file])
    BY <1>2, <1>6, LaunchOrExecFails
  <2> QED
    BY <1>4, <1>5, <2>1
<1> QED
  BY <1>3, <1>6 DEF Exec

LEMMA RunAbstract ==
  ASSUME IInv, NEW path \in Arguments, NEW text \in Texts, Run(path, text)
  PROVE  Abstract!Run(path, text)
<1> DEFINE k0 == [kernel EXCEPT !.arguments = text, !.length = Len(text)]
           f == Mounted(Boot)
<1>1. mode = "user" /\ Abstract!May("fs") /\ ThePower = "on"
  BY MayUse, ViewOfUser DEF Run, InUser
<1>2. /\ k0 \in Words /\ k0.session = kernel.session /\ k0.returns = kernel.returns
      /\ k0.cwd = kernel.cwd /\ k0.redirect = kernel.redirect /\ k0.length = Len(text)
      /\ k0.arguments = text /\ ~ k0.launch
  <2>1. Len(text) \in Nat /\ kernel \in Words /\ ~ kernel.launch
    BY <1>1, SessionAssumption, InvType, UserFacts
  <2> QED
    BY <2>1 DEF Words
<1>3. f \in Mounts /\ Usable(f) /\ f.device = Boot /\ TypeOK /\ disk[kernel.session] # NoVolume
      /\ Mounted(kernel.session).device = kernel.session /\ Mounted(kernel.session).file = Closed
  BY <1>1, MountedType, SessionAssumption, InvType, UserFacts
<1>4. IsSession(TheSession) /\ TheSession.selected = kernel.session
      /\ TheSession.cwd = kernel.cwd /\ TheSession.target = kernel.redirect
  BY <1>1, SessionIs
<1> HIDE DEF k0, f
<1>5. CASE Len(text) >= Capacity /\ Replies(INVALID) /\ UNCHANGED <<kernel, fs, user, video, disk>>
  <2>1. UNCHANGED <<ThePower, TheProcess, TheSession>>
    BY <1>1, <1>5, SameProcess, SameSession, ViewOfReply DEF Replies
  <2> QED
    BY <1>1, <1>5, <2>1 DEF Abstract!Run, Abstract!Replies, Abstract!Same, Replies, INVALID
<1>6. ASSUME Len(text) < Capacity, Starting(path, k0, f, TRUE)
      PROVE  Abstract!Run(path, text)
  <2>1. Abstract!Runnable(Boot, path)
    BY <1>3, <1>6, SamePaths DEF Starting
  <2>2. /\ ThePower' = "on"
        /\ TheProcess' = [program |-> disk[Boot][path], text |-> text,
                          length |-> Len(text), returns |-> TRUE, draws |-> FALSE]
        /\ TheSession' = [selected |-> kernel.session, mounted |-> kernel.session, file |-> Closed,
                          cwd |-> kernel.cwd, target |-> kernel.redirect]
        /\ result' = 0 /\ disk' = disk
    BY <1>2, <1>3, <1>6, ViewOfStarting
  <2>3. TheSession' = [TheSession EXCEPT !.file = Closed, !.mounted = TheSession.selected]
    BY ONLY <1>4, <2>2, Handover
  <2>4. Abstract!Starts(disk[Boot][path], text, Len(text), TRUE)
    BY <2>2, <2>3 DEF Abstract!Starts
  <2> QED
    BY <1>1, <1>6, <2>1, <2>2, <2>4 DEF Abstract!Run
<1>7. ASSUME Len(text) < Capacity, NEW status, NEW file, NEW k, Refuses(status, file, path, f),
             Remains(k0, k, TRUE), LaunchError(status, k, [f EXCEPT !.file = file])
      PROVE  Abstract!Run(path, text)
  <2>1. mode' = "user" /\ result' = status /\ UNCHANGED <<user, video, disk>>
    BY <1>7 DEF LaunchError, Replies
  <2>2. /\ k \in Words /\ k.returns = kernel.returns /\ k.session = kernel.session
        /\ k.cwd = kernel.cwd /\ k.redirect = kernel.redirect
    BY <1>2, <1>7, RemainsType
  <2>3. /\ kernel'.returns = kernel.returns /\ kernel'.session = kernel.session
        /\ kernel'.cwd = kernel.cwd /\ kernel'.redirect = kernel.redirect /\ kernel'.length = 0
    BY <1>7, <2>2 DEF LaunchError, Words
  <2>4. fs'.device = kernel.session /\ fs'.file = Closed
    BY <1>3, <1>7, <2>2 DEF LaunchError
  <2>5. UNCHANGED <<ThePower, TheProcess>>
    BY <1>1, <2>1, <2>3, SameProcess, ViewOfReply
  <2>6. TheSession' = [selected |-> kernel.session, mounted |-> kernel.session, file |-> Closed,
                       cwd |-> kernel.cwd, target |-> kernel.redirect]
    BY <2>1, <2>3, <2>4, ViewOfReply
  <2>7. TheSession' = [TheSession EXCEPT !.file = Closed, !.mounted = TheSession.selected]
    BY ONLY <1>4, <2>6, Handover
  <2>8. /\ ~ Abstract!Runnable(Boot, path)
        /\ status \in {1, 3, 5, 7}
        /\ IF status = 7 THEN Abstract!Present(Boot, path) ELSE Abstract!Missing(Boot, path, status)
    <3>1. /\ OpenStatus(Boot, path) = SUCCESS <=> Abstract!Present(Boot, path)
          /\ Found(path, f) <=> Abstract!Runnable(Boot, path)
          /\ OpenStatus(Boot, path) # SUCCESS =>
               Abstract!Missing(Boot, path, OpenStatus(Boot, path))
      BY <1>3, SamePaths
    <3>2. CASE status = OpenStatus(Boot, path) /\ status # SUCCESS
      <4>1. status \in {1, 3, 5}
        BY <3>2, SessionAssumption DEF OpenStatus, INVALID, NOT_FOUND, CORRUPT_CHAIN, SUCCESS
      <4> QED
        BY <1>3, <3>1, <3>2, <4>1 DEF Found
    <3>3. CASE OpenStatus(Boot, path) = SUCCESS /\ ~ Found(path, f) /\ status = BAD_EXEC
      BY <3>1, <3>3 DEF BAD_EXEC
    <3> QED
      BY <1>3, <1>7, <3>2, <3>3 DEF Refuses
  <2> QED
    BY <1>1, <1>7, <2>1, <2>5, <2>7, <2>8 DEF Abstract!Run, Abstract!Replies
<1>8. CASE Len(text) < Capacity /\ Launch(path, k0, f, "run")
  <2>1. \/ Starting(path, k0, f, TRUE)
        \/ \E status, file, k : /\ Refuses(status, file, path, f) /\ Remains(k0, k, TRUE)
                                /\ LaunchError(status, k, [f EXCEPT !.file = file])
    BY <1>2, <1>3, <1>8, LaunchOrLaunchError
  <2> QED
    BY <1>6, <1>7, <1>8, <2>1
<1> QED
  BY <1>5, <1>8 DEF Run, k0, f

LEMMA MountAbstract == ASSUME IInv, NEW device \in Devices, Mount(device) PROVE Abstract!Mount(device)
<1>1. /\ mode = "user" /\ mode' = "user" /\ UNCHANGED <<user, video, disk>>
      /\ Abstract!May("fs") /\ ThePower = "on" /\ ThePower' = "on"
  BY MayUse, ViewOfUser, ViewOfReply DEF Mount, InUser, Replies
<1>2. fs'.file = Closed
  BY MountedType DEF Mount
<1>3. CASE disk[device] # NoVolume /\ Replies(SUCCESS)
           /\ kernel' = [kernel EXCEPT !.session = device, !.cwd = Root]
  <2>1. /\ kernel'.returns = kernel.returns /\ kernel'.session = device /\ kernel'.cwd = Root
        /\ kernel'.redirect = kernel.redirect /\ kernel'.length = kernel.length
    BY <1>3, InvType DEF Words
  <2>2. fs'.device = device
    BY <1>3, MountedType DEF Mount
  <2>3. TheProcess' = TheProcess
    BY <1>1, <2>1, SameProcess
  <2>4. TheSession' = [selected |-> device, mounted |-> device, file |-> Closed, cwd |-> Root,
                       target |-> kernel.redirect]
    BY <1>1, <1>2, <2>1, <2>2, ViewOfReply
  <2>5. TheSession' = [TheSession EXCEPT !.selected = device, !.mounted = device, !.file = Closed,
                                         !.cwd = Root]
    <3>1. PICK s0 : s0 = TheSession
      OBVIOUS
    <3>2. s0 = [selected |-> s0.selected, mounted |-> s0.mounted, file |-> s0.file, cwd |-> s0.cwd,
                target |-> kernel.redirect]
      BY <1>1, <3>1, ViewOfUser
    <3>3. PICK s1 : s1 = [s0 EXCEPT !.selected = device]
      OBVIOUS
    <3>4. s1 = [selected |-> device, mounted |-> s0.mounted, file |-> s0.file, cwd |-> s0.cwd,
                target |-> kernel.redirect]
      BY ONLY <3>2, <3>3
    <3>5. PICK s2 : s2 = [s1 EXCEPT !.mounted = device]
      OBVIOUS
    <3>6. s2 = [selected |-> device, mounted |-> device, file |-> s0.file, cwd |-> s0.cwd,
                target |-> kernel.redirect]
      BY ONLY <3>4, <3>5
    <3>7. PICK s3 : s3 = [s2 EXCEPT !.file = Closed]
      OBVIOUS
    <3>8. s3 = [selected |-> device, mounted |-> device, file |-> Closed, cwd |-> s0.cwd,
                target |-> kernel.redirect]
      BY ONLY <3>6, <3>7
    <3>9. TheSession' = [s3 EXCEPT !.cwd = Root]
      BY ONLY <2>4, <3>8
    <3> QED
      BY ONLY <3>1, <3>3, <3>5, <3>7, <3>9
  <2> QED
    BY <1>1, <1>3, <2>3, <2>5 DEF Abstract!Mount, Abstract!Replies, Replies, SUCCESS
<1>4. CASE disk[device] = NoVolume /\ kernel' = kernel /\ Replies(BAD_DEVICE)
  <2>1. fs'.device = NoDevice
    BY <1>4 DEF Mount, Mounted
  <2>2. TheProcess' = TheProcess
    BY <1>1, <1>4, SameProcess
  <2>3. TheSession' = [selected |-> kernel.session, mounted |-> NoDevice, file |-> Closed,
                       cwd |-> kernel.cwd, target |-> kernel.redirect]
    BY <1>1, <1>2, <1>4, <2>1, ViewOfReply
  <2>4. TheSession' = [TheSession EXCEPT !.mounted = NoDevice, !.file = Closed]
    <3>1. PICK s0 : s0 = TheSession
      OBVIOUS
    <3>2. s0 = [selected |-> kernel.session, mounted |-> s0.mounted, file |-> s0.file,
                cwd |-> kernel.cwd, target |-> kernel.redirect]
      BY <1>1, <3>1, ViewOfUser
    <3>3. PICK s1 : s1 = [s0 EXCEPT !.mounted = NoDevice]
      OBVIOUS
    <3>4. s1 = [selected |-> kernel.session, mounted |-> NoDevice, file |-> s0.file,
                cwd |-> kernel.cwd, target |-> kernel.redirect]
      BY ONLY <3>2, <3>3
    <3>5. TheSession' = [s1 EXCEPT !.file = Closed]
      BY ONLY <2>3, <3>4
    <3> QED
      BY ONLY <3>1, <3>3, <3>5
  <2> QED
    BY <1>1, <1>4, <2>2, <2>4 DEF Abstract!Mount, Abstract!Replies, Replies, BAD_DEVICE
<1> QED
  BY <1>3, <1>4 DEF Mount

LEMMA ChdirAbstract ==
  ASSUME IInv, NEW path \in Arguments \cup {Root}, Chdir(path)
  PROVE  Abstract!Chdir(path)
<1>1. /\ mode = "user" /\ mode' = "user" /\ UNCHANGED <<user, video, disk>>
      /\ Abstract!May("fs") /\ ThePower = "on" /\ ThePower' = "on"
      /\ TheSession.mounted = fs.device
  BY MayUse, ViewOfUser, ViewOfReply DEF Chdir, InUser, Replies
<1>2. kernel' = kernel =>
        /\ TheProcess' = TheProcess
        /\ (fs' = fs => TheSession' = TheSession)
        /\ (fs' = Shut => TheSession' = Abstract!Without)
  BY <1>1, SameProcess, SameSession, ShutSession
<1>4. CASE path = BadBuffer /\ Replies(INVALID) /\ UNCHANGED <<kernel, fs>>
  BY <1>1, <1>2, <1>4 DEF Abstract!Chdir, Abstract!Replies, Replies, INVALID
<1>5. CASE /\ path # BadBuffer /\ fs' = Shut /\ fs.device = NoDevice /\ Replies(BAD_DEVICE)
           /\ kernel' = kernel
  BY <1>1, <1>2, <1>5 DEF Abstract!Chdir, Abstract!Replies, Replies, BAD_DEVICE
<1>6. CASE /\ path # BadBuffer /\ fs' = Shut /\ fs.device # NoDevice /\ Replies(NOT_FOUND)
           /\ ~ (path = Root \/ disk[fs.device][path] = Folder) /\ kernel' = kernel
  BY <1>1, <1>2, <1>6 DEF Abstract!Chdir, Abstract!Replies, Replies, NOT_FOUND
<1>3. CASE /\ path # BadBuffer /\ fs' = Shut /\ fs.device # NoDevice /\ Replies(SUCCESS)
           /\ (path = Root \/ disk[fs.device][path] = Folder)
           /\ kernel' = [kernel EXCEPT !.cwd = path]
  <2>1. /\ kernel'.returns = kernel.returns /\ kernel'.session = kernel.session /\ kernel'.cwd = path
        /\ kernel'.redirect = kernel.redirect /\ kernel'.length = kernel.length
    BY <1>3, InvType DEF Words
  <2>2. TheProcess' = TheProcess
    BY <1>1, <2>1, SameProcess
  <2>3. TheSession' = [selected |-> kernel.session, mounted |-> fs.device, file |-> Closed,
                       cwd |-> path, target |-> kernel.redirect]
    BY <1>1, <1>3, <2>1, UserFacts, ViewOfReply
  <2>4. PICK s1 : s1 = Abstract!Without
    OBVIOUS
  <2>5. s1 = [selected |-> kernel.session, mounted |-> fs.device, file |-> Closed,
              cwd |-> kernel.cwd, target |-> kernel.redirect]
    BY <1>1, <2>4, ViewOfUser DEF Abstract!Without
  <2>6. TheSession' = [Abstract!Without EXCEPT !.cwd = path]
    BY ONLY <2>3, <2>4, <2>5
  <2>7. path = Root \/ (path \in Paths /\ disk[fs.device][path] = Folder)
    BY <1>3 DEF Arguments
  <2> QED
    BY <1>1, <1>3, <2>2, <2>6, <2>7 DEF Abstract!Chdir, Abstract!Replies, Replies, SUCCESS
<1> QED
  BY <1>3, <1>4, <1>5, <1>6 DEF Chdir

LEMMA OpenAbstract == ASSUME IInv, NEW path \in Arguments, Open(path) PROVE Abstract!Open(path)
<1> DEFINE volume == TheSession.mounted
           status == OpenStatus(fs.device, path)
<1>1. /\ mode = "user" /\ mode' = "user" /\ UNCHANGED <<kernel, user, video, disk>> /\ result' = status
      /\ Abstract!May("fs") /\ ThePower = "on" /\ ThePower' = "on" /\ volume = fs.device
  BY MayUse, ViewOfUser, ViewOfReply DEF Open, InUser, Replies
<1>2. TheProcess' = TheProcess
  BY <1>1, SameProcess
<1>3. fs \in Mounts /\ Usable(fs) /\ TypeOK
  BY <1>1, InvType, UserFacts
<1>4. CASE status = SUCCESS
  <2>1. Abstract!Present(volume, path) /\ path \in Paths /\ path # Closed
    BY <1>1, <1>3, <1>4, SamePaths, OpenFound, SessionAssumption
  <2>2. path # BadBuffer
    BY <2>1, SessionAssumption
  <2>3. fs'.device = fs.device /\ fs'.file = path
    BY <1>3, <1>4, <2>2 DEF Open, Mounts
  <2>4. TheSession' = [selected |-> kernel.session, mounted |-> fs.device, file |-> <<fs.device, path>>,
                       cwd |-> kernel.cwd, target |-> kernel.redirect]
    BY <1>1, <2>1, <2>3, ViewOfReply
  <2>5. TheSession' = [TheSession EXCEPT !.file = <<volume, path>>]
    BY <1>1, <2>4, ViewOfUser
  <2> QED
    BY <1>1, <1>2, <1>4, <2>1, <2>5 DEF Abstract!Open, Abstract!Replies, SUCCESS
<1>5. CASE status # SUCCESS
  <2>1. Abstract!Missing(volume, path, status)
    BY <1>1, <1>3, <1>5, SamePaths
  <2>2. TheSession' = IF status = 1 THEN TheSession ELSE Abstract!Without
    <3>1. CASE path = BadBuffer
      <4>1. status = 1 /\ fs' = fs
        BY <3>1 DEF Open, OpenStatus, INVALID
      <4> QED
        BY <1>1, <4>1, SameSession
    <3>2. CASE path # BadBuffer
      <4>1. status # 1
        BY <3>2 DEF OpenStatus, BAD_DEVICE, NOT_FOUND, CORRUPT_CHAIN, SUCCESS
      <4>2. fs' = Shut
        BY <1>5, <3>2 DEF Open, Shut
      <4> QED
        BY <1>1, <4>1, <4>2, ShutSession
    <3> QED
      BY <3>1, <3>2
  <2>3. status \in Abstract!Failures
    BY <2>1 DEF Abstract!Missing, Abstract!Failures
  <2> HIDE DEF status
  <2> QED
    BY <1>1, <1>2, <2>1, <2>2, <2>3 DEF Abstract!Open, Abstract!Replies
<1> QED
  BY <1>4, <1>5

LEMMA RedirectAbstract ==
  ASSUME IInv, NEW path \in Arguments, Redirect(path)
  PROVE  Abstract!Redirect(path)
<1> DEFINE volume == TheSession.mounted
           status == OpenStatus(fs.device, path)
<1>1. /\ mode = "user" /\ mode' = "user" /\ UNCHANGED <<fs, user, video, disk>> /\ result' = status
      /\ Abstract!May("fs") /\ ThePower = "on" /\ ThePower' = "on" /\ volume = fs.device
  BY MayUse, ViewOfUser, ViewOfReply DEF Redirect, InUser, Replies
<1>2. fs \in Mounts /\ Usable(fs) /\ TypeOK /\ kernel \in Words
  BY <1>1, InvType, UserFacts
<1>3. CASE status = SUCCESS
  <2>1. Abstract!Present(volume, path)
    BY <1>1, <1>2, <1>3, SamePaths
  <2>2. /\ kernel'.returns = kernel.returns /\ kernel'.session = kernel.session
        /\ kernel'.cwd = kernel.cwd /\ kernel'.length = kernel.length
        /\ kernel'.redirect = <<fs.device, path>>
    BY <1>2, <1>3 DEF Redirect, Words
  <2>3. TheProcess' = TheProcess
    BY <1>1, <2>2, SameProcess
  <2>4. TheSession' = [selected |-> kernel.session, mounted |-> fs.device,
                       file |-> IF fs.file # Closed THEN <<fs.device, fs.file>> ELSE Closed,
                       cwd |-> kernel.cwd, target |-> <<fs.device, path>>]
    BY <1>1, <2>2, ViewOfReply
  <2>5. TheSession' = [TheSession EXCEPT !.target = <<volume, path>>]
    BY <1>1, <2>4, ViewOfUser
  <2> QED
    BY <1>1, <1>3, <2>1, <2>3, <2>5 DEF Abstract!Redirect, Abstract!Replies, SUCCESS
<1>4. CASE status # SUCCESS
  <2>1. Abstract!Missing(volume, path, status)
    BY <1>1, <1>2, <1>4, SamePaths
  <2>2. kernel' = kernel
    BY <1>4 DEF Redirect
  <2>3. UNCHANGED <<TheProcess, TheSession>>
    BY <1>1, <2>2, SameProcess, SameSession
  <2>4. status \in Abstract!Failures
    BY <2>1 DEF Abstract!Missing, Abstract!Failures
  <2> HIDE DEF status
  <2> QED
    BY <1>1, <2>1, <2>3, <2>4 DEF Abstract!Redirect, Abstract!Replies
<1> QED
  BY <1>3, <1>4

LEMMA RedirectOffAbstract == ASSUME IInv, RedirectOff PROVE Abstract!RedirectOff
<1>1. /\ mode = "user" /\ mode' = "user" /\ UNCHANGED <<fs, user, video, disk>> /\ result' = 0
      /\ Abstract!May("fs") /\ ThePower = "on" /\ ThePower' = "on"
  BY MayUse, ViewOfUser, ViewOfReply DEF RedirectOff, InUser, Replies, SUCCESS
<1>2. /\ kernel'.returns = kernel.returns /\ kernel'.session = kernel.session
      /\ kernel'.cwd = kernel.cwd /\ kernel'.length = kernel.length /\ kernel'.redirect = Off
  BY InvType DEF RedirectOff, Words
<1>3. TheProcess' = TheProcess
  BY <1>1, <1>2, SameProcess
<1>4. TheSession' = [selected |-> kernel.session, mounted |-> fs.device,
                     file |-> IF fs.file # Closed THEN <<fs.device, fs.file>> ELSE Closed,
                     cwd |-> kernel.cwd, target |-> Off]
  BY <1>1, <1>2, ViewOfReply
<1>5. TheSession' = [TheSession EXCEPT !.target = Off]
  BY <1>1, <1>4, ViewOfUser
<1> QED
  BY <1>1, <1>3, <1>5 DEF Abstract!RedirectOff, Abstract!Replies

LEMMA VideoAbstract == ASSUME IInv, NEW grants \in BOOLEAN, Video(grants) PROVE Abstract!Video(grants)
<1>1. /\ mode = "user" /\ mode' = "user" /\ UNCHANGED <<kernel, fs, user, disk>> /\ result' = 0
      /\ video' = grants /\ Abstract!May("console") /\ ThePower = "on" /\ ThePower' = "on"
  BY MayUse, ViewOfUser, ViewOfReply DEF Video, InUser, Replies, SUCCESS
<1>2. TheSession' = TheSession
  BY <1>1, SameSession
<1>3. TheProcess' = [program |-> user.program, text |-> user.text,
                     length |-> IF kernel.returns THEN user.length ELSE 0,
                     returns |-> kernel.returns, draws |-> grants]
  BY <1>1, ViewOfReply
<1>4. TheProcess' = [TheProcess EXCEPT !.draws = grants]
  BY <1>1, <1>3, ViewOfUser
<1> QED
  BY <1>1, <1>2, <1>4 DEF Abstract!Video, Abstract!Replies

(* Refusals and services that at most close the file.                      *)
LEMMA QuietAbstract ==
  ASSUME IInv,
         \/ Denied \/ Unsupported \/ CloseFile
         \/ \E status \in Statuses : Look(status)
         \/ \E status \in {SUCCESS, INVALID, BAD_DEVICE, NO_DESCRIPTOR} : Asks(status)
  PROVE  Abstract!Answers \/ \E code \in {0, 2, 3, 4, 5} : Abstract!Look(code)
<1>1. /\ mode = "user" /\ mode' = "user" /\ UNCHANGED <<kernel, user, video, disk>>
      /\ ThePower = "on" /\ ThePower' = "on" /\ TheProcess # Nobody
  BY ViewOfUser, ViewOfReply DEF Denied, Unsupported, CloseFile, Look, Asks, InUser, Replies
<1>2. TheProcess' = TheProcess
  BY <1>1, SameProcess
<1>3. fs' = fs => TheSession' = TheSession
  BY <1>1, SameSession
<1>4. fs' = Shut => TheSession' = Abstract!Without
  BY <1>1, ShutSession
<1>5. CASE Denied \/ Unsupported \/ \E status \in {SUCCESS, INVALID, BAD_DEVICE, NO_DESCRIPTOR} : Asks(status)
  <2>1. fs' = fs /\ result' \in {0, 1, 2, 4, 8, 9}
    BY <1>5 DEF Denied, Unsupported, Asks, Replies, SUCCESS, INVALID, BAD_DEVICE, NO_DESCRIPTOR,
                UNSUPPORTED, PERMISSION
  <2> QED
    BY <1>1, <1>2, <1>3, <2>1 DEF Abstract!Answers, Abstract!Replies, Abstract!Same
<1>6. CASE CloseFile \/ \E status \in Statuses : Look(status)
  <2>1. fs' = Shut /\ InUser("fs") /\ result' \in {0, 2, 3, 4, 5}
    BY <1>6 DEF CloseFile, Look, Replies, SUCCESS, BAD_DEVICE, NOT_FOUND, NO_DESCRIPTOR, CORRUPT_CHAIN
  <2>2. Abstract!May("fs")
    BY <2>1, MayUse
  <2> QED
    BY <1>1, <1>2, <1>4, <2>1, <2>2 DEF Abstract!Look, Abstract!Replies
<1> QED
  BY <1>5, <1>6

LEMMA PutsWhere ==
  ASSUME NEW device, NEW path, NEW content, Becomes(device, path, content)
  PROVE  Abstract!Puts(<<device, path>>, content)
BY DEF Becomes, Abstract!Puts

LEMMA CreateAbstract ==
  ASSUME IInv, NEW path \in Paths,
         Remove(path) \/ \E content \in {Rubbish, Folder} : Create(path, content)
  PROVE  \E content \in {Nothing, Rubbish, Folder} : Abstract!Rename(path, content)
<1>1. /\ mode = "user" /\ mode' = "user" /\ UNCHANGED <<kernel, user, video>> /\ fs' = Shut
      /\ fs.device # NoDevice /\ InUser("fs") /\ result' = 0
  BY DEF Create, Remove, InUser, Replies, SUCCESS
<1>2. /\ ThePower = "on" /\ ThePower' = "on" /\ Abstract!May("fs")
      /\ TheSession.mounted = fs.device
  BY <1>1, MayUse, ViewOfUser, ViewOfReply
<1>3. TheProcess' = TheProcess /\ TheSession' = Abstract!Without
  BY <1>1, SameProcess, ShutSession
<1>4. disk[fs.device] # NoVolume
  BY <1>1, UserFacts DEF Usable
<1>5. CASE Remove(path)
  <2>1. Abstract!Puts(<<TheSession.mounted, path>>, Nothing)
    BY <1>2, <1>5, PutsWhere DEF Remove
  <2>2. Abstract!Present(TheSession.mounted, path) \/ disk[TheSession.mounted][path] = Folder
    BY <1>1, <1>2, <1>4, <1>5 DEF Remove, Abstract!Present
  <2> QED
    BY <1>1, <1>2, <1>3, <2>1, <2>2 DEF Abstract!Rename, Abstract!Replies
<1>6. ASSUME NEW content \in {Rubbish, Folder}, Create(path, content)
      PROVE  Abstract!Rename(path, content)
  <2>1. Abstract!Puts(<<TheSession.mounted, path>>, content)
    BY <1>2, <1>6, PutsWhere DEF Create
  <2>2. content # Nothing /\ disk[TheSession.mounted][path] = Nothing
    BY <1>2, <1>6, SessionAssumption DEF Create
  <2> QED
    BY <1>1, <1>2, <1>3, <2>1, <2>2 DEF Abstract!Rename, Abstract!Replies
<1> QED
  BY <1>5, <1>6

LEMMA WriteAbstract == ASSUME IInv, NEW content \in Writable, Write(content) PROVE Abstract!Write(content)
<1>1. /\ mode = "user" /\ mode' = "user" /\ UNCHANGED <<kernel, fs, user, video>> /\ InUser("fs")
  BY DEF Write, InUser, Replies
<1>2. /\ ThePower = "on" /\ ThePower' = "on" /\ Abstract!May("fs")
      /\ UNCHANGED <<TheProcess, TheSession>>
  BY <1>1, MayUse, ViewOfUser, ViewOfReply, SameProcess, SameSession
<1>3. CASE fs.file = Closed /\ Replies(NO_DESCRIPTOR) /\ disk' = disk
  <2>1. TheSession.file = Closed
    BY <1>1, <1>3, SessionFile
  <2> QED
    BY <1>2, <1>3, <2>1 DEF Abstract!Write, Abstract!Replies, Replies, NO_DESCRIPTOR
<1>4. CASE fs.file # Closed /\ Replies(SUCCESS) /\ Becomes(fs.device, fs.file, content)
  <2>1. TheSession.file # Closed /\ TheSession.file = <<fs.device, fs.file>>
    BY <1>1, <1>4, SessionFile, SessionIs
  <2>2. Abstract!Puts(TheSession.file, content)
    BY <1>4, <2>1, PutsWhere
  <2> QED
    BY <1>2, <1>4, <2>1, <2>2 DEF Abstract!Write, Abstract!Replies, Replies, SUCCESS
<1> QED
  BY <1>3, <1>4 DEF Write

LEMMA PrintAbstract == ASSUME IInv, NEW content \in Writable, PrintText(content) PROVE Abstract!PrintText(content)
<1>1. /\ mode = "user" /\ mode' = "user" /\ UNCHANGED <<kernel, fs, user, video>> /\ InUser("console")
  BY DEF PrintText, InUser, Replies
<1>2. /\ ThePower = "on" /\ ThePower' = "on" /\ Abstract!May("console")
      /\ UNCHANGED <<TheProcess, TheSession>>
      /\ TheSession.target = kernel.redirect /\ TheSession.mounted = fs.device
  BY <1>1, MayUse, ViewOfUser, ViewOfReply, SameProcess, SameSession
<1>3. CASE Replies(SUCCESS) /\ disk' = disk
  BY <1>2, <1>3 DEF Abstract!PrintText, Abstract!Replies, Replies, SUCCESS
<1>4. CASE /\ kernel.redirect # Off /\ kernel.redirect[1] = fs.device /\ Replies(SUCCESS)
           /\ Becomes(fs.device, kernel.redirect[2], content)
  <2>1. kernel.redirect = <<fs.device, kernel.redirect[2]>>
    BY <1>4, InvType DEF Words
  <2>2. Abstract!Puts(TheSession.target, content)
    BY <1>2, <1>4, <2>1, PutsWhere
  <2> QED
    BY <1>2, <1>4, <2>2 DEF Abstract!PrintText, Abstract!Replies, Replies, SUCCESS
<1>5. CASE kernel.redirect # Off /\ kernel.redirect[1] # fs.device /\ Replies(BAD_DEVICE) /\ disk' = disk
  BY <1>2, <1>5 DEF Abstract!PrintText, Abstract!Replies, Replies, BAD_DEVICE
<1> QED
  BY <1>3, <1>4, <1>5 DEF PrintText

LEMMA NextAbstract == IInv /\ [Next]_vars => [Abstract!Next]_Abstract!vars
<1> SUFFICES ASSUME IInv, [Next]_vars PROVE [Abstract!Next]_Abstract!vars
  OBVIOUS
<1>1. CASE PowerOn \/ SoftReset \/ Shutdown
  BY <1>1, PowerAbstract DEF Abstract!Next
<1>2. CASE Entry
  BY <1>2, EntryAbstract DEF Abstract!Next
<1>3. CASE Service
  <2>1. CASE ProcessFinish
    BY <2>1, FinishAbstract DEF Abstract!Next
  <2>2. CASE \/ Denied \/ Unsupported \/ CloseFile
             \/ \E status \in Statuses : Look(status)
             \/ \E status \in {SUCCESS, INVALID, BAD_DEVICE, NO_DESCRIPTOR} : Asks(status)
    BY <2>2, QuietAbstract DEF Abstract!Next
  <2>3. CASE RedirectOff
    BY <2>3, RedirectOffAbstract DEF Abstract!Next
  <2>4. CASE \E path \in Arguments :
               Exec(path) \/ Open(path) \/ Redirect(path) \/ \E text \in Texts : Run(path, text)
    <3>1. PICK path \in Arguments :
            Exec(path) \/ Open(path) \/ Redirect(path) \/ \E text \in Texts : Run(path, text)
      BY <2>4
    <3>2. \/ Abstract!Exec(path) \/ Abstract!Open(path) \/ Abstract!Redirect(path)
          \/ \E text \in Texts : Abstract!Run(path, text)
      BY <3>1, ExecAbstract, OpenAbstract, RedirectAbstract, RunAbstract
    <3> QED
      BY <3>2 DEF Abstract!Next, Arguments
  <2>5. CASE \E path \in Arguments \cup {Root} : Chdir(path)
    <3>1. PICK path \in Arguments \cup {Root} : Abstract!Chdir(path)
      BY <2>5, ChdirAbstract
    <3>2. path \in Paths \cup {BadBuffer, Root}
      BY DEF Arguments
    <3> QED
      BY <3>1, <3>2 DEF Abstract!Next
  <2>6. CASE \E device \in Devices : Mount(device)
    BY <2>6, MountAbstract DEF Abstract!Next
  <2>7. CASE \E path \in Paths :
               Remove(path) \/ \E content \in {Rubbish, Folder} : Create(path, content)
    BY <2>7, CreateAbstract DEF Abstract!Next
  <2>8. CASE \E content \in Writable : Write(content) \/ PrintText(content)
    BY <2>8, WriteAbstract, PrintAbstract DEF Abstract!Next
  <2>9. CASE \E grants \in BOOLEAN : Video(grants)
    BY <2>9, VideoAbstract DEF Abstract!Next
  <2> QED
    BY <1>3, <2>1, <2>2, <2>3, <2>4, <2>5, <2>6, <2>7, <2>8, <2>9 DEF Service
<1>4. CASE UNCHANGED vars
  BY <1>4 DEF vars, Abstract!vars, ThePower, TheProcess, TheSession, Running
<1> QED
  BY <1>1, <1>2, <1>3, <1>4 DEF Next

(* The loader with its staged, pending and left-over words, exec, run, the *)
(* return to init, mounts and resets (kernel.anc216, loader.anc216,        *)
(* syscall_session) run one process after another as Processes promises.   *)
THEOREM SessionRunsProcesses == Spec => ImplementsProcesses
BY InitAbstract, NextAbstract, Invariant, PTL DEF Spec, ImplementsProcesses, Abstract!Spec
=============================================================================
