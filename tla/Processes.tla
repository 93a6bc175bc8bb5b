----------------------------- MODULE Processes ------------------------------
(***************************************************************************)
(* What the kernel promises the programs about running them: one program   *)
(* at a time, with the permissions of its own header; run hands over the   *)
(* arguments and comes back to init, exec does neither; a launch that      *)
(* fails leaves the caller running, although it may have replaced or       *)
(* closed its file; the session's volume, directory and redirection        *)
(* outlive programs and nothing else does.                                 *)
(*                                                                         *)
(*   power    off, starting, or on                                         *)
(*   process  the running program: what it found at the argument pointer   *)
(*            and the length of the arguments run handed it, whether its   *)
(*            end brings init back, and whether it may draw; or Nobody     *)
(*   session  the selected volume, the mounted one (that one, or none      *)
(*            after a failed mount), the open file, the directory and the  *)
(*            redirection                                                  *)
(***************************************************************************)
EXTENDS Naturals, Sequences

CONSTANTS Devices, Boot, Paths, InitPath, Programs, Disks, Volatile, Writable, Texts, Capacity,
          NoDevice, NoVolume, Closed, Off, Root, BadBuffer, Nothing, Folder, Rubbish, Damaged,
          Cleared, Nobody

VARIABLES power, process, session, disk, status

vars == <<power, process, session, disk, status>>

NewSession == [selected |-> Boot, mounted |-> Boot, file |-> Closed, cwd |-> Root,
               target |-> Off]

Init ==
  power = "off" /\ process = Nobody /\ session = NewSession /\ disk \in Disks /\ status = 0
-----------------------------------------------------------------------------
May(permission) == process # Nobody /\ permission \in process.program.flags

Replies(code) == status' = code /\ power' = power
Same    == UNCHANGED <<process, session, disk>>
Without == [session EXCEPT !.file = Closed]

(* What a path names on a volume, and why it cannot be opened or started.  *)
Present(volume, path) ==
  /\ path \in Paths /\ volume # NoDevice /\ disk[volume] # NoVolume
  /\ disk[volume][path] \notin {Nothing, Folder, Damaged}
Spoilt(volume, path) ==
  /\ path \in Paths /\ volume # NoDevice /\ disk[volume] # NoVolume
  /\ disk[volume][path] = Damaged
Runnable(volume, path) ==
  Present(volume, path) /\ disk[volume][path] \in Programs /\ disk[volume][path].sound
Missing(volume, path, code) ==
  \/ path = BadBuffer /\ code = 1
  \/ path # BadBuffer /\ volume = NoDevice /\ code = 2
  \/ path # BadBuffer /\ Spoilt(volume, path) /\ code = 5
  \/ /\ path # BadBuffer /\ volume # NoDevice /\ code = 3
     /\ ~ Present(volume, path) /\ ~ Spoilt(volume, path)
Failures == {1, 2, 3, 5}

(* A program takes over: no file, no display, the session's volume.        *)
Starts(program, text, length, returns) ==
  /\ process' = [program |-> program, text |-> text, length |-> length,
                 returns |-> returns, draws |-> FALSE]
  /\ session' = [session EXCEPT !.file = Closed, !.mounted = session.selected]
  /\ status' = 0 /\ disk' = disk

(* Init from the boot volume, or an idle machine if there is none.         *)
Stops == process' = Nobody /\ session' = NewSession /\ UNCHANGED <<status, disk>>
StartsInit ==
  \/ Runnable(Boot, InitPath) /\ Starts(disk[Boot][InitPath], Cleared, 0, FALSE)
  \/ ~ Runnable(Boot, InitPath) /\ Stops

PowerOn == power = "off" /\ power' = "starting" /\ Same /\ status' = status
Start   == power = "starting" /\ power' = "on" /\ StartsInit
Reset   == power # "off" /\ power' = "starting" /\ Stops
PowerOff ==
  /\ power # "off" /\ power' = "off" /\ process' = Nobody /\ session' = NewSession
  /\ status' = 0 /\ disk' = disk

(* Exit and faults: only what run started brings init back.                *)
End ==
  /\ process # Nobody /\ power' = power
  /\ IF process.returns THEN StartsInit ELSE Stops
-----------------------------------------------------------------------------
(* Refusals, and services that only look at what is there.                 *)
Answers == process # Nobody /\ (\E code \in {0, 1, 2, 4, 8, 9} : Replies(code)) /\ Same

(* exec hands over nothing.  A failure leaves the caller running (from     *)
(* os/SYSCALLS.md: it preserves the caller), but opening the program has   *)
(* taken the one descriptor there is (opening replaces it): a rejected     *)
(* file stays open, and a path without a file leaves none.                 *)
Exec(path) ==
  LET volume == session.mounted IN
  /\ May("fs") /\ power' = power
  /\ \/ Runnable(volume, path) /\ Starts(disk[volume][path], Cleared, 0, FALSE)
     \/ /\ Present(volume, path) /\ ~ Runnable(volume, path) /\ Replies(7)
        /\ session' = [session EXCEPT !.file = <<volume, path>>] /\ UNCHANGED <<process, disk>>
     \/ \E code \in Failures :
          /\ Missing(volume, path, code) /\ Replies(code) /\ UNCHANGED <<process, disk>>
          /\ session' = IF code = 1 THEN session ELSE Without

(* run: from the boot volume, which a running program can count on.  A     *)
(* failure leaves the caller its volume, but not its file.                 *)
Run(path, text) ==
  /\ May("fs") /\ power' = power
  /\ \/ Len(text) >= Capacity /\ Replies(1) /\ Same
     \/ Len(text) < Capacity /\ Runnable(Boot, path)
        /\ Starts(disk[Boot][path], text, Len(text), TRUE)
     \/ /\ Len(text) < Capacity /\ ~ Runnable(Boot, path) /\ UNCHANGED <<process, disk>>
        /\ session' = [session EXCEPT !.file = Closed, !.mounted = session.selected]
        /\ \E code \in {1, 3, 5, 7} : Replies(code) /\
             IF code = 7 THEN Present(Boot, path) ELSE Missing(Boot, path, code)

Mount(device) ==
  /\ May("fs") /\ UNCHANGED <<process, disk>>
  /\ \/ /\ disk[device] # NoVolume /\ Replies(0)
        /\ session' = [session EXCEPT !.selected = device, !.mounted = device, !.file = Closed,
                                      !.cwd = Root]
     \/ /\ disk[device] = NoVolume /\ Replies(2)
        /\ session' = [session EXCEPT !.mounted = NoDevice, !.file = Closed]

Chdir(path) ==
  LET volume == session.mounted
      there  == path = Root \/ (path \in Paths /\ disk[volume][path] = Folder) IN
  /\ May("fs") /\ UNCHANGED <<process, disk>>
  /\ \/ path = BadBuffer /\ Replies(1) /\ session' = session
     \/ path # BadBuffer /\ volume = NoDevice /\ Replies(2) /\ session' = Without
     \/ /\ path # BadBuffer /\ volume # NoDevice
        /\ \/ there /\ Replies(0) /\ session' = [Without EXCEPT !.cwd = path]
           \/ ~ there /\ Replies(3) /\ session' = Without

Open(path) ==
  LET volume == session.mounted IN
  /\ May("fs") /\ UNCHANGED <<process, disk>>
  /\ \/ /\ Present(volume, path) /\ Replies(0)
        /\ session' = [session EXCEPT !.file = <<volume, path>>]
     \/ \E code \in Failures :
          /\ Missing(volume, path, code) /\ Replies(code)
          /\ session' = IF code = 1 THEN session ELSE Without

(* Everything that leaves the file closed.                                 *)
Look(code) == May("fs") /\ Replies(code) /\ session' = Without /\ UNCHANGED <<process, disk>>

Puts(place, content) == place \in Volatile /\ disk' = [disk EXCEPT ![place[1]][place[2]] = content]

Write(content) ==
  /\ May("fs") /\ UNCHANGED <<process, session>>
  /\ \/ session.file = Closed /\ Replies(4) /\ disk' = disk
     \/ session.file # Closed /\ Replies(0) /\ Puts(session.file, content)

Rename(path, content) ==
  /\ May("fs") /\ session.mounted # NoDevice /\ Replies(0)
  /\ Puts(<<session.mounted, path>>, content) /\ session' = Without /\ process' = process
  /\ IF content = Nothing THEN Present(session.mounted, path) \/ disk[session.mounted][path] = Folder
     ELSE disk[session.mounted][path] = Nothing

Video(grants) ==
  /\ May("console") /\ Replies(0) /\ process' = [process EXCEPT !.draws = grants]
  /\ UNCHANGED <<session, disk>>

Redirect(path) ==
  LET volume == session.mounted IN
  /\ May("fs") /\ UNCHANGED <<process, disk>>
  /\ \/ Present(volume, path) /\ Replies(0) /\ session' = [session EXCEPT !.target = <<volume, path>>]
     \/ (\E code \in Failures : Missing(volume, path, code) /\ Replies(code)) /\ session' = session
RedirectOff ==
  May("fs") /\ Replies(0) /\ session' = [session EXCEPT !.target = Off] /\ UNCHANGED <<process, disk>>

(* Printing goes to the display, or to the redirection's file while the    *)
(* volume it is on is mounted, whoever prints.                             *)
PrintText(content) ==
  /\ May("console") /\ UNCHANGED <<process, session>>
  /\ \/ Replies(0) /\ disk' = disk
     \/ /\ session.target # Off
        /\ IF session.target[1] = session.mounted THEN Replies(0) /\ Puts(session.target, content)
           ELSE Replies(2) /\ disk' = disk

Next ==
  \/ PowerOn \/ Start \/ Reset \/ PowerOff \/ End \/ Answers \/ RedirectOff
  \/ \E path \in Paths \cup {BadBuffer} :
       Exec(path) \/ Open(path) \/ Redirect(path) \/ \E text \in Texts : Run(path, text)
  \/ \E path \in Paths \cup {BadBuffer, Root} : Chdir(path)
  \/ \E device \in Devices : Mount(device)
  \/ \E code \in {0, 2, 3, 4, 5} : Look(code)
  \/ \E path \in Paths, content \in {Nothing, Rubbish, Folder} : Rename(path, content)
  \/ \E content \in Writable : Write(content) \/ PrintText(content)
  \/ \E grants \in BOOLEAN : Video(grants)

Spec == Init /\ [][Next]_vars
=============================================================================
