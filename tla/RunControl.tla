----------------------------- MODULE RunControl -----------------------------
(***************************************************************************)
(* Starting, pausing, stepping and resetting the processor from the        *)
(* debugger: the worker thread of CPU::cycle, the main thread's calls to   *)
(* start, stop, step, run_until, debug_set and load_init_state, and the    *)
(* breakpoint test of execute() (emulator/src/cpu.cc, debug.cc).           *)
(*                                                                         *)
(* The guest is reduced to its program counter, its mode and its stack     *)
(* pointer.  In user mode PC is an offset from the IMEM base.  An          *)
(* instruction may go anywhere; an interrupt at an instruction boundary    *)
(* puts PC at Handler in system mode.                                      *)
(***************************************************************************)
EXTENDS Integers

CONSTANTS
  MAX_MEM,   (* number of words: 65536                                     *)
  Pcs,       (* the values that PC takes in the guest's program            *)
  Base,      (* mtu[0], the lower IMEM bound of user code                  *)
  Handler,   (* the address in the interrupt vectors                       *)
  Sps,       (* the values of SP                                           *)
  CallSize,  (* bytes of a CALL, which `next' steps over: 4                *)
  Batch,     (* ExecutionPacer::batch, instructions between two waits      *)
  None       (* an empty std::optional                                     *)

ASSUME RunAssumption ==
  /\ MAX_MEM \in Nat \ {0} /\ Base \in 0 .. MAX_MEM - 1
  /\ Pcs \subseteq 0 .. MAX_MEM - 1 - Base /\ Handler \in Pcs
  /\ Batch \in Nat \ {0} /\ CallSize \in Nat
  /\ None \notin 0 .. MAX_MEM - 1

VARIABLES
  pc, user, sp,   (* the guest                                             *)
  running, killed,
  breakpoints,    (* addresses of the enabled persistent breakpoints       *)
  hit,            (* CPU::breakpoint_hit                                   *)
  resume,         (* CPU::resume_breakpoint                                *)
  tempPc, tempSp, (* CPU::temporary_pc, CPU::temporary_sp                  *)
  worker,         (* where the worker thread is in cycle()                 *)
  left,           (* instructions left in its batch                        *)
  notified,       (* wake was notified since the worker fell asleep        *)
  main,           (* "idle", or inside wait() of a reset or of the exit    *)
  owed            (* history: the breakpoint that the last start() left    *)
                  (* behind, until its instruction is executed             *)

guest  == <<pc, user, sp>>
points == <<hit, resume, tempPc, tempSp>>
thread == <<worker, left, notified>>
vars   == <<guest, running, killed, breakpoints, points, thread, main, owed>>

Address == Pcs \cup {p + Base : p \in Pcs}

Offset == IF user THEN Base ELSE 0

(* The word an instruction is fetched from (mapped(pc)).                   *)
Physical(p, u) == IF u THEN p + Base ELSE p

TypeOK ==
  /\ pc \in Pcs /\ user \in BOOLEAN /\ sp \in Sps
  /\ running \in BOOLEAN /\ killed \in BOOLEAN
  /\ breakpoints \subseteq Address
  /\ {hit, resume, owed} \subseteq Pcs \cup {None}
  /\ tempPc \in (0 .. MAX_MEM - 1) \cup {None} /\ tempSp \in Sps \cup {None}
  /\ worker \in {"none", "new", "top", "asleep", "batch", "pacing", "done"}
  /\ left \in 0 .. Batch /\ notified \in BOOLEAN
  /\ main \in {"idle", "resetting", "exiting", "gone"}

(* The constructor: paused at the boot ROM, in system mode, no worker yet. *)
Init ==
  /\ pc = Handler /\ user = FALSE /\ sp \in Sps
  /\ running = FALSE /\ killed = FALSE
  /\ breakpoints = {}
  /\ hit = None /\ resume = None /\ tempPc = None /\ tempSp = None
  /\ worker = "none" /\ left = 0 /\ notified = FALSE
  /\ main = "idle" /\ owed = None
-----------------------------------------------------------------------------
(* execute().  The boundary may enter an interrupt handler, on the system  *)
(* stack, before the breakpoints are looked at.                            *)

AtBoundary(p, u, s) ==
  (p = pc /\ u = user /\ s = sp) \/ (p = Handler /\ ~ u /\ s \in Sps)

(* Breakpoints are looked up by PC, in user mode too.                      *)
Persistent(p)   == p \in breakpoints /\ resume # p
Temporary(p, s) == tempPc = p /\ tempSp \in {None, s}

(* A hit stops the processor; only a temporary hit disarms the target.     *)
Hit(p, u, s) ==
  /\ Persistent(p) \/ Temporary(p, s)
  /\ pc' = p /\ user' = u /\ sp' = s
  /\ running' = FALSE /\ hit' = p
  /\ IF Temporary(p, s) THEN tempPc' = None /\ tempSp' = None
                        ELSE UNCHANGED <<tempPc, tempSp>>
  /\ UNCHANGED <<killed, breakpoints, resume, owed>>

(* What the instruction at p does to the guest: it may jump, change SP,    *)
(* leave system mode, trap into the handler, or kill the processor.        *)
Effect(u) ==
  /\ pc' \in Pcs /\ sp' \in Sps /\ user' \in BOOLEAN
  /\ killed' \in BOOLEAN
  /\ u /\ ~ user' /\ ~ killed' => pc' = Handler

(* Wrong on purpose (mutant): the licence to pass a breakpoint outlives    *)
(* the instruction it was meant for.                                       *)
InstructionKeepsResume(p, u) ==
  /\ Effect(u)
  /\ running' \in IF killed' THEN {FALSE, running} ELSE {running}
  /\ UNCHANGED resume
  /\ owed' = IF p = owed THEN None ELSE owed

Instruction(p, u) ==
  /\ Effect(u)
  /\ running' \in IF killed' THEN {FALSE, running} ELSE {running}
  /\ resume' = None
  /\ owed' = IF p = owed THEN None ELSE owed
-----------------------------------------------------------------------------
(* The worker thread, CPU::cycle.  It holds the mutex in "top" and         *)
(* "batch"; the two waits release it, and a new thread has yet to take it. *)
LockFree == worker \notin {"top", "batch"}

WorkerTop ==
  /\ worker \in {"new", "top"}
  /\ worker' = CASE killed                -> "done"
                 [] running /\ ~ killed    -> "batch"
                 [] OTHER                  -> "asleep"
  /\ left' = IF worker' = "batch" THEN Batch ELSE left
  /\ notified' = FALSE
  /\ UNCHANGED <<guest, running, killed, breakpoints, points, main, owed>>

(* wake.wait: a notification lets the thread take the mutex again and test *)
(* its predicate.                                                          *)
WorkerWakes ==
  /\ worker = "asleep" /\ notified
  /\ worker' = "top" /\ notified' = FALSE
  /\ UNCHANGED <<guest, running, killed, breakpoints, points, left, main, owed>>

WorkerBatchEnds ==
  /\ worker = "batch" /\ (left = 0 \/ ~ running \/ killed)
  /\ worker' = IF running /\ ~ killed THEN "pacing" ELSE "top"
  /\ UNCHANGED <<guest, running, killed, breakpoints, points, left, notified, main, owed>>

(* wake.wait_for and wait_until: the deadline passes, or the predicate     *)
(* holds at a notification.                                                *)
WorkerPaced ==
  /\ worker = "pacing"
  /\ worker' = "top"
  /\ UNCHANGED <<guest, running, killed, breakpoints, points, left, notified, main, owed>>

WorkerTurn == /\ worker = "batch" /\ left > 0 /\ running /\ ~ killed
              /\ left' = left - 1
              /\ UNCHANGED <<worker, notified, main>>

WorkerHits(p, u, s) ==
  WorkerTurn /\ AtBoundary(p, u, s) /\ Hit(p, u, s)

WorkerExecutes(p, u, s) ==
  /\ WorkerTurn /\ AtBoundary(p, u, s) /\ ~ Persistent(p) /\ ~ Temporary(p, s)
  /\ Instruction(p, u)
  /\ UNCHANGED <<breakpoints, hit, tempPc, tempSp>>

(* An interrupt or a pin for which no handler is installed.                *)
WorkerKilled ==
  /\ WorkerTurn
  /\ killed' = TRUE /\ running' \in {FALSE, running}
  /\ UNCHANGED <<guest, breakpoints, points, owed>>

Worker == \/ WorkerTop \/ WorkerWakes \/ WorkerBatchEnds \/ WorkerPaced
          \/ \E p \in Pcs, u \in BOOLEAN, s \in Sps :
               WorkerHits(p, u, s) \/ WorkerExecutes(p, u, s)
          \/ WorkerKilled
-----------------------------------------------------------------------------
(* The main thread.  Each call takes the mutex once.                       *)
Command == main = "idle" /\ LockFree

(* CPU::start.  The worker is created by the first call after a reset.     *)
(* Wrong on purpose (mutant): only a new worker is told.                   *)
StartThreadQuietly == /\ worker' = IF worker = "none" THEN "new" ELSE worker
                      /\ UNCHANGED <<left, notified>>

StartThread == /\ worker' = IF worker = "none" THEN "new" ELSE worker
               /\ notified' = TRUE
               /\ UNCHANGED left

StartWith(address, stack) ==
  /\ tempPc' = address /\ tempSp' = stack
  /\ IF killed
     THEN UNCHANGED <<running, hit, resume, owed, thread>>
     ELSE /\ IF running
             THEN UNCHANGED <<hit, resume, owed>>
             ELSE resume' = hit /\ hit' = None /\ owed' = hit
          /\ running' = TRUE
          /\ StartThread
  /\ UNCHANGED <<guest, killed, breakpoints, main>>

Start == Command /\ StartWith(tempPc, tempSp)

(* CPU::run_until takes the base off, as for a physical address; the       *)
(* mutant, wrong on purpose, without wrapping to 16 bits.                  *)
RunUntilUnwrapped(address, stack) == StartWith(address - Offset, stack)

RunUntil(address, stack) ==
  StartWith((address - Offset) % MAX_MEM, stack)

(* The commands call stop() first; nothing of theirs runs in between.      *)
Until == \E address \in Address :
  Command /\ ~ running /\ RunUntil(address, None)

NextOverCall ==
  Command /\ ~ running /\ RunUntil(pc + CallSize, sp)

(* The return address that RET will pop, and SP after it.                  *)
Finish == \E address \in Pcs, stack \in Sps :
  Command /\ ~ running /\ RunUntil(address, stack)

Stop ==
  /\ Command
  /\ running' = FALSE /\ tempPc' = None /\ tempSp' = None
  /\ UNCHANGED <<guest, killed, breakpoints, hit, resume, thread, main, owed>>

(* CPU::step executes in the main thread, whatever the breakpoints.        *)
Step ==
  /\ Command
  /\ hit' = None /\ tempPc' = None /\ tempSp' = None
  /\ IF killed
     THEN /\ running' = FALSE /\ resume' = None
          /\ UNCHANGED <<guest, killed, owed>>
     ELSE /\ running' = FALSE /\ resume' = None /\ owed' = None
          /\ \E p \in Pcs, u \in BOOLEAN : (\E s \in Sps : AtBoundary(p, u, s)) /\ Effect(u)
  /\ UNCHANGED <<breakpoints, thread, main>>

(* CPU::debug_set.                                                         *)
EditRegister ==
  \/ pc' \in Pcs /\ UNCHANGED <<user, sp>>
  \/ sp' \in Sps /\ UNCHANGED <<pc, user>>
  \/ user' \in BOOLEAN /\ UNCHANGED <<pc, sp>>

DebugSet ==
  /\ Command /\ EditRegister
  /\ running' = FALSE
  /\ hit' = IF hit # pc' THEN None ELSE hit
  /\ resume' = None /\ tempPc' = None /\ tempSp' = None /\ owed' = None
  /\ UNCHANGED <<killed, breakpoints, thread, main>>

SetBreakpoint == \E a \in Address :
  /\ Command
  /\ breakpoints' = breakpoints \cup {a}
  /\ UNCHANGED <<guest, running, killed, points, thread, main, owed>>

RemoveBreakpoint == \E a \in breakpoints :
  /\ Command
  /\ breakpoints' = breakpoints \ {a}
  /\ UNCHANGED <<guest, running, killed, points, thread, main, owed>>

(* CPU::shutdown, the first half of load_init_state and of leaving the     *)
(* console.  The mutant, wrong on purpose, does not wake the worker.       *)
ShutdownQuietly(then) ==
  /\ Command
  /\ killed' = TRUE /\ running' = FALSE
  /\ main' = then
  /\ UNCHANGED <<guest, breakpoints, points, thread, owed>>

Shutdown(then) ==
  /\ Command
  /\ killed' = TRUE /\ running' = FALSE /\ notified' = TRUE
  /\ main' = then
  /\ UNCHANGED <<guest, breakpoints, points, worker, left, owed>>

Reset == Shutdown("resetting")
Quit  == Shutdown("exiting")

(* CPU::wait returns when the worker has ended, or never existed.          *)
Joined == worker \in {"none", "done"}

ResetEnds ==
  /\ main = "resetting" /\ Joined
  /\ main' = "idle" /\ worker' = "none" /\ killed' = FALSE /\ running' = FALSE
  /\ pc' = Handler /\ user' = FALSE /\ sp' \in Sps
  /\ hit' = None /\ resume' = None /\ tempPc' = None /\ tempSp' = None
  /\ owed' = None
  /\ UNCHANGED <<breakpoints, left, notified>>

QuitEnds ==
  /\ main = "exiting" /\ Joined
  /\ main' = "gone"
  /\ UNCHANGED <<guest, running, killed, breakpoints, points, thread, owed>>

MainEnds == ResetEnds \/ QuitEnds

Next == \/ Worker \/ MainEnds
        \/ Start \/ Until \/ NextOverCall \/ Finish \/ Stop \/ Step \/ DebugSet
        \/ SetBreakpoint \/ RemoveBreakpoint \/ Reset \/ Quit

Spec == Init /\ [][Next]_vars

(* The operating system schedules both threads; the mutex is free whenever *)
(* main ends a wait.  Nothing obliges the user to type a command.          *)
FairSpec == Spec /\ WF_vars(Worker) /\ WF_vars(MainEnds)
-----------------------------------------------------------------------------
(* Breakpoints stop before execution, in system mode, where PC is the      *)
(* physical address a breakpoint names (cpu.cc:395): an instruction the    *)
(* worker executes at an enabled breakpoint is the one at the PC that the  *)
(* user has just continued from.  An edit, a step or a reset in between    *)
(* must not leave a licence to run past the breakpoint behind.  Of user    *)
(* code it is not true: see StopsAtPhysical in MCRun.                      *)
NeverRunsPast ==
  [][\A p \in Pcs, u \in BOOLEAN, s \in Sps :
       WorkerExecutes(p, u, s) /\ ~ u /\ Physical(p, u) \in breakpoints => owed = p]_vars

(* A reset or an exit waits for the worker and always gets it, whether the *)
(* worker sleeps, paces, executes, has been killed by a single step of the *)
(* main thread, or was never created.                                      *)
JoinReturns == main \in {"resetting", "exiting"} ~> main \in {"idle", "gone"}

(* A started processor gets a turn, however the start falls relative to    *)
(* the worker's decision to sleep.  (A key delivered on an invalid system  *)
(* stack kills the processor and leaves running set.)                      *)
StartedRuns == running ~> (worker = "batch" \/ ~ running \/ killed)
=============================================================================
