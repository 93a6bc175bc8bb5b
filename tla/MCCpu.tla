-------------------------------- MODULE MCCpu --------------------------------
(* Small machines for TLC.  The layout keeps the order of the real one: the *)
(* vectors, the system stack, the two context slots, the user program and   *)
(* its stack, the boot ROM.                                                 *)
EXTENDS Cpu

VARIABLES
  ctx,      (* history: the registers when the last instruction ended       *)
  entries   (* history: vectors entered since then                          *)

mcvars == <<vars, ctx, entries>>

Context(s) == [pc |-> s.pc, sp |-> s.sp, bp |-> s.bp, sr |-> s.sr]

SystemArea == SYS_LO .. SLOT_SP + 1

(* ops[1] at address a, ops[2] two bytes further, and so on.               *)
Place(a, ops) ==
  [x \in Word |-> IF x >= a /\ x < a + 2 * Len(ops) /\ (x - a) % 2 = 0
                  THEN ops[(x - a) \div 2 + 1] ELSE {}]
Beside(p, q) == [x \in Word |-> p[x] \cup q[x]]
UserBase == SLOT_SP + 2

(* A user program and its stack fit between the slots and the ROM.         *)
UserEnd == SLOT_SP + 7
ASSUME RoomAssumption == UserEnd < ROM_ADDR

(* The state in which a program gets the processor: the MTU confines it to *)
(* the bytes from after the slots to a limit, its stack to those from an   *)
(* offset on, and SP is that offset.  The kernel's limit is the last byte  *)
(* below the ROM.                                                          *)
UserMtu(offset, limit) == [b \in Bounds |->
  CASE b = "ilo" -> UserBase     [] b = "ihi" -> limit
    [] b = "elo" -> 0            [] b = "ehi" -> 1
    [] b = "slo" -> UserBase + offset  [] b = "shi" -> limit]

Handed(sr, offset, limit) ==
  [pc |-> 0, sp |-> offset, bp |-> offset, sr |-> sr,
   mtu |-> UserMtu(offset, limit), mem |-> [a \in Tracked |-> Opaque]]
HandOff == {<<Handed(sr, 4, ROM_ADDR - 1), TRUE>> : sr \in {{}, {"I", "T"}}}

(* Firmware may set other limits: one that leaves memory between the       *)
(* program and the ROM, and one that reaches into the ROM, so that each    *)
(* check of an address is in turn the only one that refuses it.  The stack *)
(* is the last two bytes.                                                  *)
Confinements ==
  {<<Handed({"I", "T"}, limit - 1 - UserBase, limit), TRUE>>
     : limit \in {UserEnd, ROM_ADDR}}

(* One of the starts: registers and memory, and whether the timer runs.    *)
StartAt(starts) ==
  /\ \E s \in starts : m = s[1] /\ timerOn = s[2]
  /\ killed = FALSE /\ resetReq = FALSE /\ shutReq = FALSE
  /\ stage = "pins"
  /\ ctx = Context(m) /\ entries = 0

EntersVector == /\ stage # "exec" /\ m' # m
                /\ ~ (shutReq /\ ~ shutReq')

History ==
  IF stage = "exec"
  THEN ctx' = Context(m') /\ entries' = 0
  ELSE /\ ctx' = ctx
       /\ entries' = entries + IF EntersVector THEN 1 ELSE 0

MCNext == Next /\ History
PowerUp == {<<PowerOn, FALSE>>}
UserNext == Next /\ UNCHANGED <<ctx, entries>>
UserSpec == StartAt(Confinements) /\ [][UserNext]_mcvars
MCSpec == StartAt(PowerUp \cup HandOff) /\ [][MCNext]_mcvars
FairMCSpec == MCSpec /\ WF_mcvars(Boundary /\ History)
                     /\ WF_mcvars(Execute /\ History)

(* When a handler's first instruction is fetched, the slots and the frame  *)
(* hold the context of the program the boundary interrupted, whichever of  *)
(* the reset pin, the key and the timer were pending together: the entry   *)
(* masks the others, so that they cannot overwrite the only save area.     *)
HandlerSeesContext ==
  stage = "exec" /\ ~ killed /\ entries > 0 =>
    /\ entries = 1
    /\ Holds(m.mem, SLOT_SP, ctx.sp) /\ Holds(m.mem, SLOT_BP, ctx.bp)
    /\ \E width \in {3, 4, 8} :
         /\ Holds(m.mem, m.sp - width, ctx.pc)
         /\ m.mem[m.sp - width + 2] = Status(ctx.sr)

(* A handler that idles, in the ROM behind the first boot instruction.     *)
Idle == Place(ROM_ADDR + 2, <<{"jmp"}>>)

(* User code that does everything it may.                                  *)
UserProgram == Beside(Place(UserBase, <<Unprivileged, Unprivileged \cup {"kill"}>>), Idle)

(* A user program that takes interrupts of every kind; firmware that        *)
(* switches flags, MTU bounds, timer and pins.                             *)
TrapProgram ==
  Beside(Beside(Place(UserBase, <<{"syscall", "req", "alu"}, {"kill", "jmp"}>>), Idle),
         Place(ROM_ADDR, <<Privileged \cup {"jmp"}>>))

(* A requested reset is taken, or the processor stops, whatever the guest  *)
(* masks: the pins are sampled before every instruction.                   *)
ResetServed == resetReq ~> (~ resetReq \/ killed)

(* doc/IMPLEMENTATION.md, the timer: "Expiry invokes vector 0x0008 when T   *)
(* is enabled."  A reset or a key taken at the same boundary masks T before *)
(* the timer is examined; the expiry is then consumed and never delivered.  *)
TimerExpiryDelivered ==
  [][stage = "timer" /\ ~ killed /\ timerOn /\ ~ timerOn' /\ "T" \in ctx.sr =>
       m' # m \/ killed']_mcvars
=============================================================================
