--------------------------------- MODULE Cpu ---------------------------------
(***************************************************************************)
(* The instruction cycle of the emulated processor: CPU::execute with the  *)
(* control pins, the keyboard interrupt and the timer it samples at every  *)
(* instruction boundary, and one action for each kind of instruction.      *)
(*                                                                         *)
(* execute() holds the processor's mutex from beginning to end; the        *)
(* variable stage splits it where its parts follow each other, and the     *)
(* host threads, which take the same mutex to request a pin, act only when *)
(* stage is "pins".  The guest program is a set of possible instructions   *)
(* for each address, with any operand of Data.  Registers R0..R7 and the   *)
(* flags N, O, A, Z and C are data: a conditional jump may go either way.  *)
(***************************************************************************)
EXTENDS Machine

CONSTANTS
  Program,  (* the instructions that may stand at a physical address; an   *)
            (* address without any holds no valid encoding                 *)
  Sizes     (* how many operand bytes may follow the two-byte header       *)

VARIABLES
  m,         (* registers, MTU and memory: see module Machine              *)
  killed,    (* CPU::killed: the processor has stopped for good            *)
  resetReq,  (* CPU::reset_requested, the soft-reset pin                   *)
  shutReq,   (* CPU::shutdown_requested, the shutdown pin                  *)
  timerOn,   (* CPU::timer_running                                         *)
  stage      (* the part of execute() that runs next                       *)

vars == <<m, killed, resetReq, shutReq, timerOn, stage>>

(* The opcodes that common/encoding.hh marks as privileged, and the rest.  *)
(* Instructions that differ only in data share a name: "jmp" is any jump,  *)
(* "alu" arithmetic, logic and transfers between registers, "load" any of  *)
(* these with a memory operand, "smtu" sets an MTU bound, and "pareq" is   *)
(* CAREQ too.                                                              *)
Privileged == {"kill", "reset", "seti", "sett", "sets", "clri", "clrt", "clrs",
               "hreq", "hwrite", "pareq", "smtu", "lcpid", "time", "tstart", "tstop"}
Unprivileged == {"syscall", "call", "ret", "push", "pop", "phpc", "popc",
                 "phsr", "posr", "phsp", "posp", "phbp", "pobp", "jmp", "alu",
                 "load", "store", "ldsr", "ldsp", "ldbp", "stsr", "stsp",
                 "stbp", "req", "read", "write"}

ASSUME ProgramAssumption ==
  /\ Program \in [Word -> SUBSET (Privileged \cup Unprivileged)]
  /\ Sizes \subseteq 0 .. 4

Stages == {"pins", "keys", "timer", "exec"}

TypeOK ==
  /\ m \in State
  /\ killed \in BOOLEAN /\ resetReq \in BOOLEAN /\ shutReq \in BOOLEAN
  /\ timerOn \in BOOLEAN
  /\ stage \in Stages

(* CPU::load_init_state: the state after power-on and after a hard reset.  *)
PowerOnMtu == [b \in Bounds |->
  CASE b = "ilo" -> 0            [] b = "ihi" -> ROM_ADDR - 1
    [] b = "elo" -> 0            [] b = "ehi" -> MAX_MEM - 1
    [] b = "slo" -> SLOT_SP + 2  [] b = "shi" -> ROM_ADDR - 1]

PowerOn == [pc |-> ROM_ADDR, sp |-> SYS_LO, bp |-> SYS_LO, sr |-> Flags,
            mtu |-> PowerOnMtu,
            mem |-> PokeAll([a \in Tracked |-> Opaque], SSP, Halves(SYS_LO))]

Init ==
  /\ m = PowerOn
  /\ killed = FALSE /\ resetReq = FALSE /\ shutReq = FALSE /\ timerOn = FALSE
  /\ stage = "pins"
-----------------------------------------------------------------------------
(* CPU::interrupt on the state `from', through a vector that holds target. *)
(* A missing handler stops the processor before anything is saved; a bad   *)
(* system SP is found after the slots are written, SR and BP are replaced. *)

EnterAt(from, target, registers, next, aborted) ==
  IF target = 0
  THEN m' = from /\ killed' = TRUE /\ stage' = next
  ELSE \E ssp \in WordAt(SaveSlots(from.mem, from.sp, from.bp), SSP) :
         IF SspValid(ssp)
         THEN /\ m' = Interrupt(from, target, ssp, registers)
              /\ stage' = next
              /\ UNCHANGED killed
         ELSE /\ m' = EnterSystem(from, ssp)
              /\ killed' = TRUE
              /\ stage' = aborted

Enter(from, vector, registers, next) ==
  \E target \in WordAt(from.mem, vector) :
    EnterAt(from, target, registers, next, "pins")
-----------------------------------------------------------------------------
(* The host's pins.                                                        *)

RequestReset ==
  /\ stage = "pins" /\ resetReq' = TRUE
  /\ UNCHANGED <<m, killed, shutReq, timerOn, stage>>

RequestShutdown ==
  /\ stage = "pins" /\ shutReq' = TRUE
  /\ UNCHANGED <<m, killed, resetReq, timerOn, stage>>

(* The pins come first, shutdown before reset.  Shutdown builds no frame.  *)
ShutdownPin ==
  /\ stage = "pins" /\ ~ killed /\ shutReq
  /\ shutReq' = FALSE /\ resetReq' = FALSE
  /\ \E target \in WordAt(m.mem, VEC_SHUTDOWN) :
       IF target = 0
       THEN killed' = TRUE /\ stage' = "pins" /\ UNCHANGED m
       ELSE /\ m' = [m EXCEPT !.sr = (@ \cup {"S"}) \ {"I", "T"}, !.pc = target]
            /\ stage' = "keys"
            /\ UNCHANGED killed
  /\ UNCHANGED timerOn

(* Wrong on purpose (mutant): I masks the reset pin.                       *)
ResetPinMasked ==
  /\ stage = "pins" /\ ~ killed /\ ~ shutReq /\ resetReq
  /\ IF "I" \in m.sr
     THEN resetReq' = FALSE /\ Enter(m, VEC_NMI, NmiRegisters, "keys")
     ELSE resetReq' = resetReq /\ stage' = "keys" /\ UNCHANGED <<m, killed>>
  /\ UNCHANGED <<shutReq, timerOn>>

ResetPin ==
  /\ stage = "pins" /\ ~ killed /\ ~ shutReq /\ resetReq
  /\ resetReq' = FALSE
  /\ Enter(m, VEC_NMI, NmiRegisters, "keys")
  /\ UNCHANGED <<shutReq, timerOn>>

NoPin ==
  /\ stage = "pins" /\ ~ killed /\ ~ shutReq /\ ~ resetReq
  /\ stage' = "keys"
  /\ UNCHANGED <<m, killed, resetReq, shutReq, timerOn>>

(* EmemMapper::pump_keyboard: a queued key is delivered through CPU::einr  *)
(* when I is set and a handler is installed (module Keyboard has the       *)
(* queue).  einr swallows an invalid system SP, so execute() goes on.      *)
KeyIrq ==
  /\ stage = "keys" /\ ~ killed /\ "I" \in m.sr
  /\ \E target \in WordAt(m.mem, VEC_IRQ) \ {0} :
       EnterAt(m, target, IrqRegisters, "timer", "timer")
  /\ UNCHANGED <<resetReq, shutReq, timerOn>>

NoKey ==
  /\ stage = "keys"
  /\ stage' = "timer"
  /\ UNCHANGED <<m, killed, resetReq, shutReq, timerOn>>

(* CPU::update_timer runs even if the processor was just killed.           *)
AfterTimer == IF killed THEN "pins" ELSE "exec"

TimerExpires ==
  /\ stage = "timer" /\ timerOn
  /\ timerOn' = FALSE
  /\ IF "T" \in m.sr
     THEN \E target \in WordAt(m.mem, VEC_TIMER) :
            EnterAt(m, target, NoRegisters,
                    IF target = 0 THEN "pins" ELSE AfterTimer, "pins")
     ELSE stage' = AfterTimer /\ UNCHANGED <<m, killed>>
  /\ UNCHANGED <<resetReq, shutReq>>

TimerRuns ==
  /\ stage = "timer"
  /\ stage' = AfterTimer
  /\ UNCHANGED <<m, killed, resetReq, shutReq, timerOn>>
-----------------------------------------------------------------------------
(* Fetch and decode.                                                       *)

Fetchable(width) == /\ MappedOk(m, m.pc)
                    /\ ReadOk(m, Mapped(m, m.pc), width)

(* A fault restores the PC of the instruction, and nothing else.           *)
Fault(from) ==
  /\ Enter([from EXCEPT !.pc = m.pc], VEC_NMI, NmiRegisters, "pins")
  /\ UNCHANGED <<resetReq, shutReq, timerOn>>

(* Illegal encodings, privileged opcodes in user mode, fetches out of the  *)
(* bounds: the header is checked first, then header and operand.           *)
FetchFault ==
  /\ stage = "exec"
  /\ \/ ~ Fetchable(2)
     \/ Fetchable(2) /\ Program[Mapped(m, m.pc)] = {}
     \/ Fetchable(2) /\ User(m) /\ Program[Mapped(m, m.pc)] \cap Privileged # {}
     \/ \E size \in Sizes : ~ Fetchable(2 + size)
  /\ Fault(m)

Decode(op, size) ==
  /\ stage = "exec"
  /\ Fetchable(2) /\ op \in Program[Mapped(m, m.pc)]
  /\ op \in Privileged => ~ User(m)
  /\ Fetchable(2 + size)

(* Wrong on purpose (mutant): PC runs past the last address.               *)
FetchedUnwrapped(size) == [m EXCEPT !.pc = @ + 2 + size]

(* The state in which the operation itself runs: PC is past the operand.   *)
Fetched(size) == [m EXCEPT !.pc = Wrap(@ + 2 + size)]

Done(result) ==
  /\ m' = result /\ stage' = "pins"
  /\ UNCHANGED <<killed, resetReq, shutReq, timerOn>>

DoneIf(ok, result) == IF ok THEN Done(result) ELSE Fault(m)
-----------------------------------------------------------------------------
(* Control transfer.                                                       *)

Kill == \E size \in Sizes :
  /\ Decode("kill", size)
  /\ m' = Fetched(size) /\ killed' = TRUE /\ stage' = "pins"
  /\ UNCHANGED <<resetReq, shutReq, timerOn>>

Reset == \E size \in Sizes :
  /\ Decode("reset", size)
  /\ Enter(Fetched(size), VEC_NMI, NmiRegisters, "pins")
  /\ UNCHANGED <<resetReq, shutReq, timerOn>>

Syscall == \E size \in Sizes :
  /\ Decode("syscall", size)
  /\ Enter(Fetched(size), VEC_SYSCALL, NoRegisters, "pins")
  /\ UNCHANGED <<resetReq, shutReq, timerOn>>

(* The two pushes fault separately: when SR does not fit, PC stays pushed. *)
Call == \E size \in Sizes, target \in Data :
  LET f       == Fetched(size)
      pushed  == Push(f, Halves(f.pc))
      framed  == Push(pushed, <<Status(f.sr)>>)
  IN /\ Decode("call", size)
     /\ CASE ~ MappedOk(m, target) -> Fault(m)
          [] MappedOk(m, target) /\ ~ PushOk(f, 2) -> Fault(m)
          [] MappedOk(m, target) /\ PushOk(f, 2) /\ ~ PushOk(pushed, 1) -> Fault(pushed)
          [] OTHER -> Done([framed EXCEPT !.bp = framed.sp, !.pc = target])

Ret == \E size \in Sizes :
  LET f  == Fetched(size)
      at == Mapped(f, f.bp - 3)
  IN /\ Decode("ret", size)
     /\ IF /\ f.bp >= 3 /\ StackOk(f, f.bp - 3, 3)
           /\ ReadOk(f, at + 2, 1) /\ ReadOk(f, at, 2)
        THEN \E target \in WordAt(f.mem, at), saved \in StatusAt(f.mem, at + 2) :
               Done(RestoreStatus([f EXCEPT !.sp = f.bp - 3, !.pc = target], saved))
        ELSE Fault(m)

(* The target is translated, and so checked, even if the jump is not taken.*)
(* The indirect form reads it from memory first.                           *)
Readable(a, width) == MappedOk(m, a) /\ ReadOk(m, Mapped(m, a), width)

IndirectFault == \E pointer \in Data : ~ Readable(pointer, 2) /\ Fault(m)

Jump == \E size \in Sizes, target \in Data :
  /\ Decode("jmp", size)
  /\ \/ DoneIf(MappedOk(m, target), [Fetched(size) EXCEPT !.pc = target])
     \/ DoneIf(MappedOk(m, target), Fetched(size))
     \/ IndirectFault
-----------------------------------------------------------------------------
(* Stack.                                                                  *)

PushDone(f, bytes) == DoneIf(PushOk(f, Len(bytes)), Push(f, bytes))

PushAny == \E size \in Sizes :
  LET f == Fetched(size) IN
  \/ Decode("push", size) /\ \E v \in Data : PushDone(f, Halves(v))
  \/ Decode("push", size) /\ PushDone(f, <<Opaque>>)
  \/ Decode("phpc", size) /\ PushDone(f, Halves(f.pc))
  \/ Decode("phsr", size) /\ PushDone(f, <<Status(f.sr)>>)
  \/ Decode("phsp", size) /\ PushDone(f, Halves(f.sp))
  \/ Decode("phbp", size) /\ PushDone(f, Halves(f.bp))

Pop == \E size \in Sizes, width \in {1, 2} :
  /\ Decode("pop", size)
  /\ DoneIf(PopOk(Fetched(size), width), Popped(Fetched(size), width))

PopPc == \E size \in Sizes :
  LET f == Fetched(size) IN
  /\ Decode("popc", size)
  /\ \E v \in WordAt(f.mem, PopAt(f, 2)) :
       DoneIf(PopOk(f, 2), [Popped(f, 2) EXCEPT !.pc = v])

PopSp == \E size \in Sizes :
  LET f == Fetched(size) IN
  /\ Decode("posp", size)
  /\ \E v \in WordAt(f.mem, PopAt(f, 2)) :
       DoneIf(PopOk(f, 2), [Popped(f, 2) EXCEPT !.sp = v])

PopBp == \E size \in Sizes :
  LET f == Fetched(size) IN
  /\ Decode("pobp", size)
  /\ \E v \in WordAt(f.mem, PopAt(f, 2)) :
       DoneIf(PopOk(f, 2), [Popped(f, 2) EXCEPT !.bp = v])

PopStatus == \E size \in Sizes :
  LET f == Fetched(size) IN
  /\ Decode("posr", size)
  /\ \E saved \in StatusAt(f.mem, PopAt(f, 1)) :
       DoneIf(PopOk(f, 1), RestoreStatus(Popped(f, 1), saved))
-----------------------------------------------------------------------------
(* Status register.                                                        *)

SetFlag(op, f) == \E size \in Sizes :
  /\ Decode(op, size)
  /\ Done([Fetched(size) EXCEPT !.sr = @ \cup {f}])

ClearFlag(op, f) == \E size \in Sizes :
  /\ Decode(op, size)
  /\ Done([Fetched(size) EXCEPT !.sr = @ \ {f}])

LeaveSystem == \E size \in Sizes :
  /\ Decode("clrs", size)
  /\ Done(RestoreStatus(Fetched(size), m.sr \ {"S"}))

SetStatus ==
  \/ SetFlag("seti", "I") \/ SetFlag("sett", "T") \/ SetFlag("sets", "S")
  \/ ClearFlag("clri", "I") \/ ClearFlag("clrt", "T")
  \/ LeaveSystem

DataInstruction(op) == \E size \in Sizes : Decode(op, size) /\ Done(Fetched(size))
-----------------------------------------------------------------------------
(* Memory operands, and the register and immediate forms of the same       *)
(* instructions, which cannot fault.                                       *)

Writable(a, width) == MappedOk(m, a) /\ WriteOk(m, Mapped(m, a), width)

OperandThen(result) ==
  \/ Done(result)
  \/ \E a \in Data, width \in {1, 2} : DoneIf(Readable(a, width), result)

Load(op) == \E size \in Sizes : Decode(op, size) /\ OperandThen(Fetched(size))

SetMtu == \E size \in Sizes, b \in Bounds, v \in Data :
  /\ Decode("smtu", size)
  /\ OperandThen([Fetched(size) EXCEPT !.mtu[b] = v])

LoadStatus == \E size \in Sizes, a \in Data :
  LET f == Fetched(size) IN
  /\ Decode("ldsr", size)
  /\ \/ \E saved \in SUBSET Flags : Done(RestoreStatus(f, saved))
     \/ \E saved \in StatusAt(f.mem, Mapped(f, a)) :
          DoneIf(Readable(a, 1), RestoreStatus(f, saved))

LoadSp == \E size \in Sizes, a \in Data :
  LET f == Fetched(size) IN
  /\ Decode("ldsp", size)
  /\ \/ Done([f EXCEPT !.sp = a])
     \/ \E v \in WordAt(f.mem, Mapped(f, a)) :
          DoneIf(Readable(a, 2), [f EXCEPT !.sp = v])

LoadBp == \E size \in Sizes, a \in Data :
  LET f == Fetched(size) IN
  /\ Decode("ldbp", size)
  /\ \/ Done([f EXCEPT !.bp = a])
     \/ \E v \in WordAt(f.mem, Mapped(f, a)) :
          DoneIf(Readable(a, 2), [f EXCEPT !.bp = v])

StoreDone(f, a, bytes) ==
  DoneIf(Writable(a, Len(bytes)),
         [f EXCEPT !.mem = PokeAll(@, Mapped(m, a), bytes)])

StoreAny == \E size \in Sizes, a \in Data :
  LET f == Fetched(size) IN
  \/ Decode("store", size) /\ \E v \in Data : StoreDone(f, a, Halves(v))
  \/ Decode("store", size) /\ StoreDone(f, a, <<Opaque>>)
  \/ Decode("stsr", size) /\ StoreDone(f, a, <<Status(f.sr)>>)
  \/ Decode("stsp", size) /\ StoreDone(f, a, Halves(f.sp))
  \/ Decode("stbp", size) /\ StoreDone(f, a, Halves(f.bp))
-----------------------------------------------------------------------------
(* External memory.  REQ and HREQ hand the device's answer to einr, which  *)
(* ignores it while I is masked and stops the processor if no handler is   *)
(* installed.                                                              *)

Io(op) == \E size \in Sizes, a \in Data :
  /\ Decode(op, size)
  /\ \/ DoneIf(EmemOk(m, a), Fetched(size))
     \/ User(m) /\ a = m.mtu.ehi /\ Fault(m)  (* a word that starts in ROM *)

Request(op) == \E size \in Sizes, a \in Data :
  /\ Decode(op, size)
  /\ CASE ~ EmemOk(m, a) -> Fault(m)
       [] EmemOk(m, a) /\ "I" \notin m.sr -> Done(Fetched(size))
       [] OTHER -> /\ Enter(Fetched(size), VEC_IRQ, IrqRegisters, "pins")
                   /\ UNCHANGED <<resetReq, shutReq, timerOn>>

Timer(op, on) == \E size \in Sizes :
  /\ Decode(op, size)
  /\ timerOn' = on
  /\ m' = Fetched(size) /\ stage' = "pins"
  /\ UNCHANGED <<killed, resetReq, shutReq>>

TimeFault == \E size \in Sizes, a \in Data, width \in {1, 2} :
  /\ Decode("time", size)
  /\ ~ Readable(a, width) /\ Fault(m)
-----------------------------------------------------------------------------
Boundary ==
  \/ ShutdownPin \/ ResetPin \/ NoPin
  \/ KeyIrq \/ NoKey
  \/ TimerExpires \/ TimerRuns

Transfer == Kill \/ Reset \/ Syscall \/ Call \/ Ret \/ Jump
Stack == PushAny \/ Pop \/ PopPc \/ PopSp \/ PopBp \/ PopStatus
Memory == \/ DataInstruction("alu") \/ DataInstruction("pareq")
          \/ Load("load") \/ Load("lcpid") \/ LoadStatus \/ LoadSp \/ LoadBp \/ StoreAny
External == \/ Io("read") \/ Io("write") \/ Io("hwrite")
            \/ Request("req") \/ Request("hreq")
            \/ Timer("time", FALSE) \/ Timer("tstart", TRUE) \/ Timer("tstop", FALSE)
            \/ TimeFault

Execute == FetchFault \/ Transfer \/ Stack \/ SetStatus \/ SetMtu \/ Memory \/ External

Next == RequestReset \/ RequestShutdown \/ Boundary \/ Execute

Spec == Init /\ [][Next]_vars
-----------------------------------------------------------------------------
(* What user code can do to the machine.  A step that begins and ends in   *)
(* user mode changes no byte outside the IMEM window of the MTU or in the  *)
(* ROM, no bound of the MTU and none of S, I and T, and starts no timer:   *)
(* CPU::check, CPU::stack_address, the privileged opcodes and              *)
(* CPU::restore_status leave no way around.                                *)
UserWindow(a) == a \in m.mtu.ilo .. m.mtu.ihi /\ a < ROM_ADDR

UserConfined ==
  [][User(m) /\ User(m') =>
       /\ \A a \in Tracked : m'.mem[a] # m.mem[a] => UserWindow(a)
       /\ m'.mtu = m.mtu /\ m'.sr = m.sr
       /\ timerOn' => timerOn]_vars

(* The only way from user mode to system mode is through a vector, and the *)
(* interrupted program can be resumed from what the entry saved: the slots *)
(* hold BP and SP, the frame PC and SR, and the frame did not run into the *)
(* slots.  (A CALL whose SR does not fit leaves its PC on the user stack,  *)
(* and the SP it saves is two higher.)                                     *)
SavedFrame(pc, sr) ==
  \E width \in {3, 4, 8} :
    LET base == m'.sp - width IN
    /\ base \in SYS_LO .. SYS_HI
    /\ Holds(m'.mem, base, pc) /\ m'.mem[base + 2] = Status(sr)

SavedPc == {m.pc} \cup {Wrap(m.pc + 2 + size) : size \in Sizes}

ContextSaved ==
  [][User(m) /\ ~ User(m') /\ ~ killed' /\ ~ (shutReq /\ ~ shutReq') =>
       /\ \E sp \in {m.sp, Wrap(m.sp + 2)} : Holds(m'.mem, SLOT_SP, sp)
       /\ Holds(m'.mem, SLOT_BP, m.bp)
       /\ \E pc \in SavedPc : SavedFrame(pc, m.sr)
       /\ m'.sr = {"S"} /\ m'.mtu = m.mtu]_vars
=============================================================================
