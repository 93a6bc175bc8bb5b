------------------------------- MODULE Machine -------------------------------
(***************************************************************************)
(* The programmer-visible core of the ANC216 processor and the helpers of  *)
(* CPU::execute that every instruction goes through: address translation   *)
(* and the MTU bounds, the stack, the status register, the interrupt frame *)
(* (emulator/src/cpu.cc).  A processor state is a record                   *)
(*                                                                         *)
(*    pc, sp, bp   16-bit registers (logical in user mode, else physical)  *)
(*    sr           the flags of SR that control execution: I, T and S      *)
(*    mtu          the six bounds of the memory translation unit           *)
(*    mem          the tracked IMEM bytes                                  *)
(*                                                                         *)
(* Data is abstract.  A byte of memory is one of the two halves of a word, *)
(* a saved status register, or data nobody interprets.  Only the bytes at  *)
(* the addresses in Tracked are remembered: reading any other byte, or two *)
(* bytes that are not the halves of one word, gives any word of Data.      *)
(***************************************************************************)
EXTENDS Integers, Sequences

CONSTANTS
  MAX_MEM,   (* number of IMEM bytes and of words: 65536                   *)
  ROM_ADDR,  (* first byte of the boot ROM: 0xff00                         *)
  SYS_LO,    (* lowest system stack pointer an interrupt accepts: 0x3000   *)
  SYS_HI,    (* highest one: 0x31f0                                        *)
  SLOT_BP,   (* where an interrupt saves BP: 0x31fc                        *)
  SLOT_SP,   (* where it saves SP: 0x31fe                                  *)
  Tracked,   (* the IMEM addresses whose contents the model remembers      *)
  Data       (* the words that memory outside Tracked may hold             *)

Word == 0 .. MAX_MEM - 1

(* The vectors, at fixed addresses of IMEM, and the initial system SP.     *)
VEC_IRQ      == 2
VEC_NMI      == 4
VEC_SYSCALL  == 6
VEC_TIMER    == 8
VEC_SHUTDOWN == 10
SSP          == 12

(* EINR pushes the most: PC (2), SR (1), R0 (2), R1 (2), L2 (1).           *)
FrameMax == 8

ASSUME LayoutAssumption ==
  /\ MAX_MEM \in Nat /\ ROM_ADDR \in Nat
  /\ SYS_LO \in Nat /\ SYS_HI \in Nat /\ SLOT_BP \in Nat /\ SLOT_SP \in Nat
  /\ SSP + 2 <= SYS_LO /\ SYS_LO <= SYS_HI
  /\ SYS_HI + FrameMax <= SLOT_BP
  /\ SLOT_SP = SLOT_BP + 2
  /\ SLOT_SP + 2 <= ROM_ADDR /\ ROM_ADDR < MAX_MEM
  /\ Tracked \subseteq Word
  /\ Data \subseteq Word /\ Data # {}

Flags  == {"I", "T", "S"}
Bounds == {"ilo", "ihi", "elo", "ehi", "slo", "shi"}

Hi(w)     == <<"hi", w>>
Lo(w)     == <<"lo", w>>
Status(f) == <<"sr", f>>
Opaque    == <<"data">>
Byte == {Hi(w) : w \in Word} \cup {Lo(w) : w \in Word}
          \cup {Status(f) : f \in SUBSET Flags} \cup {Opaque}

State == [pc : Word, sp : Word, bp : Word, sr : SUBSET Flags,
          mtu : [Bounds -> Word], mem : [Tracked -> Byte]]

Wrap(n) == n % MAX_MEM
-----------------------------------------------------------------------------
(* Memory contents.                                                        *)

(* Bytes bs[1], bs[2], ... at consecutive addresses from a on.             *)
PokeAll(mem, a, bs) ==
  [x \in Tracked |-> IF x \in a .. a + Len(bs) - 1 THEN bs[x - a + 1] ELSE mem[x]]

Halves(w) == <<Hi(w), Lo(w)>>

Holds(mem, a, w) ==
  /\ a \in Tracked /\ a + 1 \in Tracked
  /\ mem[a] = Hi(w) /\ mem[a + 1] = Lo(w)

(* The words a read at address a may return.                               *)
WordAt(mem, a) == LET held == {w \in Word : Holds(mem, a, w)}
                  IN IF held = {} THEN Data ELSE held

(* The status registers that the byte at a may stand for.                  *)
StatusAt(mem, a) ==
  LET held == {f \in SUBSET Flags : a \in Tracked /\ mem[a] = Status(f)}
  IN IF held = {} THEN SUBSET Flags ELSE held
-----------------------------------------------------------------------------
(* Address translation and protection.  An access that is not Ok throws    *)
(* Fault; the code that R0 receives (2 IMEM, 3 EMEM, 4 stack) is data.     *)

User(m) == "S" \notin m.sr
Base(m) == IF User(m) THEN m.mtu.ilo ELSE 0

Mapped(m, a)   == Base(m) + a
MappedOk(m, a) == User(m) => Mapped(m, a) <= m.mtu.ihi
EmemOk(m, a)   == User(m) => a \in m.mtu.elo .. m.mtu.ehi

(* Wrong on purpose (mutant): only the first byte of a word is checked.    *)
ReadOkFirstByte(m, a, width) ==
  /\ a + width <= MAX_MEM
  /\ User(m) => m.mtu.ilo <= a /\ a <= m.mtu.ihi

ReadOk(m, a, width) ==
  /\ a + width <= MAX_MEM
  /\ User(m) => m.mtu.ilo <= a /\ a + width - 1 <= m.mtu.ihi
WriteOk(m, a, width) == ReadOk(m, a, width) /\ a + width <= ROM_ADDR

StackOk(m, logical, width) ==
  /\ logical + width <= MAX_MEM
  /\ Mapped(m, logical) + width <= ROM_ADDR
  /\ User(m) => /\ m.mtu.slo <= Mapped(m, logical)
                /\ Mapped(m, logical) + width - 1 <= m.mtu.shi
-----------------------------------------------------------------------------
(* The stack grows upward; SP is the first free byte.                      *)

PushOk(m, width) == /\ StackOk(m, m.sp, width)
                    /\ WriteOk(m, Mapped(m, m.sp), width)

Push(m, bs) == [m EXCEPT !.mem = PokeAll(m.mem, Mapped(m, m.sp), bs),
                         !.sp  = Wrap(@ + Len(bs))]

PopOk(m, width) == /\ m.sp >= width
                   /\ StackOk(m, m.sp - width, width)
                   /\ ReadOk(m, Mapped(m, m.sp - width), width)

PopAt(m, width)  == Mapped(m, m.sp - width)
Popped(m, width) == [m EXCEPT !.sp = @ - width]
-----------------------------------------------------------------------------
(* Writing SR.  User code keeps its S, I and T.  Leaving system mode turns *)
(* the physical PC, SP and BP into offsets from the IMEM base.             *)

RestoreStatus(m, saved) ==
  LET logical(w) == (w - m.mtu.ilo) % MAX_MEM
  IN IF User(m) THEN m
     ELSE IF "S" \in saved THEN [m EXCEPT !.sr = saved]
     ELSE [m EXCEPT !.sr = saved, !.pc = logical(@),
                    !.sp = logical(@), !.bp = logical(@)]
-----------------------------------------------------------------------------
(* Interrupt entry through a vector.                                       *)

SspValid(s) == s \in SYS_LO .. SYS_HI

(* The context slots are written before the system SP is examined.         *)
SaveSlots(mem, sp, bp) ==
  PokeAll(PokeAll(mem, SLOT_SP, Halves(sp)), SLOT_BP, Halves(bp))

(* Wrong on purpose (mutants): SP is saved after it was replaced; the      *)
(* timer stays enabled in the handler.                                     *)
EnterSystemSavesLate(m, ssp) ==
  [m EXCEPT !.mem = SaveSlots(m.mem, ssp, m.bp),
            !.sr  = (@ \cup {"S"}) \ {"I", "T"},
            !.bp  = SYS_LO,
            !.sp  = ssp]

EnterSystemKeepsTimer(m, ssp) ==
  [m EXCEPT !.mem = SaveSlots(m.mem, m.sp, m.bp),
            !.sr  = (@ \cup {"S"}) \ {"I"},
            !.bp  = SYS_LO,
            !.sp  = ssp]

EnterSystem(m, ssp) ==
  [m EXCEPT !.mem = SaveSlots(m.mem, m.sp, m.bp),
            !.sr  = (@ \cup {"S"}) \ {"I", "T"},
            !.bp  = SYS_LO,
            !.sp  = ssp]

(* PC and SR of the interrupted program, then the registers the kind of    *)
(* interrupt saves: low R0 for an NMI, R0, R1 and low R2 for EINR.         *)
Frame(m, registers) == Halves(m.pc) \o <<Status(m.sr)>> \o registers

Interrupt(m, target, ssp, registers) ==
  [Push(EnterSystem(m, ssp), Frame(m, registers)) EXCEPT !.pc = target]

NoRegisters  == <<>>
NmiRegisters == <<Opaque>>
IrqRegisters == <<Opaque, Opaque, Opaque, Opaque, Opaque>>
=============================================================================
