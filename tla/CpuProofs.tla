------------------------------ MODULE CpuProofs ------------------------------
(***************************************************************************)
(* Theorems about the processor, for every memory layout, every program    *)
(* and every set of data words.                                            *)
(***************************************************************************)
EXTENDS MCCpu, SequenceTheorems, TLAPS

(* Sixteen-bit arithmetic stays within the words.                          *)
LEMMA WrapType == \A n \in Int : Wrap(n) \in Word
BY LayoutAssumption DEF Wrap, Word

LEMMA ByteTypes ==
  /\ \A w \in Word : Halves(w) \in Seq(Byte) /\ Len(Halves(w)) = 2
  /\ \A f \in SUBSET Flags : <<Status(f)>> \in Seq(Byte) /\ Len(<<Status(f)>>) = 1
  /\ <<Opaque>> \in Seq(Byte) /\ Len(<<Opaque>>) = 1
<1>1. ASSUME NEW w \in Word
      PROVE  Halves(w) \in Seq(Byte) /\ Len(Halves(w)) = 2
  <2>1. Hi(w) \in Byte /\ Lo(w) \in Byte
    BY DEF Byte
  <2>2. QED BY <2>1 DEF Halves
<1>2. ASSUME NEW f \in SUBSET Flags
      PROVE  <<Status(f)>> \in Seq(Byte) /\ Len(<<Status(f)>>) = 1
  <2>1. Status(f) \in Byte
    BY DEF Byte
  <2>2. QED BY <2>1
<1>3. <<Opaque>> \in Seq(Byte) /\ Len(<<Opaque>>) = 1
  <2>1. Opaque \in Byte
    BY DEF Byte
  <2>2. QED BY <2>1
<1>4. QED BY <1>1, <1>2, <1>3

LEMMA PokeAllType ==
  ASSUME NEW mem \in [Tracked -> Byte], NEW a \in Int, NEW bs \in Seq(Byte)
  PROVE  PokeAll(mem, a, bs) \in [Tracked -> Byte]
<1>1. SUFFICES ASSUME NEW x \in Tracked, x \in a .. a + Len(bs) - 1
               PROVE  bs[x - a + 1] \in Byte
  BY DEF PokeAll
<1>2. x \in Int
  BY LayoutAssumption DEF Word
<1>3. x - a + 1 \in 1 .. Len(bs)
  BY <1>1, <1>2
<1>4. QED BY <1>3

(* Only the bytes of the access change.                                    *)
LEMMA PokeAllFrame ==
  ASSUME NEW mem, NEW a \in Int, NEW bs \in Seq(Byte), NEW x \in Tracked,
         x \notin a .. a + Len(bs) - 1
  PROVE  PokeAll(mem, a, bs)[x] = mem[x]
BY DEF PokeAll

LEMMA WordAtType ==
  ASSUME NEW mem, NEW a
  PROVE  WordAt(mem, a) \subseteq Word
BY LayoutAssumption DEF WordAt

LEMMA StatusAtType ==
  ASSUME NEW mem, NEW a
  PROVE  StatusAt(mem, a) \subseteq SUBSET Flags
BY DEF StatusAt

LEMMA MappedType ==
  ASSUME NEW s \in State, NEW a \in Word
  PROVE  Mapped(s, a) \in Int
<1>1. a \in Int /\ s.mtu["ilo"] \in Int
  BY LayoutAssumption DEF State, Word, Bounds
<1>2. QED BY <1>1 DEF Mapped, Base

LEMMA PushType ==
  ASSUME NEW s \in State, NEW bs \in Seq(Byte)
  PROVE  Push(s, bs) \in State
<1>1. s.sp \in Int /\ Mapped(s, s.sp) \in Int
  BY LayoutAssumption, MappedType DEF State, Word
<1>2. PokeAll(s.mem, Mapped(s, s.sp), bs) \in [Tracked -> Byte]
  BY <1>1, PokeAllType DEF State
<1>3. Wrap(s.sp + Len(bs)) \in Word
  BY <1>1, WrapType
<1>4. QED BY <1>2, <1>3 DEF Push, State

LEMMA RestoreStatusType ==
  ASSUME NEW s \in State, NEW f \in SUBSET Flags
  PROVE  RestoreStatus(s, f) \in State
<1>1. \A w \in Word : (w - s.mtu.ilo) % MAX_MEM \in Word
  BY LayoutAssumption DEF State, Word, Bounds
<1>2. CASE User(s) BY <1>2 DEF RestoreStatus
<1>3. CASE ~ User(s) /\ "S" \in f BY <1>3 DEF RestoreStatus, State
<1>4. CASE ~ User(s) /\ "S" \notin f
  <2>1. RestoreStatus(s, f) =
          [s EXCEPT !.sr = f, !.pc = (s.pc - s.mtu.ilo) % MAX_MEM,
                    !.sp = (s.sp - s.mtu.ilo) % MAX_MEM,
                    !.bp = (s.bp - s.mtu.ilo) % MAX_MEM]
    BY <1>4 DEF RestoreStatus
  <2>2. QED BY <2>1, <1>1 DEF State
<1>5. QED BY <1>2, <1>3, <1>4

LEMMA EnterSystemType ==
  ASSUME NEW s \in State, NEW ssp \in Word
  PROVE  EnterSystem(s, ssp) \in State
<1>1. /\ Halves(s.sp) \in Seq(Byte) /\ Halves(s.bp) \in Seq(Byte)
  BY ByteTypes DEF State
<1>2. PokeAll(s.mem, SLOT_SP, Halves(s.sp)) \in [Tracked -> Byte]
  BY <1>1, PokeAllType, LayoutAssumption DEF State
<1>3. SaveSlots(s.mem, s.sp, s.bp) \in [Tracked -> Byte]
  BY <1>1, <1>2, PokeAllType, LayoutAssumption DEF SaveSlots
<1>4. SYS_LO \in Word
  BY LayoutAssumption DEF Word, FrameMax
<1>5. (s.sr \cup {"S"}) \ {"I", "T"} \in SUBSET Flags
  BY DEF State, Flags
<1>6. QED BY <1>3, <1>4, <1>5 DEF EnterSystem, State

RegisterLists == {NoRegisters, NmiRegisters, IrqRegisters}

LEMMA FrameType ==
  ASSUME NEW s \in State, NEW registers \in RegisterLists
  PROVE  Frame(s, registers) \in Seq(Byte)
<1>1. Halves(s.pc) \in Seq(Byte) /\ <<Status(s.sr)>> \in Seq(Byte)
  BY ByteTypes DEF State
<1>2. registers \in Seq(Byte)
  <2>1. Opaque \in Byte
    BY DEF Byte
  <2>2. NoRegisters \in Seq(Byte)
    BY DEF NoRegisters
  <2>3. NmiRegisters \in Seq(Byte)
    BY <2>1 DEF NmiRegisters
  <2>4. IrqRegisters \in Seq(Byte)
    BY <2>1 DEF IrqRegisters
  <2>5. QED BY <2>2, <2>3, <2>4 DEF RegisterLists
<1>3. QED BY <1>1, <1>2 DEF Frame

LEMMA InterruptType ==
  ASSUME NEW s \in State, NEW target \in Word, NEW ssp, SspValid(ssp),
         NEW registers \in RegisterLists
  PROVE  Interrupt(s, target, ssp, registers) \in State
<1>1. ssp \in Word
  BY LayoutAssumption DEF SspValid, Word, FrameMax
<1>2. Push(EnterSystem(s, ssp), Frame(s, registers)) \in State
  BY <1>1, EnterSystemType, FrameType, PushType
<1>3. QED BY <1>2 DEF Interrupt, State

(* What an entry makes of the processor, whatever the vector holds.        *)
LEMMA EnterAtType ==
  ASSUME NEW from \in State, NEW target \in Word, NEW registers \in RegisterLists,
         NEW next \in Stages, NEW aborted \in Stages, killed \in BOOLEAN,
         EnterAt(from, target, registers, next, aborted)
  PROVE  m' \in State /\ killed' \in BOOLEAN /\ stage' \in Stages
<1>1. CASE target = 0
  BY <1>1 DEF EnterAt
<1>2. CASE target # 0
  <2>1. PICK ssp \in WordAt(SaveSlots(from.mem, from.sp, from.bp), SSP) :
          IF SspValid(ssp)
          THEN /\ m' = Interrupt(from, target, ssp, registers)
               /\ stage' = next
               /\ UNCHANGED killed
          ELSE /\ m' = EnterSystem(from, ssp)
               /\ killed' = TRUE
               /\ stage' = aborted
    BY <1>2 DEF EnterAt
  <2>2. ssp \in Word
    BY WordAtType
  <2>3. CASE SspValid(ssp)
    BY <2>1, <2>3, InterruptType
  <2>4. CASE ~ SspValid(ssp)
    BY <2>1, <2>2, <2>4, EnterSystemType
  <2>5. QED BY <2>3, <2>4
<1>3. QED BY <1>1, <1>2

LEMMA EnterType ==
  ASSUME NEW from \in State, NEW vector, NEW registers \in RegisterLists,
         NEW next \in Stages, killed \in BOOLEAN,
         Enter(from, vector, registers, next)
  PROVE  m' \in State /\ killed' \in BOOLEAN /\ stage' \in Stages
<1>1. PICK target \in WordAt(from.mem, vector) :
        EnterAt(from, target, registers, next, "pins")
  BY DEF Enter
<1>2. target \in Word
  BY WordAtType
<1>3. QED BY <1>1, <1>2, EnterAtType DEF Stages

(* An entry that leaves the processor in user mode is one that found no    *)
(* handler: it saved nothing.                                              *)
LEMMA EnterAtUser ==
  ASSUME NEW from, NEW target, NEW registers, NEW next, NEW aborted,
         from \in State, EnterAt(from, target, registers, next, aborted), User(m')
  PROVE  m' = from
<1>1. \A ssp : "S" \in EnterSystem(from, ssp).sr
  BY DEF EnterSystem, State
<1>2. \A ssp : Interrupt(from, target, ssp, registers).sr = EnterSystem(from, ssp).sr
  BY DEF Interrupt, Push, EnterSystem, State
<1>3. QED BY <1>1, <1>2 DEF EnterAt, User

LEMMA EnterUser ==
  ASSUME NEW from, NEW vector, NEW registers, NEW next,
         from \in State, Enter(from, vector, registers, next), User(m')
  PROVE  m' = from
BY EnterAtUser DEF Enter
-----------------------------------------------------------------------------
(* The steps of an instruction keep the types.                             *)

LEMMA FetchedType ==
  ASSUME TypeOK, NEW size \in Sizes
  PROVE  Fetched(size) \in State
<1>1. size \in Int /\ m.pc \in Int
  BY ProgramAssumption, LayoutAssumption DEF TypeOK, State, Word
<1>2. Wrap(m.pc + 2 + size) \in Word
  BY <1>1, WrapType
<1>3. QED BY <1>2 DEF Fetched, TypeOK, State

LEMMA FaultType ==
  ASSUME TypeOK, NEW from \in State, Fault(from)
  PROVE  TypeOK'
<1>1. [from EXCEPT !.pc = m.pc] \in State
  BY DEF TypeOK, State
<1>2. m' \in State /\ killed' \in BOOLEAN /\ stage' \in Stages
  BY <1>1, EnterType DEF Fault, TypeOK, RegisterLists, Stages
<1>3. QED BY <1>2 DEF Fault, TypeOK

LEMMA DoneType ==
  ASSUME TypeOK, NEW result \in State, Done(result)
  PROVE  TypeOK'
BY DEF Done, TypeOK, Stages

LEMMA DoneIfType ==
  ASSUME TypeOK, NEW ok \in BOOLEAN, NEW result, ok => result \in State,
         DoneIf(ok, result)
  PROVE  TypeOK'
<1>1. CASE ok
  BY <1>1, DoneType DEF DoneIf
<1>2. CASE ~ ok
  <2>1. Fault(m)
    BY <1>2 DEF DoneIf
  <2>2. QED BY <2>1, FaultType DEF TypeOK
<1>3. QED BY <1>1, <1>2

LEMMA PoppedType ==
  ASSUME NEW s \in State, NEW width \in {1, 2, 3}, s.sp >= width
  PROVE  Popped(s, width) \in State
<1>1. s.sp - width \in Word
  BY LayoutAssumption DEF State, Word
<1>2. QED BY <1>1 DEF Popped, State

LEMMA PowerOnType == PowerOn \in State
<1>1. PowerOnMtu \in [Bounds -> Word]
  BY LayoutAssumption DEF PowerOnMtu, Bounds, Word, FrameMax, SSP
<1>2. SYS_LO \in Word /\ ROM_ADDR \in Word /\ SSP \in Int
  BY LayoutAssumption DEF Word, FrameMax, SSP
<1>3. [a \in Tracked |-> Opaque] \in [Tracked -> Byte]
  BY DEF Byte
<1>4. PokeAll([a \in Tracked |-> Opaque], SSP, Halves(SYS_LO)) \in [Tracked -> Byte]
  BY <1>2, <1>3, ByteTypes, PokeAllType
<1>5. QED BY <1>1, <1>2, <1>4 DEF PowerOn, State, Flags

THEOREM InitType == Init => TypeOK
BY PowerOnType DEF Init, TypeOK, Stages

LEMMA BoundaryType ==
  ASSUME TypeOK, Boundary
  PROVE  TypeOK'
<1>1. CASE ShutdownPin
  <2>1. \A target \in WordAt(m.mem, VEC_SHUTDOWN) :
          [m EXCEPT !.sr = (@ \cup {"S"}) \ {"I", "T"}, !.pc = target] \in State
    BY WordAtType DEF TypeOK, State, Flags
  <2>2. QED BY <1>1, <2>1 DEF ShutdownPin, TypeOK, Stages
<1>2. CASE ResetPin
  <2>1. m' \in State /\ killed' \in BOOLEAN /\ stage' \in Stages
    BY <1>2, EnterType DEF ResetPin, TypeOK, RegisterLists, Stages
  <2>2. QED BY <1>2, <2>1 DEF ResetPin, TypeOK
<1>3. CASE NoPin \/ NoKey
  BY <1>3 DEF NoPin, NoKey, TypeOK, Stages
<1>4. CASE KeyIrq
  <2>1. PICK target \in WordAt(m.mem, VEC_IRQ) :
          EnterAt(m, target, IrqRegisters, "timer", "timer")
    BY <1>4 DEF KeyIrq
  <2>2. m' \in State /\ killed' \in BOOLEAN /\ stage' \in Stages
    BY <2>1, WordAtType, EnterAtType DEF TypeOK, RegisterLists, Stages
  <2>3. QED BY <1>4, <2>2 DEF KeyIrq, TypeOK
<1>5. CASE TimerExpires
  <2>1. AfterTimer \in Stages
    BY DEF AfterTimer, Stages
  <2>2. CASE "T" \in m.sr
    <3>1. PICK target \in WordAt(m.mem, VEC_TIMER) :
            EnterAt(m, target, NoRegisters,
                    IF target = 0 THEN "pins" ELSE AfterTimer, "pins")
      BY <1>5, <2>2 DEF TimerExpires
    <3>2. (IF target = 0 THEN "pins" ELSE AfterTimer) \in Stages
      BY <2>1 DEF Stages
    <3>3. m' \in State /\ killed' \in BOOLEAN /\ stage' \in Stages
      BY <3>1, <3>2, WordAtType, EnterAtType DEF TypeOK, RegisterLists, Stages
    <3>4. QED BY <1>5, <3>3 DEF TimerExpires, TypeOK
  <2>3. CASE "T" \notin m.sr
    BY <1>5, <2>1, <2>3 DEF TimerExpires, TypeOK
  <2>4. QED BY <2>2, <2>3
<1>6. CASE TimerRuns
  BY <1>6 DEF TimerRuns, AfterTimer, TypeOK, Stages
<1>7. QED BY <1>1, <1>2, <1>3, <1>4, <1>5, <1>6 DEF Boundary

LEMMA TransferType ==
  ASSUME TypeOK, Transfer
  PROVE  TypeOK'
<1>1. CASE Kill
  BY <1>1, FetchedType DEF Kill, TypeOK, Stages
<1>2. CASE Reset
  <2>1. PICK size \in Sizes : /\ Enter(Fetched(size), VEC_NMI, NmiRegisters, "pins")
                              /\ UNCHANGED <<resetReq, shutReq, timerOn>>
    BY <1>2 DEF Reset
  <2>2. m' \in State /\ killed' \in BOOLEAN /\ stage' \in Stages
    BY <2>1, FetchedType, EnterType DEF TypeOK, RegisterLists, Stages
  <2>3. QED BY <2>1, <2>2 DEF TypeOK
<1>3. CASE Syscall
  <2>1. PICK size \in Sizes : /\ Enter(Fetched(size), VEC_SYSCALL, NoRegisters, "pins")
                              /\ UNCHANGED <<resetReq, shutReq, timerOn>>
    BY <1>3 DEF Syscall
  <2>2. m' \in State /\ killed' \in BOOLEAN /\ stage' \in Stages
    BY <2>1, FetchedType, EnterType DEF TypeOK, RegisterLists, Stages
  <2>3. QED BY <2>1, <2>2 DEF TypeOK
<1>4. CASE Call
  <2>1. PICK size \in Sizes, target \in Data :
          LET f       == Fetched(size)
              pushed  == Push(f, Halves(f.pc))
              framed  == Push(pushed, <<Status(f.sr)>>)
          IN \/ Fault(m) \/ Fault(pushed)
             \/ Done([framed EXCEPT !.bp = framed.sp, !.pc = target])
    BY <1>4 DEF Call
  <2> DEFINE f      == Fetched(size)
             pushed == Push(f, Halves(f.pc))
             framed == Push(pushed, <<Status(f.sr)>>)
  <2>2. f \in State
    BY FetchedType
  <2>3. pushed \in State
    BY <2>2, ByteTypes, PushType DEF State
  <2>4. framed \in State
    BY <2>2, <2>3, ByteTypes, PushType DEF State
  <2>5. target \in Word
    BY LayoutAssumption
  <2> HIDE DEF f, pushed, framed
  <2>6. [framed EXCEPT !.bp = framed.sp, !.pc = target] \in State
    BY <2>4, <2>5 DEF State
  <2>7. Fault(m) \/ Fault(pushed) \/ Done([framed EXCEPT !.bp = framed.sp, !.pc = target])
    BY <2>1 DEF f, pushed, framed
  <2>8. QED BY <2>3, <2>6, <2>7, FaultType, DoneType DEF TypeOK
<1>5. CASE Ret
  <2>1. PICK size \in Sizes :
          LET f  == Fetched(size)
              at == Mapped(f, f.bp - 3)
          IN \/ Fault(m)
             \/ /\ f.bp >= 3
                /\ \E target \in WordAt(f.mem, at), saved \in StatusAt(f.mem, at + 2) :
                     Done(RestoreStatus([f EXCEPT !.sp = f.bp - 3, !.pc = target], saved))
    BY <1>5 DEF Ret
  <2> DEFINE f  == Fetched(size)
             at == Mapped(f, f.bp - 3)
  <2>2. f \in State
    BY FetchedType
  <2> HIDE DEF f, at
  <2>3. CASE Fault(m)
    BY <2>3, FaultType DEF TypeOK
  <2>4. ASSUME f.bp >= 3, NEW target \in WordAt(f.mem, at),
               NEW saved \in StatusAt(f.mem, at + 2),
               Done(RestoreStatus([f EXCEPT !.sp = f.bp - 3, !.pc = target], saved))
        PROVE  TypeOK'
    <3>1. f.bp - 3 \in Word
      BY <2>2, <2>4, LayoutAssumption DEF State, Word
    <3>2. [f EXCEPT !.sp = f.bp - 3, !.pc = target] \in State
      BY <2>2, <3>1, WordAtType DEF State
    <3>3. QED BY <2>4, <3>2, StatusAtType, RestoreStatusType, DoneType
  <2>5. QED BY <2>1, <2>3, <2>4 DEF f, at
<1>6. CASE Jump
  <2>1. PICK size \in Sizes, target \in Data :
          \/ DoneIf(MappedOk(m, target), [Fetched(size) EXCEPT !.pc = target])
          \/ DoneIf(MappedOk(m, target), Fetched(size))
          \/ Fault(m)
    BY <1>6 DEF Jump, IndirectFault
  <2>2. /\ Fetched(size) \in State
        /\ [Fetched(size) EXCEPT !.pc = target] \in State
    BY FetchedType, LayoutAssumption DEF State
  <2>3. MappedOk(m, target) \in BOOLEAN
    BY DEF MappedOk
  <2>4. QED BY <2>1, <2>2, <2>3, DoneIfType, FaultType DEF TypeOK
<1>7. QED BY <1>1, <1>2, <1>3, <1>4, <1>5, <1>6 DEF Transfer

LEMMA PushDoneType ==
  ASSUME TypeOK, NEW f \in State, NEW bytes \in Seq(Byte), PushDone(f, bytes)
  PROVE  TypeOK'
<1>1. PushOk(f, Len(bytes)) \in BOOLEAN
  BY DEF PushOk
<1>2. QED BY <1>1, PushType, DoneIfType DEF PushDone

(* A pop that may run leaves SP where it can go; the popped word is data.  *)
LEMMA PopDone ==
  ASSUME TypeOK, NEW size \in Sizes, NEW width \in {1, 2}
  PROVE  /\ PopOk(Fetched(size), width) \in BOOLEAN
         /\ PopOk(Fetched(size), width) => Popped(Fetched(size), width) \in State
BY FetchedType, PoppedType DEF PopOk

LEMMA StackType ==
  ASSUME TypeOK, Stack
  PROVE  TypeOK'
<1>1. CASE PushAny
  <2>1. PICK size \in Sizes :
          \/ \E v \in Data : PushDone(Fetched(size), Halves(v))
          \/ PushDone(Fetched(size), <<Opaque>>)
          \/ PushDone(Fetched(size), Halves(Fetched(size).pc))
          \/ PushDone(Fetched(size), <<Status(Fetched(size).sr)>>)
          \/ PushDone(Fetched(size), Halves(Fetched(size).sp))
          \/ PushDone(Fetched(size), Halves(Fetched(size).bp))
    BY <1>1 DEF PushAny
  <2>2. Fetched(size) \in State
    BY FetchedType
  <2>3. /\ Fetched(size).pc \in Word /\ Fetched(size).sp \in Word
        /\ Fetched(size).bp \in Word /\ Fetched(size).sr \in SUBSET Flags
    BY <2>2 DEF State
  <2>4. QED BY <2>1, <2>2, <2>3, ByteTypes, PushDoneType, LayoutAssumption
<1>2. CASE Pop
  BY <1>2, PopDone, DoneIfType DEF Pop
<1>3. CASE PopPc
  <2>1. PICK size \in Sizes : \E v \in WordAt(Fetched(size).mem, PopAt(Fetched(size), 2)) :
          DoneIf(PopOk(Fetched(size), 2), [Popped(Fetched(size), 2) EXCEPT !.pc = v])
    BY <1>3 DEF PopPc
  <2>2. \A v \in WordAt(Fetched(size).mem, PopAt(Fetched(size), 2)) :
          PopOk(Fetched(size), 2) => [Popped(Fetched(size), 2) EXCEPT !.pc = v] \in State
    BY PopDone, WordAtType DEF State
  <2>3. QED BY <2>1, <2>2, PopDone, DoneIfType
<1>4. CASE PopSp
  <2>1. PICK size \in Sizes : \E v \in WordAt(Fetched(size).mem, PopAt(Fetched(size), 2)) :
          DoneIf(PopOk(Fetched(size), 2), [Popped(Fetched(size), 2) EXCEPT !.sp = v])
    BY <1>4 DEF PopSp
  <2>2. \A v \in WordAt(Fetched(size).mem, PopAt(Fetched(size), 2)) :
          PopOk(Fetched(size), 2) => [Popped(Fetched(size), 2) EXCEPT !.sp = v] \in State
    BY PopDone, WordAtType DEF State
  <2>3. QED BY <2>1, <2>2, PopDone, DoneIfType
<1>5. CASE PopBp
  <2>1. PICK size \in Sizes : \E v \in WordAt(Fetched(size).mem, PopAt(Fetched(size), 2)) :
          DoneIf(PopOk(Fetched(size), 2), [Popped(Fetched(size), 2) EXCEPT !.bp = v])
    BY <1>5 DEF PopBp
  <2>2. \A v \in WordAt(Fetched(size).mem, PopAt(Fetched(size), 2)) :
          PopOk(Fetched(size), 2) => [Popped(Fetched(size), 2) EXCEPT !.bp = v] \in State
    BY PopDone, WordAtType DEF State
  <2>3. QED BY <2>1, <2>2, PopDone, DoneIfType
<1>6. CASE PopStatus
  <2>1. PICK size \in Sizes : \E saved \in StatusAt(Fetched(size).mem, PopAt(Fetched(size), 1)) :
          DoneIf(PopOk(Fetched(size), 1), RestoreStatus(Popped(Fetched(size), 1), saved))
    BY <1>6 DEF PopStatus
  <2>2. \A saved \in StatusAt(Fetched(size).mem, PopAt(Fetched(size), 1)) :
          PopOk(Fetched(size), 1) => RestoreStatus(Popped(Fetched(size), 1), saved) \in State
    BY PopDone, StatusAtType, RestoreStatusType
  <2>3. QED BY <2>1, <2>2, PopDone, DoneIfType
<1>7. QED BY <1>1, <1>2, <1>3, <1>4, <1>5, <1>6 DEF Stack

LEMMA SetStatusType ==
  ASSUME TypeOK, SetStatus
  PROVE  TypeOK'
<1>1. \A size \in Sizes : Fetched(size) \in State /\ m.sr \in SUBSET Flags
  BY FetchedType DEF TypeOK, State
<1>2. ASSUME NEW op, NEW f \in Flags, SetFlag(op, f) \/ ClearFlag(op, f)
      PROVE  TypeOK'
  <2>1. PICK size \in Sizes : \/ Done([Fetched(size) EXCEPT !.sr = @ \cup {f}])
                              \/ Done([Fetched(size) EXCEPT !.sr = @ \ {f}])
    BY <1>2 DEF SetFlag, ClearFlag
  <2>2. /\ [Fetched(size) EXCEPT !.sr = @ \cup {f}] \in State
        /\ [Fetched(size) EXCEPT !.sr = @ \ {f}] \in State
    BY <1>1 DEF State
  <2>3. QED BY <2>1, <2>2, DoneType
<1>3. CASE LeaveSystem
  BY <1>1, <1>3, RestoreStatusType, DoneType DEF LeaveSystem
<1>4. QED BY <1>2, <1>3 DEF SetStatus, Flags

LEMMA OperandType ==
  ASSUME TypeOK, NEW result \in State, OperandThen(result)
  PROVE  TypeOK'
<1>1. \A a, width : Readable(a, width) \in BOOLEAN
  BY DEF Readable, MappedOk
<1>2. QED BY <1>1, DoneType, DoneIfType DEF OperandThen

LEMMA SetMtuType ==
  ASSUME TypeOK, SetMtu
  PROVE  TypeOK'
<1>1. PICK size \in Sizes, b \in Bounds, v \in Data :
        OperandThen([Fetched(size) EXCEPT !.mtu[b] = v])
  BY DEF SetMtu
<1>2. [Fetched(size) EXCEPT !.mtu[b] = v] \in State
  BY FetchedType, LayoutAssumption DEF State
<1>3. QED BY <1>1, <1>2, OperandType

LEMMA StoreDoneType ==
  ASSUME TypeOK, NEW f \in State, NEW a \in Data, NEW bytes \in Seq(Byte),
         StoreDone(f, a, bytes)
  PROVE  TypeOK'
<1>1. Mapped(m, a) \in Int
  BY LayoutAssumption, MappedType DEF TypeOK
<1>2. PokeAll(f.mem, Mapped(m, a), bytes) \in [Tracked -> Byte]
  BY <1>1, PokeAllType DEF State
<1>3. [f EXCEPT !.mem = PokeAll(@, Mapped(m, a), bytes)] \in State
  BY <1>2 DEF State
<1>4. Writable(a, Len(bytes)) \in BOOLEAN
  BY DEF Writable, MappedOk
<1>5. QED BY <1>3, <1>4, DoneIfType DEF StoreDone

LEMMA MemoryType ==
  ASSUME TypeOK, Memory
  PROVE  TypeOK'
<1>1. ASSUME NEW op, DataInstruction(op) PROVE TypeOK'
  BY <1>1, FetchedType, DoneType DEF DataInstruction
<1>2. \A a, width : Readable(a, width) \in BOOLEAN
  BY DEF Readable, MappedOk
<1>3. ASSUME NEW op, Load(op) PROVE TypeOK'
  BY <1>3, OperandType, FetchedType DEF Load
<1>4. CASE LoadStatus
  <2>1. PICK size \in Sizes, a \in Data :
          \/ \E saved \in SUBSET Flags : Done(RestoreStatus(Fetched(size), saved))
          \/ \E saved \in StatusAt(Fetched(size).mem, Mapped(Fetched(size), a)) :
               DoneIf(Readable(a, 1), RestoreStatus(Fetched(size), saved))
    BY <1>4 DEF LoadStatus
  <2>2. \A saved \in SUBSET Flags : RestoreStatus(Fetched(size), saved) \in State
    BY FetchedType, RestoreStatusType
  <2>3. QED BY <1>2, <2>1, <2>2, StatusAtType, DoneType, DoneIfType
<1>5. CASE LoadSp
  <2>1. PICK size \in Sizes, v \in Word, ok \in BOOLEAN :
          DoneIf(ok, [Fetched(size) EXCEPT !.sp = v])
    <3>1. PICK size \in Sizes, a \in Data :
            \/ Done([Fetched(size) EXCEPT !.sp = a])
            \/ \E v \in WordAt(Fetched(size).mem, Mapped(Fetched(size), a)) :
                 DoneIf(Readable(a, 2), [Fetched(size) EXCEPT !.sp = v])
      BY <1>5 DEF LoadSp
    <3>2. CASE Done([Fetched(size) EXCEPT !.sp = a])
      <4>1. DoneIf(TRUE, [Fetched(size) EXCEPT !.sp = a])
        BY <3>2 DEF DoneIf
      <4>2. QED BY <4>1, LayoutAssumption
    <3>3. QED BY <1>2, <3>1, <3>2, WordAtType
  <2>2. [Fetched(size) EXCEPT !.sp = v] \in State
    BY FetchedType DEF State
  <2>3. QED BY <2>1, <2>2, DoneIfType
<1>6. CASE LoadBp
  <2>1. PICK size \in Sizes, v \in Word, ok \in BOOLEAN :
          DoneIf(ok, [Fetched(size) EXCEPT !.bp = v])
    <3>1. PICK size \in Sizes, a \in Data :
            \/ Done([Fetched(size) EXCEPT !.bp = a])
            \/ \E v \in WordAt(Fetched(size).mem, Mapped(Fetched(size), a)) :
                 DoneIf(Readable(a, 2), [Fetched(size) EXCEPT !.bp = v])
      BY <1>6 DEF LoadBp
    <3>2. CASE Done([Fetched(size) EXCEPT !.bp = a])
      <4>1. DoneIf(TRUE, [Fetched(size) EXCEPT !.bp = a])
        BY <3>2 DEF DoneIf
      <4>2. QED BY <4>1, LayoutAssumption
    <3>3. QED BY <1>2, <3>1, <3>2, WordAtType
  <2>2. [Fetched(size) EXCEPT !.bp = v] \in State
    BY FetchedType DEF State
  <2>3. QED BY <2>1, <2>2, DoneIfType
<1>7. CASE StoreAny
  <2>1. PICK size \in Sizes, a \in Data :
          \/ \E v \in Data : StoreDone(Fetched(size), a, Halves(v))
          \/ StoreDone(Fetched(size), a, <<Opaque>>)
          \/ StoreDone(Fetched(size), a, <<Status(Fetched(size).sr)>>)
          \/ StoreDone(Fetched(size), a, Halves(Fetched(size).sp))
          \/ StoreDone(Fetched(size), a, Halves(Fetched(size).bp))
    BY <1>7 DEF StoreAny
  <2>2. Fetched(size) \in State
    BY FetchedType
  <2>3. /\ Fetched(size).sp \in Word /\ Fetched(size).bp \in Word
        /\ Fetched(size).sr \in SUBSET Flags
    BY <2>2 DEF State
  <2>4. QED BY <2>1, <2>2, <2>3, ByteTypes, StoreDoneType, LayoutAssumption
<1>8. QED BY <1>1, <1>3, <1>4, <1>5, <1>6, <1>7 DEF Memory

LEMMA ExternalType ==
  ASSUME TypeOK, External
  PROVE  TypeOK'
<1>1. ASSUME NEW op, Io(op) PROVE TypeOK'
  <2>1. PICK size \in Sizes, a \in Data :
          DoneIf(EmemOk(m, a), Fetched(size)) \/ Fault(m)
    BY <1>1 DEF Io
  <2>2. EmemOk(m, a) \in BOOLEAN
    BY DEF EmemOk
  <2>3. QED BY <2>1, <2>2, FetchedType, DoneIfType, FaultType DEF TypeOK
<1>2. ASSUME NEW op, Request(op) PROVE TypeOK'
  <2>1. PICK size \in Sizes :
          \/ Fault(m) \/ Done(Fetched(size))
          \/ /\ Enter(Fetched(size), VEC_IRQ, IrqRegisters, "pins")
             /\ UNCHANGED <<resetReq, shutReq, timerOn>>
    BY <1>2 DEF Request
  <2>2. CASE Fault(m)
    BY <2>2, FaultType DEF TypeOK
  <2>3. CASE Done(Fetched(size))
    BY <2>3, FetchedType, DoneType
  <2>4. CASE /\ Enter(Fetched(size), VEC_IRQ, IrqRegisters, "pins")
             /\ UNCHANGED <<resetReq, shutReq, timerOn>>
    <3>1. m' \in State /\ killed' \in BOOLEAN /\ stage' \in Stages
      BY <2>4, FetchedType, EnterType DEF TypeOK, RegisterLists, Stages
    <3>2. QED BY <2>4, <3>1 DEF TypeOK
  <2>5. QED BY <2>1, <2>2, <2>3, <2>4
<1>3. ASSUME NEW op, NEW on \in BOOLEAN, Timer(op, on) PROVE TypeOK'
  BY <1>3, FetchedType DEF Timer, TypeOK, Stages
<1>4. CASE TimeFault
  BY <1>4, FaultType DEF TimeFault, TypeOK
<1>5. QED BY <1>1, <1>2, <1>3, <1>4 DEF External

LEMMA StepType == TypeOK /\ [Next]_vars => TypeOK'
<1>1. SUFFICES ASSUME TypeOK, [Next]_vars PROVE TypeOK'
  OBVIOUS
<1>2. CASE RequestReset \/ RequestShutdown
  BY <1>1, <1>2 DEF RequestReset, RequestShutdown, TypeOK
<1>3. CASE Boundary
  BY <1>1, <1>3, BoundaryType
<1>4. CASE FetchFault
  BY <1>1, <1>4, FaultType DEF FetchFault, TypeOK
<1>5. CASE Transfer
  BY <1>1, <1>5, TransferType
<1>6. CASE Stack
  BY <1>1, <1>6, StackType
<1>7. CASE SetStatus \/ SetMtu
  BY <1>1, <1>7, SetStatusType, SetMtuType
<1>8. CASE Memory
  BY <1>1, <1>8, MemoryType
<1>9. CASE External
  BY <1>1, <1>9, ExternalType
<1>10. CASE UNCHANGED vars
  BY <1>1, <1>10 DEF TypeOK, vars
<1>11. QED
  BY <1>1, <1>2, <1>3, <1>4, <1>5, <1>6, <1>7, <1>8, <1>9, <1>10 DEF Next, Execute

(* Every register, bound and tracked byte keeps its width, whatever the    *)
(* program does: pc, sp and bp never leave the 16-bit words, although user *)
(* code computes them from logical addresses and CLRS rebases them.        *)
THEOREM TypeInvariant == Spec => []TypeOK
<1>1. QED BY InitType, StepType, PTL DEF Spec
-----------------------------------------------------------------------------
(* Confinement of user code.  A state is harmless when user code may turn  *)
(* the machine into it, and resumable when an entry from it saves what the *)
(* program needs to go on.  A step is safe when it leaves a harmless state *)
(* or enters system mode through a vector, from a resumable one.           *)

Harmless(t) ==
  /\ \A a \in Tracked : t.mem[a] # m.mem[a] => UserWindow(a)
  /\ t.mtu = m.mtu /\ t.sr = m.sr

SavedSp == {m.sp, Wrap(m.sp + 2)}
Resumable(t) == t.sp \in SavedSp /\ t.bp = m.bp

Entered ==
  \E from \in State, target \in Word, ssp \in SYS_LO .. SYS_HI,
     registers \in RegisterLists :
    /\ Harmless(from) /\ Resumable(from) /\ from.pc \in SavedPc
    /\ m' = Interrupt(from, target, ssp, registers)

Safe ==
  /\ User(m') => Harmless(m') /\ (timerOn' => timerOn)
  /\ ~ User(m') => killed' \/ Entered \/ (shutReq /\ ~ shutReq')

LEMMA FetchedHarmless ==
  ASSUME TypeOK, NEW size \in Sizes
  PROVE  /\ Harmless(Fetched(size)) /\ Resumable(Fetched(size))
         /\ Fetched(size).pc \in SavedPc
BY DEF Harmless, Resumable, SavedSp, SavedPc, Fetched, TypeOK, State

(* An access that the bounds check lets through writes inside the window.  *)
LEMMA PokeHarmless ==
  ASSUME TypeOK, User(m), NEW t \in State, Harmless(t), NEW a \in Int,
         NEW bs \in Seq(Byte), WriteOk(t, a, Len(bs)), NEW x \in Tracked,
         PokeAll(t.mem, a, bs)[x] # m.mem[x]
  PROVE  UserWindow(x)
<1>1. CASE x \in a .. a + Len(bs) - 1
  <2>1. User(t)
    BY DEF Harmless, User
  <2>2. m.mtu.ilo <= a /\ a + Len(bs) - 1 <= m.mtu.ihi /\ a + Len(bs) <= ROM_ADDR
    BY <2>1 DEF WriteOk, ReadOk, Harmless
  <2>3. m.mtu["ilo"] \in Int /\ m.mtu["ihi"] \in Int /\ x \in Int /\ ROM_ADDR \in Int
    <3>1. m.mtu \in [Bounds -> Word]
      BY DEF TypeOK, State
    <3>2. m.mtu["ilo"] \in Word /\ m.mtu["ihi"] \in Word
      BY <3>1 DEF Bounds
    <3>3. QED BY <3>2, LayoutAssumption DEF Word
  <2>4. Len(bs) \in Int
    OBVIOUS
  <2> HIDE DEF Harmless
  <2>5. QED BY <1>1, <2>2, <2>3, <2>4 DEF UserWindow
<1>2. CASE x \notin a .. a + Len(bs) - 1
  <2>1. PokeAll(t.mem, a, bs)[x] = t.mem[x]
    BY <1>2, PokeAllFrame
  <2>2. QED BY <2>1 DEF Harmless
<1>3. QED BY <1>1, <1>2

LEMMA PushHarmless ==
  ASSUME TypeOK, User(m), NEW t \in State, Harmless(t), NEW bs \in Seq(Byte),
         PushOk(t, Len(bs))
  PROVE  Harmless(Push(t, bs))
<1>1. Mapped(t, t.sp) \in Int
  BY MappedType DEF State
<1>2. WriteOk(t, Mapped(t, t.sp), Len(bs))
  BY DEF PushOk
<1>3. /\ Push(t, bs).mem = PokeAll(t.mem, Mapped(t, t.sp), bs)
      /\ Push(t, bs).mtu = t.mtu /\ Push(t, bs).sr = t.sr
  BY DEF Push, State
<1>4. \A x \in Tracked : Push(t, bs).mem[x] # m.mem[x] => UserWindow(x)
  BY <1>1, <1>2, <1>3, PokeHarmless
<1>5. QED BY <1>3, <1>4 DEF Harmless

(* Registers are not protected.                                            *)
LEMMA RegistersHarmless ==
  ASSUME NEW t \in State, Harmless(t), NEW u,
         u.mem = t.mem, u.mtu = t.mtu, u.sr = t.sr
  PROVE  Harmless(u)
BY DEF Harmless

LEMMA EnterAtSafe ==
  ASSUME NEW from \in State, Harmless(from), Resumable(from), from.pc \in SavedPc,
         User(m), NEW target \in Word, NEW registers \in RegisterLists,
         NEW next, NEW aborted,
         EnterAt(from, target, registers, next, aborted), timerOn' => timerOn
  PROVE  Safe
<1>1. User(m') => Harmless(m')
  BY EnterAtUser
<1>2. User(from)
  BY DEF Harmless, User
<1>3. ~ User(m') => killed' \/ Entered
  BY <1>2 DEF EnterAt, Entered, SspValid
<1>4. QED BY <1>1, <1>3 DEF Safe

LEMMA EnterSafe ==
  ASSUME NEW from \in State, Harmless(from), Resumable(from), from.pc \in SavedPc,
         User(m), NEW vector, NEW registers \in RegisterLists, NEW next,
         Enter(from, vector, registers, next), timerOn' => timerOn
  PROVE  Safe
<1>1. PICK target \in WordAt(from.mem, vector) :
        EnterAt(from, target, registers, next, "pins")
  BY DEF Enter
<1>2. target \in Word
  BY WordAtType
<1>3. QED BY <1>1, <1>2, EnterAtSafe

(* A fault restores the PC of the instruction.                             *)
LEMMA FaultSafe ==
  ASSUME TypeOK, User(m), NEW from \in State, Harmless(from), Resumable(from),
         Fault(from)
  PROVE  Safe
<1> DEFINE t == [from EXCEPT !.pc = m.pc]
<1>1. t \in State /\ t.pc \in SavedPc
  BY DEF TypeOK, State, SavedPc
<1>2. Harmless(t)
  BY RegistersHarmless DEF State
<1>3. Resumable(t)
  BY DEF Resumable, State
<1>4. NmiRegisters \in RegisterLists
  BY DEF RegisterLists
<1>5. Enter(t, VEC_NMI, NmiRegisters, "pins") /\ timerOn' = timerOn
  BY DEF Fault
<1> HIDE DEF t
<1>6. QED BY <1>1, <1>2, <1>3, <1>4, <1>5, EnterSafe

LEMMA SelfHarmless ==
  TypeOK => m \in State /\ Harmless(m) /\ Resumable(m) /\ m.pc \in SavedPc
BY DEF TypeOK, Harmless, Resumable, SavedSp, SavedPc

LEMMA DoneSafe ==
  ASSUME User(m), NEW result, Harmless(result), Done(result)
  PROVE  Safe
BY DEF Done, Safe, Harmless, User

LEMMA DoneIfSafe ==
  ASSUME TypeOK, User(m), NEW ok \in BOOLEAN, NEW result, ok => Harmless(result),
         DoneIf(ok, result)
  PROVE  Safe
<1>1. CASE ok
  BY <1>1, DoneSafe DEF DoneIf
<1>2. CASE ~ ok
  BY <1>2, FaultSafe, SelfHarmless DEF DoneIf
<1>3. QED BY <1>1, <1>2

(* User code keeps its status register.                                    *)
LEMMA RestoreStatusUser ==
  ASSUME NEW s, User(s), NEW saved
  PROVE  RestoreStatus(s, saved) = s
BY DEF RestoreStatus

LEMMA BoundarySafe ==
  ASSUME TypeOK, User(m), Boundary
  PROVE  Safe
<1>1. CASE ShutdownPin
  <2>1. \A target : "S" \in [m EXCEPT !.sr = (@ \cup {"S"}) \ {"I", "T"}, !.pc = target].sr
    BY DEF TypeOK, State
  <2>2. m' = m \/ ~ User(m')
    BY <1>1, <2>1 DEF ShutdownPin, User
  <2>3. QED BY <1>1, <2>2, SelfHarmless DEF ShutdownPin, Safe
<1>2. CASE ResetPin
  BY <1>2, SelfHarmless, EnterSafe DEF ResetPin, RegisterLists
<1>3. CASE NoPin \/ NoKey \/ TimerRuns
  BY <1>3, SelfHarmless DEF NoPin, NoKey, TimerRuns, Safe
<1>4. CASE KeyIrq
  <2>1. PICK target \in WordAt(m.mem, VEC_IRQ) :
          EnterAt(m, target, IrqRegisters, "timer", "timer")
    BY <1>4 DEF KeyIrq
  <2>2. target \in Word /\ (timerOn' => timerOn) /\ IrqRegisters \in RegisterLists
    BY <1>4, WordAtType DEF KeyIrq, RegisterLists
  <2>3. QED BY <2>1, <2>2, SelfHarmless, EnterAtSafe
<1>5. CASE TimerExpires
  <2>1. CASE "T" \in m.sr
    <3>1. PICK target \in WordAt(m.mem, VEC_TIMER) :
            EnterAt(m, target, NoRegisters,
                    IF target = 0 THEN "pins" ELSE AfterTimer, "pins")
      BY <1>5, <2>1 DEF TimerExpires
    <3>2. target \in Word /\ (timerOn' => timerOn) /\ NoRegisters \in RegisterLists
      BY <1>5, WordAtType DEF TimerExpires, RegisterLists
    <3>3. QED BY <3>1, <3>2, SelfHarmless, EnterAtSafe
  <2>2. CASE "T" \notin m.sr
    BY <1>5, <2>2, SelfHarmless DEF TimerExpires, Safe
  <2>3. QED BY <2>1, <2>2
<1>6. QED BY <1>1, <1>2, <1>3, <1>4, <1>5 DEF Boundary

LEMMA TransferSafe ==
  ASSUME TypeOK, User(m), Transfer
  PROVE  Safe
<1>1. ~ Kill /\ ~ Reset
  BY DEF Kill, Reset, Decode, Privileged
<1>2. CASE Syscall
  <2>1. PICK size \in Sizes : /\ Enter(Fetched(size), VEC_SYSCALL, NoRegisters, "pins")
                              /\ UNCHANGED <<resetReq, shutReq, timerOn>>
    BY <1>2 DEF Syscall
  <2>2. QED BY <2>1, FetchedType, FetchedHarmless, EnterSafe DEF RegisterLists
<1>3. CASE Call
  <2>1. PICK size \in Sizes, target \in Data :
          LET f       == Fetched(size)
              pushed  == Push(f, Halves(f.pc))
              framed  == Push(pushed, <<Status(f.sr)>>)
          IN \/ Fault(m)
             \/ PushOk(f, 2) /\ Fault(pushed)
             \/ /\ PushOk(f, 2) /\ PushOk(pushed, 1)
                /\ Done([framed EXCEPT !.bp = framed.sp, !.pc = target])
    <3>1. PICK size \in Sizes, target \in Data :
            LET f       == Fetched(size)
                pushed  == Push(f, Halves(f.pc))
                framed  == Push(pushed, <<Status(f.sr)>>)
            IN CASE ~ MappedOk(m, target) -> Fault(m)
                 [] MappedOk(m, target) /\ ~ PushOk(f, 2) -> Fault(m)
                 [] MappedOk(m, target) /\ PushOk(f, 2) /\ ~ PushOk(pushed, 1) -> Fault(pushed)
                 [] OTHER -> Done([framed EXCEPT !.bp = framed.sp, !.pc = target])
      BY <1>3 DEF Call
    <3>2. QED BY <3>1
  <2> DEFINE f      == Fetched(size)
             pushed == Push(f, Halves(f.pc))
             framed == Push(pushed, <<Status(f.sr)>>)
  <2>2. f \in State /\ Harmless(f) /\ f.sp = m.sp /\ f.bp = m.bp
    BY FetchedType, FetchedHarmless DEF Fetched, TypeOK, State
  <2> HIDE DEF f
  <2>3. /\ Halves(f.pc) \in Seq(Byte) /\ Len(Halves(f.pc)) = 2
        /\ <<Status(f.sr)>> \in Seq(Byte) /\ Len(<<Status(f.sr)>>) = 1
    BY <2>2, ByteTypes DEF State
  <2>4. PushOk(f, 2) => pushed \in State /\ Harmless(pushed)
    BY <2>2, <2>3, PushType, PushHarmless
  <2>5. Resumable(pushed)
    BY <2>2, <2>3 DEF Push, State, Resumable, SavedSp
  <2> HIDE DEF pushed
  <2>6. PushOk(f, 2) /\ PushOk(pushed, 1) => framed \in State /\ Harmless(framed)
    BY <2>3, <2>4, PushType, PushHarmless
  <2> HIDE DEF framed
  <2>7. ASSUME framed \in State, Harmless(framed)
        PROVE  Harmless([framed EXCEPT !.bp = framed.sp, !.pc = target])
    BY <2>7, RegistersHarmless DEF State
  <2>8. \/ Fault(m)
        \/ PushOk(f, 2) /\ Fault(pushed)
        \/ /\ PushOk(f, 2) /\ PushOk(pushed, 1)
           /\ Done([framed EXCEPT !.bp = framed.sp, !.pc = target])
    BY <2>1 DEF f, pushed, framed
  <2>9. QED BY <2>4, <2>5, <2>6, <2>7, <2>8, SelfHarmless, FaultSafe, DoneSafe
<1>4. CASE Ret
  <2>1. PICK size \in Sizes :
          LET f  == Fetched(size)
              at == Mapped(f, f.bp - 3)
          IN \/ Fault(m)
             \/ \E target \in WordAt(f.mem, at), saved \in StatusAt(f.mem, at + 2) :
                  Done(RestoreStatus([f EXCEPT !.sp = f.bp - 3, !.pc = target], saved))
    BY <1>4 DEF Ret
  <2> DEFINE f == Fetched(size)
  <2>2. f \in State /\ Harmless(f)
    BY FetchedType, FetchedHarmless
  <2> HIDE DEF f
  <2>3. ASSUME NEW target, NEW saved,
               Done(RestoreStatus([f EXCEPT !.sp = f.bp - 3, !.pc = target], saved))
        PROVE  Safe
    <3>1. Harmless([f EXCEPT !.sp = f.bp - 3, !.pc = target])
      BY <2>2, RegistersHarmless DEF State
    <3>2. User([f EXCEPT !.sp = f.bp - 3, !.pc = target])
      BY <3>1 DEF Harmless, User
    <3>3. QED BY <2>3, <3>1, <3>2, RestoreStatusUser, DoneSafe
  <2>4. QED BY <2>1, <2>3, SelfHarmless, FaultSafe DEF f
<1>5. CASE Jump
  <2>1. PICK size \in Sizes, target \in Data :
          \/ DoneIf(MappedOk(m, target), [Fetched(size) EXCEPT !.pc = target])
          \/ DoneIf(MappedOk(m, target), Fetched(size))
          \/ Fault(m)
    BY <1>5 DEF Jump, IndirectFault
  <2>2. /\ Harmless(Fetched(size))
        /\ Harmless([Fetched(size) EXCEPT !.pc = target])
    BY FetchedType, FetchedHarmless, RegistersHarmless DEF State
  <2>3. MappedOk(m, target) \in BOOLEAN
    BY DEF MappedOk
  <2>4. QED BY <2>1, <2>2, <2>3, SelfHarmless, DoneIfSafe, FaultSafe
<1>6. QED BY <1>1, <1>2, <1>3, <1>4, <1>5 DEF Transfer

LEMMA PushDoneSafe ==
  ASSUME TypeOK, User(m), NEW f \in State, Harmless(f), NEW bytes \in Seq(Byte),
         PushDone(f, bytes)
  PROVE  Safe
<1>1. PushOk(f, Len(bytes)) \in BOOLEAN
  BY DEF PushOk
<1>2. QED BY <1>1, PushHarmless, DoneIfSafe DEF PushDone

LEMMA PoppedHarmless ==
  ASSUME TypeOK, NEW size \in Sizes, NEW width
  PROVE  LET t == Popped(Fetched(size), width)
         IN  Harmless(t) /\ t.mem = m.mem /\ t.mtu = m.mtu /\ t.sr = m.sr
BY DEF Popped, Fetched, Harmless, TypeOK, State

LEMMA StackSafe ==
  ASSUME TypeOK, User(m), Stack
  PROVE  Safe
<1>1. CASE PushAny
  <2>1. PICK size \in Sizes :
          \/ \E v \in Data : PushDone(Fetched(size), Halves(v))
          \/ PushDone(Fetched(size), <<Opaque>>)
          \/ PushDone(Fetched(size), Halves(Fetched(size).pc))
          \/ PushDone(Fetched(size), <<Status(Fetched(size).sr)>>)
          \/ PushDone(Fetched(size), Halves(Fetched(size).sp))
          \/ PushDone(Fetched(size), Halves(Fetched(size).bp))
    BY <1>1 DEF PushAny
  <2>2. Fetched(size) \in State /\ Harmless(Fetched(size))
    BY FetchedType, FetchedHarmless
  <2>3. /\ Fetched(size).pc \in Word /\ Fetched(size).sp \in Word
        /\ Fetched(size).bp \in Word /\ Fetched(size).sr \in SUBSET Flags
    BY <2>2 DEF State
  <2>4. QED BY <2>1, <2>2, <2>3, ByteTypes, PushDoneSafe, LayoutAssumption
<1>2. ASSUME NEW size \in Sizes, NEW width \in {1, 2}, NEW result,
             DoneIf(PopOk(Fetched(size), width), result), Harmless(result)
      PROVE  Safe
  BY <1>2, PopDone, DoneIfSafe
<1>3. CASE Pop
  BY <1>2, <1>3, PoppedHarmless DEF Pop
<1>4. CASE PopPc
  <2>1. \A size \in Sizes : \A v : Harmless([Popped(Fetched(size), 2) EXCEPT !.pc = v])
    BY DEF Popped, Fetched, Harmless, TypeOK, State
  <2>2. QED BY <1>2, <1>4, <2>1 DEF PopPc
<1>5. CASE PopSp
  <2>1. \A size \in Sizes : \A v : Harmless([Popped(Fetched(size), 2) EXCEPT !.sp = v])
    BY DEF Popped, Fetched, Harmless, TypeOK, State
  <2>2. QED BY <1>2, <1>5, <2>1 DEF PopSp
<1>6. CASE PopBp
  <2>1. \A size \in Sizes : \A v : Harmless([Popped(Fetched(size), 2) EXCEPT !.bp = v])
    BY DEF Popped, Fetched, Harmless, TypeOK, State
  <2>2. QED BY <1>2, <1>6, <2>1 DEF PopBp
<1>7. CASE PopStatus
  <2>1. \A size \in Sizes : \A saved :
          RestoreStatus(Popped(Fetched(size), 1), saved) = Popped(Fetched(size), 1)
    BY PoppedHarmless, RestoreStatusUser DEF User
  <2>2. QED BY <1>2, <1>7, <2>1, PoppedHarmless DEF PopStatus
<1>8. QED BY <1>1, <1>3, <1>4, <1>5, <1>6, <1>7 DEF Stack

LEMMA SetStatusSafe ==
  ASSUME User(m)
  PROVE  ~ SetStatus /\ ~ SetMtu
BY DEF SetStatus, SetFlag, ClearFlag, LeaveSystem, SetMtu, Decode, Privileged

LEMMA StoreDoneSafe ==
  ASSUME TypeOK, User(m), NEW f \in State, Harmless(f), NEW a \in Data,
         NEW bytes \in Seq(Byte), StoreDone(f, a, bytes)
  PROVE  Safe
<1>1. Mapped(m, a) \in Int
  BY LayoutAssumption, MappedType DEF TypeOK
<1>2. Writable(a, Len(bytes)) \in BOOLEAN
  BY DEF Writable, MappedOk
<1>3. ASSUME Writable(a, Len(bytes))
      PROVE  Harmless([f EXCEPT !.mem = PokeAll(@, Mapped(m, a), bytes)])
  <2> DEFINE t == [f EXCEPT !.mem = PokeAll(@, Mapped(m, a), bytes)]
  <2>1. WriteOk(f, Mapped(m, a), Len(bytes))
    BY <1>3 DEF Writable, WriteOk, ReadOk, Harmless, User
  <2>2. /\ t.mem = PokeAll(f.mem, Mapped(m, a), bytes)
        /\ t.mtu = m.mtu /\ t.sr = m.sr
    BY DEF Harmless, State
  <2>3. \A x \in Tracked : t.mem[x] # m.mem[x] => UserWindow(x)
    BY <1>1, <2>1, <2>2, PokeHarmless
  <2>4. QED BY <2>2, <2>3 DEF Harmless
<1>4. QED BY <1>2, <1>3, DoneIfSafe DEF StoreDone

LEMMA OperandSafe ==
  ASSUME TypeOK, User(m), NEW result, Harmless(result), OperandThen(result)
  PROVE  Safe
<1>1. \A a, width : Readable(a, width) \in BOOLEAN
  BY DEF Readable, MappedOk
<1>2. QED BY <1>1, DoneSafe, DoneIfSafe DEF OperandThen

LEMMA MemorySafe ==
  ASSUME TypeOK, User(m), Memory
  PROVE  Safe
<1>1. ASSUME NEW op, DataInstruction(op) PROVE Safe
  BY <1>1, FetchedHarmless, DoneSafe DEF DataInstruction
<1>2. \A a, width : Readable(a, width) \in BOOLEAN
  BY DEF Readable, MappedOk
<1>3. ASSUME NEW op, Load(op) PROVE Safe
  BY <1>3, OperandSafe, FetchedHarmless DEF Load
<1>4. CASE LoadStatus
  <2>1. PICK size \in Sizes, a \in Data :
          \/ \E saved \in SUBSET Flags : Done(RestoreStatus(Fetched(size), saved))
          \/ \E saved \in StatusAt(Fetched(size).mem, Mapped(Fetched(size), a)) :
               DoneIf(Readable(a, 1), RestoreStatus(Fetched(size), saved))
    BY <1>4 DEF LoadStatus
  <2>2. \A saved : RestoreStatus(Fetched(size), saved) = Fetched(size)
    BY FetchedHarmless, RestoreStatusUser DEF Harmless, User
  <2>3. QED BY <1>2, <2>1, <2>2, FetchedHarmless, DoneSafe, DoneIfSafe
<1>5. CASE LoadSp
  <2>1. \A size \in Sizes : \A v : Harmless([Fetched(size) EXCEPT !.sp = v])
    BY DEF Fetched, Harmless, TypeOK, State
  <2>2. QED BY <1>2, <1>5, <2>1, DoneSafe, DoneIfSafe DEF LoadSp
<1>6. CASE LoadBp
  <2>1. \A size \in Sizes : \A v : Harmless([Fetched(size) EXCEPT !.bp = v])
    BY DEF Fetched, Harmless, TypeOK, State
  <2>2. QED BY <1>2, <1>6, <2>1, DoneSafe, DoneIfSafe DEF LoadBp
<1>7. CASE StoreAny
  <2>1. PICK size \in Sizes, a \in Data :
          \/ \E v \in Data : StoreDone(Fetched(size), a, Halves(v))
          \/ StoreDone(Fetched(size), a, <<Opaque>>)
          \/ StoreDone(Fetched(size), a, <<Status(Fetched(size).sr)>>)
          \/ StoreDone(Fetched(size), a, Halves(Fetched(size).sp))
          \/ StoreDone(Fetched(size), a, Halves(Fetched(size).bp))
    BY <1>7 DEF StoreAny
  <2>2. Fetched(size) \in State /\ Harmless(Fetched(size))
    BY FetchedType, FetchedHarmless
  <2>3. /\ Fetched(size).sp \in Word /\ Fetched(size).bp \in Word
        /\ Fetched(size).sr \in SUBSET Flags
    BY <2>2 DEF State
  <2>4. QED BY <2>1, <2>2, <2>3, ByteTypes, StoreDoneSafe, LayoutAssumption
<1>8. QED BY <1>1, <1>3, <1>4, <1>5, <1>6, <1>7 DEF Memory

LEMMA ExternalSafe ==
  ASSUME TypeOK, User(m), External
  PROVE  Safe
<1>1. ASSUME NEW op, Io(op) PROVE Safe
  <2>1. \A a : EmemOk(m, a) \in BOOLEAN
    BY DEF EmemOk
  <2>2. QED BY <1>1, <2>1, SelfHarmless, FetchedHarmless, DoneIfSafe, FaultSafe DEF Io
<1>2. ASSUME NEW op, Request(op) PROVE Safe
  <2>1. PICK size \in Sizes :
          \/ Fault(m) \/ Done(Fetched(size))
          \/ /\ Enter(Fetched(size), VEC_IRQ, IrqRegisters, "pins")
             /\ UNCHANGED <<resetReq, shutReq, timerOn>>
    BY <1>2 DEF Request
  <2>2. IrqRegisters \in RegisterLists
    BY DEF RegisterLists
  <2>3. QED BY <2>1, <2>2, SelfHarmless, FetchedType, FetchedHarmless, FaultSafe,
               DoneSafe, EnterSafe
<1>3. ~ Timer("time", FALSE) /\ ~ Timer("tstart", TRUE) /\ ~ Timer("tstop", FALSE) /\ ~ TimeFault
  BY DEF Timer, TimeFault, Decode, Privileged
<1>4. QED BY <1>1, <1>2, <1>3 DEF External

LEMMA StepSafe ==
  ASSUME TypeOK, User(m), Next
  PROVE  Safe
<1>1. CASE RequestReset \/ RequestShutdown
  BY <1>1, SelfHarmless DEF RequestReset, RequestShutdown, Safe
<1>2. CASE Boundary
  BY <1>2, BoundarySafe
<1>3. CASE FetchFault
  BY <1>3, SelfHarmless, FaultSafe DEF FetchFault
<1>4. CASE Transfer
  BY <1>4, TransferSafe
<1>5. CASE Stack
  BY <1>5, StackSafe
<1>6. CASE SetStatus \/ SetMtu
  BY <1>6, SetStatusSafe
<1>7. CASE Memory
  BY <1>7, MemorySafe
<1>8. CASE External
  BY <1>8, ExternalSafe
<1>9. QED BY <1>1, <1>2, <1>3, <1>4, <1>5, <1>6, <1>7, <1>8 DEF Next, Execute

(* User code is confined to its window of memory, keeps its bounds and its *)
(* control flags, and starts no timer: UserConfined, for every program,    *)
(* every layout and every setting of the bounds.                           *)
THEOREM Confined == Spec => UserConfined
<1>1. TypeOK /\ [Next]_vars =>
        [User(m) /\ User(m') =>
           /\ \A a \in Tracked : m'.mem[a] # m.mem[a] => UserWindow(a)
           /\ m'.mtu = m.mtu /\ m'.sr = m.sr
           /\ timerOn' => timerOn]_vars
  BY StepSafe DEF Safe, Harmless
<1>2. QED BY <1>1, TypeInvariant, PTL DEF Spec, UserConfined
-----------------------------------------------------------------------------
(* What an entry saves.  The theorems below are about the bytes of the     *)
(* system stack and the context slots, which the model has to remember.    *)

(* The bytes that PokeAll writes, one by one.                              *)
LEMMA PokeAllAt ==
  ASSUME NEW mem, NEW a \in Int, NEW bs, Len(bs) \in Nat,
         NEW i \in 1 .. Len(bs), a + i - 1 \in Tracked
  PROVE  PokeAll(mem, a, bs)[a + i - 1] = bs[i]
<1>1. a + i - 1 \in a .. a + Len(bs) - 1 /\ a + i - 1 - a + 1 = i
  OBVIOUS
<1>2. QED BY <1>1 DEF PokeAll

LEMMA PokeHalves ==
  ASSUME NEW mem, NEW a \in Int, NEW w, a \in Tracked, a + 1 \in Tracked
  PROVE  Holds(PokeAll(mem, a, Halves(w)), a, w)
<1>1. Len(Halves(w)) = 2 /\ Halves(w)[1] = Hi(w) /\ Halves(w)[2] = Lo(w)
  BY DEF Halves
<1> DEFINE bs == Halves(w)
<1>2. a + 1 - 1 = a /\ a + 2 - 1 = a + 1
  OBVIOUS
<1>3. 1 \in 1 .. Len(bs) /\ 2 \in 1 .. Len(bs) /\ Len(bs) \in Nat
  BY <1>1
<1> HIDE DEF bs
<1>4. PokeAll(mem, a, bs)[a + 1 - 1] = bs[1]
  BY <1>2, <1>3, PokeAllAt
<1>5. PokeAll(mem, a, bs)[a + 2 - 1] = bs[2]
  BY <1>2, <1>3, PokeAllAt
<1>6. QED BY <1>1, <1>2, <1>4, <1>5 DEF Holds, bs

(* Both slots hold what was written: the second does not reach the first.  *)
LEMMA SlotsSaved ==
  ASSUME SystemArea \subseteq Tracked, NEW mem, NEW sp \in Word, NEW bp \in Word
  PROVE  LET saved == SaveSlots(mem, sp, bp)
         IN  Holds(saved, SLOT_SP, sp) /\ Holds(saved, SLOT_BP, bp)
<1> DEFINE first == PokeAll(mem, SLOT_SP, Halves(sp))
           saved == PokeAll(first, SLOT_BP, Halves(bp))
<1>1. /\ SLOT_BP \in Int /\ SLOT_SP \in Int /\ SLOT_SP = SLOT_BP + 2
      /\ {SLOT_BP, SLOT_BP + 1, SLOT_SP, SLOT_SP + 1} \subseteq Tracked
  BY LayoutAssumption DEF SystemArea, FrameMax
<1>2. Holds(first, SLOT_SP, sp)
  BY <1>1, PokeHalves
<1>3. Holds(saved, SLOT_BP, bp)
  BY <1>1, PokeHalves
<1>4. Halves(bp) \in Seq(Byte) /\ Len(Halves(bp)) = 2
  BY ByteTypes
<1>5. saved[SLOT_SP] = first[SLOT_SP] /\ saved[SLOT_SP + 1] = first[SLOT_SP + 1]
  <2>1. ASSUME NEW x \in {SLOT_SP, SLOT_SP + 1} PROVE saved[x] = first[x]
    <3>1. x \in Tracked /\ x \notin SLOT_BP .. SLOT_BP + Len(Halves(bp)) - 1
      BY <1>1, <1>4, <2>1
    <3> HIDE DEF first
    <3>2. QED BY <1>1, <1>4, <3>1, PokeAllFrame
  <2>2. QED BY <2>1
<1>6. QED BY <1>2, <1>3, <1>5 DEF Holds, SaveSlots

(* The frame of an interrupt is three, four or eight bytes long, the PC    *)
(* first, the status register third.                                       *)
LEMMA FrameShape ==
  ASSUME NEW s \in State, NEW registers \in RegisterLists
  PROVE  LET f == Frame(s, registers)
         IN  /\ Len(f) \in {3, 4, 8}
             /\ f[1] = Hi(s.pc) /\ f[2] = Lo(s.pc) /\ f[3] = Status(s.sr)
<1> DEFINE head == Halves(s.pc) \o <<Status(s.sr)>>
<1>1. Hi(s.pc) \in Byte /\ Lo(s.pc) \in Byte /\ Status(s.sr) \in Byte
  BY DEF Byte, State
<1>2. Len(head) = 3 /\ head[1] = Hi(s.pc) /\ head[2] = Lo(s.pc) /\ head[3] = Status(s.sr)
  <2>1. ASSUME NEW x \in Byte, NEW y \in Byte, NEW z \in Byte
        PROVE  LET q == <<x, y>> \o <<z>>
               IN Len(q) = 3 /\ q[1] = x /\ q[2] = y /\ q[3] = z
    OBVIOUS
  <2>2. QED BY <1>1, <2>1 DEF Halves
<1>3. head \in Seq(Byte) /\ Frame(s, registers) = head \o registers
  <2>1. Halves(s.pc) \in Seq(Byte) /\ <<Status(s.sr)>> \in Seq(Byte)
    BY ByteTypes DEF State
  <2>2. QED BY <2>1 DEF Frame
<1> HIDE DEF head
<1>4. Len(registers) \in {0, 1, 5} /\ registers \in Seq(Byte)
  <2>1. Opaque \in Byte
    BY DEF Byte
  <2>2. ASSUME NEW o \in Byte
        PROVE  /\ Len(<<>>) = 0 /\ <<>> \in Seq(Byte)
               /\ Len(<<o>>) = 1 /\ <<o>> \in Seq(Byte)
               /\ Len(<<o, o, o, o, o>>) = 5 /\ <<o, o, o, o, o>> \in Seq(Byte)
    OBVIOUS
  <2>3. registers \in {<<>>, <<Opaque>>, <<Opaque, Opaque, Opaque, Opaque, Opaque>>}
    BY DEF RegisterLists, NoRegisters, NmiRegisters, IrqRegisters
  <2>4. QED BY <2>1, <2>2, <2>3
<1>5. ASSUME NEW a \in Seq(Byte), NEW b \in Seq(Byte), Len(a) = 3,
             Len(b) \in {0, 1, 5}
      PROVE  LET f == a \o b
             IN  /\ Len(f) \in {3, 4, 8}
                 /\ f[1] = a[1] /\ f[2] = a[2] /\ f[3] = a[3]
  <2>1. Len(a \o b) = Len(a) + Len(b)
    BY ConcatProperties
  <2>2. \A i \in {1, 2, 3} : (a \o b)[i] = a[i]
    <3>1. \A i \in 1 .. Len(a) + Len(b) :
            (a \o b)[i] = IF i <= Len(a) THEN a[i] ELSE b[i - Len(a)]
      BY ConcatProperties
    <3>2. \A i \in {1, 2, 3} : i \in 1 .. Len(a) + Len(b) /\ i <= Len(a)
      BY <1>5
    <3>3. QED BY <3>1, <3>2
  <2>3. 3 + 0 = 3 /\ 3 + 1 = 4 /\ 3 + 5 = 8
    OBVIOUS
  <2>4. Len(a \o b) \in {3, 4, 8}
    BY <1>5, <2>1, <2>3
  <2>5. QED BY <2>2, <2>4
<1>6. QED BY <1>2, <1>3, <1>4, <1>5

(* The state an interrupt leaves: the handler runs with S alone, on a      *)
(* stack whose top is the frame, and the slots and the frame hold the      *)
(* context of the interrupted program.                                     *)
SavedIn(t, c) ==
  /\ Holds(t.mem, SLOT_SP, c.sp) /\ Holds(t.mem, SLOT_BP, c.bp)
  /\ \E width \in {3, 4, 8} :
       /\ t.sp - width \in SYS_LO .. SYS_HI
       /\ Holds(t.mem, t.sp - width, c.pc)
       /\ t.mem[t.sp - width + 2] = Status(c.sr)

LEMMA InterruptSaves ==
  ASSUME SystemArea \subseteq Tracked, NEW from \in State, NEW target \in Word,
         NEW ssp \in SYS_LO .. SYS_HI, NEW registers \in RegisterLists
  PROVE  LET t == Interrupt(from, target, ssp, registers)
         IN  /\ SavedIn(t, from)
             /\ t.sr = (from.sr \cup {"S"}) \ {"I", "T"} /\ t.mtu = from.mtu
<1> DEFINE e == EnterSystem(from, ssp)
           f == Frame(from, registers)
           t == Interrupt(from, target, ssp, registers)
<1>1. /\ f \in Seq(Byte) /\ Len(f) \in {3, 4, 8}
      /\ f[1] = Hi(from.pc) /\ f[2] = Lo(from.pc) /\ f[3] = Status(from.sr)
  BY FrameShape, FrameType
<1>2. /\ e.mem = SaveSlots(from.mem, from.sp, from.bp) /\ e.sp = ssp
      /\ e.sr = (from.sr \cup {"S"}) \ {"I", "T"} /\ e.mtu = from.mtu
      /\ e \in State
  <2>1. ssp \in Word
    BY LayoutAssumption DEF Word, FrameMax
  <2>2. e \in State
    BY <2>1, EnterSystemType
  <2>3. QED BY <2>2 DEF EnterSystem, State
<1> DEFINE n == Len(f)
<1> HIDE DEF e, f
<1>3. /\ t.mem = PokeAll(e.mem, ssp, f) /\ t.sp = Wrap(ssp + Len(f))
      /\ t.sr = e.sr /\ t.mtu = e.mtu
  <2>1. Mapped(e, e.sp) = ssp
    <3>1. 0 + ssp = ssp
      BY LayoutAssumption
    <3>2. QED BY <1>2, <3>1 DEF Mapped, Base, User
  <2>2. t = [Push(e, f) EXCEPT !.pc = target]
    BY DEF Interrupt, e, f
  <2>3. QED BY <1>2, <2>1, <2>2 DEF Push, State
<1> HIDE DEF t
<1>4. Wrap(ssp + Len(f)) = ssp + Len(f)
  <2>1. n \in {3, 4, 8}
    BY <1>1
  <2> HIDE DEF n
  <2>2. ssp + n \in 0 .. MAX_MEM - 1
    BY <2>1, LayoutAssumption DEF FrameMax
  <2>3. Wrap(ssp + n) = ssp + n
    BY <2>2, LayoutAssumption DEF Wrap
  <2>4. QED BY <2>3 DEF n
<1>5. t.sp - Len(f) = ssp
  BY <1>1, <1>3, <1>4, LayoutAssumption
<1>6. Holds(t.mem, SLOT_SP, from.sp) /\ Holds(t.mem, SLOT_BP, from.bp)
  <2>1. Holds(e.mem, SLOT_SP, from.sp) /\ Holds(e.mem, SLOT_BP, from.bp)
    BY <1>2, SlotsSaved DEF State
  <2>2. \A x \in {SLOT_BP, SLOT_BP + 1, SLOT_SP, SLOT_SP + 1} :
          x \in Tracked /\ ssp \in Int /\ x \notin ssp .. ssp + Len(f) - 1
    <3>1. n \in {3, 4, 8}
      BY <1>1
    <3> HIDE DEF n
    <3>2. ssp \in Int /\ ssp + n - 1 < SLOT_BP /\ SLOT_SP = SLOT_BP + 2 /\ SLOT_BP \in Int
      BY <3>1, LayoutAssumption DEF FrameMax
    <3>3. \A x \in {SLOT_BP, SLOT_BP + 1, SLOT_SP, SLOT_SP + 1} : x \in Tracked
      BY LayoutAssumption DEF SystemArea, FrameMax
    <3>4. \A x \in {SLOT_BP, SLOT_BP + 1, SLOT_SP, SLOT_SP + 1} :
            x \notin ssp .. ssp + n - 1
      BY <3>1, <3>2
    <3>5. QED BY <3>2, <3>3, <3>4 DEF n
  <2>3. \A x \in {SLOT_BP, SLOT_BP + 1, SLOT_SP, SLOT_SP + 1} : t.mem[x] = e.mem[x]
    BY <1>1, <1>3, <2>2, PokeAllFrame
  <2>4. QED BY <2>1, <2>3 DEF Holds
<1>7. Holds(t.mem, ssp, from.pc) /\ t.mem[ssp + 2] = Status(from.sr)
  <2>1. ssp \in Int /\ ssp \in Tracked /\ ssp + 1 \in Tracked /\ ssp + 2 \in Tracked
    BY LayoutAssumption DEF SystemArea, FrameMax
  <2>2. /\ t.mem[ssp + 1 - 1] = f[1] /\ t.mem[ssp + 2 - 1] = f[2]
        /\ t.mem[ssp + 3 - 1] = f[3]
    BY <1>1, <1>3, <2>1, PokeAllAt
  <2>3. ssp + 1 - 1 = ssp /\ ssp + 2 - 1 = ssp + 1 /\ ssp + 3 - 1 = ssp + 2
    BY <2>1
  <2>4. QED BY <1>1, <2>1, <2>2, <2>3 DEF Holds
<1>8. SavedIn(t, from)
  BY <1>1, <1>5, <1>6, <1>7 DEF SavedIn
<1>9. QED BY <1>2, <1>3, <1>8 DEF t

(* ContextSaved, for every program and layout: whatever brings user code   *)
(* into system mode, a pin, a key, the timer, a fault in any instruction   *)
(* or a system call, its registers can be found where the handler returns  *)
(* from, except on the shutdown pin, from which nothing returns.           *)
THEOREM ContextAlwaysSaved == SystemArea \subseteq Tracked /\ Spec => ContextSaved
<1>1. ASSUME SystemArea \subseteq Tracked, TypeOK, User(m), Next, ~ User(m'),
             ~ killed', ~ (shutReq /\ ~ shutReq')
      PROVE  /\ \E sp \in {m.sp, Wrap(m.sp + 2)} : Holds(m'.mem, SLOT_SP, sp)
             /\ Holds(m'.mem, SLOT_BP, m.bp)
             /\ \E pc \in SavedPc : SavedFrame(pc, m.sr)
             /\ m'.sr = {"S"} /\ m'.mtu = m.mtu
  <2>1. Entered
    BY <1>1, StepSafe DEF Safe
  <2>2. PICK from \in State, target \in Word, ssp \in SYS_LO .. SYS_HI,
             registers \in RegisterLists :
          /\ Harmless(from) /\ Resumable(from) /\ from.pc \in SavedPc
          /\ m' = Interrupt(from, target, ssp, registers)
    BY <2>1 DEF Entered
  <2>3. /\ SavedIn(m', from)
        /\ m'.sr = (from.sr \cup {"S"}) \ {"I", "T"} /\ m'.mtu = from.mtu
    BY <1>1, <2>2, InterruptSaves
  <2>4. /\ from.sr = m.sr /\ from.mtu = m.mtu /\ from.bp = m.bp
        /\ from.sp \in {m.sp, Wrap(m.sp + 2)}
    BY <2>2 DEF Harmless, Resumable, SavedSp
  <2>5. m'.sr = {"S"}
    BY <1>1, <2>3, <2>4 DEF User, TypeOK, State, Flags
  <2>6. SavedFrame(from.pc, m.sr)
    BY <2>3, <2>4 DEF SavedIn, SavedFrame
  <2>7. QED BY <2>2, <2>3, <2>4, <2>5, <2>6 DEF SavedIn
<1>2. SystemArea \subseteq Tracked /\ TypeOK /\ [Next]_vars =>
        [User(m) /\ ~ User(m') /\ ~ killed' /\ ~ (shutReq /\ ~ shutReq') =>
           /\ \E sp \in {m.sp, Wrap(m.sp + 2)} : Holds(m'.mem, SLOT_SP, sp)
           /\ Holds(m'.mem, SLOT_BP, m.bp)
           /\ \E pc \in SavedPc : SavedFrame(pc, m.sr)
           /\ m'.sr = {"S"} /\ m'.mtu = m.mtu]_vars
  BY <1>1
<1>3. CASE SystemArea \subseteq Tracked
  <2>1. TypeOK /\ [Next]_vars =>
          [User(m) /\ ~ User(m') /\ ~ killed' /\ ~ (shutReq /\ ~ shutReq') =>
             /\ \E sp \in {m.sp, Wrap(m.sp + 2)} : Holds(m'.mem, SLOT_SP, sp)
             /\ Holds(m'.mem, SLOT_BP, m.bp)
             /\ \E pc \in SavedPc : SavedFrame(pc, m.sr)
             /\ m'.sr = {"S"} /\ m'.mtu = m.mtu]_vars
    BY <1>2, <1>3
  <2>2. QED BY <2>1, TypeInvariant, PTL DEF Spec, ContextSaved
<1>4. QED BY <1>3
-----------------------------------------------------------------------------
(* One save area, three sources.  From an instruction boundary to the next *)
(* fetch at most one vector is entered, because every entry masks I and T; *)
(* until then the context of the boundary is still in the registers, and   *)
(* from then on it is in the slots and the frame.                          *)

Masked(t) == "I" \notin t.sr /\ "T" \notin t.sr

BoundaryInv ==
  ~ killed =>
    \/ entries = 0 /\ ctx = Context(m)
    \/ stage # "pins" /\ entries = 0 /\ Masked(m)
    \/ stage # "pins" /\ entries = 1 /\ Masked(m) /\ SavedIn(m, ctx)

(* An instruction is the last part of execute().                           *)
LEMMA ExecuteEnds ==
  ASSUME Execute
  PROVE  stage = "exec" /\ stage' = "pins"
<1>1. ASSUME NEW from, NEW vector, NEW registers, Enter(from, vector, registers, "pins")
      PROVE  stage' = "pins"
  BY <1>1 DEF Enter, EnterAt
<1>2. ASSUME NEW from, Fault(from) PROVE stage' = "pins"
  BY <1>1, <1>2 DEF Fault
<1>3. ASSUME NEW ok, NEW result, DoneIf(ok, result) \/ Done(result)
      PROVE  stage' = "pins"
  BY <1>2, <1>3 DEF DoneIf, Done
<1>4. ASSUME NEW result, OperandThen(result) PROVE stage' = "pins"
  BY <1>3, <1>4 DEF OperandThen
<1>5. CASE FetchFault
  BY <1>2, <1>5 DEF FetchFault
<1>6. CASE Transfer
  <2>1. CASE Kill \/ Reset \/ Syscall
    BY <1>1, <2>1 DEF Kill, Reset, Syscall, Decode
  <2>2. CASE Call
    BY <1>2, <1>3, <2>2 DEF Call, Decode
  <2>3. CASE Ret
    BY <1>2, <1>3, <2>3 DEF Ret, Decode
  <2>4. CASE Jump
    BY <1>2, <1>3, <2>4 DEF Jump, IndirectFault, Decode
  <2>5. QED BY <1>6, <2>1, <2>2, <2>3, <2>4 DEF Transfer
<1>7. CASE Stack
  BY <1>3, <1>7
  DEF Stack, PushAny, PushDone, Pop, PopPc, PopSp, PopBp, PopStatus, Decode
<1>8. CASE SetStatus \/ SetMtu
  BY <1>3, <1>4, <1>8
  DEF SetStatus, SetFlag, ClearFlag, LeaveSystem, SetMtu, Decode
<1>9. CASE Memory
  BY <1>3, <1>4, <1>9
  DEF Memory, DataInstruction, Load, LoadStatus, LoadSp, LoadBp, StoreAny, StoreDone, Decode
<1>10. CASE External
  <2>1. ASSUME NEW op, Io(op) PROVE stage = "exec" /\ stage' = "pins"
    BY <1>2, <1>3, <2>1 DEF Io, Decode
  <2>2. ASSUME NEW op, Request(op) PROVE stage = "exec" /\ stage' = "pins"
    BY <1>1, <1>2, <1>3, <2>2 DEF Request, Decode
  <2>3. ASSUME NEW op, NEW on, Timer(op, on) PROVE stage = "exec" /\ stage' = "pins"
    BY <2>3 DEF Timer, Decode
  <2>4. CASE TimeFault
    BY <1>2, <2>4 DEF TimeFault, Decode
  <2>5. QED BY <1>10, <2>1, <2>2, <2>3, <2>4 DEF External
<1>11. QED
  BY <1>5, <1>6, <1>7, <1>8, <1>9, <1>10 DEF Execute, FetchFault

LEMMA MCInitType ==
  StartAt(PowerUp \cup HandOff) => TypeOK /\ BoundaryInv
<1>1. SUFFICES ASSUME StartAt(PowerUp \cup HandOff) PROVE TypeOK /\ BoundaryInv
  OBVIOUS
<1>2. PICK s \in PowerUp \cup HandOff : m = s[1] /\ timerOn = s[2]
  BY <1>1 DEF StartAt
<1>3. m \in State /\ timerOn \in BOOLEAN
  <2>1. PowerOn \in State
    BY PowerOnType
  <2>2. ASSUME NEW sr \in SUBSET Flags PROVE Handed(sr, 4, ROM_ADDR - 1) \in State
    <3>1. UserMtu(4, ROM_ADDR - 1) \in [Bounds -> Word]
      BY LayoutAssumption, RoomAssumption
      DEF UserMtu, UserBase, UserEnd, Bounds, Word, FrameMax, SSP
    <3>2. 0 \in Word /\ 4 \in Word
      BY LayoutAssumption DEF Word, SSP
    <3>3. [a \in Tracked |-> Opaque] \in [Tracked -> Byte]
      BY DEF Byte
    <3>4. QED BY <3>1, <3>2, <3>3 DEF Handed, State
  <2>3. CASE s \in PowerUp
    <3>1. s = <<PowerOn, FALSE>>
      BY <2>3 DEF PowerUp
    <3>2. m = PowerOn /\ timerOn = FALSE
      BY <1>2, <3>1
    <3>3. QED BY <2>1, <3>2
  <2>4. CASE s \in HandOff
    <3>1. PICK sr \in {{}, {"I", "T"}} : s = <<Handed(sr, 4, ROM_ADDR - 1), TRUE>>
      BY <2>4 DEF HandOff
    <3>2. sr \in SUBSET Flags
      BY DEF Flags
    <3>3. QED BY <1>2, <2>2, <3>1, <3>2
  <2>5. QED BY <1>2, <2>3, <2>4
<1>4. QED BY <1>1, <1>3 DEF StartAt, TypeOK, Stages, BoundaryInv

(* An entry at a boundary whose registers are still those of ctx.          *)
LEMMA EntryKeepsContext ==
  ASSUME SystemArea \subseteq Tracked, TypeOK, ctx = Context(m),
         NEW target \in Word, NEW registers \in RegisterLists,
         NEW next, NEW aborted, EnterAt(m, target, registers, next, aborted), ~ killed'
  PROVE  Masked(m') /\ SavedIn(m', ctx)
<1>1. PICK ssp \in SYS_LO .. SYS_HI : m' = Interrupt(m, target, ssp, registers)
  BY DEF EnterAt, SspValid
<1>2. m \in State
  BY DEF TypeOK
<1>3. SavedIn(m', m) /\ m'.sr = (m.sr \cup {"S"}) \ {"I", "T"}
  BY <1>1, <1>2, InterruptSaves
<1>4. SavedIn(m', ctx)
  BY <1>3 DEF SavedIn, Context
<1>5. QED BY <1>3, <1>4 DEF Masked

LEMMA MCStep ==
  ASSUME SystemArea \subseteq Tracked, TypeOK, BoundaryInv, MCNext
  PROVE  BoundaryInv'
<1>1. SUFFICES ASSUME ~ killed' PROVE BoundaryInv'
  BY DEF BoundaryInv
<1>2. CASE Execute
  <2>1. stage = "exec" /\ stage' = "pins"
    BY <1>1, <1>2, ExecuteEnds
  <2>2. QED BY <2>1 DEF MCNext, History, BoundaryInv
<1>3. CASE RequestReset \/ RequestShutdown
  BY <1>1, <1>3 DEF RequestReset, RequestShutdown, MCNext, History, EntersVector, BoundaryInv
<1>4. CASE NoPin \/ NoKey \/ TimerRuns
  BY <1>1, <1>4
  DEF NoPin, NoKey, TimerRuns, AfterTimer, MCNext, History, EntersVector, BoundaryInv
<1>5. CASE ShutdownPin
  <2>1. stage = "pins" /\ stage' = "keys" /\ Masked(m') /\ entries' = entries
    <3>1. stage = "pins" /\ shutReq /\ ~ shutReq' /\ stage' = "keys"
      BY <1>1, <1>5 DEF ShutdownPin
    <3>2. Masked(m')
      BY <1>1, <1>5 DEF ShutdownPin, Masked, TypeOK, State
    <3>3. entries' = entries + 0
      BY <3>1 DEF MCNext, History, EntersVector
    <3>4. QED BY <1>5, <3>1, <3>2, <3>3 DEF BoundaryInv, ShutdownPin
  <2>2. entries = 0
    BY <1>5, <2>1 DEF BoundaryInv, ShutdownPin
  <2>3. QED BY <2>1, <2>2 DEF BoundaryInv
<1>6. ASSUME NEW target \in Word, NEW registers \in RegisterLists,
             NEW next \in {"keys", "timer", "exec"}, NEW aborted,
             EnterAt(m, target, registers, next, aborted),
             stage # "exec", ~ killed, ctx = Context(m), entries = 0
      PROVE  BoundaryInv'
  <2>1. Masked(m') /\ SavedIn(m', ctx) /\ stage' = next
    BY <1>1, <1>6, EntryKeepsContext DEF EnterAt
  <2>2. ctx' = ctx /\ entries' \in {0, 1}
    BY <1>6 DEF MCNext, History
  <2>3. QED BY <1>6, <2>1, <2>2 DEF BoundaryInv
<1>7. CASE ResetPin
  <2>1. PICK target \in WordAt(m.mem, VEC_NMI) :
          EnterAt(m, target, NmiRegisters, "keys", "pins")
    BY <1>7 DEF ResetPin, Enter
  <2>2. target \in Word /\ NmiRegisters \in RegisterLists
    BY WordAtType DEF RegisterLists
  <2>3. stage = "pins" /\ ~ killed /\ ctx = Context(m) /\ entries = 0
    BY <1>7 DEF ResetPin, BoundaryInv
  <2>4. QED BY <1>6, <2>1, <2>2, <2>3
<1>8. CASE KeyIrq
  <2>1. PICK target \in WordAt(m.mem, VEC_IRQ) :
          EnterAt(m, target, IrqRegisters, "timer", "timer")
    BY <1>8 DEF KeyIrq
  <2>2. target \in Word /\ IrqRegisters \in RegisterLists
    BY WordAtType DEF RegisterLists
  <2>3. stage = "keys" /\ ~ killed /\ ctx = Context(m) /\ entries = 0
    BY <1>8 DEF KeyIrq, BoundaryInv, Masked
  <2>4. QED BY <1>6, <2>1, <2>2, <2>3
<1>9. CASE TimerExpires
  <2>1. ~ killed /\ stage = "timer"
    BY <1>1, <1>9 DEF TimerExpires, EnterAt
  <2>2. CASE "T" \in m.sr
    <3>1. PICK target \in WordAt(m.mem, VEC_TIMER) :
            EnterAt(m, target, NoRegisters,
                    IF target = 0 THEN "pins" ELSE AfterTimer, "pins")
      BY <1>9, <2>2 DEF TimerExpires
    <3>2. target \in Word /\ NoRegisters \in RegisterLists
      BY WordAtType DEF RegisterLists
    <3>3. ctx = Context(m) /\ entries = 0
      BY <2>1, <2>2 DEF BoundaryInv, Masked
    <3>4. target # 0 /\ AfterTimer = "exec"
      BY <1>1, <2>1, <3>1 DEF EnterAt, AfterTimer
    <3>5. EnterAt(m, target, NoRegisters, "exec", "pins")
      BY <3>1, <3>4
    <3>6. QED BY <1>6, <2>1, <3>2, <3>3, <3>5
  <2>3. CASE "T" \notin m.sr
    BY <1>1, <1>9, <2>1, <2>3
    DEF TimerExpires, AfterTimer, MCNext, History, EntersVector, BoundaryInv
  <2>4. QED BY <2>2, <2>3
<1>10. QED
  BY <1>2, <1>3, <1>4, <1>5, <1>7, <1>8, <1>9 DEF MCNext, Next, Boundary

(* HandlerSeesContext: when a handler's first instruction is fetched, the  *)
(* slots and the frame hold the context of the program the boundary        *)
(* interrupted, for every program and layout, whether the machine was      *)
(* powered on or the kernel handed it to a user program.                   *)
THEOREM HandlerAlwaysSeesContext ==
  SystemArea \subseteq Tracked /\ MCSpec => []HandlerSeesContext
<1>1. StartAt(PowerUp \cup HandOff) => TypeOK /\ BoundaryInv
  BY MCInitType
<1>2. SystemArea \subseteq Tracked /\ TypeOK /\ BoundaryInv /\ [MCNext]_mcvars =>
        TypeOK' /\ BoundaryInv'
  <2>1. SUFFICES ASSUME SystemArea \subseteq Tracked, TypeOK, BoundaryInv,
                        [MCNext]_mcvars
                 PROVE  TypeOK' /\ BoundaryInv'
    OBVIOUS
  <2>2. TypeOK'
    BY <2>1, StepType DEF MCNext, mcvars, vars
  <2>3. CASE MCNext
    BY <2>1, <2>2, <2>3, MCStep
  <2>4. CASE UNCHANGED mcvars
    BY <2>1, <2>2, <2>4 DEF mcvars, vars, BoundaryInv, Masked, SavedIn, Context
  <2>5. QED BY <2>1, <2>3, <2>4
<1>3. BoundaryInv => HandlerSeesContext
  BY DEF BoundaryInv, HandlerSeesContext, SavedIn
<1>4. CASE SystemArea \subseteq Tracked
  <2>1. TypeOK /\ BoundaryInv /\ [MCNext]_mcvars => TypeOK' /\ BoundaryInv'
    BY <1>2, <1>4
  <2>2. QED BY <1>1, <1>3, <2>1, PTL DEF MCSpec
<1>5. QED BY <1>4
=============================================================================
