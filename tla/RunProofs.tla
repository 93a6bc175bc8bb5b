------------------------------ MODULE RunProofs ------------------------------
(***************************************************************************)
(* Theorems about the run control, for every guest and every interleaving  *)
(* of the worker with the console.                                         *)
(***************************************************************************)
EXTENDS RunControl, TLAPS

(* The licence to pass a breakpoint is held only for the breakpoint that   *)
(* the last start() left behind.                                           *)
Licence == resume \in {None, owed}

LEMMA WorkerLicence ==
  ASSUME Licence, Worker
  PROVE  Licence'
<1>1. CASE WorkerTop \/ WorkerWakes \/ WorkerBatchEnds \/ WorkerPaced \/ WorkerKilled
  BY <1>1 DEF WorkerTop, WorkerWakes, WorkerBatchEnds, WorkerPaced, WorkerKilled,
              points, Licence
<1>2. ASSUME NEW p, NEW u, NEW s, WorkerHits(p, u, s) PROVE Licence'
  BY <1>2 DEF WorkerHits, Hit, Licence
<1>3. ASSUME NEW p, NEW u, NEW s, WorkerExecutes(p, u, s) PROVE Licence'
  BY <1>3 DEF WorkerExecutes, Instruction, Licence
<1>4. QED BY <1>1, <1>2, <1>3 DEF Worker

LEMMA StartLicence ==
  ASSUME Licence, NEW address, NEW stack, StartWith(address, stack)
  PROVE  Licence'
BY DEF StartWith, Licence

LEMMA MainLicence ==
  ASSUME Licence,
         \/ MainEnds \/ Start \/ Until \/ NextOverCall \/ Finish \/ Stop \/ Step
         \/ DebugSet \/ SetBreakpoint \/ RemoveBreakpoint \/ Reset \/ Quit
  PROVE  Licence'
<1>1. CASE Start \/ Until \/ NextOverCall \/ Finish
  BY <1>1, StartLicence DEF Start, Until, NextOverCall, Finish, RunUntil
<1>2. CASE Stop \/ SetBreakpoint \/ RemoveBreakpoint \/ Reset \/ Quit
  BY <1>2 DEF Stop, SetBreakpoint, RemoveBreakpoint, Reset, Quit, Shutdown,
              points, Licence
<1>3. CASE Step
  BY <1>3 DEF Step, Licence
<1>4. CASE DebugSet
  BY <1>4 DEF DebugSet, Licence
<1>5. CASE MainEnds
  BY <1>5 DEF MainEnds, ResetEnds, QuitEnds, points, Licence
<1>6. QED BY <1>1, <1>2, <1>3, <1>4, <1>5

LEMMA LicenceInvariant == Spec => []Licence
<1>1. Init => Licence
  BY DEF Init, Licence
<1>2. Licence /\ [Next]_vars => Licence'
  <2>1. ASSUME Licence, UNCHANGED vars PROVE Licence'
    BY <2>1 DEF vars, points, Licence
  <2>2. QED BY <2>1, WorkerLicence, MainLicence DEF Next
<1>3. QED BY <1>1, <1>2, PTL DEF Spec

(* No run of the worker passes an enabled breakpoint in system code that   *)
(* the user has not just continued from (NeverRunsPast).                   *)
THEOREM BreakpointsHold == Spec => NeverRunsPast
<1>1. ASSUME Licence, NEW p \in Pcs, NEW u \in BOOLEAN, NEW s \in Sps,
             WorkerExecutes(p, u, s), ~ u, Physical(p, u) \in breakpoints
      PROVE  owed = p
  <2>1. resume = p
    BY <1>1 DEF WorkerExecutes, Persistent, Physical
  <2>2. p # None
    BY RunAssumption
  <2>3. QED BY <1>1, <2>1, <2>2 DEF Licence
<1>2. Licence => [\A p \in Pcs, u \in BOOLEAN, s \in Sps :
                    WorkerExecutes(p, u, s) /\ ~ u /\ Physical(p, u) \in breakpoints
                      => owed = p]_vars
  BY <1>1
<1>3. QED BY <1>2, LicenceInvariant, PTL DEF NeverRunsPast
-----------------------------------------------------------------------------
LEMMA Remainder ==
  ASSUME NEW i \in Int
  PROVE  i % MAX_MEM \in 0 .. MAX_MEM - 1
BY RunAssumption

LEMMA Addresses == Pcs \subseteq Int /\ Address \subseteq Int /\ Base \in Int /\ CallSize \in Int
<1>1. MAX_MEM \in Int /\ Base \in Int /\ CallSize \in Int
  BY RunAssumption
<1>2. \A p \in Pcs : p \in Int
  BY <1>1, RunAssumption
<1>3. \A p \in Pcs : p + Base \in Int
  BY <1>1, <1>2
<1> QED
  BY <1>1, <1>2, <1>3 DEF Address

LEMMA InitType == Init => TypeOK
<1>1. Handler \in Pcs /\ 0 \in 0 .. Batch
  BY RunAssumption
<1> QED
  BY <1>1 DEF Init, TypeOK

LEMMA WorkerType == ASSUME TypeOK, Worker PROVE TypeOK'
<1>1. CASE WorkerTop
  <2>1. worker' \in {"done", "batch", "asleep"} /\ left' \in {Batch, left} /\ notified' = FALSE
    BY <1>1 DEF WorkerTop
  <2>2. Batch \in 0 .. Batch
    BY RunAssumption
  <2> QED
    BY <1>1, <2>1, <2>2 DEF WorkerTop, TypeOK, guest, points
<1>2. CASE WorkerWakes \/ WorkerBatchEnds \/ WorkerPaced
  BY <1>2 DEF WorkerWakes, WorkerBatchEnds, WorkerPaced, TypeOK, guest, points
<1>4. WorkerTurn => left' \in 0 .. Batch /\ UNCHANGED <<worker, notified, main>>
  BY RunAssumption DEF WorkerTurn, TypeOK
<1>5. CASE WorkerKilled
  BY <1>4, <1>5 DEF WorkerKilled, TypeOK, guest, points
<1>6. ASSUME NEW p \in Pcs, NEW u \in BOOLEAN, NEW s \in Sps, WorkerHits(p, u, s)
      PROVE  TypeOK'
  BY <1>4, <1>6 DEF WorkerHits, Hit, TypeOK
<1>7. ASSUME NEW p \in Pcs, NEW u \in BOOLEAN, NEW s \in Sps, WorkerExecutes(p, u, s)
      PROVE  TypeOK'
  BY <1>4, <1>7 DEF WorkerExecutes, Instruction, Effect, TypeOK
<1> QED
  BY <1>1, <1>2, <1>5, <1>6, <1>7 DEF Worker

LEMMA StartType ==
  ASSUME TypeOK, NEW address \in (0 .. MAX_MEM - 1) \cup {None}, NEW stack \in Sps \cup {None},
         StartWith(address, stack)
  PROVE  TypeOK'
<1>1. UNCHANGED <<guest, killed, breakpoints, main>> /\ tempPc' = address /\ tempSp' = stack
  BY DEF StartWith
<1>2. CASE killed
  BY <1>1, <1>2 DEF StartWith, TypeOK, guest, thread
<1>3. CASE ~ killed
  <2>1. running' = TRUE /\ StartThread /\ resume' \in {resume, hit} /\ hit' \in {hit, None}
        /\ owed' \in {owed, hit}
    BY <1>3 DEF StartWith
  <2> QED
    BY <1>1, <2>1 DEF StartThread, TypeOK, guest
<1> QED
  BY <1>2, <1>3

LEMMA RunUntilType ==
  ASSUME TypeOK, NEW address \in Int, NEW stack \in Sps \cup {None}, RunUntil(address, stack)
  PROVE  TypeOK'
<1>1. address - Offset \in Int
  BY Addresses DEF Offset
<1> DEFINE target == (address - Offset) % MAX_MEM
<1>2. target \in (0 .. MAX_MEM - 1) \cup {None}
  BY <1>1, Remainder
<1>3. StartWith(target, stack)
  BY DEF RunUntil
<1> HIDE DEF target
<1> QED
  BY <1>2, <1>3, StartType

LEMMA MainType ==
  ASSUME TypeOK,
         \/ MainEnds \/ Start \/ Until \/ NextOverCall \/ Finish \/ Stop \/ Step
         \/ DebugSet \/ SetBreakpoint \/ RemoveBreakpoint \/ Reset \/ Quit
  PROVE  TypeOK'
<1>1. CASE Start
  BY <1>1, StartType DEF Start, TypeOK
<1>2. CASE Until
  BY <1>2, RunUntilType, Addresses DEF Until
<1>3. CASE NextOverCall
  <2>1. pc + CallSize \in Int /\ sp \in Sps
    BY Addresses DEF TypeOK
  <2> QED
    BY <1>3, <2>1, RunUntilType DEF NextOverCall
<1>4. CASE Finish
  BY <1>4, RunUntilType, Addresses DEF Finish
<1>5. CASE Stop \/ SetBreakpoint \/ RemoveBreakpoint \/ Reset \/ Quit
  BY <1>5 DEF Stop, SetBreakpoint, RemoveBreakpoint, Reset, Quit, Shutdown, TypeOK,
              guest, points, thread
<1>6. CASE Step
  <2>1. /\ UNCHANGED <<breakpoints, thread, main>> /\ hit' = None /\ tempPc' = None /\ tempSp' = None
        /\ running' = FALSE /\ resume' = None /\ owed' \in {None, owed}
    BY <1>6 DEF Step
  <2>2. pc' \in Pcs /\ user' \in BOOLEAN /\ sp' \in Sps /\ killed' \in BOOLEAN
    BY <1>6 DEF Step, Effect, TypeOK, guest
  <2> QED
    BY <2>1, <2>2 DEF TypeOK, thread
<1>7. CASE DebugSet
  <2>1. pc' \in Pcs /\ user' \in BOOLEAN /\ sp' \in Sps
    BY <1>7 DEF DebugSet, EditRegister, TypeOK
  <2>2. hit' \in {hit, None}
    BY <1>7 DEF DebugSet
  <2> QED
    BY <1>7, <2>1, <2>2 DEF DebugSet, TypeOK, thread
<1>8. CASE MainEnds
  BY <1>8, RunAssumption DEF MainEnds, ResetEnds, QuitEnds, TypeOK, guest, points, thread
<1> QED
  BY <1>1, <1>2, <1>3, <1>4, <1>5, <1>6, <1>7, <1>8

(* No command and no step of the worker puts a register, a breakpoint or a *)
(* temporary target out of the machine, although targets are moved between *)
(* logical and physical addresses (run_until, debug_set in cpu.cc).        *)
THEOREM TypeCorrect == Spec => []TypeOK
<1>1. TypeOK /\ [Next]_vars => TypeOK'
  <2>1. ASSUME TypeOK, UNCHANGED vars PROVE TypeOK'
    BY <2>1 DEF vars, guest, points, thread, TypeOK
  <2> QED
    BY <2>1, WorkerType, MainType DEF Next
<1> QED
  BY <1>1, InitType, PTL DEF Spec
=============================================================================
