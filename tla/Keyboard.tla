------------------------------ MODULE Keyboard ------------------------------
(***************************************************************************)
(* The keyboard device and its two users: the SDL thread, which queues     *)
(* events (Keyboard::input), and the processor thread, which before every  *)
(* instruction tries to deliver the oldest one (EmemMapper::pump_keyboard) *)
(* and may itself address the device (READ, WRITE, REQ at 0xfffc).         *)
(*                                                                         *)
(* The device's lock covers single operations only, so an input can fall   *)
(* between the three calls of a delivery: pending, einr, consume.          *)
(***************************************************************************)
EXTENDS Naturals, Sequences

CONSTANTS
  Keys,       (* the nonzero event words                                   *)
  Capacity,   (* Keyboard::input's limit: 64                               *)
  DROP_MAX,   (* where the counter of dropped events stops: 0xffff         *)
  MaxInputs   (* bound on the events the SDL thread produces               *)

ASSUME KeyboardAssumption ==
  /\ Capacity \in Nat \ {0} /\ DROP_MAX \in Nat /\ MaxInputs \in Nat
  /\ 0 \notin Keys

VARIABLES
  events,    (* Keyboard::events                                           *)
  dropped,   (* Keyboard::dropped                                          *)
  at,        (* where the processor thread is in execute()                 *)
  value,     (* what pending() returned in this pump_keyboard()            *)
  irq,       (* flag I of SR                                               *)
  handler,   (* whether the IRQ vector is nonzero                          *)
  killed,    (* CPU::killed                                                *)
  inputs,    (* events produced so far                                     *)
  accepted,  (* history: the events that entered the queue, oldest first   *)
  removed,   (* history: how many have left it                             *)
  received   (* history: the event words handed to the guest in R1         *)

device  == <<events, dropped>>
history == <<accepted, removed, received>>
vars == <<events, dropped, at, value, irq, handler, killed, inputs,
          accepted, removed, received>>

Places == {"boundary", "peeked", "delivered", "execute"}

TypeOK ==
  /\ events \in Seq(Keys) /\ Len(events) <= Capacity
  /\ dropped \in 0 .. DROP_MAX
  /\ at \in Places /\ value \in Keys \cup {0}
  /\ irq \in BOOLEAN /\ handler \in BOOLEAN /\ killed \in BOOLEAN
  /\ inputs \in Nat /\ removed \in Nat
  /\ accepted \in Seq(Keys) /\ received \in Seq(Keys)

(* Power-on: SR has I set, and no handler is installed.                    *)
Init ==
  /\ events = <<>> /\ dropped = 0
  /\ at = "boundary" /\ value = 0
  /\ irq = TRUE /\ handler = FALSE /\ killed = FALSE
  /\ inputs = 0
  /\ accepted = <<>> /\ removed = 0 /\ received = <<>>
-----------------------------------------------------------------------------
(* The SDL thread: Keyboard::input.  A full queue drops the newest event.  *)
(* Wrong on purpose (mutants): the counter wraps nowhere; the oldest event *)
(* makes room.                                                             *)
InputUncounted(k) ==
  /\ inputs < MaxInputs /\ inputs' = inputs + 1
  /\ IF Len(events) = Capacity
     THEN dropped' = dropped + 1 /\ UNCHANGED <<events, accepted>>
     ELSE /\ events' = Append(events, k) /\ accepted' = Append(accepted, k)
          /\ UNCHANGED dropped
  /\ UNCHANGED <<at, value, irq, handler, killed, removed, received>>

InputDropsOldest(k) ==
  /\ inputs < MaxInputs /\ inputs' = inputs + 1
  /\ events' = Append(IF Len(events) = Capacity THEN Tail(events) ELSE events, k)
  /\ accepted' = Append(accepted, k)
  /\ removed' = IF Len(events) = Capacity THEN removed + 1 ELSE removed
  /\ UNCHANGED <<dropped, at, value, irq, handler, killed, received>>

Input(k) ==
  /\ inputs < MaxInputs /\ inputs' = inputs + 1
  /\ IF Len(events) = Capacity
     THEN /\ dropped' = IF dropped = DROP_MAX THEN dropped ELSE dropped + 1
          /\ UNCHANGED <<events, accepted>>
     ELSE /\ events' = Append(events, k)
          /\ accepted' = Append(accepted, k)
          /\ UNCHANGED dropped
  /\ UNCHANGED <<at, value, irq, handler, killed, removed, received>>
-----------------------------------------------------------------------------
(* The processor thread.  Pending looks at the queue and the vector.       *)
(* The mutant, wrong on purpose, does not look again at a refused event.   *)
PendingNoRetry ==
  /\ at = "boundary" /\ ~ killed
  /\ value' = IF events = <<>> THEN 0 ELSE Head(events)
  /\ at' = IF value' # 0 /\ value' # value /\ handler THEN "peeked" ELSE "execute"
  /\ UNCHANGED <<device, irq, handler, killed, inputs, history>>

Pending ==
  /\ at = "boundary" /\ ~ killed
  /\ value' = IF events = <<>> THEN 0 ELSE Head(events)
  /\ at' = IF value' # 0 /\ handler THEN "peeked" ELSE "execute"
  /\ UNCHANGED <<device, irq, handler, killed, inputs, history>>

(* CPU::einr in pump_keyboard: refused while I is masked; with an invalid  *)
(* system stack pointer it kills the processor and reports failure.        *)
Deliver ==
  /\ at = "peeked" /\ irq
  /\ irq' = FALSE /\ at' = "delivered"
  /\ received' = Append(received, value)
  /\ UNCHANGED <<device, value, handler, killed, inputs, accepted, removed>>

(* Wrong on purpose (mutant): the result of einr is ignored.               *)
RefuseConsumes ==
  /\ at = "peeked" /\ ~ irq
  /\ at' = "delivered"
  /\ UNCHANGED <<device, value, irq, handler, killed, inputs, history>>

Refuse ==
  /\ at = "peeked" /\ ~ irq
  /\ at' = "execute"
  /\ UNCHANGED <<device, value, irq, handler, killed, inputs, history>>

Crash ==
  /\ at = "peeked" /\ irq
  /\ irq' = FALSE /\ killed' = TRUE /\ at' = "boundary"
  /\ UNCHANGED <<device, value, handler, inputs, history>>

(* Wrong on purpose (mutant): the newest event is popped.                  *)
PopNewest(q) == IF q = <<>> THEN q ELSE SubSeq(q, 1, Len(q) - 1)

Pop(q) == IF q = <<>> THEN q ELSE Tail(q)

(* Keyboard::consume pops whatever is in front by now.                     *)
Consume ==
  /\ at = "delivered"
  /\ at' = "execute"
  /\ events' = Pop(events)
  /\ removed' = removed + 1
  /\ UNCHANGED <<dropped, value, irq, handler, killed, inputs, accepted, received>>
-----------------------------------------------------------------------------
(* The instruction: what the guest can do to the device, to I and to the   *)
(* vector.  Keyboard::cpu_read with request 0 pops; requests 1 and 2 only  *)
(* report, as do all others.                                               *)
Executed == at = "execute" /\ at' = "boundary"

Read ==
  /\ Executed /\ events # <<>>
  /\ events' = Tail(events) /\ removed' = removed + 1
  /\ received' = Append(received, Head(events))
  /\ UNCHANGED <<dropped, value, irq, handler, killed, inputs, accepted>>

Write ==
  /\ Executed
  /\ events' = <<>> /\ dropped' = 0
  /\ removed' = removed + Len(events)
  /\ UNCHANGED <<value, irq, handler, killed, inputs, accepted, received>>

(* einr while I is set: it delivers or, with an invalid system stack       *)
(* pointer, masks I and kills; without a handler it kills at once.  The    *)
(* guest has then received the given events.                               *)
Enter(delivered) ==
  /\ irq
  /\ \/ handler /\ irq' = FALSE /\ received' = delivered /\ UNCHANGED killed
     \/ handler /\ irq' = FALSE /\ killed' = TRUE /\ UNCHANGED received
     \/ ~ handler /\ killed' = TRUE /\ UNCHANGED <<irq, received>>

(* REQ with R1 = 0: EmemMapper::request pops the event, then calls einr,   *)
(* whose refusal nobody looks at.                                          *)
Request ==
  /\ Executed /\ events # <<>>
  /\ events' = Tail(events) /\ removed' = removed + 1
  /\ \/ Enter(Append(received, Head(events)))
     \/ ~ irq /\ UNCHANGED <<received, irq, killed>>
  /\ UNCHANGED <<dropped, value, handler, inputs, accepted>>

(* REQ with another payload, or of an empty queue: only einr has effects.  *)
RequestStatus ==
  /\ Executed /\ Enter(received)
  /\ UNCHANGED <<device, value, handler, inputs, accepted, removed>>

(* Any other instruction: it may set or clear I and change the vector.     *)
Other ==
  /\ Executed
  /\ irq' \in BOOLEAN /\ handler' \in BOOLEAN
  /\ UNCHANGED <<device, value, killed, inputs, history>>

Pump == Pending \/ Deliver \/ Refuse \/ Crash \/ Consume
Instruction == Read \/ Write \/ Request \/ RequestStatus \/ Other

Next == (\E k \in Keys : Input(k)) \/ Pump \/ Instruction

Spec == Init /\ [][Next]_vars

(* The processor thread keeps executing; nobody has to press a key.        *)
FairSpec == Spec /\ WF_vars(Pump) /\ WF_vars(Instruction)
-----------------------------------------------------------------------------
(* A delivered event is still in the queue until consume() removes it; for *)
(* the guest it has left.                                                  *)
Waiting  == IF at = "delivered" THEN Tail(events) ELSE events
Occupied == IF at = "delivered" THEN 1 ELSE 0

(* The device keeps the promise of a FIFO channel although a delivery is   *)
(* three calls and input comes in between: what einr hands over is what    *)
(* consume() removes.                                                      *)
Channel == INSTANCE EventChannel WITH queue <- Waiting, held <- Occupied
ImplementsChannel == Channel!Spec

(* The event that was peeked stays in front of the queue until the         *)
(* delivery is over, whatever the SDL thread does meanwhile.               *)
PeekedInFront ==
  at \in {"peeked", "delivered"} => events # <<>> /\ Head(events) = value

(* No event leaves twice or out of order: the accepted events are those    *)
(* that left, then those that wait.                                        *)
InOrder ==
  /\ removed + Len(events) = Len(accepted)
  /\ \A i \in 1 .. Len(events) : events[i] = accepted[removed + i]

(* An accepted event leaves the queue if the guest is interruptible with a *)
(* handler installed again and again.                                      *)
Ready == at = "boundary" /\ irq /\ handler /\ ~ killed
Served ==
  []<>Ready => \A i \in 1 .. MaxInputs : Len(accepted) >= i ~> removed >= i
=============================================================================
