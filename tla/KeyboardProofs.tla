--------------------------- MODULE KeyboardProofs ---------------------------
(***************************************************************************)
(* Theorems about the keyboard, for every set of keys, every capacity and  *)
(* any number of inputs.                                                   *)
(***************************************************************************)
EXTENDS Keyboard, SequenceTheorems, TLAPS

(* The inductive invariant: what is peeked cannot change under the         *)
(* processor thread, because input only appends and the only removals are  *)
(* that thread's own.                                                      *)
Safety == TypeOK /\ PeekedInFront /\ InOrder

(* The queue of a device that is not touched.                              *)
LEMMA QueueUnchanged ==
  ASSUME InOrder, UNCHANGED <<events, accepted, removed>>
  PROVE  InOrder'
BY DEF InOrder

(* One event leaves from the front of the queue.                           *)
LEMMA PopInOrder ==
  ASSUME TypeOK, InOrder, events # <<>>, events' = Tail(events),
         removed' = removed + 1, accepted' = accepted
  PROVE  InOrder' /\ events' \in Seq(Keys) /\ Len(events') <= Capacity /\ removed' \in Nat
<1>1. /\ Tail(events) \in Seq(Keys) /\ Len(Tail(events)) = Len(events) - 1
      /\ \A i \in 1 .. Len(Tail(events)) : Tail(events)[i] = events[i + 1]
  BY HeadTailProperties DEF TypeOK
<1>2. Len(events) \in Nat \ {0} /\ removed \in Nat /\ Len(accepted) \in Nat
  BY EmptySeq, LenProperties DEF TypeOK
<1>3. removed' + Len(events') = Len(accepted')
  BY <1>1, <1>2 DEF InOrder
<1>4. ASSUME NEW i \in 1 .. Len(events')
      PROVE  events'[i] = accepted'[removed' + i]
  <2>1. i + 1 \in 1 .. Len(events)
    BY <1>1, <1>2
  <2>2. events[i + 1] = accepted[removed + (i + 1)]
    BY <2>1 DEF InOrder
  <2>3. removed + (i + 1) = removed' + i
    BY <1>2
  <2>4. QED BY <1>1, <2>2, <2>3
<1>5. QED BY <1>1, <1>2, <1>3, <1>4, KeyboardAssumption DEF InOrder, TypeOK

LEMMA InitSafety == Init => Safety
<1>1. <<>> \in Seq(Keys) /\ Len(<<>>) = 0
  BY EmptySeq
<1>2. ASSUME Init PROVE TypeOK
  <2>1. /\ events \in Seq(Keys) /\ accepted \in Seq(Keys) /\ received \in Seq(Keys)
        /\ Len(events) <= Capacity
    BY <1>1, <1>2, KeyboardAssumption DEF Init
  <2>2. dropped \in 0 .. DROP_MAX /\ inputs \in Nat /\ removed \in Nat
    BY <1>2, KeyboardAssumption DEF Init
  <2>3. QED BY <1>2, <2>1, <2>2 DEF Init, TypeOK, Places
<1>3. Init => PeekedInFront
  BY DEF Init, PeekedInFront
<1>4. ASSUME Init PROVE InOrder
  <2>1. removed = 0 /\ Len(events) = 0 /\ Len(accepted) = 0
    BY <1>1, <1>4 DEF Init
  <2>2. QED BY <2>1 DEF InOrder
<1>5. QED BY <1>2, <1>3, <1>4 DEF Safety

LEMMA InputSafety ==
  ASSUME Safety, NEW k \in Keys, Input(k)
  PROVE  Safety'
<1>1. CASE Len(events) = Capacity
  <2>1. UNCHANGED <<events, at, value, accepted, removed>>
    BY <1>1 DEF Input
  <2>2. dropped' \in 0 .. DROP_MAX
    BY <1>1, KeyboardAssumption DEF Input, Safety, TypeOK
  <2>3. QED
    BY <1>1, <2>1, <2>2, QueueUnchanged DEF Input, Safety, TypeOK, PeekedInFront
<1>2. CASE Len(events) # Capacity
  <2>1. events' = Append(events, k) /\ accepted' = Append(accepted, k)
    BY <1>2 DEF Input
  <2>2. /\ events' \in Seq(Keys) /\ accepted' \in Seq(Keys)
        /\ Len(events') = Len(events) + 1 /\ Len(accepted') = Len(accepted) + 1
        /\ Len(events) \in Nat /\ Len(accepted) \in Nat /\ removed \in Nat
    BY <2>1, AppendProperties, LenProperties DEF Safety, TypeOK
  <2>3. Len(events') <= Capacity
    BY <1>2, <2>2, KeyboardAssumption DEF Safety, TypeOK
  <2>4. TypeOK'
    BY <1>2, <2>2, <2>3 DEF Input, Safety, TypeOK
  <2>5. PeekedInFront'
    <3>1. ASSUME events # <<>>
          PROVE  events' # <<>> /\ Head(events') = Head(events)
      BY <2>1, <3>1 DEF Safety, TypeOK
    <3>2. QED BY <3>1 DEF Input, Safety, PeekedInFront
  <2>6. InOrder'
    <3>1. ASSUME NEW i \in 1 .. Len(events')
          PROVE  events'[i] = accepted'[removed' + i]
      <4>1. CASE i \in 1 .. Len(events)
        <5>1. removed + i \in 1 .. Len(accepted)
          BY <2>2, <4>1 DEF Safety, InOrder
        <5>2. events'[i] = events[i] /\ accepted'[removed + i] = accepted[removed + i]
          BY <2>1, <4>1, <5>1, AppendProperties DEF Safety, TypeOK
        <5>3. QED BY <4>1, <5>2 DEF Input, Safety, InOrder
      <4>2. CASE i = Len(events) + 1
        <5>1. removed + i = Len(accepted) + 1
          BY <2>2, <4>2 DEF Safety, InOrder
        <5>2. events'[i] = k /\ accepted'[removed + i] = k
          BY <2>1, <4>2, <5>1, AppendProperties DEF Safety, TypeOK
        <5>3. QED BY <5>2 DEF Input
      <4>3. QED BY <2>2, <4>1, <4>2
    <3>2. removed' + Len(events') = Len(accepted')
      BY <2>2 DEF Input, Safety, InOrder
    <3>3. QED BY <3>1, <3>2 DEF InOrder
  <2>7. QED BY <2>4, <2>5, <2>6 DEF Safety
<1>3. QED BY <1>1, <1>2

LEMMA PumpSafety ==
  ASSUME Safety, Pump
  PROVE  Safety'
<1>1. CASE Pending
  <2>1. UNCHANGED <<events, accepted, removed>>
    BY <1>1 DEF Pending, device, history
  <2>2. events # <<>> => Head(events) \in Keys
    BY HeadTailProperties DEF Safety, TypeOK
  <2>3. QED
    BY <1>1, <2>1, <2>2, QueueUnchanged
       DEF Pending, device, history, Safety, TypeOK, PeekedInFront, Places
<1>2. CASE Deliver
  <2>1. UNCHANGED <<events, accepted, removed>> /\ value \in Keys
    BY <1>2, HeadTailProperties DEF Deliver, device, Safety, TypeOK, PeekedInFront
  <2>2. received' \in Seq(Keys)
    BY <1>2, <2>1, AppendProperties DEF Deliver, Safety, TypeOK
  <2>3. QED
    BY <1>2, <2>1, <2>2, QueueUnchanged
       DEF Deliver, device, Safety, TypeOK, PeekedInFront, Places
<1>3. CASE Refuse
  BY <1>3, QueueUnchanged
     DEF Refuse, device, history, Safety, TypeOK, PeekedInFront, Places
<1>4. CASE Crash
  BY <1>4, QueueUnchanged
     DEF Crash, device, history, Safety, TypeOK, PeekedInFront, Places
<1>5. CASE Consume
  <2>1. events # <<>> /\ events' = Tail(events)
    BY <1>5 DEF Consume, Pop, Safety, PeekedInFront
  <2>2. QED
    BY <1>5, <2>1, PopInOrder DEF Consume, Safety, TypeOK, PeekedInFront, Places
<1>6. QED BY <1>1, <1>2, <1>3, <1>4, <1>5 DEF Pump

LEMMA InstructionSafety ==
  ASSUME Safety, Instruction
  PROVE  Safety'
<1>1. at = "execute" /\ at' = "boundary"
  BY DEF Instruction, Read, Write, Request, RequestStatus, Other, Executed
<1>2. PeekedInFront'
  BY <1>1 DEF PeekedInFront
<1>3. ASSUME events # <<>> PROVE Head(events) \in Keys
  BY <1>3, HeadTailProperties DEF Safety, TypeOK
<1>4. CASE Read
  <2>1. received' \in Seq(Keys)
    BY <1>3, <1>4, AppendProperties DEF Read, Safety, TypeOK
  <2>2. InOrder' /\ events' \in Seq(Keys) /\ Len(events') <= Capacity /\ removed' \in Nat
    BY <1>4, PopInOrder DEF Read, Safety
  <2>3. QED BY <1>1, <1>2, <1>4, <2>1, <2>2 DEF Read, Safety, TypeOK, Places
<1>5. CASE Write
  <2>1. events' = <<>> /\ events' \in Seq(Keys) /\ Len(events') = 0
    BY <1>5, EmptySeq DEF Write
  <2>2. removed \in Nat /\ Len(events) \in Nat /\ removed' = removed + Len(events)
    BY <1>5, LenProperties DEF Write, Safety, TypeOK
  <2>3. InOrder'
    BY <1>5, <2>1, <2>2 DEF Write, Safety, InOrder
  <2>4. TypeOK'
    BY <1>1, <1>5, <2>1, <2>2, KeyboardAssumption DEF Write, Safety, TypeOK, Places
  <2>5. QED BY <1>2, <2>3, <2>4 DEF Safety
<1>6. CASE Request
  <2>1. received' = Append(received, Head(events)) \/ received' = received
    BY <1>6 DEF Request, Enter
  <2>2. received' \in Seq(Keys)
    <3>1. events # <<>> /\ received \in Seq(Keys)
      BY <1>6 DEF Request, Safety, TypeOK
    <3>2. Append(received, Head(events)) \in Seq(Keys)
      BY <1>3, <3>1, AppendProperties
    <3>3. QED BY <2>1, <3>1, <3>2
  <2>3. InOrder' /\ events' \in Seq(Keys) /\ Len(events') <= Capacity /\ removed' \in Nat
    BY <1>6, PopInOrder DEF Request, Safety
  <2>4. irq' \in BOOLEAN /\ killed' \in BOOLEAN
    BY <1>6 DEF Request, Enter, Safety, TypeOK
  <2>5. QED BY <1>1, <1>2, <1>6, <2>2, <2>3, <2>4 DEF Request, Enter, Safety, TypeOK, Places
<1>7. CASE RequestStatus
  BY <1>1, <1>2, <1>7, QueueUnchanged
     DEF RequestStatus, Enter, device, history, Safety, TypeOK, Places
<1>8. CASE Other
  BY <1>1, <1>2, <1>8, QueueUnchanged DEF Other, device, history, Safety, TypeOK, Places
<1>9. QED BY <1>4, <1>5, <1>6, <1>7, <1>8 DEF Instruction

LEMMA SafetyInvariant == Spec => []Safety
<1>1. Safety /\ [Next]_vars => Safety'
  <2>1. ASSUME Safety, UNCHANGED vars PROVE Safety'
    BY <2>1 DEF vars, Safety, TypeOK, PeekedInFront, InOrder
  <2>2. QED BY <2>1, InputSafety, PumpSafety, InstructionSafety DEF Next
<1>2. QED BY <1>1, InitSafety, PTL DEF Spec

(* What einr hands to the guest is what consume() removes afterwards, and  *)
(* no event leaves the queue twice or out of order.                        *)
THEOREM PeekIsStable == Spec => []PeekedInFront
BY SafetyInvariant, PTL DEF Safety

THEOREM NothingReordered == Spec => []InOrder
BY SafetyInvariant, PTL DEF Safety
-----------------------------------------------------------------------------
(* The keyboard implements the channel.                                    *)

LEMMA TailOfAppend ==
  ASSUME NEW S, NEW q \in Seq(S), q # <<>>, NEW k \in S
  PROVE  Tail(Append(q, k)) = Append(Tail(q), k)
<1>1. /\ Tail(q) \in Seq(S) /\ Len(Tail(q)) = Len(q) - 1
      /\ \A i \in 1 .. Len(Tail(q)) : Tail(q)[i] = q[i + 1]
      /\ Len(q) \in Nat \ {0}
  BY HeadTailProperties, EmptySeq
<1>2. /\ Append(q, k) \in Seq(S) /\ Append(q, k) # <<>>
      /\ Len(Append(q, k)) = Len(q) + 1
      /\ \A i \in 1 .. Len(q) : Append(q, k)[i] = q[i]
      /\ Append(q, k)[Len(q) + 1] = k
  BY AppendProperties
<1>3. /\ Tail(Append(q, k)) \in Seq(S) /\ Len(Tail(Append(q, k))) = Len(q)
      /\ \A i \in 1 .. Len(q) : Tail(Append(q, k))[i] = Append(q, k)[i + 1]
  <2>1. /\ Tail(Append(q, k)) \in Seq(S)
        /\ Len(Tail(Append(q, k))) = Len(Append(q, k)) - 1
        /\ \A i \in 1 .. Len(Tail(Append(q, k))) :
             Tail(Append(q, k))[i] = Append(q, k)[i + 1]
    BY <1>2, HeadTailProperties
  <2>2. QED BY <1>1, <1>2, <2>1
<1>4. /\ Append(Tail(q), k) \in Seq(S) /\ Len(Append(Tail(q), k)) = Len(q)
      /\ \A i \in 1 .. Len(q) - 1 : Append(Tail(q), k)[i] = Tail(q)[i]
      /\ Append(Tail(q), k)[Len(q)] = k
  <2>1. /\ Append(Tail(q), k) \in Seq(S)
        /\ Len(Append(Tail(q), k)) = Len(Tail(q)) + 1
        /\ \A i \in 1 .. Len(Tail(q)) : Append(Tail(q), k)[i] = Tail(q)[i]
        /\ Append(Tail(q), k)[Len(Tail(q)) + 1] = k
    BY <1>1, AppendProperties
  <2>2. QED BY <1>1, <2>1
<1>5. ASSUME NEW i \in 1 .. Len(q)
      PROVE  Tail(Append(q, k))[i] = Append(Tail(q), k)[i]
  <2>1. CASE i = Len(q)
    BY <1>1, <1>2, <1>3, <1>4, <2>1
  <2>2. CASE i \in 1 .. Len(q) - 1
    <3>1. Append(Tail(q), k)[i] = q[i + 1]
      BY <1>1, <1>4, <2>2
    <3>2. i + 1 \in 1 .. Len(q)
      BY <1>1, <2>2
    <3>3. Tail(Append(q, k))[i] = q[i + 1]
      BY <1>2, <1>3, <3>2
    <3>4. QED BY <3>1, <3>3
  <2>3. i = Len(q) \/ i \in 1 .. Len(q) - 1
    <3>1. Len(q) \in Int
      BY <1>1
    <3>2. QED BY <3>1
  <2>4. QED BY <2>1, <2>2, <2>3
<1>6. QED BY <1>3, <1>4, <1>5, SeqEqual

LEMMA InputChannel ==
  ASSUME Safety, NEW k \in Keys, Input(k)
  PROVE  Channel!Next
<1>1. /\ Len(events) \in Nat /\ Len(events) <= Capacity
      /\ at = "delivered" => Len(Tail(events)) = Len(events) - 1
      /\ Capacity \in Nat
  BY LenProperties, HeadTailProperties, KeyboardAssumption
     DEF Safety, TypeOK, PeekedInFront
<1>2. Len(Waiting) + Occupied = Len(events)
  BY <1>1 DEF Waiting, Occupied
<1>3. CASE Len(events) = Capacity
  <2>1. dropped' = IF dropped < DROP_MAX THEN dropped + 1 ELSE dropped
    BY <1>3, KeyboardAssumption DEF Input, Safety, TypeOK
  <2>2. UNCHANGED <<Occupied, Waiting, received>>
    BY <1>3 DEF Input, Waiting, Occupied
  <2>3. Channel!Overflow
    BY <1>2, <1>3, <2>1, <2>2 DEF Channel!Overflow
  <2>4. QED BY <2>3 DEF Channel!Next
<1>4. CASE Len(events) # Capacity
  <2>1. Waiting' = Append(Waiting, k)
    BY <1>4, TailOfAppend DEF Input, Waiting, Safety, TypeOK, PeekedInFront
  <2>2. UNCHANGED <<Occupied, dropped, received>>
    BY <1>4 DEF Input, Occupied
  <2>3. Channel!Accept(k)
    BY <1>1, <1>2, <1>4, <2>1, <2>2 DEF Channel!Accept
  <2>4. QED BY <2>3 DEF Channel!Next
<1>5. QED BY <1>3, <1>4

LEMMA PumpChannel ==
  ASSUME Safety, Pump
  PROVE  Channel!Next \/ UNCHANGED Channel!channelVars
<1>1. CASE Pending \/ Refuse \/ Crash
  <2>1. UNCHANGED <<Waiting, Occupied, dropped, received>>
    BY <1>1 DEF Pending, Refuse, Crash, device, history, Waiting, Occupied
  <2>2. QED BY <2>1 DEF Channel!channelVars
<1>2. CASE Deliver
  <2>1. /\ Waiting = events /\ Waiting' = Tail(events)
        /\ Occupied = 0 /\ Occupied' = 1
    BY <1>2 DEF Deliver, device, Waiting, Occupied
  <2>2. events # <<>> /\ received' = Append(received, Head(events)) /\ dropped' = dropped
    BY <1>2 DEF Deliver, device, Safety, PeekedInFront
  <2>3. Channel!Receive
    BY <2>1, <2>2 DEF Channel!Receive
  <2>4. QED BY <2>3 DEF Channel!Next
<1>3. CASE Consume
  <2>1. /\ Waiting = Tail(events) /\ Waiting' = Tail(events)
        /\ Occupied = 1 /\ Occupied' = 0
    BY <1>3 DEF Consume, Pop, Waiting, Occupied, Safety, PeekedInFront
  <2>2. Channel!Release
    BY <1>3, <2>1 DEF Consume, Channel!Release
  <2>3. QED BY <2>2 DEF Channel!Next
<1>4. QED BY <1>1, <1>2, <1>3 DEF Pump

LEMMA InstructionChannel ==
  ASSUME Safety, Instruction
  PROVE  Channel!Next \/ UNCHANGED Channel!channelVars
<1>1. /\ Waiting = events /\ Waiting' = events'
      /\ Occupied = 0 /\ Occupied' = 0
  BY DEF Instruction, Read, Write, Request, RequestStatus, Other, Executed,
         Waiting, Occupied
<1>2. CASE Read
  <2>1. Channel!Receive
    BY <1>1, <1>2 DEF Read, Channel!Receive
  <2>2. QED BY <2>1 DEF Channel!Next
<1>3. CASE Write
  <2>1. Channel!Clear
    BY <1>1, <1>3 DEF Write, Channel!Clear
  <2>2. QED BY <2>1 DEF Channel!Next
<1>4. CASE Request
  <2>1. received' = Append(received, Head(events)) \/ received' = received
    BY <1>4 DEF Request, Enter
  <2>2. Channel!Receive \/ Channel!Lose
    BY <1>1, <1>4, <2>1 DEF Request, Enter, Channel!Receive, Channel!Lose
  <2>3. QED BY <2>2 DEF Channel!Next
<1>5. CASE RequestStatus \/ Other
  BY <1>1, <1>5 DEF RequestStatus, Enter, Other, device, history, Channel!channelVars
<1>6. QED BY <1>2, <1>3, <1>4, <1>5 DEF Instruction

(* The queue never exceeds its size and the dropped counter never leaves   *)
(* its range, whatever input comes between the three calls of a delivery.  *)
THEOREM TypeCorrect == Spec => []TypeOK
BY SafetyInvariant, PTL DEF Safety

(* Seen from the guest, the delivery in three calls, the polling and the   *)
(* concurrent input are a FIFO channel that drops the newest.              *)
THEOREM KeyboardIsChannel == Spec => ImplementsChannel
<1>1. Init => Channel!Init
  BY DEF Init, Channel!Init, Waiting, Occupied
<1>2. Safety /\ [Next]_vars => [Channel!Next]_Channel!channelVars
  <2>1. UNCHANGED vars => UNCHANGED Channel!channelVars
    BY DEF vars, Channel!channelVars, Waiting, Occupied
  <2>2. QED
    BY <2>1, InputChannel, PumpChannel, InstructionChannel DEF Next
<1>3. QED BY <1>1, <1>2, SafetyInvariant, PTL DEF Spec, ImplementsChannel, Channel!Spec
=============================================================================
