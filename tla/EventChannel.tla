---------------------------- MODULE EventChannel ----------------------------
(***************************************************************************)
(* What the keyboard promises the guest: a bounded FIFO of key events.     *)
(* Every accepted event leaves the queue once and in order, and what the   *)
(* guest receives is the event that leaves.  When the queue is full the    *)
(* newest event is dropped and counted, up to a saturating limit.          *)
(***************************************************************************)
EXTENDS Naturals, Sequences

CONSTANTS
  Keys,      (* the nonzero event words                                    *)
  Capacity,  (* events the queue holds: 64                                 *)
  DROP_MAX   (* where the overflow counter stops: 0xffff                   *)

VARIABLES
  queue,     (* the events that wait                                       *)
  held,      (* 1 while an event handed out still occupies its place       *)
  dropped,   (* how many were dropped since the last Clear                 *)
  received   (* the events handed to the guest, oldest first               *)

channelVars == <<queue, held, dropped, received>>

Init == queue = <<>> /\ held = 0 /\ dropped = 0 /\ received = <<>>

Accept(k) ==
  /\ Len(queue) + held < Capacity
  /\ queue' = Append(queue, k)
  /\ UNCHANGED <<held, dropped, received>>

Overflow ==
  /\ Len(queue) + held = Capacity
  /\ dropped' = IF dropped < DROP_MAX THEN dropped + 1 ELSE dropped
  /\ UNCHANGED <<queue, held, received>>

Receive ==
  /\ queue # <<>> /\ held = 0
  /\ held' \in {0, 1}
  /\ received' = Append(received, Head(queue))
  /\ queue' = Tail(queue)
  /\ UNCHANGED dropped

Release == held = 1 /\ held' = 0 /\ UNCHANGED <<queue, dropped, received>>

(* A REQ that einr refuses, or that kills, takes the event for nothing.    *)
Lose ==
  /\ queue # <<>> /\ held = 0
  /\ queue' = Tail(queue)
  /\ UNCHANGED <<held, dropped, received>>

Clear == /\ held = 0
         /\ queue' = <<>> /\ dropped' = 0
         /\ UNCHANGED <<held, received>>

Next == \/ \E k \in Keys : Accept(k)
        \/ Overflow \/ Receive \/ Release \/ Lose \/ Clear

Spec == Init /\ [][Next]_channelVars
=============================================================================
