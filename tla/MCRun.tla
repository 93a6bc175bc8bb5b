------------------------------- MODULE MCRun --------------------------------
(* Few program counters, one of them the handler's, and a user base that   *)
(* makes the physical address of user code fall on another one.            *)
EXTENDS RunControl

(* doc/DEBUGGER.md: "Continuing from a hit executes that instruction once  *)
(* before checking that breakpoint again".  An interrupt taken at the      *)
(* first boundary spends the permission on the handler's instruction, and  *)
(* the return stops at the same breakpoint with nothing executed there.    *)
ContinueExecutesOnce ==
  [][\A p \in Pcs, u \in BOOLEAN, s \in Sps :
       WorkerHits(p, u, s) /\ ~ Temporary(p, s) => owed # p]_vars

(* doc/DEBUGGER.md: "Debugger instruction addresses, breakpoints and memory *)
(* dumps are physical.  For user code, add the MTU IMEM base".  The worker *)
(* compares them with PC, which in user mode is an offset from the base,   *)
(* and executes user code at an enabled breakpoint without having been     *)
(* continued from it.                                                      *)
StopsAtPhysical ==
  [][\A p \in Pcs, u \in BOOLEAN, s \in Sps :
       WorkerExecutes(p, u, s) /\ Physical(p, u) \in breakpoints => owed = p]_vars
=============================================================================
