------------------------------- MODULE AllStop -------------------------------
(***************************************************************************)
(* What pkg/proc asks of a backend (the comments on proc.ProcessInternal   *)
(* and ContinueOnce in interface.go): the target is either running, and    *)
(* nothing may be assumed of its threads, or stopped, and then every       *)
(* thread stays where it is, with the breakpoint it was found at, until    *)
(* the next resume.  Breakpoints are written and erased only while the     *)
(* target is stopped.  A native backend has to build this out of threads   *)
(* that stop one at a time.                                                *)
(***************************************************************************)
CONSTANTS
  Tids,     \* the threads
  Addrs,    \* the addresses of breakpoints
  NoAddr    \* no breakpoint

VARIABLES
  world,    \* "running", "stopped", or "over": exited or detached
  live,     \* the threads of the process
  at,       \* where every thread is
  hit,      \* thread.Breakpoint() of every thread
  bps       \* the addresses with a breakpoint

vars == <<world, live, at, hit, bps>>

(* A target that is being launched counts as running.                      *)
Init == world \in {"running", "stopped"} /\ hit = [t \in Tids |-> NoAddr]

(* The breakpoints of threads are cleared as they are resumed.             *)
Resume ==
  /\ world = "stopped"
  /\ world' = "running"
  /\ UNCHANGED <<live, at, bps>>

Run ==
  /\ world = "running"
  /\ UNCHANGED <<world, bps>>

(* ContinueOnce returns: a thread is reported at a breakpoint only if one  *)
(* is set there and the instruction under it has not been executed.        *)
Stop ==
  /\ world = "running"
  /\ world' = "stopped"
  /\ \A t \in live' : hit'[t] # NoAddr => hit'[t] \in bps /\ at'[t] = hit'[t]
  /\ UNCHANGED bps

SetBreakpoint ==
  /\ world = "stopped"
  /\ \E a \in Addrs : bps' = bps \cup {a}
  /\ UNCHANGED <<world, live, at, hit>>

ClearBreakpoint ==
  /\ world = "stopped"
  /\ \E a \in bps : bps' = bps \ {a}
  /\ UNCHANGED <<world, live, at, hit>>

End == world # "over" /\ world' = "over"

Next == Resume \/ Run \/ Stop \/ SetBreakpoint \/ ClearBreakpoint \/ End

Spec == Init /\ [][Next]_vars
=============================================================================
