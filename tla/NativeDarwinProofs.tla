-------------------------- MODULE NativeDarwinProofs --------------------------
(***************************************************************************)
(* Proofs about NativeDarwin for any number of threads, program and        *)
(* bounds: suspend counts and Mach exceptions implement AllStop, a process *)
(* reported as exited is dead, the child does not exec before its          *)
(* exception ports are set, and a breakpoint hit is kept until it has been *)
(* handled.                                                                *)
(***************************************************************************)
EXTENDS NativeDarwin, WellFoundedInduction, TLAPS

USE Zenon

(* The states of the debugger before Launch has seen the new task, and     *)
(* those that come after the first exception of it.                        *)
Launching == {"fork", "write", "read", "threads", "failed", "quit"}
Attached == {"stop", "halt", "count", "stopped", "resume", "step", "kill"}
Execed == {"prog", "traced"}

Typed ==
  /\ live \subseteq Tids /\ known \subseteq Tids
  /\ DOMAIN sc = Tids
  /\ ktask \in {0, 1, 2} /\ ostask \in {0, 1, 2}

(* The pipe: the child goes on only when the debugger has set its ports    *)
(* and written, or has ended.                                              *)
PipeHolds ==
  /\ child # "reading" => fd # "open"
  /\ fd # "open" => notify # {} \/ dpc = "quit"
  /\ dpc = "write" => notify # {}

(* The tasks: the second one exists only after exec, and only it has       *)
(* threads.                                                                *)
TaskOfChild ==
  /\ ktask = 2 => child \in Execed
  /\ live # {} => ktask = 2
  /\ dpc \notin Launching => child \in Execed

(* The task the debugger knows: the first until an exception of the second *)
(* arrives.                                                                *)
TaskKnown ==
  /\ dpc = "fork" => ostask = 0
  /\ dpc \in {"write", "read", "threads"} => ostask = 1
  /\ dpc \in Attached \/ inited => ostask = 2
  /\ ostask = 2 => ktask # 1 /\ child \in Execed

(* Only dead tasks are notified as dead.                                   *)
DeathsTrue ==
  /\ 1 \in deaths => ktask # 1
  /\ 2 \in deaths => ktask = 0 /\ child \in Execed

DeadWhenOver == dpc \in {"kill", "reap", "exited"} => ktask = 0

(* While the threads are counted, one that was missed has been started by  *)
(* one on the list that still runs, or has been overlooked.                *)
CountSees ==
  dpc = "count" /\ (\E t \in live \ overlooked : sc[t] = 0)
  => \E t \in list \cap live : sc[t] = 0

StoppedSuspended == dpc = "stopped" => \A t \in live \ overlooked : sc[t] # 0

NoBreakpointYet == ~inited => cur = [t \in Tids |-> None]

IInv ==
  /\ Typed /\ PipeHolds /\ TaskOfChild /\ TaskKnown /\ DeathsTrue /\ DeadWhenOver
  /\ CountSees /\ StoppedSuspended /\ NoBreakpointYet

(* The initial states are as IInv says.                                    *)
LEMMA InitIInv == Init => IInv
  BY DarwinAssumption, SMTT(30)
     DEF Init, IInv, Typed, PipeHolds, TaskOfChild, TaskKnown, DeathsTrue, DeadWhenOver, CountSees,
         StoppedSuspended, NoBreakpointYet, Launching, Attached, Tids

(* A step that leaves the tasks, the suspend counts and the state of the   *)
(* debugger alone keeps IInv.                                              *)
LEMMA QuietStep ==
  ASSUME IInv,
         UNCHANGED <<lvars, ktask, live, sc, deaths, notify, ostask, inited, known, cur, dpc, list,
                   overlooked>>
  PROVE  IInv'
  BY ZenonT(60) DEF lvars, IInv, Typed, PipeHolds, TaskOfChild, TaskKnown, DeathsTrue, DeadWhenOver, CountSees,
         StoppedSuspended, NoBreakpointYet

(* Every step keeps IInv.                                                  *)
LEMMA NextIInv == IInv /\ [Next]_vars => IInv'
<1> SUFFICES ASSUME IInv, [Next]_vars PROVE IInv'
  OBVIOUS
<1> USE DarwinAssumption DEF Launching, Attached, Execed
<1>inv. /\ Typed /\ PipeHolds /\ TaskOfChild /\ TaskKnown /\ DeathsTrue /\ DeadWhenOver
        /\ CountSees /\ StoppedSuspended /\ NoBreakpointYet
  BY DEF IInv
<1>1. CASE UNCHANGED vars
  BY <1>1, QuietStep DEF vars, kvars, mvars, bvars, cvars, svars
<1>2. ASSUME NEW t \in Tids, Execute(t) PROVE IInv'
  BY <1>2, QuietStep DEF Execute, bvars, cvars, svars
<1>3. ASSUME NEW t \in Tids, Signal(t) PROVE IInv'
  BY <1>3, QuietStep DEF Signal, bvars, cvars, svars
<1>4. CASE ForkHits
  BY <1>4, QuietStep DEF ForkHits, kvars, bvars, cvars, svars
<1>5. CASE TakeSignal
  BY <1>5, QuietStep DEF TakeSignal, bvars, cvars, svars
<1>6. CASE HaltUnknown
  BY <1>6, QuietStep DEF HaltUnknown, kvars, bvars, cvars, svars
<1>7. CASE requestManualStop
  BY <1>7, QuietStep DEF requestManualStop, kvars, cvars, svars
<1>8. ASSUME NEW a \in Starts, WriteBreakpoint(a) \/ EraseBreakpoint(a) PROVE IInv'
  BY <1>8, QuietStep DEF WriteBreakpoint, EraseBreakpoint, kvars, mvars, cvars, svars
<1>9. CASE acquire_mach_task
  <2>1. Typed' /\ PipeHolds' /\ TaskOfChild' /\ TaskKnown' /\ DeathsTrue' /\ DeadWhenOver'
    BY <1>9, <1>inv, SMTT(30)
    DEF acquire_mach_task, lvars, kvars, svars, Typed, PipeHolds, TaskOfChild, TaskKnown,
        DeathsTrue, DeadWhenOver
  <2>2. CountSees' /\ StoppedSuspended' /\ NoBreakpointYet'
    BY <1>9, <1>inv
    DEF acquire_mach_task, lvars, kvars, svars, Typed, CountSees, StoppedSuspended,
        NoBreakpointYet, TaskOfChild
  <2> QED
    BY <2>1, <2>2 DEF IInv
<1>10. CASE WritePipe
  <2>1. Typed' /\ PipeHolds' /\ TaskOfChild' /\ TaskKnown' /\ DeathsTrue' /\ DeadWhenOver'
    BY <1>10, <1>inv
    DEF WritePipe, kvars, mvars, bvars, svars, Typed, PipeHolds, TaskOfChild, TaskKnown,
        DeathsTrue, DeadWhenOver
  <2>2. CountSees' /\ StoppedSuspended' /\ NoBreakpointYet'
    BY <1>10, <1>inv
    DEF WritePipe, kvars, mvars, bvars, svars, Typed, CountSees, StoppedSuspended,
        NoBreakpointYet, TaskOfChild
  <2> QED
    BY <2>1, <2>2 DEF IInv
<1>11. CASE ReadPipe
  <2>1. Typed' /\ PipeHolds' /\ TaskOfChild' /\ TaskKnown' /\ DeathsTrue' /\ DeadWhenOver'
    BY <1>11, <1>inv
    DEF ReadPipe, lvars, kvars, mvars, bvars, svars, Typed, PipeHolds, TaskOfChild, TaskKnown,
        DeathsTrue, DeadWhenOver
  <2>2. CountSees' /\ StoppedSuspended' /\ NoBreakpointYet'
    BY <1>11, <1>inv
    DEF ReadPipe, lvars, kvars, mvars, bvars, svars, Typed, CountSees, StoppedSuspended,
        NoBreakpointYet, TaskOfChild
  <2> QED
    BY <2>1, <2>2 DEF IInv
<1>12. CASE Launch
  <2>1. Typed' /\ PipeHolds' /\ TaskOfChild' /\ TaskKnown' /\ DeathsTrue' /\ DeadWhenOver'
    BY <1>12, <1>inv
    DEF Launch, lvars, kvars, mvars, Typed, PipeHolds, TaskOfChild, TaskKnown, DeathsTrue,
        DeadWhenOver
  <2>2. CountSees' /\ StoppedSuspended' /\ NoBreakpointYet'
    BY <1>12, <1>inv
    DEF Launch, lvars, kvars, mvars, Typed, CountSees, StoppedSuspended, NoBreakpointYet,
        TaskOfChild
  <2> QED
    BY <2>1, <2>2 DEF IInv
<1>13. CASE Quit
  <2>1. Typed' /\ PipeHolds' /\ TaskOfChild' /\ TaskKnown' /\ DeathsTrue' /\ DeadWhenOver'
    BY <1>13, <1>inv
    DEF Quit, kvars, mvars, bvars, svars, Typed, PipeHolds, TaskOfChild, TaskKnown, DeathsTrue,
        DeadWhenOver
  <2>2. CountSees' /\ StoppedSuspended' /\ NoBreakpointYet'
    BY <1>13, <1>inv
    DEF Quit, kvars, mvars, bvars, svars, Typed, CountSees, StoppedSuspended, NoBreakpointYet,
        TaskOfChild
  <2> QED
    BY <2>1, <2>2 DEF IInv
<1>14. CASE ChildSetup \/ ChildExec
  <2>1. Typed' /\ PipeHolds' /\ TaskOfChild' /\ TaskKnown' /\ DeathsTrue' /\ DeadWhenOver'
    BY <1>14, <1>inv, SMTT(30)
    DEF ChildSetup, ChildExec, bvars, cvars, svars, Typed, PipeHolds, TaskOfChild, TaskKnown,
        DeathsTrue, DeadWhenOver
  <2>2. CountSees' /\ StoppedSuspended' /\ NoBreakpointYet'
    BY <1>14, <1>inv
    DEF ChildSetup, ChildExec, bvars, cvars, svars, Typed, CountSees, StoppedSuspended,
        NoBreakpointYet, TaskOfChild
  <2> QED
    BY <2>1, <2>2 DEF IInv
<1>15. CASE NewTask
  <2>1. Typed' /\ PipeHolds' /\ TaskOfChild' /\ TaskKnown' /\ DeathsTrue' /\ DeadWhenOver'
    BY <1>15, <1>inv, SMTT(30)
    DEF NewTask, Tids, bvars, cvars, svars, Typed, PipeHolds, TaskOfChild, TaskKnown, DeathsTrue,
        DeadWhenOver
  <2>2. CountSees' /\ StoppedSuspended' /\ NoBreakpointYet'
    BY <1>15, <1>inv
    DEF NewTask, Tids, bvars, cvars, svars, Typed, CountSees, StoppedSuspended, NoBreakpointYet,
        TaskOfChild
  <2> QED
    BY <2>1, <2>2 DEF IInv
<1>16. CASE ExecTrap
  <2>1. Typed' /\ PipeHolds' /\ TaskOfChild' /\ TaskKnown' /\ DeathsTrue' /\ DeadWhenOver'
    BY <1>16, <1>inv
    DEF ExecTrap, bvars, cvars, svars, Typed, PipeHolds, TaskOfChild, TaskKnown, DeathsTrue,
        DeadWhenOver
  <2>2. CountSees' /\ StoppedSuspended' /\ NoBreakpointYet'
    BY <1>16, <1>inv
    DEF ExecTrap, bvars, cvars, svars, Typed, CountSees, StoppedSuspended, NoBreakpointYet,
        TaskOfChild
  <2> QED
    BY <2>1, <2>2 DEF IInv
<1>17. ASSUME NEW t \in Tids, NewThread(t) PROVE IInv'
  <2>1. Typed' /\ PipeHolds' /\ TaskOfChild' /\ TaskKnown' /\ DeathsTrue' /\ DeadWhenOver'
    BY <1>17, <1>inv
    DEF NewThread, Active, Runs, Tids, lvars, mvars, bvars, cvars, svars, Typed, PipeHolds,
        TaskOfChild, TaskKnown, DeathsTrue, DeadWhenOver
  <2>2. CountSees' /\ StoppedSuspended' /\ NoBreakpointYet'
    BY <1>17, <1>inv
    DEF NewThread, Active, Runs, Tids, lvars, mvars, bvars, cvars, svars, Typed, CountSees,
        StoppedSuspended, NoBreakpointYet, TaskOfChild
  <2> QED
    BY <2>1, <2>2 DEF IInv
<1>18. ASSUME NEW t \in Tids, ThreadExit(t) PROVE IInv'
  <2>1. Typed' /\ PipeHolds' /\ TaskOfChild' /\ TaskKnown' /\ DeathsTrue' /\ DeadWhenOver'
    BY <1>18, <1>inv
    DEF ThreadExit, Active, Runs, lvars, mvars, bvars, cvars, svars, Typed, PipeHolds,
        TaskOfChild, TaskKnown, DeathsTrue, DeadWhenOver
  <2>2. CountSees' /\ StoppedSuspended' /\ NoBreakpointYet'
    BY <1>18, <1>inv
    DEF ThreadExit, Active, Runs, lvars, mvars, bvars, cvars, svars, Typed, CountSees,
        StoppedSuspended, NoBreakpointYet, TaskOfChild
  <2> QED
    BY <2>1, <2>2 DEF IInv
<1>19. CASE ProcessExit
  <2>1. Typed' /\ PipeHolds' /\ TaskOfChild' /\ TaskKnown' /\ DeathsTrue' /\ DeadWhenOver'
    BY <1>19, <1>inv, ZenonT(40)
    DEF ProcessExit, Dies, Active, Runs, lvars, bvars, cvars, svars, Typed, PipeHolds,
        TaskOfChild, TaskKnown, DeathsTrue, DeadWhenOver
  <2>2. CountSees' /\ StoppedSuspended' /\ NoBreakpointYet'
    BY <1>19, <1>inv
    DEF ProcessExit, Dies, Active, Runs, lvars, bvars, cvars, svars, Typed, CountSees,
        StoppedSuspended, NoBreakpointYet, TaskOfChild
  <2> QED
    BY <2>1, <2>2 DEF IInv
<1>20. CASE TakeDead
  <2>1. Typed' /\ PipeHolds' /\ TaskOfChild' /\ TaskKnown' /\ DeathsTrue' /\ DeadWhenOver'
    BY <1>20, <1>inv
    DEF TakeDead, StartCount, Waiting, lvars, kvars, bvars, Typed, PipeHolds, TaskOfChild,
        TaskKnown, DeathsTrue, DeadWhenOver
  <2>2. CountSees' /\ StoppedSuspended' /\ NoBreakpointYet'
    BY <1>20, <1>inv
    DEF TakeDead, StartCount, Waiting, lvars, kvars, bvars, Typed, CountSees, StoppedSuspended,
        NoBreakpointYet, TaskOfChild
  <2> QED
    BY <2>1, <2>2 DEF IInv
<1>21. CASE trapWait
  <2>1. Typed' /\ PipeHolds' /\ TaskOfChild' /\ TaskKnown' /\ DeathsTrue' /\ DeadWhenOver'
    BY <1>21, <1>inv, SMTT(30)
    DEF trapWait, TakeTrap, FollowExec, Heard, Waiting, lvars, Typed, PipeHolds, TaskOfChild,
        TaskKnown, DeathsTrue, DeadWhenOver
  <2>2. CountSees' /\ StoppedSuspended' /\ NoBreakpointYet'
    BY <1>21, <1>inv, ZenonT(60)
    DEF trapWait, TakeTrap, FollowExec, Heard, Waiting, lvars, Typed, CountSees,
        StoppedSuspended, NoBreakpointYet, TaskOfChild
  <2> QED
    BY <2>1, <2>2 DEF IInv
<1>22. CASE trapWaitUnknown
  <2>1. Typed' /\ PipeHolds' /\ TaskOfChild' /\ TaskKnown' /\ DeathsTrue' /\ DeadWhenOver'
    BY <1>22, <1>inv
    DEF trapWaitUnknown, Waiting, lvars, kvars, svars, Typed, PipeHolds, TaskOfChild, TaskKnown,
        DeathsTrue, DeadWhenOver
  <2>2. CountSees' /\ StoppedSuspended' /\ NoBreakpointYet'
    BY <1>22, <1>inv
    DEF trapWaitUnknown, Waiting, lvars, kvars, svars, Typed, CountSees, StoppedSuspended,
        NoBreakpointYet, TaskOfChild
  <2> QED
    BY <2>1, <2>2 DEF IInv
<1>23. ASSUME NEW d \in {1, 2}, trapWaitDeath(d) PROVE IInv'
  <2>1. Typed' /\ PipeHolds' /\ TaskOfChild' /\ TaskKnown' /\ DeathsTrue' /\ DeadWhenOver'
    BY <1>23, <1>inv
    DEF trapWaitDeath, Ignored, Waiting, lvars, kvars, bvars, svars, Typed, PipeHolds,
        TaskOfChild, TaskKnown, DeathsTrue, DeadWhenOver
  <2>2. CountSees' /\ StoppedSuspended' /\ NoBreakpointYet'
    BY <1>23, <1>inv
    DEF trapWaitDeath, Ignored, Waiting, lvars, kvars, bvars, svars, Typed, CountSees,
        StoppedSuspended, NoBreakpointYet, TaskOfChild
  <2> QED
    BY <2>1, <2>2 DEF IInv
<1>24. CASE Interrupted
  <2>1. Typed' /\ PipeHolds' /\ TaskOfChild' /\ TaskKnown' /\ DeathsTrue' /\ DeadWhenOver'
    BY <1>24, <1>inv
    DEF Interrupted, StartCount, Waiting, lvars, kvars, mvars, bvars, Typed, PipeHolds,
        TaskOfChild, TaskKnown, DeathsTrue, DeadWhenOver
  <2>2. CountSees' /\ StoppedSuspended' /\ NoBreakpointYet'
    BY <1>24, <1>inv
    DEF Interrupted, StartCount, Waiting, lvars, kvars, mvars, bvars, Typed, CountSees,
        StoppedSuspended, NoBreakpointYet, TaskOfChild
  <2> QED
    BY <2>1, <2>2 DEF IInv
<1>25. CASE ContinueOnce
  <2>1. Typed' /\ PipeHolds' /\ TaskOfChild' /\ TaskKnown' /\ DeathsTrue' /\ DeadWhenOver'
    BY <1>25, <1>inv
    DEF ContinueOnce, lvars, kvars, mvars, bvars, svars, Typed, PipeHolds, TaskOfChild,
        TaskKnown, DeathsTrue, DeadWhenOver
  <2>2. CountSees' /\ StoppedSuspended' /\ NoBreakpointYet'
    BY <1>25, <1>inv
    DEF ContinueOnce, lvars, kvars, mvars, bvars, svars, Typed, CountSees, StoppedSuspended,
        NoBreakpointYet, TaskOfChild
  <2> QED
    BY <2>1, <2>2 DEF IInv
<1>26. ASSUME NEW t \in Tids, singleStep(t) PROVE IInv'
  <2>1. Typed' /\ PipeHolds' /\ TaskOfChild' /\ TaskKnown' /\ DeathsTrue' /\ DeadWhenOver'
    BY <1>26, <1>inv
    DEF singleStep, resume_thread, lvars, mvars, bvars, Typed, PipeHolds, TaskOfChild, TaskKnown,
        DeathsTrue, DeadWhenOver
  <2>2. CountSees' /\ StoppedSuspended' /\ NoBreakpointYet'
    BY <1>26, <1>inv
    DEF singleStep, resume_thread, lvars, mvars, bvars, Typed, CountSees, StoppedSuspended,
        NoBreakpointYet, TaskOfChild
  <2> QED
    BY <2>1, <2>2 DEF IInv
<1>27. CASE StartCont
  <2>1. Typed' /\ PipeHolds' /\ TaskOfChild' /\ TaskKnown' /\ DeathsTrue' /\ DeadWhenOver'
    BY <1>27, <1>inv
    DEF StartCont, lvars, kvars, mvars, bvars, Typed, PipeHolds, TaskOfChild, TaskKnown,
        DeathsTrue, DeadWhenOver
  <2>2. CountSees' /\ StoppedSuspended' /\ NoBreakpointYet'
    BY <1>27, <1>inv
    DEF StartCont, lvars, kvars, mvars, bvars, Typed, CountSees, StoppedSuspended,
        NoBreakpointYet, TaskOfChild
  <2> QED
    BY <2>1, <2>2 DEF IInv
<1>28. ASSUME NEW t \in Tids, resume(t) PROVE IInv'
  <2>1. Typed' /\ PipeHolds' /\ TaskOfChild' /\ TaskKnown' /\ DeathsTrue' /\ DeadWhenOver'
    BY <1>28, <1>inv
    DEF resume, resume_thread, lvars, mvars, bvars, Typed, PipeHolds, TaskOfChild, TaskKnown,
        DeathsTrue, DeadWhenOver
  <2>2. CountSees' /\ StoppedSuspended' /\ NoBreakpointYet'
    BY <1>28, <1>inv
    DEF resume, resume_thread, lvars, mvars, bvars, Typed, CountSees, StoppedSuspended,
        NoBreakpointYet, TaskOfChild
  <2> QED
    BY <2>1, <2>2 DEF IInv
<1>29. ASSUME NEW t \in Tids, stopThread(t) PROVE IInv'
  <2>1. Typed' /\ PipeHolds' /\ TaskOfChild' /\ TaskKnown' /\ DeathsTrue' /\ DeadWhenOver'
    BY <1>29, <1>inv
    DEF stopThread, lvars, mvars, Typed, PipeHolds, TaskOfChild, TaskKnown, DeathsTrue,
        DeadWhenOver
  <2>2. CountSees' /\ StoppedSuspended' /\ NoBreakpointYet'
    BY <1>29, <1>inv
    DEF stopThread, lvars, mvars, Typed, CountSees, StoppedSuspended, NoBreakpointYet,
        TaskOfChild
  <2> QED
    BY <2>1, <2>2 DEF IInv
<1>30. CASE StartHalt \/ StillRunning
  <2>1. Typed' /\ PipeHolds' /\ TaskOfChild' /\ TaskKnown' /\ DeathsTrue' /\ DeadWhenOver'
    BY <1>30, <1>inv
    DEF StartHalt, StillRunning, lvars, kvars, mvars, bvars, svars, Typed, PipeHolds,
        TaskOfChild, TaskKnown, DeathsTrue, DeadWhenOver
  <2>2. CountSees' /\ StoppedSuspended' /\ NoBreakpointYet'
    BY <1>30, <1>inv
    DEF StartHalt, StillRunning, lvars, kvars, mvars, bvars, svars, Typed, CountSees,
        StoppedSuspended, NoBreakpointYet, TaskOfChild
  <2> QED
    BY <2>1, <2>2 DEF IInv
<1>31. CASE HaltTrap
  <2>1. Typed' /\ PipeHolds' /\ TaskOfChild' /\ TaskKnown' /\ DeathsTrue' /\ DeadWhenOver'
    BY <1>31, <1>inv
    DEF HaltTrap, TakeTrap, Heard, lvars, bvars, Typed, PipeHolds, TaskOfChild, TaskKnown,
        DeathsTrue, DeadWhenOver
  <2>2. CountSees' /\ StoppedSuspended' /\ NoBreakpointYet'
    BY <1>31, <1>inv
    DEF HaltTrap, TakeTrap, Heard, lvars, bvars, Typed, CountSees, StoppedSuspended,
        NoBreakpointYet, TaskOfChild
  <2> QED
    BY <2>1, <2>2 DEF IInv
<1>32. ASSUME NEW d \in {1, 2}, HaltTimeout \/ HaltDeath(d) PROVE IInv'
  <2>1. Typed' /\ PipeHolds' /\ TaskOfChild' /\ TaskKnown' /\ DeathsTrue' /\ DeadWhenOver'
    BY <1>32, <1>inv
    DEF HaltTimeout, HaltDeath, StartCount, lvars, kvars, mvars, bvars, Typed, PipeHolds,
        TaskOfChild, TaskKnown, DeathsTrue, DeadWhenOver
  <2>2. CountSees' /\ StoppedSuspended' /\ NoBreakpointYet'
    BY <1>32, <1>inv
    DEF HaltTimeout, HaltDeath, StartCount, lvars, kvars, mvars, bvars, Typed, CountSees,
        StoppedSuspended, NoBreakpointYet, TaskOfChild
  <2> QED
    BY <2>1, <2>2 DEF IInv
<1>33. CASE Stopped
  <2>1. Typed' /\ PipeHolds' /\ TaskOfChild' /\ TaskKnown' /\ DeathsTrue' /\ DeadWhenOver'
    BY <1>33, <1>inv
    DEF Stopped, num_running_threads, lvars, mvars, Typed, PipeHolds, TaskOfChild, TaskKnown,
        DeathsTrue, DeadWhenOver
  <2>2. CountSees' /\ StoppedSuspended' /\ NoBreakpointYet'
    BY <1>33, <1>inv
    DEF Stopped, num_running_threads, lvars, mvars, Typed, CountSees, StoppedSuspended,
        NoBreakpointYet, TaskOfChild
  <2> QED
    BY <2>1, <2>2 DEF IInv
<1>34. CASE kill
  <2>1. Typed' /\ PipeHolds' /\ TaskOfChild' /\ TaskKnown' /\ DeathsTrue' /\ DeadWhenOver'
    BY <1>34, <1>inv
    DEF kill, Dies, lvars, bvars, svars, Typed, PipeHolds, TaskOfChild, TaskKnown, DeathsTrue,
        DeadWhenOver
  <2>2. CountSees' /\ StoppedSuspended' /\ NoBreakpointYet'
    BY <1>34, <1>inv
    DEF kill, Dies, lvars, bvars, svars, Typed, CountSees, StoppedSuspended, NoBreakpointYet,
        TaskOfChild
  <2> QED
    BY <2>1, <2>2 DEF IInv
<1>35. ASSUME NEW d \in {1, 2}, Killed(d) PROVE IInv'
  <2>1. Typed' /\ PipeHolds' /\ TaskOfChild' /\ TaskKnown' /\ DeathsTrue' /\ DeadWhenOver'
    BY <1>35, <1>inv
    DEF Killed, lvars, kvars, bvars, svars, Typed, PipeHolds, TaskOfChild, TaskKnown, DeathsTrue,
        DeadWhenOver
  <2>2. CountSees' /\ StoppedSuspended' /\ NoBreakpointYet'
    BY <1>35, <1>inv
    DEF Killed, lvars, kvars, bvars, svars, Typed, CountSees, StoppedSuspended, NoBreakpointYet,
        TaskOfChild
  <2> QED
    BY <2>1, <2>2 DEF IInv
<1>36. CASE Detach
  <2>1. Typed' /\ PipeHolds' /\ TaskOfChild' /\ TaskKnown' /\ DeathsTrue' /\ DeadWhenOver'
    BY <1>36, <1>inv
    DEF Detach, lvars, kvars, mvars, bvars, svars, Typed, PipeHolds, TaskOfChild, TaskKnown,
        DeathsTrue, DeadWhenOver
  <2>2. CountSees' /\ StoppedSuspended' /\ NoBreakpointYet'
    BY <1>36, <1>inv
    DEF Detach, lvars, kvars, mvars, bvars, svars, Typed, CountSees, StoppedSuspended,
        NoBreakpointYet, TaskOfChild
  <2> QED
    BY <2>1, <2>2 DEF IInv
<1>37. CASE Reap
  <2>1. Typed' /\ PipeHolds' /\ TaskOfChild' /\ TaskKnown' /\ DeathsTrue' /\ DeadWhenOver'
    BY <1>37, <1>inv
    DEF Reap, lvars, kvars, mvars, bvars, svars, Typed, PipeHolds, TaskOfChild, TaskKnown,
        DeathsTrue, DeadWhenOver
  <2>2. CountSees' /\ StoppedSuspended' /\ NoBreakpointYet'
    BY <1>37, <1>inv
    DEF Reap, lvars, kvars, mvars, bvars, svars, Typed, CountSees, StoppedSuspended,
        NoBreakpointYet, TaskOfChild
  <2> QED
    BY <2>1, <2>2 DEF IInv
<1> QED
  <2>1. CASE Child
    BY <2>1, <1>14, <1>15, <1>16 DEF Child
  <2>2. CASE Program
    BY <2>2, <1>2, <1>3, <1>4, <1>17, <1>18, <1>19 DEF Program
  <2>3. CASE Backend
    BY <2>3, <1>5, <1>6, <1>9, <1>10, <1>11, <1>12, <1>20, <1>21, <1>22, <1>23, <1>26, <1>27,
             <1>28, <1>29, <1>30, <1>31, <1>32, <1>33, <1>35, <1>37 DEF Backend
  <2>4. CASE User
    BY <2>4, <1>7, <1>8, <1>13, <1>25, <1>34, <1>36 DEF User
  <2> QED
    BY <2>1, <2>2, <2>3, <2>4, <1>1, <1>24 DEF Next

(* IInv is an invariant of the backend.                                    *)
THEOREM IInvariant == Spec => []IInv
  BY InitIInv, NextIInv, PTL DEF Spec

(* A process that is reported as exited is dead, in whatever order the     *)
(* death of the task that called execve and the first exception of the new *)
(* one are heard of.                                                       *)
THEOREM ExitedMeansDead == Spec => []ExitedIsDead
<1>1. IInv => ExitedIsDead
  BY DEF IInv, DeadWhenOver, ExitedIsDead
<1> QED
  BY <1>1, IInvariant, PTL

(* The child does not exec before its exception ports are set, as long as  *)
(* the debugger lives.                                                     *)
THEOREM PortsSetBeforeExec == Spec => []PortsBeforeExec
<1>1. IInv => PortsBeforeExec
  BY DEF IInv, PipeHolds, PortsBeforeExec
<1> QED
  BY <1>1, IInvariant, PTL

-----------------------------------------------------------------------------
(***************************************************************************)
(* HitKept: what the exception port holds, which threads wait for a reply, *)
(* and where a thread stands that has executed a trap.                     *)
(***************************************************************************)
Messages == [thread : Tids \cup {Foreign}, kind : {"trap", "signal", "manual"}]

(* What the exception port holds of a thread: a message in its name, one   *)
(* it waits for an answer to, the one of a trap; and only one to answer.   *)
InName(q, t) == \E i \in 1 .. Len(q) : q[i].thread = t
Asks(q, t) == \E i \in 1 .. Len(q) : q[i].thread = t /\ q[i].kind # "manual"
Traps(q, t) == \E i \in 1 .. Len(q) : q[i] = Msg(t, "trap")
Single(q, t) ==
  \A i, j \in 1 .. Len(q) :
    /\ q[i].thread = t /\ q[i].kind # "manual"
    /\ q[j].thread = t /\ q[j].kind # "manual"
    => i = j

Stopping == {"stop", "halt", "count"}
Still == {"stopped", "resume", "step"}

(* A thread id that has not been given yet appears nowhere.                *)
BornFirst(t) ==
  pc[t] = 0 => t \notin live /\ t \notin ports /\ t # trapthread /\ ~InName(queue, t)

(* A thread waits for the answer to its exception and sends no other.      *)
WaitsForReply(t) == t \in live => Single(queue, t) /\ (Asks(queue, t) => t \in blocked)

(* Outside ContinueOnce and while a thread steps the others are suspended, *)
(* apart from the overlooked ones, which stop() has lost.                  *)
Suspended(t) ==
  t \in live \ overlooked /\ (dpc \in {"stopped", "resume"} \/ (dpc = "step" /\ t # stepper)) => sc[t] # 0

LostFirst(t) == t \in overlooked /\ dpc \in Still => t \in lost

(* A thread in the middle of an instruction has hit a breakpoint that is   *)
(* still set, and either its exception is not answered or it is suspended  *)
(* and stop() will look at it.                                             *)
HitHeld(t) ==
  t \in live \ lost /\ pc[t] \notin Starts =>
    /\ pc[t] - 1 \in bps /\ dpc \notin Still
    /\ \/ t \in blocked /\ Traps(queue, t)
       \/ sc[t] # 0 /\ SetFor(t) /\ dpc \in Stopping \cup Over

Held(t) ==
  BornFirst(t) /\ WaitsForReply(t) /\ Suspended(t) /\ LostFirst(t) /\ HitHeld(t)

HitTypes ==
  /\ pc \in [Tids -> Nat] /\ sc \in [Tids -> Nat] /\ bps \subseteq Starts
  /\ queue \in Seq(Messages)
  /\ trapthread \in Tids \cup {None} /\ ports \subseteq Tids
  /\ ~inited => bps = {}

(* No exception before that of the exec.                                   *)
TracedFirst ==
  /\ dpc \in Attached \/ inited => child = "traced"
  /\ dpc = "stopped" => inited
  /\ child # "traced" => queue = <<>> /\ pc[Main] \in Starts

StepFlag == dpc = "step" => stepper \in tf
TrapKnown == dpc \in Stopping /\ trapthread \in live => trapthread \in known

HInv == HitTypes /\ TracedFirst /\ StepFlag /\ TrapKnown /\ \A t \in Tids : Held(t)

(* A set of natural numbers has a least element.                           *)
LEMMA LeastElement ==
  ASSUME NEW T, T \subseteq Nat, T # {}
  PROVE  \E x \in T : \A y \in T : x <= y
<1>1. PICK x \in T : \A y \in T : ~(<<y, x>> \in OpToRel(<, Nat))
  BY NatLessThanWellFounded, WFMin
<1>2. \A y \in T : ~(y < x)
  BY <1>1 DEF OpToRel
<1> QED
  BY <1>2, SMTT(30)

(* The program goes from an instruction to an instruction.                 *)
LEMMA AfterStart ==
  ASSUME NEW a \in Nat
  PROVE  After(a) \in Starts /\ After(a) \in Nat
<1> DEFINE later == {b \in Starts : b > a}
           next == IF later = {} THEN Starts ELSE later
<1>0. Starts \subseteq Nat
  BY DarwinAssumption
<1>1. next \subseteq Starts /\ next \subseteq Nat /\ next # {}
  BY <1>0, DarwinAssumption
<1>2. \E x \in next : \A y \in next : x <= y
  BY <1>1, LeastElement
<1>3. After(a) \in next
  BY <1>2 DEF After
<1> QED
  BY <1>0, <1>1, <1>3

(* A message sent.                                                         *)
LEMMA Sent ==
  ASSUME NEW q \in Seq(Messages), NEW m \in Messages, NEW t \in Tids
  PROVE  /\ Append(q, m) \in Seq(Messages)
         /\ InName(Append(q, m), t) <=> InName(q, t) \/ m.thread = t
         /\ Asks(Append(q, m), t) <=> Asks(q, t) \/ (m.thread = t /\ m.kind # "manual")
         /\ Traps(Append(q, m), t) <=> Traps(q, t) \/ m = Msg(t, "trap")
         /\ Single(q, t) /\ ~(Asks(q, t) /\ m.thread = t /\ m.kind # "manual")
            => Single(Append(q, m), t)
<1> DEFINE r == Append(q, m)
<1>1. /\ r \in Seq(Messages) /\ Len(r) = Len(q) + 1 /\ Len(q) \in Nat
      /\ r[Len(q) + 1] = m /\ \A i \in 1 .. Len(q) : r[i] = q[i]
  BY SMTT(30)
<1>2. \A i \in 1 .. Len(r) : i \in 1 .. Len(q) \/ i = Len(q) + 1
  BY <1>1, SMTT(30)
<1>3. \A i \in 1 .. Len(q) : i \in 1 .. Len(r)
  BY <1>1, SMTT(30)
<1>4. Len(q) + 1 \in 1 .. Len(r)
  BY <1>1, SMTT(30)
<1> HIDE DEF r
<1>5. InName(r, t) <=> InName(q, t) \/ m.thread = t
  BY <1>1, <1>2, <1>3, <1>4 DEF InName
<1>6. Asks(r, t) <=> Asks(q, t) \/ (m.thread = t /\ m.kind # "manual")
  BY <1>1, <1>2, <1>3, <1>4 DEF Asks
<1>7. Traps(r, t) <=> Traps(q, t) \/ m = Msg(t, "trap")
  BY <1>1, <1>2, <1>3, <1>4 DEF Traps
<1>8. Single(q, t) /\ ~(Asks(q, t) /\ m.thread = t /\ m.kind # "manual") => Single(r, t)
  <2> SUFFICES ASSUME Single(q, t), ~(Asks(q, t) /\ m.thread = t /\ m.kind # "manual"),
                      NEW i \in 1 .. Len(r), NEW j \in 1 .. Len(r),
                      r[i].thread = t, r[i].kind # "manual", r[j].thread = t, r[j].kind # "manual"
               PROVE  i = j
    BY DEF Single
  <2>1. i \in 1 .. Len(q) /\ j \in 1 .. Len(q) => i = j
    BY <1>1 DEF Single
  <2>2. i \in 1 .. Len(q) \/ j \in 1 .. Len(q) => Asks(q, t)
    BY <1>1 DEF Asks
  <2> QED
    BY <1>1, <1>2, <2>1, <2>2
<1> QED
  BY <1>1, <1>5, <1>6, <1>7, <1>8 DEF r

(* A message received.                                                     *)
LEMMA Received ==
  ASSUME NEW q \in Seq(Messages), q # <<>>, NEW t \in Tids
  PROVE  /\ Tail(q) \in Seq(Messages) /\ Head(q) \in Messages
         /\ InName(Tail(q), t) => InName(q, t)
         /\ Asks(Tail(q), t) => Asks(q, t)
         /\ Traps(q, t) => Head(q) = Msg(t, "trap") \/ Traps(Tail(q), t)
         /\ Single(q, t) => Single(Tail(q), t)
         /\ Single(q, t) /\ Head(q).thread = t /\ Head(q).kind # "manual" => ~Asks(Tail(q), t)
         /\ Head(q).thread = t => InName(q, t)
<1> DEFINE r == Tail(q)
<1>1. /\ r \in Seq(Messages) /\ Len(q) = Len(r) + 1 /\ Len(r) \in Nat
      /\ Head(q) = q[1] /\ Head(q) \in Messages /\ \A i \in 1 .. Len(r) : r[i] = q[i + 1]
  BY SMTT(30)
<1>2. \A i \in 1 .. Len(r) : i + 1 \in 1 .. Len(q) /\ i + 1 # 1
  BY <1>1, SMTT(30)
<1>3. \A i \in 1 .. Len(q) : i = 1 \/ \E j \in 1 .. Len(r) : i = j + 1
  <2> SUFFICES ASSUME NEW i \in 1 .. Len(q), i # 1 PROVE i - 1 \in 1 .. Len(r) /\ i = (i - 1) + 1
    OBVIOUS
  <2> QED
    BY <1>1, SMTT(30)
<1>4. 1 \in 1 .. Len(q)
  BY <1>1, SMTT(30)
<1>a. \A i, j \in 1 .. Len(r) : i + 1 = j + 1 => i = j
  BY <1>1, SMTT(30)
<1> HIDE DEF r
<1>5. (InName(r, t) => InName(q, t)) /\ (Head(q).thread = t => InName(q, t))
  BY <1>1, <1>2, <1>4 DEF InName
<1>6. Asks(r, t) => Asks(q, t)
  BY <1>1, <1>2 DEF Asks
<1>7. Traps(q, t) => Head(q) = Msg(t, "trap") \/ Traps(r, t)
  BY <1>1, <1>3 DEF Traps
<1>8. Single(q, t) => Single(r, t)
  <2> SUFFICES ASSUME Single(q, t), NEW i \in 1 .. Len(r), NEW j \in 1 .. Len(r),
                      r[i].thread = t, r[i].kind # "manual", r[j].thread = t, r[j].kind # "manual"
               PROVE  i = j
    BY DEF Single
  <2>1. /\ q[i + 1].thread = t /\ q[i + 1].kind # "manual" /\ i + 1 \in 1 .. Len(q)
        /\ q[j + 1].thread = t /\ q[j + 1].kind # "manual" /\ j + 1 \in 1 .. Len(q)
    BY <1>1, <1>2
  <2>2. i + 1 = j + 1
    BY <2>1 DEF Single
  <2> QED
    BY <2>2, <1>a
<1>9. Single(q, t) /\ Head(q).thread = t /\ Head(q).kind # "manual" => ~Asks(r, t)
  BY <1>1, <1>2, <1>4, ZenonT(60) DEF Asks, Single
<1> QED
  BY <1>1, <1>5, <1>6, <1>7, <1>8, <1>9 DEF r

HGlobal == HitTypes /\ TracedFirst /\ StepFlag /\ TrapKnown

(* The initial state is as HInv says.                                      *)
LEMMA InitHInv == Init => HInv
<1> SUFFICES ASSUME Init PROVE HInv
  OBVIOUS
<1>1. After(0) \in Starts /\ After(0) \in Nat
  BY AfterStart
<1>2. /\ pc = [t \in Tids |-> IF t = Main THEN After(0) ELSE 0] /\ sc = [t \in Tids |-> 0]
      /\ bps = {} /\ queue = <<>> /\ trapthread = None /\ ports = {} /\ live = {}
      /\ dpc = "fork" /\ ~inited /\ overlooked = {} /\ Main \in Tids
  BY DEF Init, Tids
<1>3. pc \in [Tids -> Nat] /\ pc[Main] \in Starts
  BY <1>1, <1>2
<1>4. HitTypes
  BY <1>2, <1>3, SMTT(30) DEF HitTypes
<1>5. TracedFirst /\ StepFlag /\ TrapKnown
  BY <1>2, <1>3 DEF TracedFirst, StepFlag, TrapKnown, Attached, Stopping
<1>6. ASSUME NEW t \in Tids PROVE Held(t)
  <2>1. ~InName(queue, t) /\ trapthread # t
    BY <1>2, DarwinAssumption, SMTT(30) DEF InName
  <2> QED
    BY <2>1, <1>2 DEF Held, BornFirst, WaitsForReply, Suspended, LostFirst, HitHeld
<1> QED
  BY <1>4, <1>5, <1>6 DEF HInv

(* A step that leaves threads, messages and addresses alone.               *)
LEMMA GlobalQuiet ==
  ASSUME HGlobal, UNCHANGED <<pc, sc, bps, queue, trapthread, ports, inited>>,
         child' = child \/ (child # "traced" /\ child' # "traced"),
         dpc' \in Attached => dpc \in Attached, dpc' = "stopped" => dpc = "stopped",
         dpc' = "step" => dpc = "step" /\ UNCHANGED <<stepper, tf>>,
         dpc' \in Stopping => dpc \in Stopping /\ known' = known /\ live' \subseteq live
  PROVE  HGlobal'
<1>1. HitTypes'
  BY DEF HGlobal, HitTypes
<1>2. TracedFirst' /\ StepFlag' /\ TrapKnown'
  BY DEF HGlobal, TracedFirst, StepFlag, TrapKnown
<1> QED
  BY <1>1, <1>2 DEF HGlobal

(* An exception of a thread of the traced program, or one in its name.     *)
LEMMA GlobalSent ==
  ASSUME HGlobal, NEW m \in Messages, queue' = Append(queue, m), child' = "traced",
         UNCHANGED <<sc, bps, trapthread, ports, inited, dpc, stepper, tf, known, live>>,
         pc' \in [Tids -> Nat]
  PROVE  HGlobal'
<1>1. queue' \in Seq(Messages)
  BY SMTT(30) DEF HGlobal, HitTypes
<1>2. HitTypes'
  BY <1>1 DEF HGlobal, HitTypes
<1>3. TracedFirst' /\ StepFlag' /\ TrapKnown'
  BY DEF HGlobal, TracedFirst, StepFlag, TrapKnown
<1> QED
  BY <1>2, <1>3 DEF HGlobal

(* A message received by a debugger that goes on, stops or fails.          *)
LEMMA GlobalReceived ==
  ASSUME HGlobal, queue # <<>>, queue' = Tail(queue),
         UNCHANGED <<pc, sc, bps, trapthread, ports, inited, child, stepper, tf, live>>,
         dpc' = dpc \/ dpc' \in Over \/ (dpc = "halt" /\ dpc' = "count"),
         dpc' \in Stopping => known' = known
  PROVE  HGlobal'
<1>1. queue' \in Seq(Messages)
  BY SMTT(30) DEF HGlobal, HitTypes
<1>2. HitTypes'
  BY <1>1 DEF HGlobal, HitTypes
<1>3. TracedFirst' /\ StepFlag' /\ TrapKnown'
  BY DEF HGlobal, TracedFirst, StepFlag, TrapKnown, Attached, Stopping, Over
<1> QED
  BY <1>2, <1>3 DEF HGlobal

(* Every step keeps HGlobal.                                               *)
LEMMA NextGlobal == IInv /\ HInv /\ [Next]_vars => HGlobal'
<1> SUFFICES ASSUME IInv, HInv, [Next]_vars PROVE HGlobal'
  OBVIOUS
<1>inv. /\ HGlobal /\ HitTypes /\ TracedFirst /\ StepFlag /\ TrapKnown
        /\ live \subseteq Tids /\ Main \in Tids
        /\ \A t \in Tids : BornFirst(t)
  BY DEF IInv, HInv, HGlobal, Typed, Held, Tids
<1>m. \A t \in Tids \cup {Foreign}, k \in {"trap", "signal", "manual"} : Msg(t, k) \in Messages
  BY DEF Msg, Messages
<1>1. CASE UNCHANGED vars
  BY <1>1, <1>inv, GlobalQuiet DEF vars, lvars, kvars, mvars, bvars, cvars, svars
<1>2. CASE acquire_mach_task \/ WritePipe \/ ReadPipe \/ Launch \/ Quit
  <2>1. CASE acquire_mach_task
    BY <2>1, <1>inv, GlobalQuiet
       DEF acquire_mach_task, lvars, kvars, svars, Attached, Stopping
  <2>2. CASE WritePipe
    BY <2>2, <1>inv, GlobalQuiet
       DEF WritePipe, kvars, mvars, bvars, svars, Attached, Stopping
  <2>3. CASE ReadPipe
    BY <2>3, <1>inv, GlobalQuiet
       DEF ReadPipe, lvars, kvars, mvars, bvars, svars, Attached, Stopping
  <2>4. CASE Launch
    BY <2>4, <1>inv, GlobalQuiet DEF Launch, lvars, kvars, mvars, Attached, Stopping
  <2>5. CASE Quit
    BY <2>5, <1>inv, GlobalQuiet DEF Quit, kvars, mvars, bvars, svars, Attached, Stopping
  <2> QED
    BY <1>2, <2>1, <2>2, <2>3, <2>4, <2>5
<1>3. CASE ChildSetup \/ ChildExec \/ NewTask
  <2>1. dpc \notin Stopping
    BY <1>3, <1>inv DEF ChildSetup, ChildExec, NewTask, TracedFirst, Attached, Stopping
  <2> QED
    BY <1>3, <2>1, <1>inv, GlobalQuiet
       DEF ChildSetup, ChildExec, NewTask, bvars, cvars, svars
<1>4. CASE ExecTrap
  BY <1>4, <1>inv, <1>m, GlobalSent DEF ExecTrap, HitTypes, bvars, cvars, svars
<1>5. ASSUME NEW t \in Tids, Execute(t) PROVE HGlobal'
  <2>a. HitTypes /\ pc[t] \in Nat /\ pc[t] + 1 \in Nat
    BY <1>inv, SMTT(30) DEF HitTypes
  <2>1. After(pc[t]) \in Nat
    BY <2>a, AfterStart
  <2>2. pc' \in [Tids -> Nat]
    BY <1>5, <2>1, <2>a DEF Execute, HitTypes
  <2>3. child' = "traced" /\ UNCHANGED <<sc, bps, trapthread, ports, inited, dpc, stepper, tf,
                                         known, live>>
    BY <1>5 DEF Execute, Active, lvars, bvars, cvars, svars
  <2>4. CASE queue' = Append(queue, Msg(t, "trap"))
    BY <2>2, <2>3, <2>4, <1>inv, <1>m, GlobalSent
  <2>5. CASE queue' = queue
    BY <2>2, <2>3, <2>5, <1>inv
       DEF HGlobal, HitTypes, TracedFirst, StepFlag, TrapKnown
  <2> QED
    BY <1>5, <2>4, <2>5 DEF Execute
<1>6. ASSUME NEW t \in Tids, Signal(t) PROVE HGlobal'
  BY <1>6, <1>inv, <1>m, GlobalSent DEF Signal, Active, HitTypes, lvars, bvars, cvars, svars
<1>7. CASE ForkHits
  BY <1>7, <1>inv, <1>m, GlobalSent
     DEF ForkHits, Active, HitTypes, lvars, kvars, bvars, cvars, svars
<1>8. CASE requestManualStop
  <2>1. CASE mem \in live
    BY <1>8, <2>1, <1>inv, <1>m, GlobalSent
       DEF requestManualStop, HitTypes, TracedFirst, lvars, kvars, cvars, svars
  <2>2. CASE mem \notin live
    BY <1>8, <2>2, <1>inv, GlobalQuiet DEF requestManualStop, lvars, kvars, cvars, svars
  <2> QED
    BY <2>1, <2>2
<1>9. ASSUME NEW t \in Tids, NewThread(t) PROVE HGlobal'
  <2>1. PICK c \in Others : /\ pc[c] = 0 /\ live' = live \cup {c}
                            /\ pc' = [pc EXCEPT ![c] = pc[t]]
    BY <1>9 DEF NewThread
  <2>2. c \in Tids /\ pc' \in [Tids -> Nat] /\ c # trapthread
    BY <2>1, <1>inv DEF HitTypes, BornFirst, Tids
  <2>3. /\ child = "traced"
        /\ UNCHANGED <<child, sc, bps, queue, trapthread, ports, inited, dpc, stepper, tf, known>>
    BY <1>9 DEF NewThread, Active, lvars, mvars, bvars, cvars, svars
  <2>4. HitTypes'
    BY <2>2, <2>3, <1>inv DEF HitTypes
  <2>5. TracedFirst' /\ StepFlag' /\ TrapKnown'
    BY <2>1, <2>2, <2>3, <1>inv DEF TracedFirst, StepFlag, TrapKnown
  <2> QED
    BY <2>4, <2>5 DEF HGlobal
<1>10. ASSUME NEW t \in Tids, ThreadExit(t) PROVE HGlobal'
  BY <1>10, <1>inv, GlobalQuiet DEF ThreadExit, lvars, mvars, bvars, cvars, svars
<1>11. CASE ProcessExit \/ kill
  BY <1>11, <1>inv, GlobalQuiet
     DEF ProcessExit, kill, Dies, lvars, bvars, cvars, svars, Attached, Stopping
<1>12. CASE TakeSignal \/ HaltUnknown
  BY <1>12, <1>inv, GlobalReceived
     DEF TakeSignal, HaltUnknown, Heard, lvars, kvars, bvars, cvars, svars
<1>13. CASE TakeDead
  BY <1>13, <1>inv, GlobalReceived
     DEF TakeDead, StartCount, Waiting, Over, lvars, kvars, bvars
<1>14. CASE trapWaitUnknown
  BY <1>14, <1>inv, GlobalReceived
     DEF trapWaitUnknown, Over, Stopping, lvars, kvars, svars
<1>15. CASE trapWait \/ HaltTrap
  <2>1. /\ queue # <<>> /\ queue' = Tail(queue) /\ Head1.thread \in live
        /\ sc' = [sc EXCEPT ![Head1.thread] = @ + 1]
        /\ UNCHANGED <<pc, bps, inited, child, live>>
    BY <1>15 DEF trapWait, HaltTrap, Heard, TakeTrap, lvars, bvars
  <2>2. Head1.thread \in Tids /\ queue' \in Seq(Messages) /\ child = "traced"
    BY <2>1, <1>inv, SMTT(30) DEF HitTypes, TracedFirst
  <2>3. sc' \in [Tids -> Nat]
    BY <2>1, <2>2, <1>inv, SMTT(30) DEF HitTypes
  <2>4. CASE trapWait
    <3>1. trapthread' \in Tids \cup {None} /\ ports' \subseteq Tids /\ known' = live
      BY <2>2, <2>4, <1>inv DEF trapWait, HitTypes, Waiting
    <3>2. HitTypes'
      BY <2>1, <2>2, <2>3, <3>1, <1>inv DEF HitTypes
    <3>3. StepFlag'
      BY <2>4, <1>inv, SMTT(30) DEF trapWait, Waiting, StepFlag
    <3>5. dpc' # "stopped"
      BY <2>4 DEF trapWait, Waiting
    <3>4. TracedFirst' /\ TrapKnown'
      BY <2>1, <2>2, <3>1, <3>5 DEF TracedFirst, TrapKnown
    <3> QED
      BY <3>2, <3>3, <3>4 DEF HGlobal
  <2>5. CASE HaltTrap
    <3>1. /\ ports' \subseteq Tids
          /\ UNCHANGED <<trapthread, known, dpc, stepper, tf>>
      BY <2>2, <2>5, <1>inv DEF HaltTrap, HitTypes, bvars
    <3>2. HitTypes'
      BY <2>1, <2>2, <2>3, <3>1, <1>inv DEF HitTypes
    <3>3. StepFlag' /\ TracedFirst' /\ TrapKnown'
      BY <2>1, <2>2, <3>1, <1>inv DEF TracedFirst, StepFlag, TrapKnown
    <3> QED
      BY <3>2, <3>3 DEF HGlobal
  <2> QED
    BY <1>15, <2>4, <2>5
<1>16. ASSUME NEW d \in {1, 2}, trapWaitDeath(d) \/ HaltDeath(d) \/ Killed(d) PROVE HGlobal'
  BY <1>16, <1>inv, GlobalQuiet
     DEF trapWaitDeath, HaltDeath, Killed, StartCount, Waiting, lvars, kvars, bvars, svars,
         Attached,
         Stopping
<1>16a. CASE Reap
  BY <1>16a, <1>inv, GlobalQuiet
     DEF Reap, lvars, kvars, mvars, bvars, svars, Attached, Stopping
<1>17. CASE Interrupted \/ HaltTimeout
  BY <1>17, <1>inv, GlobalQuiet
     DEF Interrupted, HaltTimeout, StartCount, Waiting, lvars, kvars, mvars, bvars, Attached,
         Stopping
<1>18. CASE ContinueOnce \/ StartCont \/ StartHalt \/ StillRunning \/ Detach
  BY <1>18, <1>inv, GlobalQuiet
     DEF ContinueOnce, StartCont, StartHalt, StillRunning, Detach, lvars, kvars, mvars, bvars,
         svars,
         Attached, Stopping
<1>19. ASSUME NEW t \in Tids, singleStep(t) \/ resume(t) PROVE HGlobal'
  <2>a. sc' \in {sc, [sc EXCEPT ![t] = 0]} /\ HitTypes
    BY <1>19, <1>inv DEF singleStep, resume, resume_thread
  <2>1. sc' \in [Tids -> Nat]
    BY <2>a, SMTT(30) DEF HitTypes
  <2>2. /\ UNCHANGED <<pc, bps, queue, trapthread, ports, inited, child>>
        /\ dpc' \notin Stopping \cup {"stopped"} /\ (dpc' \in Attached => dpc \in Attached)
    BY <1>19 DEF singleStep, resume, lvars, mvars, bvars, Attached, Stopping
  <2>3. HitTypes' /\ TracedFirst' /\ TrapKnown'
    BY <2>1, <2>2, <1>inv DEF HitTypes, TracedFirst, TrapKnown
  <2>4. StepFlag'
    BY <1>19 DEF singleStep, resume, StepFlag
  <2> QED
    BY <2>3, <2>4 DEF HGlobal
<1>20. ASSUME NEW t \in Tids, stopThread(t) PROVE HGlobal'
  <2>1. sc' \in [Tids -> Nat]
    BY <1>20, <1>inv, SMTT(30) DEF stopThread, HitTypes
  <2>2. /\ UNCHANGED <<pc, bps, queue, trapthread, ports, inited, child, live>>
        /\ dpc' \in {"stop", "error"} /\ dpc = "stop" /\ known' \in {known, live}
    BY <1>20 DEF stopThread, lvars, mvars, bvars
  <2>3. HitTypes' /\ TracedFirst' /\ TrapKnown' /\ StepFlag'
    BY <2>1, <2>2, <1>inv DEF HitTypes, TracedFirst, TrapKnown, StepFlag, Attached, Stopping
  <2> QED
    BY <2>3 DEF HGlobal
<1>21. CASE Stopped
  <2>1. \A t \in Tids : FindBreakpoint(pc[t]) \in Starts \cup {None}
    BY <1>inv DEF FindBreakpoint, HitTypes
  <2>2. \A t \in Tids : FindBreakpoint(pc[t]) # None => FindBreakpoint(pc[t]) \in Nat
    BY <2>1, DarwinAssumption
  <2>3. pc' \in [Tids -> Nat]
    BY <1>21, <2>2, <1>inv, ZenonT(60) DEF Stopped, HitTypes
  <2>4. /\ UNCHANGED <<sc, bps, queue, trapthread, ports, child>>
        /\ inited' /\ dpc = "count" /\ dpc' \in {"stopped", "error"}
    BY <1>21 DEF Stopped, lvars, mvars
  <2>5. HitTypes' /\ TracedFirst' /\ TrapKnown' /\ StepFlag'
    BY <2>3, <2>4, <1>inv DEF HitTypes, TracedFirst, TrapKnown, StepFlag, Attached, Stopping
  <2> QED
    BY <2>5 DEF HGlobal
<1>22. ASSUME NEW a \in Starts, WriteBreakpoint(a) \/ EraseBreakpoint(a) PROVE HGlobal'
  <2>1. /\ UNCHANGED <<pc, sc, queue, trapthread, ports, inited, child, dpc, stepper, tf, known,
                       live>>
        /\ bps' \subseteq Starts /\ dpc = "stopped"
    BY <1>22, <1>inv
       DEF WriteBreakpoint, EraseBreakpoint, HitTypes, lvars, kvars, mvars, cvars, svars
  <2>2. inited
    BY <2>1, <1>inv DEF TracedFirst
  <2> QED
    BY <2>1, <2>2, <1>inv DEF HGlobal, HitTypes, TracedFirst, StepFlag, TrapKnown
<1> QED
  <2>1. CASE Child
    BY <2>1, <1>3, <1>4 DEF Child
  <2>2. CASE Program
    BY <2>2, <1>5, <1>6, <1>7, <1>9, <1>10, <1>11 DEF Program
  <2>3. CASE Backend
    BY <2>3, <1>2, <1>12, <1>13, <1>14, <1>15, <1>16, <1>16a, <1>17, <1>18, <1>19, <1>20, <1>21
       DEF Backend
  <2>4. CASE User
    BY <2>4, <1>2, <1>8, <1>11, <1>18, <1>22 DEF User
  <2> QED
    BY <2>1, <2>2, <2>3, <2>4, <1>1, <1>17 DEF Next

(* A step that leaves a thread alone.                                      *)
LEMMA HeldFrame ==
  ASSUME NEW t \in Tids, Held(t), pc'[t] = pc[t], bps' = bps,
         t \in live' <=> t \in live, t \in blocked' <=> t \in blocked,
         dpc \in Still \cup Stopping \cup Over /\ sc[t] # 0 => sc'[t] # 0,
         InName(queue', t) => InName(queue, t), Asks(queue', t) => Asks(queue, t),
         Single(queue, t) => Single(queue', t), Traps(queue, t) => Traps(queue', t),
         t \in ports' <=> t \in ports, trapthread' = t <=> trapthread = t, lost \subseteq lost',
         dpc' \in Still => (t \in overlooked' <=> t \in overlooked),
         dpc' \in {"stopped", "resume"} => dpc \in {"stopped", "resume"},
         dpc' = "step" => dpc = "step" /\ stepper' = stepper,
         dpc \in Stopping \cup Over => dpc' \in Stopping \cup Over
  PROVE  Held(t)'
<1>1. BornFirst(t)' /\ WaitsForReply(t)'
  BY DEF Held, BornFirst, WaitsForReply
<1>2. Suspended(t)' /\ LostFirst(t)'
  BY DEF Held, Suspended, LostFirst, Still
<1>3. HitHeld(t)'
  BY DEF Held, HitHeld, SetFor, Still
<1> QED
  BY <1>1, <1>2, <1>3 DEF Held

(* The same when it leaves all of them alone.                              *)
LEMMA HeldQuiet ==
  ASSUME \A t \in Tids : Held(t),
         UNCHANGED <<pc, sc, bps, live, blocked, queue, ports, trapthread, lost>>,
         dpc' \in Still => overlooked' = overlooked,
         dpc' \in {"stopped", "resume"} => dpc \in {"stopped", "resume"},
         dpc' = "step" => dpc = "step" /\ stepper' = stepper,
         dpc \in Stopping \cup Over => dpc' \in Stopping \cup Over
  PROVE  \A t \in Tids : Held(t)'
  BY HeldFrame

(* A thread runs, exits or takes a signal.                                 *)
LEMMA ExecuteHeld ==
  ASSUME HInv, NEW t \in Tids, Execute(t)
  PROVE  \A u \in Tids : Held(u)'
<1>inv. /\ HitTypes /\ StepFlag /\ \A u \in Tids : Held(u)
        /\ pc[t] \in Nat /\ pc[t] \in Starts
  BY DEF HInv, HitTypes, Execute
<1>m. Msg(t, "trap") \in Messages /\ Msg(t, "trap").thread = t /\ Msg(t, "trap").kind = "trap"
  BY DEF Msg, Messages
<1>1. /\ UNCHANGED <<sc, bps, live, ports, trapthread, overlooked, lost, dpc, stepper>>
      /\ t \in live /\ sc[t] = 0 /\ t \notin blocked /\ dpc \notin Over
      /\ queue' \in {queue, Append(queue, Msg(t, "trap"))}
      /\ blocked' \in {blocked, blocked \cup {t}}
  BY DEF Execute, Active, Runs, bvars, cvars, svars
<1>2. ASSUME NEW u \in Tids \ {t} PROVE Held(u)'
  <2>1. pc'[u] = pc[u]
    BY <1>2, <1>inv DEF Execute, HitTypes
  <2>2. /\ InName(queue', u) => InName(queue, u)
        /\ Asks(queue', u) => Asks(queue, u)
        /\ Single(queue, u) => Single(queue', u)
        /\ Traps(queue, u) => Traps(queue', u)
    <3>1. CASE queue' = Append(queue, Msg(t, "trap"))
      BY <3>1, <1>2, <1>m, <1>inv, Sent DEF HitTypes
    <3> QED
      BY <3>1, <1>1
  <2> QED
    BY <2>1, <2>2, <1>1, <1>2, <1>inv, HeldFrame
<1>3. BornFirst(t)'
  <2>1. pc'[t] # 0
    <3>1. pc'[t] \in {pc[t] + 1, After(pc[t])}
      BY <1>inv DEF Execute, HitTypes
    <3>2. After(pc[t]) \in Starts
      BY <1>inv, AfterStart
    <3>3. After(pc[t]) # 0
      BY <3>2, DarwinAssumption
    <3>4. \A n \in Nat : n + 1 # 0
      BY SMTT(30)
    <3> QED
      BY <3>1, <3>3, <3>4, <1>inv
  <2> QED
    BY <2>1 DEF BornFirst
<1>4. Single(queue, t) /\ ~Asks(queue, t)
  BY <1>1, <1>inv DEF Held, WaitsForReply
<1>5. WaitsForReply(t)' /\ Suspended(t)' /\ LostFirst(t)'
  <2>1. CASE queue' = queue
    BY <2>1, <1>1, <1>4, <1>inv DEF WaitsForReply, Held, Suspended, LostFirst
  <2>2. CASE queue' = Append(queue, Msg(t, "trap")) /\ t \in blocked'
    <3>1. Single(queue', t)
      BY <2>2, <1>4, <1>m, <1>inv, Sent DEF HitTypes
    <3> QED
      BY <3>1, <2>2, <1>1, <1>inv DEF WaitsForReply, Held, Suspended, LostFirst
  <2> QED
    BY <2>1, <2>2 DEF Execute
<1>6. HitHeld(t)'
  <2>1. CASE pc[t] \in bps /\ t \notin tf
    <3>1. pc'[t] = pc[t] + 1 /\ t \in blocked' /\ queue' = Append(queue, Msg(t, "trap"))
      BY <2>1, <1>inv DEF Execute, HitTypes
    <3>2. Traps(queue', t)
      BY <3>1, <1>m, <1>inv, Sent DEF HitTypes
    <3>3. dpc \notin Still \/ t \in lost
      BY <2>1, <1>1, <1>inv DEF Held, Suspended, LostFirst, StepFlag, Still
    <3>4. pc'[t] - 1 = pc[t]
      <4>1. \A n \in Nat : (n + 1) - 1 = n
        BY SMTT(30)
      <4> QED
        BY <4>1, <3>1, <1>inv
    <3> QED
      BY <3>1, <3>2, <3>3, <3>4, <2>1, <1>1 DEF HitHeld
  <2>2. CASE ~(pc[t] \in bps /\ t \notin tf)
    <3>1. pc'[t] = After(pc[t])
      BY <2>2, <1>inv DEF Execute, HitTypes
    <3>2. pc'[t] \in Starts
      BY <3>1, <1>inv, AfterStart
    <3> QED
      BY <3>2 DEF HitHeld
  <2> QED
    BY <2>1, <2>2
<1> QED
  BY <1>2, <1>3, <1>5, <1>6 DEF Held

(* A message in the name of a thread of the program or of another process. *)
LEMMA SentHeld ==
  ASSUME HInv, NEW w \in Tids \cup {Foreign}, NEW k \in {"trap", "signal", "manual"},
         queue' = Append(queue, Msg(w, k)),
         UNCHANGED <<pc, sc, bps, live, ports, trapthread, overlooked, lost, dpc, stepper>>,
         w \in live /\ k # "manual" => ~Asks(queue, w) /\ w \in blocked',
         w \in Tids => pc[w] # 0,
         blocked \subseteq blocked'
  PROVE  \A t \in Tids : Held(t)'
<1> SUFFICES ASSUME NEW t \in Tids PROVE Held(t)'
  OBVIOUS
<1>inv. Held(t) /\ queue \in Seq(Messages)
  BY DEF HInv, HitTypes
<1>m. Msg(w, k) \in Messages /\ Msg(w, k).thread = w /\ Msg(w, k).kind = k
  BY DEF Msg, Messages
<1>1. /\ InName(queue', t) <=> InName(queue, t) \/ w = t
      /\ Asks(queue', t) <=> Asks(queue, t) \/ (w = t /\ k # "manual")
      /\ Traps(queue, t) => Traps(queue', t)
      /\ Single(queue, t) /\ ~(Asks(queue, t) /\ w = t /\ k # "manual") => Single(queue', t)
  BY <1>inv, <1>m, Sent
<1>2. BornFirst(t)' /\ WaitsForReply(t)'
  BY <1>1, <1>inv DEF Held, BornFirst, WaitsForReply
<1>3. Suspended(t)' /\ LostFirst(t)' /\ HitHeld(t)'
  BY <1>1, <1>inv DEF Held, Suspended, LostFirst, HitHeld, SetFor
<1> QED
  BY <1>2, <1>3 DEF Held

(* A trap asks for an answer; an empty port holds nothing.                 *)
LEMMA PortFacts ==
  ASSUME NEW q \in Seq(Messages), NEW t \in Tids
  PROVE  /\ Traps(q, t) => Asks(q, t) /\ InName(q, t)
         /\ q = <<>> => Single(q, t) /\ ~Asks(q, t) /\ ~InName(q, t)
  BY SMTT(30) DEF Traps, Asks, InName, Single, Msg

(* A message that is not a trap of a live thread is received.              *)
LEMMA ReceivedHeld ==
  ASSUME HInv, queue # <<>>, queue' = Tail(queue),
         UNCHANGED <<pc, sc, bps, live, ports, trapthread, lost, stepper>>,
         \/ Head1.thread \in live /\ Head1.kind = "signal" /\ blocked' = blocked \ {Head1.thread}
         \/ Head1.thread \notin live /\ blocked' = blocked,
         dpc' \in Still => dpc' = dpc /\ overlooked' = overlooked,
         dpc \in Stopping \cup Over => dpc' \in Stopping \cup Over
  PROVE  \A t \in Tids : Held(t)'
<1> SUFFICES ASSUME NEW t \in Tids PROVE Held(t)'
  OBVIOUS
<1>inv. Held(t) /\ queue \in Seq(Messages)
  BY DEF HInv, HitTypes
<1>1. /\ Tail(queue) \in Seq(Messages)
      /\ InName(queue', t) => InName(queue, t)
      /\ Asks(queue', t) => Asks(queue, t)
      /\ Traps(queue, t) => Head1 = Msg(t, "trap") \/ Traps(queue', t)
      /\ Single(queue, t) => Single(queue', t)
      /\ Single(queue, t) /\ Head1.thread = t /\ Head1.kind # "manual" => ~Asks(queue', t)
  BY <1>inv, Received DEF Head1
<1>2. Traps(queue', t) => Asks(queue', t)
  BY <1>1, PortFacts
<1>3. CASE Head1.thread # t
  <2>1. Traps(queue, t) => Traps(queue', t)
    BY <1>1, <1>3, SMTT(30) DEF Msg
  <2> QED
    BY <2>1, <1>1, <1>3, <1>inv, HeldFrame, ZenonT(40) DEF Still
<1>4. CASE Head1.thread = t /\ t \notin live
  BY <1>1, <1>4, <1>inv DEF Held, BornFirst, WaitsForReply, Suspended, LostFirst, HitHeld
<1>5. CASE Head1.thread = t /\ t \in live
  <2>1. Single(queue, t) /\ Single(queue', t) /\ ~Asks(queue', t) /\ ~Traps(queue, t)
    BY <1>1, <1>2, <1>5, <1>inv, SMTT(30) DEF Held, WaitsForReply, Msg
  <2> QED
    BY <2>1, <1>1, <1>5, <1>inv
       DEF Held, BornFirst, WaitsForReply, Suspended, LostFirst, HitHeld, SetFor, Still
<1> QED
  BY <1>3, <1>4, <1>5

(* A trap is received: stop() is to look at its thread, unless it is the   *)
(* end of a step.                                                          *)
LEMMA TrapHeld ==
  ASSUME IInv, HInv, trapWait \/ HaltTrap
  PROVE  \A t \in Tids : Held(t)'
<1>inv. HitTypes /\ \A t \in Tids : Held(t)
  BY DEF HInv
<1>1. PICK h \in live : h = Head1.thread
  BY DEF trapWait, HaltTrap, Heard
<1>2. /\ queue # <<>> /\ queue' = Tail(queue) /\ h \in Tids
      /\ Head1.kind \in {"trap", "manual"}
      /\ sc' = [sc EXCEPT ![h] = @ + 1]
      /\ blocked' = IF Head1.kind = "manual" THEN blocked ELSE blocked \ {h}
      /\ UNCHANGED <<pc, bps, live, overlooked, lost>>
  BY <1>1 DEF trapWait, HaltTrap, Heard, TakeTrap, bvars, IInv, Typed
<1>3. /\ \/ dpc = "wait" /\ dpc' = "stop" /\ trapthread' = h /\ ports' = {}
         \/ dpc = "halt" /\ dpc' = "halt" /\ ports' = ports \cup {h} /\ UNCHANGED trapthread
         \/ dpc = "step" /\ dpc' = "resume" /\ h = stepper /\ UNCHANGED <<ports, trapthread>>
         \/ dpc = "step" /\ dpc' = "step" /\ h # stepper /\ UNCHANGED <<ports, trapthread, stepper>>
  BY <1>1 DEF trapWait, HaltTrap, Waiting
<1> SUFFICES ASSUME NEW t \in Tids PROVE Held(t)'
  OBVIOUS
<1>4. /\ InName(queue', t) => InName(queue, t)
      /\ Asks(queue', t) => Asks(queue, t)
      /\ Traps(queue, t) => Head1 = Msg(t, "trap") \/ Traps(queue', t)
      /\ Single(queue, t) => Single(queue', t)
      /\ Single(queue, t) /\ Head1.thread = t /\ Head1.kind # "manual" => ~Asks(queue', t)
  BY <1>2, <1>inv, Received DEF Head1, HitTypes
<1>5. sc'[h] # 0 /\ (t # h => sc'[t] = sc[t])
  BY <1>2, <1>inv, SMTT(30) DEF HitTypes
<1>6. Head1 = Msg(t, "trap") => t = h /\ Head1.kind = "trap"
  BY <1>1, SMTT(30) DEF Msg
<1>7. Held(t)
  BY <1>inv
<1>8. BornFirst(t)'
  BY <1>1, <1>2, <1>3, <1>4, <1>7 DEF Held, BornFirst
<1>9. WaitsForReply(t)'
  BY <1>1, <1>2, <1>4, <1>7, ZenonT(40) DEF Held, WaitsForReply
<1>10. Suspended(t)' /\ LostFirst(t)'
  BY <1>2, <1>3, <1>5, <1>7 DEF Held, Suspended, LostFirst, Still
<1>11. HitHeld(t)'
  <2> SUFFICES ASSUME t \in live \ lost, pc[t] \notin Starts
               PROVE  /\ pc[t] - 1 \in bps /\ dpc' \notin Still
                      /\ \/ t \in blocked' /\ Traps(queue', t)
                         \/ sc'[t] # 0 /\ (t = trapthread' \/ t \in ports')
                            /\ dpc' \in Stopping \cup Over
    BY <1>2 DEF HitHeld, SetFor
  <2>1. /\ pc[t] - 1 \in bps /\ dpc \notin Still
        /\ \/ t \in blocked /\ Traps(queue, t)
           \/ sc[t] # 0 /\ (t = trapthread \/ t \in ports) /\ dpc \in Stopping \cup Over
    BY <1>7 DEF Held, HitHeld, SetFor
  <2>2. \/ dpc = "wait" /\ dpc' = "stop" /\ trapthread' = h /\ ports' = {}
        \/ dpc = "halt" /\ dpc' = "halt" /\ ports' = ports \cup {h} /\ UNCHANGED trapthread
    BY <1>3, <2>1 DEF Still
  <2>3. dpc' \notin Still /\ dpc' \in Stopping \cup Over
    BY <2>2 DEF Still, Stopping
  <2>4. CASE t = h /\ Head1.kind = "trap"
    BY <2>1, <2>2, <2>3, <2>4, <1>5
  <2>5. CASE ~(t = h /\ Head1.kind = "trap")
    <3>1. (t \in blocked' <=> t \in blocked) /\ (Traps(queue, t) => Traps(queue', t))
      BY <2>5, <1>2, <1>4, <1>6
    <3>2. sc[t] # 0 => sc'[t] # 0
      BY <1>5
    <3>3. dpc = "wait" => dpc \notin Stopping \cup Over
      BY DEF Stopping, Over
    <3> QED
      BY <2>1, <2>2, <2>3, <3>1, <3>2, <3>3
  <2> QED
    BY <2>4, <2>5
<1> QED
  BY <1>8, <1>9, <1>10, <1>11 DEF Held

(* stop() returns: the threads it was told of are put back on their        *)
(* breakpoints.                                                            *)
LEMMA StoppedHeld ==
  ASSUME IInv, HInv, Stopped, StoppedSuspended'
  PROVE  \A t \in Tids : Held(t)'
<1>inv. HitTypes /\ TrapKnown /\ \A t \in Tids : Held(t)
  BY DEF HInv
<1>1. /\ dpc = "count" /\ dpc' \in {"stopped", "error"}
      /\ UNCHANGED <<live, sc, blocked, queue, bps, trapthread, ports, overlooked>>
      /\ lost' = lost \cup overlooked \cup (ports \ known) \cup {queue[i].thread : i \in DOMAIN queue}
  BY DEF Stopped, mvars
<1> SUFFICES ASSUME NEW t \in Tids PROVE Held(t)'
  OBVIOUS
<1>2. Held(t) /\ pc[t] \in Nat
  BY <1>inv DEF HitTypes
<1>3. /\ t \notin live => pc'[t] = pc[t]
      /\ inited /\ t \in known \cap live /\ SetFor(t) /\ FindBreakpoint(pc[t]) # None
           => pc'[t] = FindBreakpoint(pc[t])
      /\ pc'[t] = pc[t] \/ (pc'[t] = FindBreakpoint(pc[t]) /\ FindBreakpoint(pc[t]) # None)
  BY <1>inv DEF Stopped, HitTypes
<1>4. FindBreakpoint(pc[t]) # None => FindBreakpoint(pc[t]) \in bps
  BY DEF FindBreakpoint
<1>5. pc'[t] = pc[t] \/ pc'[t] \in Starts
  BY <1>3, <1>4, <1>inv DEF HitTypes
<1>6. 0 \notin Starts
  BY DarwinAssumption
<1>7. BornFirst(t)'
  BY <1>1, <1>2, <1>5, <1>6 DEF Held, BornFirst
<1>8. WaitsForReply(t)' /\ Suspended(t)' /\ LostFirst(t)'
  BY <1>1, <1>2 DEF Held, WaitsForReply, Suspended, LostFirst, StoppedSuspended
<1>9. HitHeld(t)'
  <2> SUFFICES ASSUME t \in live, t \notin lost', pc'[t] \notin Starts PROVE FALSE
    BY <1>1 DEF HitHeld
  <2>1. pc'[t] = pc[t] /\ pc[t] \notin Starts /\ t \notin lost
    BY <1>1, <1>5
  <2>2. ~Traps(queue, t)
    <3> SUFFICES ASSUME NEW i \in 1 .. Len(queue), queue[i] = Msg(t, "trap") PROVE FALSE
      BY ZenonT(40) DEF Traps
    <3>1. queue[i].thread = t /\ i \in DOMAIN queue
      BY <1>inv, SMTT(30) DEF HitTypes, Msg
    <3> QED
      BY <3>1, <1>1
  <2>3. pc[t] - 1 \in bps /\ SetFor(t)
    BY <2>1, <2>2, <1>2 DEF Held, HitHeld
  <2>4. t \in known
    BY <2>3, <1>1, <1>inv DEF SetFor, TrapKnown, Stopping
  <2>5. inited
    BY <2>3, <1>inv DEF HitTypes
  <2>6. FindBreakpoint(pc[t]) = pc[t] - 1 /\ pc[t] - 1 \in Starts
    BY <2>3, <1>inv DEF FindBreakpoint, HitTypes
  <2>7. pc[t] - 1 # None
    BY <2>6, DarwinAssumption
  <2> QED
    BY <1>3, <2>1, <2>3, <2>4, <2>5, <2>6, <2>7
<1> QED
  BY <1>7, <1>8, <1>9 DEF Held

(* The new program, its exec and its threads.                              *)
LEMMA BirthHeld ==
  ASSUME IInv, HInv, NewTask \/ ExecTrap \/ \E t \in Tids : NewThread(t)
  PROVE  \A t \in Tids : Held(t)'
<1>inv. /\ HitTypes /\ TracedFirst /\ StepFlag /\ \A t \in Tids : Held(t)
        /\ live \subseteq Tids /\ Main \in Tids
  BY DEF IInv, HInv, Typed, Tids
<1>0. 0 \notin Starts
  BY DarwinAssumption
<1>1. CASE NewTask
  <2>1. /\ queue = <<>> /\ pc[Main] \in Starts /\ dpc \notin Attached /\ live' = {Main}
        /\ UNCHANGED <<pc, sc, bps, blocked, queue, ports, trapthread, dpc, stepper,
                       overlooked, lost>>
    BY <1>1, <1>inv DEF NewTask, TracedFirst, bvars, cvars, svars
  <2> SUFFICES ASSUME NEW t \in Tids PROVE Held(t)'
    OBVIOUS
  <2>2. Single(queue, t) /\ ~Asks(queue, t) /\ ~InName(queue, t)
    BY <2>1, <1>inv, PortFacts, ZenonT(40) DEF HitTypes
  <2>3. BornFirst(t)' /\ WaitsForReply(t)'
    BY <2>1, <2>2, <1>inv, <1>0 DEF Held, BornFirst, WaitsForReply
  <2>4. Suspended(t)' /\ LostFirst(t)' /\ HitHeld(t)'
    BY <2>1, <1>inv DEF Held, Suspended, LostFirst, HitHeld, Attached
  <2> QED
    BY <2>3, <2>4 DEF Held
<1>2. CASE ExecTrap
  <2> DEFINE m == Msg(Main, "trap")
  <2>1. /\ queue = <<>> /\ pc[Main] \in Starts /\ queue' = Append(queue, m) /\ blocked' = {Main}
        /\ UNCHANGED <<pc, sc, bps, live, ports, trapthread, dpc, stepper, overlooked, lost>>
    BY <1>2, <1>inv DEF ExecTrap, TracedFirst, bvars, cvars, svars
  <2>2. m \in Messages /\ m.thread = Main /\ m.kind = "trap"
    BY <1>inv DEF Msg, Messages
  <2> SUFFICES ASSUME NEW t \in Tids PROVE Held(t)'
    OBVIOUS
  <2>3. Single(queue, t) /\ ~Asks(queue, t) /\ ~InName(queue, t) /\ ~Traps(queue, t)
    BY <2>1, <1>inv, PortFacts DEF HitTypes
  <2>4. Single(queue', t) /\ (Asks(queue', t) => t = Main) /\ (InName(queue', t) => t = Main)
    <3> HIDE DEF m
    <3> QED
      BY <2>1, <2>2, <2>3, <1>inv, Sent, ZenonT(40) DEF HitTypes
  <2>5. BornFirst(t)' /\ WaitsForReply(t)'
    BY <2>1, <2>4, <1>inv, <1>0 DEF Held, BornFirst, WaitsForReply
  <2>6. Suspended(t)' /\ LostFirst(t)' /\ HitHeld(t)'
    BY <2>1, <2>3, <1>inv DEF Held, Suspended, LostFirst, HitHeld, SetFor
  <2> QED
    BY <2>5, <2>6 DEF Held
<1>3. ASSUME NEW u \in Tids, NewThread(u) PROVE \A t \in Tids : Held(t)'
  <2>1. PICK c \in Others : /\ pc[c] = 0 /\ live' = live \cup {c}
                            /\ pc' = [pc EXCEPT ![c] = pc[u]]
                            /\ overlooked' = overlooked \cup {x \in {c} : u \in overlooked}
                            /\ lost' = lost \cup {x \in {c} : u \in overlooked \cap lost}
    BY <1>3 DEF NewThread
  <2>2. /\ c \in Tids /\ pc[u] \in Starts /\ u \in live /\ sc[u] = 0 /\ u \notin tf
        /\ UNCHANGED <<sc, bps, blocked, queue, ports, trapthread, dpc, stepper>>
    BY <2>1, <1>3 DEF NewThread, Active, Runs, Tids, mvars, bvars, cvars, svars
  <2>3. dpc \in Still => u \in overlooked \cap lost
    BY <2>2, <1>inv DEF Held, Suspended, LostFirst, StepFlag, Still
  <2>a. /\ \A t \in Tids \ {c} : t \in overlooked' <=> t \in overlooked
        /\ lost \subseteq lost'
        /\ dpc \in Still => c \in overlooked' /\ c \in lost'
    BY <2>1, <2>3
  <2>4. pc'[c] = pc[u] /\ \A t \in Tids \ {c} : pc'[t] = pc[t]
    BY <2>1, <2>2, <1>inv, ZenonT(40) DEF HitTypes
  <2>5. ASSUME NEW t \in Tids \ {c} PROVE Held(t)'
    BY <2>1, <2>2, <2>4, <2>a, <1>inv, HeldFrame
  <2>6. Held(c)'
    <3>1. ~InName(queue, c)
      BY <2>1, <2>2, <1>inv DEF Held, BornFirst
    <3>2. Single(queue, c) /\ ~Asks(queue, c)
      BY <3>1 DEF InName, Single, Asks
    <3> QED
      BY <3>2, <2>2, <2>a, <2>4, <1>0
         DEF Held, BornFirst, WaitsForReply, Suspended, LostFirst, HitHeld, Still
  <2> QED
    BY <2>5, <2>6
<1> QED
  BY <1>1, <1>2, <1>3

(* Every step keeps the hits.                                              *)
LEMMA NextHeld == IInv /\ IInv' /\ HInv /\ [Next]_vars => \A t \in Tids : Held(t)'
<1> SUFFICES ASSUME IInv, IInv', HInv, [Next]_vars PROVE \A t \in Tids : Held(t)'
  OBVIOUS
<1>inv. /\ HitTypes /\ TracedFirst /\ \A t \in Tids : Held(t)
        /\ live \subseteq Tids /\ Main \in Tids /\ StoppedSuspended'
  BY DEF IInv, HInv, Typed, Tids
<1>1. CASE UNCHANGED vars
  BY <1>1, <1>inv, HeldQuiet DEF vars, lvars, kvars, mvars, bvars, cvars, svars
<1>2. CASE acquire_mach_task \/ WritePipe \/ ReadPipe \/ Launch \/ Quit
  <2>1. CASE acquire_mach_task
    BY <2>1, <1>inv, HeldQuiet DEF acquire_mach_task, lvars, kvars, svars, Over, Stopping
  <2>2. CASE WritePipe
    BY <2>2, <1>inv, HeldQuiet DEF WritePipe, kvars, mvars, bvars, svars, Over, Stopping
  <2>3. CASE ReadPipe
    BY <2>3, <1>inv, HeldQuiet DEF ReadPipe, kvars, mvars, bvars, svars, Over, Stopping
  <2>4. CASE Launch
    BY <2>4, <1>inv, HeldQuiet, ZenonT(40) DEF Launch, kvars, mvars, Over, Stopping, Still
  <2>5. CASE Quit
    BY <2>5, <1>inv, HeldQuiet DEF Quit, kvars, mvars, bvars, svars, Over, Stopping
  <2> QED
    BY <1>2, <2>1, <2>2, <2>3, <2>4, <2>5
<1>3. CASE ChildSetup \/ ChildExec
  BY <1>3, <1>inv, HeldQuiet DEF ChildSetup, ChildExec, bvars, cvars, svars
<1>4. CASE NewTask \/ ExecTrap \/ \E t \in Tids : NewThread(t)
  BY <1>4, BirthHeld
<1>5. ASSUME NEW t \in Tids, Execute(t) PROVE \A u \in Tids : Held(u)'
  BY <1>5, ExecuteHeld
<1>6. ASSUME NEW t \in Tids, Signal(t) PROVE \A u \in Tids : Held(u)'
  <2>1. /\ t \in live /\ t \notin blocked /\ blocked' = blocked \cup {t}
        /\ queue' = Append(queue, Msg(t, "signal"))
        /\ UNCHANGED <<pc, sc, bps, live, ports, trapthread, overlooked, lost, dpc, stepper>>
    BY <1>6 DEF Signal, Active, Runs, bvars, cvars, svars
  <2>2. ~Asks(queue, t) /\ pc[t] # 0
    BY <2>1, <1>inv DEF Held, WaitsForReply, BornFirst
  <2> QED
    BY <2>1, <2>2, SentHeld
<1>7. CASE ForkHits
  <2>1. Foreign \notin Tids
    BY DarwinAssumption DEF Tids
  <2>2. /\ queue' = Append(queue, Msg(Foreign, "trap"))
        /\ UNCHANGED <<pc, sc, bps, live, blocked, ports, trapthread, overlooked, lost, dpc,
                       stepper>>
    BY <1>7 DEF ForkHits, kvars, bvars, cvars, svars
  <2>3. Foreign \notin live
    BY <2>1, <1>inv
  <2> QED
    BY <2>1, <2>2, <2>3, SentHeld
<1>8. CASE requestManualStop
  <2>1. CASE mem \in live
    <3>1. mem \in Tids /\ pc[mem] # 0
      BY <2>1, <1>inv DEF Held, BornFirst
    <3>2. /\ queue' = Append(queue, Msg(mem, "manual"))
          /\ UNCHANGED <<pc, sc, bps, live, blocked, ports, trapthread, overlooked, lost, dpc,
                         stepper>>
      BY <2>1, <1>8, ZenonT(40) DEF requestManualStop, kvars, cvars, svars
    <3> QED
      BY <3>1, <3>2, SentHeld
  <2>2. CASE mem \notin live
    BY <2>2, <1>8, <1>inv, HeldQuiet DEF requestManualStop, kvars, cvars, svars
  <2> QED
    BY <2>1, <2>2
<1>9. ASSUME NEW t \in Tids, ThreadExit(t) PROVE \A u \in Tids : Held(u)'
  <2>1. /\ live' = live \ {t}
        /\ UNCHANGED <<pc, sc, bps, blocked, queue, ports, trapthread, dpc, stepper, lost>>
        /\ dpc # "count" => overlooked' = overlooked
    BY <1>9 DEF ThreadExit, mvars, bvars
  <2>a. dpc \in Still => overlooked' = overlooked
    BY <2>1 DEF Still
  <2>2. ASSUME NEW u \in Tids \ {t} PROVE Held(u)'
    BY <2>1, <2>a, <1>inv, HeldFrame
  <2>3. Held(t)'
    BY <2>1, <2>a, <1>inv DEF Held, BornFirst, WaitsForReply, Suspended, LostFirst, HitHeld
  <2> QED
    BY <2>2, <2>3
<1>10. CASE ProcessExit \/ kill
  <2>1. /\ live' = {} /\ UNCHANGED <<pc, queue, ports, trapthread, overlooked, lost>>
        /\ dpc' \in Still => dpc \in Still
    BY <1>10 DEF ProcessExit, kill, Dies, cvars, svars, Still
  <2> QED
    BY <2>1, <1>inv DEF Held, BornFirst, WaitsForReply, Suspended, LostFirst, HitHeld
<1>11. CASE TakeSignal
  BY <1>11, ReceivedHeld DEF TakeSignal, Heard, bvars, cvars, svars
<1>12. CASE TakeDead
  BY <1>12, ReceivedHeld DEF TakeDead, StartCount, Waiting, kvars, bvars, Stopping, Over, Still
<1>13. CASE trapWaitUnknown \/ HaltUnknown
  <2>1. Foreign \notin live
    BY <1>inv, DarwinAssumption DEF Tids
  <2>2. CASE trapWaitUnknown
    BY <2>1, <2>2, ReceivedHeld DEF trapWaitUnknown, kvars, svars, Over, Still
  <2>3. CASE HaltUnknown
    BY <2>1, <2>3, ReceivedHeld DEF HaltUnknown, kvars, bvars, cvars, svars
  <2> QED
    BY <1>13, <2>2, <2>3
<1>14. CASE trapWait \/ HaltTrap
  BY <1>14, TrapHeld
<1>15. CASE Stopped
  BY <1>15, <1>inv, StoppedHeld
<1>16. ASSUME NEW d \in {1, 2}, trapWaitDeath(d) \/ HaltDeath(d) \/ Killed(d)
       PROVE  \A t \in Tids : Held(t)'
  <2>1. CASE trapWaitDeath(d)
    BY <2>1, <1>inv, HeldQuiet
       DEF trapWaitDeath, kvars, bvars, svars, Waiting, Over, Stopping
  <2>2. CASE HaltDeath(d)
    BY <2>2, <1>inv, HeldQuiet DEF HaltDeath, StartCount, kvars, bvars, Over, Stopping, Still
  <2>3. CASE Killed(d)
    BY <2>3, <1>inv, HeldQuiet DEF Killed, kvars, bvars, svars, Over, Stopping
  <2> QED
    BY <1>16, <2>1, <2>2, <2>3
<1>17. CASE Interrupted
  BY <1>17, <1>inv, HeldQuiet
     DEF Interrupted, StartCount, Waiting, kvars, mvars, bvars, Over, Stopping, Still
<1>18. CASE HaltTimeout \/ StillRunning \/ StartHalt
  <2>1. CASE HaltTimeout
    BY <2>1, <1>inv, HeldQuiet
       DEF HaltTimeout, StartCount, kvars, mvars, bvars, Over, Stopping, Still
  <2>2. CASE StillRunning
    BY <2>2, <1>inv, HeldQuiet DEF StillRunning, kvars, mvars, bvars, svars, Over, Stopping
  <2>3. CASE StartHalt
    BY <2>3, <1>inv, HeldQuiet DEF StartHalt, kvars, mvars, bvars, svars, Over, Stopping
  <2> QED
    BY <1>18, <2>1, <2>2, <2>3
<1>19. CASE ContinueOnce \/ StartCont \/ Detach
  <2>1. CASE ContinueOnce
    BY <2>1, <1>inv, HeldQuiet DEF ContinueOnce, kvars, mvars, bvars, svars, Over, Stopping
  <2>2. CASE StartCont
    BY <2>2, <1>inv, HeldQuiet DEF StartCont, kvars, mvars, bvars, Over, Stopping, Still
  <2>3. CASE Detach
    BY <2>3, <1>inv, HeldQuiet DEF Detach, kvars, mvars, bvars, svars, Over, Stopping
  <2> QED
    BY <1>19, <2>1, <2>2, <2>3
<1>20. ASSUME NEW u \in Tids, singleStep(u) PROVE \A t \in Tids : Held(t)'
  <2>1. /\ dpc = "resume"
        /\ UNCHANGED <<pc, bps, live, blocked, queue, ports, trapthread, overlooked, lost>>
        /\ \/ sc' = [sc EXCEPT ![u] = 0] /\ dpc' = "step" /\ stepper' = u
           \/ sc' = sc /\ dpc' = "error"
    BY <1>20 DEF singleStep, resume_thread, mvars, bvars
  <2> SUFFICES ASSUME NEW t \in Tids PROVE Held(t)'
    OBVIOUS
  <2>2. t # u => sc'[t] = sc[t]
    BY <2>1, <1>inv DEF HitTypes
  <2> QED
    BY <2>1, <2>2, <1>inv DEF Held, BornFirst, WaitsForReply, Suspended, LostFirst, HitHeld, Still
<1>21. ASSUME NEW u \in Tids, resume(u) PROVE \A t \in Tids : Held(t)'
  <2>1. /\ dpc = "cont" /\ dpc' \in {"wait", "cont", "exited", "error"}
        /\ UNCHANGED <<pc, bps, live, blocked, queue, ports, trapthread, overlooked, lost>>
    BY <1>21 DEF resume, mvars, bvars
  <2>2. dpc \notin Still \cup Stopping \cup Over
    BY <2>1 DEF Still, Stopping, Over
  <2> QED
    BY <2>1, <2>2, <1>inv, HeldFrame
<1>22. ASSUME NEW u \in Tids, stopThread(u) PROVE \A t \in Tids : Held(t)'
  <2>1. /\ dpc = "stop" /\ dpc' \in {"stop", "error"}
        /\ UNCHANGED <<pc, bps, live, blocked, queue, ports, trapthread, overlooked, lost>>
        /\ \A t \in Tids : sc[t] # 0 => sc'[t] # 0
    BY <1>22, <1>inv DEF stopThread, mvars, HitTypes
  <2>2. dpc' \in Stopping \cup Over
    BY <2>1 DEF Stopping, Over
  <2> QED
    BY <2>1, <2>2, <1>inv, HeldFrame
<1>23. ASSUME NEW a \in Starts, WriteBreakpoint(a) \/ EraseBreakpoint(a)
       PROVE  \A t \in Tids : Held(t)'
  <2>1. /\ dpc \in Still
        /\ UNCHANGED <<pc, sc, live, blocked, queue, ports, trapthread, overlooked, lost, dpc,
                       stepper>>
    BY <1>23 DEF WriteBreakpoint, EraseBreakpoint, kvars, mvars, cvars, svars, Still
  <2> QED
    BY <2>1, <1>inv DEF Held, BornFirst, WaitsForReply, Suspended, LostFirst, HitHeld
<1>24. CASE Reap
  BY <1>24, <1>inv, HeldQuiet DEF Reap, kvars, mvars, bvars, svars, Over, Stopping
<1> QED
  BY <1>1, <1>2, <1>3, <1>4, <1>5, <1>6, <1>7, <1>8, <1>9, <1>10, <1>11, <1>12, <1>13, <1>14,
     <1>15, <1>16, <1>17, <1>18, <1>19, <1>20, <1>21, <1>22, <1>23, <1>24, ZenonT(60)
     DEF Next, Child, Program, Backend, User

(* IInv and HInv together are an invariant of the backend.                 *)
THEOREM HInvariant == Spec => [](IInv /\ HInv)
<1>1. Init => IInv /\ HInv
  BY InitIInv, InitHInv
<1>2. IInv /\ HInv /\ [Next]_vars => IInv' /\ HInv'
  <2> SUFFICES ASSUME IInv, HInv, [Next]_vars PROVE IInv' /\ HInv'
    OBVIOUS
  <2>1. IInv'
    BY NextIInv
  <2>2. HGlobal' /\ \A t \in Tids : Held(t)'
    BY <2>1, NextGlobal, NextHeld
  <2> QED
    BY <2>1, <2>2 DEF HInv, HGlobal
<1> QED
  BY <1>1, <1>2, PTL DEF Spec

(* A breakpoint hit is kept until it has been handled: no thread that      *)
(* stop() has not given up runs on from the middle of an instruction, with *)
(* any number of threads, signals, manual stops and breakpoints            *)
(* (trapWait, waitForStop and SetCurrentBreakpoint of the native macOS     *)
(* backend).                                                               *)
THEOREM HitsKept == Spec => []HitKept
<1>1. HInv => HitKept
  BY DEF HInv, Held, HitHeld, HitKept, Runs
<1> QED
  BY <1>1, HInvariant, PTL

-----------------------------------------------------------------------------
(***************************************************************************)
(* AllStop: the overlooked threads are ones the debugger has not heard of. *)
(***************************************************************************)
KnownBorn == \A t \in Tids : pc[t] = 0 => t \notin known
KnownListed == dpc = "count" => known \cap live \subseteq list /\ known \cap overlooked = {}
OInv == KnownBorn /\ KnownListed

(* A step that starts no thread and overlooks none.                        *)
LEMMA OverlooksNone ==
  ASSUME IInv, HInv, OInv,
         \A t \in Tids : pc'[t] = 0 => pc[t] = 0,
         known' = known \/ known' = live, live' \subseteq live,
         dpc' = "count" => \/ /\ dpc = "count" /\ known' = known
                              /\ list' = list /\ overlooked' = overlooked
                           \/ list' = live /\ overlooked' = {}
  PROVE  OInv'
<1>1. KnownBorn'
  BY DEF HInv, Held, BornFirst, OInv, KnownBorn
<1>2. KnownListed'
  BY DEF OInv, KnownListed
<1> QED
  BY <1>1, <1>2 DEF OInv

(* Every step keeps the overlooked threads unknown.                        *)
LEMMA NextOInv == IInv /\ HInv /\ HInv' /\ OInv /\ [Next]_vars => OInv'
<1> SUFFICES ASSUME IInv, HInv, HInv', OInv, [Next]_vars PROVE OInv'
  OBVIOUS
<1>1. CASE UNCHANGED vars \/ ChildSetup \/ ChildExec \/ ExecTrap \/ ForkHits \/ requestManualStop
           \/ TakeSignal \/ HaltUnknown
  <2>1. UNCHANGED <<pc, known, live, dpc, list, overlooked>>
    BY <1>1 DEF vars, ChildSetup, ChildExec, ExecTrap, ForkHits, requestManualStop, TakeSignal,
                HaltUnknown, kvars, bvars, cvars, svars
  <2> QED
    BY <2>1, OverlooksNone
<1>2. CASE NewTask
  <2>1. UNCHANGED <<pc, known, dpc>> /\ dpc # "count"
    BY <1>2 DEF NewTask, bvars, cvars, HInv, TracedFirst, Attached
  <2> QED
    BY <2>1 DEF OInv, KnownBorn, KnownListed
<1>3. ASSUME NEW t \in Tids, Execute(t) PROVE OInv'
  <2>1. UNCHANGED <<known, live, dpc, list, overlooked>> /\ t \in live
    BY <1>3 DEF Execute, Active, Runs, bvars, cvars, svars
  <2>2. pc'[t] # 0
    BY <2>1 DEF HInv, Held, BornFirst
  <2>3. \A u \in Tids \ {t} : pc'[u] = pc[u]
    BY <1>3 DEF Execute, HInv, HitTypes
  <2> QED
    BY <2>1, <2>2, <2>3, OverlooksNone
<1>4. ASSUME NEW t \in Tids, NewThread(t) PROVE OInv'
  <2>1. PICK c \in Others : /\ pc[c] = 0 /\ live' = live \cup {c}
                            /\ pc' = [pc EXCEPT ![c] = pc[t]]
                            /\ overlooked' \subseteq overlooked \cup {c}
                            /\ UNCHANGED <<known, dpc, list>>
    BY <1>4 DEF NewThread, bvars
  <2>2. c \in Tids /\ c \notin known
    BY <2>1 DEF OInv, KnownBorn, Tids
  <2>3. \A u \in Tids \ {c} : pc'[u] = pc[u]
    BY <2>1 DEF HInv, HitTypes
  <2> QED
    BY <2>1, <2>2, <2>3 DEF OInv, KnownBorn, KnownListed
<1>5. ASSUME NEW t \in Tids, ThreadExit(t) PROVE OInv'
  <2>1. /\ UNCHANGED <<pc, known, dpc, list>> /\ live' = live \ {t}
        /\ overlooked' \subseteq overlooked \cup (live \ list)
    BY <1>5 DEF ThreadExit, bvars
  <2> QED
    BY <2>1 DEF OInv, KnownBorn, KnownListed
<1>6. CASE ProcessExit \/ kill \/ Quit \/ ContinueOnce \/ Detach
  <2>1. /\ UNCHANGED <<pc, known>> /\ live' \subseteq live
        /\ dpc' = "count" => dpc = "count" /\ UNCHANGED <<list, overlooked>>
    BY <1>6 DEF ProcessExit, kill, Dies, Quit, ContinueOnce, Detach, kvars, bvars, cvars, svars
  <2> QED
    BY <2>1, OverlooksNone
<1>7. ASSUME NEW t \in Tids, Signal(t) PROVE OInv'
  <2>1. UNCHANGED <<pc, known, live, dpc, list, overlooked>>
    BY <1>7 DEF Signal, bvars, cvars, svars
  <2> QED
    BY <2>1, OverlooksNone
<1>8. ASSUME NEW a \in Starts, WriteBreakpoint(a) \/ EraseBreakpoint(a) PROVE OInv'
  <2>1. UNCHANGED <<pc, known, live, dpc, list, overlooked>>
    BY <1>8 DEF WriteBreakpoint, EraseBreakpoint, kvars, cvars, svars
  <2> QED
    BY <2>1, OverlooksNone
<1>9. CASE acquire_mach_task \/ WritePipe \/ ReadPipe \/ Launch \/ StartCont \/ StartHalt
           \/ StillRunning \/ trapWaitUnknown \/ Reap
  <2>1. UNCHANGED <<pc, live>> /\ known' \in {known, live} /\ dpc' # "count"
    BY <1>9 DEF acquire_mach_task, WritePipe, ReadPipe, Launch, StartCont, StartHalt,
                StillRunning, trapWaitUnknown, Reap, kvars, bvars
  <2> QED
    BY <2>1, OverlooksNone
<1>10. CASE trapWait \/ HaltTrap
  <2>1. UNCHANGED <<pc, live>> /\ known' \in {known, live} /\ dpc' # "count"
    BY <1>10 DEF trapWait, HaltTrap, Waiting, bvars
  <2> QED
    BY <2>1, OverlooksNone
<1>11. ASSUME NEW t \in Tids, singleStep(t) \/ resume(t) \/ stopThread(t) PROVE OInv'
  <2>1. UNCHANGED <<pc, live>> /\ known' \in {known, live} /\ dpc' # "count"
    BY <1>11 DEF singleStep, resume, stopThread, bvars
  <2> QED
    BY <2>1, OverlooksNone
<1>12. ASSUME NEW d \in {1, 2},
              TakeDead \/ HaltTimeout \/ Interrupted \/ trapWaitDeath(d) \/ HaltDeath(d) \/ Killed(d)
       PROVE  OInv'
  <2>1. /\ UNCHANGED <<pc, known, live>>
        /\ dpc' = "count" => list' = live /\ overlooked' = {}
    BY <1>12 DEF TakeDead, HaltTimeout, Interrupted, trapWaitDeath, HaltDeath, Killed, StartCount,
                 Waiting, kvars, bvars
  <2> QED
    BY <2>1, OverlooksNone
<1>13. CASE Stopped
  <2>1. /\ live' = live /\ known' \in {known, live} /\ dpc' # "count"
    BY <1>13 DEF Stopped
  <2>2. ASSUME NEW t \in Tids, pc'[t] = 0 PROVE pc[t] = 0
    <3>1. pc'[t] = pc[t] \/ pc'[t] \in bps
      BY <1>13, <2>2 DEF Stopped, FindBreakpoint, HInv, HitTypes
    <3> QED
      BY <3>1, <2>2, DarwinAssumption DEF HInv, HitTypes
  <2> QED
    BY <2>1, <2>2, OverlooksNone
<1> QED
  <2>1. CASE Program
    BY <2>1, <1>1, <1>3, <1>4, <1>5, <1>6, <1>7 DEF Program
  <2>2. CASE Backend
    BY <2>2, <1>1, <1>9, <1>10, <1>11, <1>12, <1>13 DEF Backend
  <2>3. CASE User
    BY <2>3, <1>1, <1>6, <1>8 DEF User
  <2>4. CASE Child
    BY <2>4, <1>1, <1>2 DEF Child
  <2> QED
    BY <2>1, <2>2, <2>3, <2>4, <1>1, <1>12 DEF Next

(* Initially the target counts as running and no thread is at a breakpoint.*)
LEMMA AbstractInit == Init => Abstract!Init
  BY DEF Init, Abstract!Init, Over

(* Every step of the backend is one of AllStop or changes nothing there.   *)
LEMMA AbstractStep == IInv /\ HInv /\ OInv /\ [Next]_vars => [Abstract!Next]_(Abstract!vars)
<1> SUFFICES ASSUME IInv, HInv, OInv, [Next]_vars PROVE [Abstract!Next]_(Abstract!vars)
  OBVIOUS
<1> DEFINE w == IF dpc = "stopped" THEN "stopped" ELSE IF dpc \in Over THEN "over" ELSE "running"
<1> DEFINE at == [t \in Tids |-> IF t \in overlooked THEN 0 ELSE pc[t]]
(* Steps that AllStop does not see.                                        *)
<1>0. ASSUME w' = w, UNCHANGED <<known, cur, bps>>, at' = at PROVE [Abstract!Next]_(Abstract!vars)
  BY <1>0 DEF Abstract!vars
<1>1. ASSUME w' = w, UNCHANGED <<known, pc, overlooked, cur, bps>>
      PROVE  [Abstract!Next]_(Abstract!vars)
  BY <1>0, <1>1
(* Steps inside Launch, ContinueOnce and kill.                             *)
<1>2. ASSUME w = "running", w' = "running", bps' = bps PROVE [Abstract!Next]_(Abstract!vars)
  BY <1>2 DEF Abstract!Next, Abstract!Run
(* Errors, and the end of the process.                                     *)
<1>3. ASSUME w # "over", w' = "over" PROVE [Abstract!Next]_(Abstract!vars)
  BY <1>3 DEF Abstract!Next, Abstract!End
<1>4. ASSUME w = "stopped", w' = "running", UNCHANGED <<known, pc, overlooked, bps>>
      PROVE  [Abstract!Next]_(Abstract!vars)
  BY <1>4 DEF Abstract!Next, Abstract!Resume
<1>5. CASE UNCHANGED vars \/ Child \/ ForkHits \/ ProcessExit \/ TakeSignal \/ HaltUnknown
           \/ requestManualStop \/ Quit
  BY <1>5, <1>1
     DEF Child, ChildSetup, ChildExec, NewTask, ExecTrap, ForkHits, ProcessExit, TakeSignal,
         HaltUnknown, requestManualStop, Quit, Over, vars, kvars, bvars, cvars, svars
<1>6. ASSUME NEW t \in Tids, Signal(t) PROVE [Abstract!Next]_(Abstract!vars)
  BY <1>6, <1>1 DEF Signal, bvars, cvars, svars
(* While the target is stopped only the overlooked threads run.            *)
<1>7. ASSUME NEW t \in Tids, Execute(t) \/ NewThread(t) \/ ThreadExit(t)
      PROVE  [Abstract!Next]_(Abstract!vars)
  <2>1. /\ t \in live /\ sc[t] = 0 /\ dpc \notin Over
        /\ UNCHANGED <<known, cur, bps, dpc>>
    BY <1>7 DEF Execute, NewThread, ThreadExit, Active, Runs, bvars, cvars
  <2>2. CASE dpc # "stopped"
    BY <2>1, <2>2, <1>2
  <2>3. CASE dpc = "stopped"
    <3>1. t \in overlooked
      BY <2>1, <2>3 DEF IInv, StoppedSuspended
    <3>2. pc \in [Tids -> Nat]
      BY DEF HInv, HitTypes
    <3>3. CASE Execute(t)
      <4>1. overlooked' = overlooked /\ \A u \in Tids \ {t} : pc'[u] = pc[u]
        BY <3>2, <3>3 DEF Execute, cvars, svars
      <4>2. at' = at
        BY <4>1, <3>1
      <4> QED
        BY <4>2, <2>1, <1>0
    <3>4. CASE NewThread(t)
      <4>1. PICK c \in Others : /\ pc[c] = 0 /\ pc' = [pc EXCEPT ![c] = pc[t]]
                                /\ overlooked' = overlooked \cup {x \in {c} : t \in overlooked}
        BY <3>4 DEF NewThread
      <4>2. overlooked' = overlooked \cup {c}
        BY <4>1, <3>1
      <4>3. \A u \in Tids \ {c} : pc'[u] = pc[u]
        BY <4>1, <3>2
      <4>4. at' = at
        BY <4>1, <4>2, <4>3
      <4> QED
        BY <4>4, <2>1, <1>0
    <3>5. CASE ThreadExit(t)
      BY <3>5, <2>1, <2>3, <1>1 DEF ThreadExit
    <3> QED
      BY <1>7, <3>3, <3>4, <3>5
  <2> QED
    BY <2>2, <2>3
<1>8. CASE acquire_mach_task \/ WritePipe \/ ReadPipe \/ Launch \/ StartCont \/ StartHalt
           \/ StillRunning \/ HaltTrap \/ HaltTimeout \/ Reap
  BY <1>8, <1>2, <1>3
     DEF acquire_mach_task, WritePipe, ReadPipe, Launch, StartCont, StartHalt, StillRunning,
         HaltTrap, HaltTimeout, Reap, StartCount, Over, bvars
<1>9. CASE TakeDead \/ trapWait \/ trapWaitUnknown \/ Interrupted
  BY <1>9, <1>2, <1>3
     DEF TakeDead, trapWait, trapWaitUnknown, Interrupted, StartCount, Waiting, Over, bvars
<1>10. ASSUME NEW t \in Tids, singleStep(t) \/ resume(t) \/ stopThread(t)
       PROVE  [Abstract!Next]_(Abstract!vars)
  BY <1>10, <1>2, <1>3 DEF singleStep, resume, stopThread, Over, bvars
<1>11. ASSUME NEW d \in {1, 2}, trapWaitDeath(d) \/ HaltDeath(d) \/ Killed(d)
       PROVE  [Abstract!Next]_(Abstract!vars)
  BY <1>11, <1>2, <1>3 DEF trapWaitDeath, HaltDeath, Killed, StartCount, Waiting, Over, bvars
<1>12. CASE ContinueOnce \/ kill \/ Detach
  BY <1>12, <1>3, <1>4 DEF ContinueOnce, kill, Detach, Over, kvars, bvars, svars
<1>13. ASSUME NEW a \in Starts, WriteBreakpoint(a) \/ EraseBreakpoint(a)
       PROVE  [Abstract!Next]_(Abstract!vars)
  BY <1>13 DEF WriteBreakpoint, EraseBreakpoint, kvars, cvars, svars,
               Abstract!Next, Abstract!SetBreakpoint, Abstract!ClearBreakpoint
<1>14. CASE Stopped
  <2>1. CASE dpc' = "error"
    BY <2>1, <1>14, <1>3 DEF Stopped, Over
  <2>2. CASE dpc' = "stopped"
    <3>1. ASSUME NEW t \in known', cur'[t] # None
          PROVE  cur'[t] \in bps /\ pc'[t] = cur'[t] /\ t \in known
      BY <3>1, <1>14, SMTT(30) DEF IInv, Typed, NoBreakpointYet, Stopped, FindBreakpoint
    <3>2. \A t \in known' : t \in Tids /\ (cur'[t] # None => t \notin overlooked')
      BY <3>1, <1>14 DEF IInv, Typed, OInv, KnownListed, Stopped
    <3>3. \A t \in known' : cur'[t] # None => cur'[t] \in bps /\ at'[t] = cur'[t]
      BY <3>1, <3>2
    <3> QED
      BY <2>2, <3>3, <1>14 DEF Stopped, Over, Abstract!Next, Abstract!Stop
  <2> QED
    BY <2>1, <2>2, <1>14 DEF Stopped
<1> QED
  <2>1. CASE Program
    BY <2>1, <1>5, <1>6, <1>7 DEF Program
  <2>2. CASE Backend
    BY <2>2, <1>5, <1>8, <1>9, <1>10, <1>11, <1>14 DEF Backend
  <2>3. CASE User
    BY <2>3, <1>5, <1>12, <1>13 DEF User
  <2> QED
    BY <2>1, <2>2, <2>3, <1>5, <1>9 DEF Next

(* Exceptions and suspend counts are, seen from pkg/proc, a target that    *)
(* stops and resumes as a whole, but for the threads num_running_threads   *)
(* has overlooked.                                                         *)
THEOREM DarwinImplementsAllStop == Spec => ImplementsAllStop
<1>1. Init => OInv
  BY DEF Init, OInv, KnownBorn, KnownListed
<1> QED
  BY <1>1, HInvariant, NextOInv, AbstractInit, AbstractStep, PTL
     DEF Spec, ImplementsAllStop, Abstract!Spec
=============================================================================
