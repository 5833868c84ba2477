----------------------------- MODULE NativeLinux -----------------------------
(***************************************************************************)
(* The Linux native backend of one process: how ContinueOnce resumes the   *)
(* threads one by one, waits for one of them to trap, and stops all the    *)
(* others, against the kernel's ptrace interface, in which every thread    *)
(* stops, clones, exits and takes signals on its own.                      *)
(*                                                                         *)
(* dpc follows the goroutine in ContinueOnce:                              *)
(*   stopped   outside ContinueOnce; pkg/proc edits breakpoints            *)
(*   resume    first loop of resume(): threads at a breakpoint step        *)
(*   step      singleStep(stepper), between PTRACE_SINGLESTEP and wait4    *)
(*   cont      second loop of resume(): PTRACE_CONT for the threads in todo*)
(*   wait      trapWait(procgrp, -1)                                       *)
(*   drain     stop(): trapWaitInternal(trapWaitNohang) in a loop          *)
(*   kill      stop(): SIGSTOP for the threads in todo                     *)
(*   halt      stop(): the loop that checks whether all threads stopped    *)
(*   haltwait  stop(): inside trapWaitInternal(trapWaitHalt)               *)
(*   exited, detached                                                      *)
(* An address is a number; the instruction at a start reaches up to the    *)
(* next start, and executing a breakpoint instruction at a leaves the pc   *)
(* at a + 1 (BreakInstrMovesPC).                                           *)
(***************************************************************************)
EXTENDS Integers, FiniteSets

CONSTANTS
  Leader, Others,   \* thread ids: the group leader, the other threads
  Starts,           \* the addresses of the instructions of the program
  Hard,             \* those that are breakpoint instructions of its own
  Sigs, SyncSigs,   \* signals of the program; those its instructions raise
  MaxEvents,        \* bound on clones, signals and manual stop requests
  MaxContinue,      \* bound on the calls to ContinueOnce
  None

Tids == {Leader} \cup Others

ASSUME LinuxAssumption ==
  /\ Leader \notin Others /\ Others # {}
  /\ Starts \subseteq Nat \ {0} /\ Hard \subseteq Starts /\ Starts \ Hard # {}
  /\ \A a \in Hard : a + 1 \in Starts
  /\ SyncSigs \subseteq Sigs
  /\ Sigs \cap {"STOP", "TRAP", "CLONE", "EXITED", None} = {}
  /\ {MaxEvents, MaxContinue} \subseteq Nat
  /\ None \notin Nat /\ None \notin {"STOP", "TRAP", "CLONE", "EXITED"}

VARIABLES
  (* the kernel *)
  kstate,   \* of a thread: none, born, running, stopped, zombie, gone, free
  pc,       \* its program counter
  pend,     \* its pending signals
  wstatus,  \* the wait status of a stopped or zombie thread, if not yet read
  child,    \* the thread its last clone event announced
  group,    \* a SIGTRAP sent to the process is pending
  (* the program *)
  events,   \* clones, signals and manual stop requests so far
  held,     \* ghost: signals taken from a thread by a stop and not handed back
  (* the debugger *)
  known,    \* dbp.threads
  running, setbp, delayed, phantom,   \* th.os
  cur,      \* th.CurrentBreakpoint
  bps,      \* dbp.breakpoints.M
  dpc, todo, stepper, trapthread,
  manual,   \* cctx.manualStopRequested
  asked,    \* ghost: a manual stop has been requested
  ncont     \* calls of ContinueOnce so far

kvars == <<kstate, pc, pend, wstatus, child, group>>
pvars == <<events, held>>
osvars == <<running, setbp, delayed, phantom>>
dvars == <<known, osvars, cur, bps, dpc, todo, stepper, trapthread, manual>>
vars == <<kvars, pvars, dvars, asked, ncont>>

Breakable == Starts \ Hard
Over == {"exited", "detached"}
Live(t) == kstate[t] \in {"born", "running", "stopped"}

(***************************************************************************)
(* The kernel and the program.                                             *)
(***************************************************************************)
(* The start after a, the first one after the last.                        *)
After(a) ==
  LET later == {b \in Starts : b > a} IN
  CHOOSE b \in IF later = {} THEN Starts ELSE later :
    \A c \in IF later = {} THEN Starts ELSE later : b <= c

(* A trap in memory: bps are the breakpoints written, while a thread steps *)
(* over one all the others are stopped.                                    *)
Execute(t) ==
  /\ kstate[t] = "running"
  /\ "TRAP" \notin pend[t] /\ pc[t] \in Starts
  /\ IF pc[t] \in bps \cup Hard
     THEN /\ pc' = [pc EXCEPT ![t] = @ + 1]
          /\ pend' = [pend EXCEPT ![t] = @ \cup {"TRAP"}]
     ELSE pc' = [pc EXCEPT ![t] = After(@)] /\ UNCHANGED pend
  /\ UNCHANGED <<kstate, wstatus, child, group, pvars, dvars, asked, ncont>>

(* The thread id the kernel gives next; ids are interchangeable.           *)
Fresh == CHOOSE t \in Others : kstate[t] = "none"

(* PTRACE_O_TRACECLONE: the parent stops with the event, the child is born *)
(* traced with a SIGSTOP pending.                                          *)
Clone(t) ==
  LET c == Fresh IN
  /\ kstate[t] = "running" /\ "TRAP" \notin pend[t]
  /\ pc[t] \in Breakable \ bps
  /\ \E o \in Others : kstate[o] = "none"
  /\ events < MaxEvents
  /\ events' = events + 1
  /\ kstate' = [kstate EXCEPT ![t] = "stopped", ![c] = "born"]
  /\ wstatus' = [wstatus EXCEPT ![t] = "CLONE"]
  /\ child' = [child EXCEPT ![t] = c]
  /\ pend' = [pend EXCEPT ![c] = {"STOP"}]
  /\ pc' = [pc EXCEPT ![t] = After(@), ![c] = pc[t]]
  /\ UNCHANGED <<group, held, dvars, asked, ncont>>

(* Signal-delivery stop: any pending signal may be the one reported.       *)
TakeSignal(t, s) ==
  /\ kstate[t] \in {"running", "born"}
  /\ \/ s \in pend[t] /\ pend' = [pend EXCEPT ![t] = @ \ {s}] /\ UNCHANGED group
     \/ s = "TRAP" /\ group /\ kstate[t] = "running" /\ group' = FALSE /\ UNCHANGED pend
  /\ kstate' = [kstate EXCEPT ![t] = "stopped"]
  /\ wstatus' = [wstatus EXCEPT ![t] = s]
  /\ held' = [held EXCEPT ![t] = @ \cup ({s} \cap Sigs)]
  /\ UNCHANGED <<pc, child, events, dvars, asked, ncont>>

SendSignal(t, s) ==
  /\ events < MaxEvents /\ Live(t) /\ kstate[t] # "born" /\ dpc \notin Over
  /\ pend' = [pend EXCEPT ![t] = @ \cup {s}]
  /\ events' = events + 1
  /\ UNCHANGED <<kstate, pc, wstatus, child, group, held, dvars, asked, ncont>>

ThreadExit(t) ==
  /\ kstate[t] = "running" /\ "TRAP" \notin pend[t] /\ t # Leader
  /\ kstate' = [kstate EXCEPT ![t] = "zombie"]
  /\ wstatus' = [wstatus EXCEPT ![t] = "EXITED"]
  /\ pend' = [pend EXCEPT ![t] = {}]
  /\ held' = [held EXCEPT ![t] = {}]
  /\ UNCHANGED <<pc, child, group, events, dvars, asked, ncont>>

(* exit_group called by a running thread.                                  *)
ExitGroup ==
  /\ \E t \in Tids : kstate[t] = "running" /\ "TRAP" \notin pend[t]
  /\ kstate' = [t \in Tids |-> IF Live(t) THEN "zombie" ELSE kstate[t]]
  /\ wstatus' = [t \in Tids |-> IF Live(t) THEN "EXITED" ELSE wstatus[t]]
  /\ pend' = [t \in Tids |-> {}]
  /\ held' = [t \in Tids |-> {}]
  /\ group' = FALSE
  /\ UNCHANGED <<pc, child, events>>

ProcessExit ==
  /\ dpc \notin Over
  /\ ExitGroup
  /\ UNCHANGED <<dvars, asked, ncont>>

(***************************************************************************)
(* Resuming.                                                               *)
(***************************************************************************)
\* Defective variant: the signal is dropped.
resumeWithoutSig(ts, sig) ==
  LET go == {t \in ts : kstate[t] = "stopped"} IN
  /\ kstate' = [t \in Tids |-> IF t \in go THEN "running" ELSE kstate[t]]
  /\ wstatus' = [t \in Tids |-> IF t \in go THEN None ELSE wstatus[t]]
  /\ running' = [t \in Tids |-> t \in ts \/ running[t]]
  /\ UNCHANGED held

(* th.resumeWithSig for every thread t of ts with signal sig[t]; a thread  *)
(* that is gone answers ESRCH, which the callers ignore.                   *)
resumeWithSig(ts, sig) ==
  LET go == {t \in ts : kstate[t] = "stopped"} IN
  /\ kstate' = [t \in Tids |-> IF t \in go THEN "running" ELSE kstate[t]]
  /\ wstatus' = [t \in Tids |-> IF t \in go THEN None ELSE wstatus[t]]
  /\ held' = [t \in Tids |-> IF t \in go THEN held[t] \ {sig[t]} ELSE held[t]]
  /\ running' = [t \in Tids |-> t \in ts \/ running[t]]

(* The call of ContinueOnce by TargetGroup.Continue, which has cleared the *)
(* manual stop request.                                                    *)
ContinueOnce ==
  /\ dpc = "stopped" /\ ncont < MaxContinue
  /\ dpc' = "resume"
  /\ manual' = FALSE
  /\ ncont' = ncont + 1
  /\ UNCHANGED <<kvars, pvars, known, osvars, cur, bps, todo, stepper, trapthread, asked>>

stepInstruction(t) ==
  /\ dpc = "resume" /\ t \in known /\ cur[t] # None
  /\ dpc' = "step"
  /\ stepper' = t
  /\ UNCHANGED <<kvars, pvars, known, osvars, cur, bps, todo, trapthread, manual, asked, ncont>>

(* singleStep returns: the trap is written back, CurrentBreakpoint cleared. *)
StepDone ==
  /\ dpc' = "resume"
  /\ stepper' = None
  /\ cur' = [cur EXCEPT ![stepper] = None]
  /\ wstatus' = [wstatus EXCEPT ![stepper] = None]

(* The wait reports a pending signal in place of the end of the step: a    *)
(* SIGTRAP passes for it, a SIGSTOP is ignored, a signal instructions can  *)
(* cause is injected by the next PTRACE_SINGLESTEP, any other is delayed.  *)
StepSignal(s) ==
  LET t == stepper IN
  /\ dpc = "step"
  /\ \/ s \in pend[t] /\ pend' = [pend EXCEPT ![t] = @ \ {s}] /\ UNCHANGED group
     \/ s = "TRAP" /\ group /\ group' = FALSE /\ UNCHANGED pend
  /\ IF s = "TRAP"
     THEN StepDone /\ UNCHANGED <<delayed, held>>
     ELSE /\ delayed' = IF s \in Sigs \ SyncSigs THEN [delayed EXCEPT ![t] = s] ELSE delayed
          /\ held' = [held EXCEPT ![t] = @ \cup ({s} \cap (Sigs \ SyncSigs))]
          /\ UNCHANGED <<wstatus, cur, dpc, stepper>>
  /\ UNCHANGED <<kstate, pc, child, events, known, running, setbp, phantom, bps, todo,
                 trapthread, manual, asked, ncont>>

(* The instruction under the breakpoint, whose trap has been erased.  It   *)
(* is not one that ends the process, which waitFast does not handle.       *)
StepExecuted ==
  LET t == stepper IN
  /\ dpc = "step" /\ pend[t] = {} /\ ~group
  /\ pc' = [pc EXCEPT ![t] = After(@)]
  /\ StepDone
  /\ UNCHANGED <<kstate, pend, child, group, pvars, known, osvars, bps, todo, trapthread,
                 manual, asked, ncont>>

StartCont ==
  /\ dpc = "resume" /\ \A t \in known : cur[t] = None
  /\ dpc' = "cont"
  /\ todo' = known
  /\ UNCHANGED <<kvars, pvars, known, osvars, cur, bps, stepper, trapthread, manual, asked, ncont>>

resume(t) ==
  /\ dpc = "cont" /\ t \in todo
  /\ resumeWithSig({t}, delayed)
  /\ delayed' = [delayed EXCEPT ![t] = None]
  /\ todo' = todo \ {t}
  /\ dpc' = IF todo' = {} THEN "wait" ELSE "cont"
  /\ UNCHANGED <<pc, pend, child, group, events, known, setbp, phantom, cur, bps, stepper,
                 trapthread, manual, asked, ncont>>

(***************************************************************************)
(* trapWaitInternal: one action per kind of wait status, with the requests *)
(* to the thread that answer it.  The kernel keeps back the exit of the    *)
(* leader until all other threads have been reaped.                        *)
(***************************************************************************)
Waiting == {"wait", "drain", "haltwait"}
Waitable(t) ==
  /\ wstatus[t] # None
  /\ wstatus[t] = "EXITED" /\ t = Leader => \A u \in Others : kstate[u] \in {"none", "gone"}

(* trapWaitInternal returns th or nil; stop() then goes on with its loop.  *)
Return == dpc' = IF dpc = "haltwait" THEN "halt" ELSE dpc

WaitExited(t) ==
  /\ dpc \in Waiting /\ Waitable(t) /\ wstatus[t] = "EXITED"
  /\ kstate' = [kstate EXCEPT ![t] = "gone"]
  /\ wstatus' = [wstatus EXCEPT ![t] = None]
  /\ known' = known \ ({t} \cap Others)
  /\ dpc' = IF t = Leader THEN "exited" ELSE dpc
  /\ UNCHANGED <<pc, pend, child, group, pvars, osvars, cur, bps, todo, stepper, trapthread,
                 manual, asked, ncont>>

\* Defective variant: the new thread is resumed while the others are halted.
WaitCloneHaltResumes(t) ==
  LET c == child[t]
      fresh == kstate[c] = "born" IN
  /\ dpc \in Waiting /\ wstatus[t] = "CLONE"
  /\ known' = known \cup {c}
  /\ pend' = IF fresh THEN [pend EXCEPT ![c] = {}] ELSE pend
  /\ kstate' = [kstate EXCEPT ![c] = "running", ![t] = IF dpc = "haltwait" THEN @ ELSE "running"]
  /\ wstatus' = [wstatus EXCEPT ![t] = None, ![c] = None]
  /\ running' = [running EXCEPT ![c] = FALSE, ![t] = dpc # "haltwait"]
  /\ Return
  /\ UNCHANGED <<pc, child, group, pvars, setbp, delayed, phantom, cur, bps, todo, stepper,
                 trapthread, manual, asked, ncont>>

(* addThread of the thread cloned: PTRACE_SETOPTIONS fails until it has    *)
(* stopped, and then its first stop is waited for.  A request that answers *)
(* ESRCH leaves known as ProcessExit before this wait leaves it (or, if it *)
(* is the last, after it): the new thread is not in it.                    *)
WaitClone(t) ==
  LET c == child[t]
      fresh == kstate[c] = "born" IN
  /\ dpc \in Waiting /\ wstatus[t] = "CLONE"
  /\ known' = known \cup {c}
  /\ pend' = IF fresh THEN [pend EXCEPT ![c] = {}] ELSE pend
  /\ setbp' = [setbp EXCEPT ![c] = FALSE]
  /\ phantom' = [phantom EXCEPT ![c] = 0]
  /\ IF dpc = "haltwait"
     THEN /\ running' = [running EXCEPT ![c] = FALSE, ![t] = FALSE]
          /\ kstate' = [kstate EXCEPT ![c] = "stopped"]
          /\ wstatus' = [wstatus EXCEPT ![t] = None, ![c] = IF fresh THEN None ELSE @]
          /\ UNCHANGED <<held, delayed>>
     ELSE /\ kstate' = [kstate EXCEPT ![c] = "running", ![t] = "running"]
          /\ wstatus' = [wstatus EXCEPT ![c] = None, ![t] = None]
          /\ held' = [held EXCEPT ![t] = @ \ {delayed[t]}]
          /\ running' = [running EXCEPT ![c] = TRUE, ![t] = TRUE]
          /\ delayed' = [delayed EXCEPT ![c] = None, ![t] = None]
  /\ Return
  /\ UNCHANGED <<pc, child, group, events, cur, bps, todo, stepper, trapthread, manual, asked, ncont>>

(* The stop of a new thread, reported before its parent's clone event.     *)
WaitUnknown(t) ==
  /\ dpc \in Waiting /\ t \notin known /\ wstatus[t] = "STOP"
  /\ wstatus' = [wstatus EXCEPT ![t] = None]
  /\ UNCHANGED <<kstate, pc, pend, child, group, pvars, dvars, asked, ncont>>

\* Defective variant: a thread that traps while it is being halted is not
\* counted as stopped.
WaitTrapStillRunning(t) ==
  /\ dpc \in Waiting /\ t \in known /\ wstatus[t] = "TRAP"
  /\ wstatus' = [wstatus EXCEPT ![t] = None]
  /\ IF dpc = "wait"
     THEN setbp' = [u \in Tids |-> u = t] /\ trapthread' = t /\ dpc' = "drain"
          /\ running' = [running EXCEPT ![t] = FALSE]
     ELSE setbp' = [setbp EXCEPT ![t] = TRUE] /\ Return /\ UNCHANGED <<trapthread, running>>
  /\ UNCHANGED <<kstate, pc, pend, child, group, pvars, known, delayed, phantom, cur, bps, todo,
                 stepper, manual, asked, ncont>>

(* A SIGTRAP in trapWait starts stop(t).                                   *)
WaitTrap(t) ==
  /\ dpc \in Waiting /\ t \in known /\ wstatus[t] = "TRAP"
  /\ wstatus' = [wstatus EXCEPT ![t] = None]
  /\ running' = [running EXCEPT ![t] = FALSE]
  /\ IF dpc = "wait"
     THEN setbp' = [u \in Tids |-> u = t] /\ trapthread' = t /\ dpc' = "drain"
     ELSE setbp' = [setbp EXCEPT ![t] = TRUE] /\ Return /\ UNCHANGED trapthread
  /\ UNCHANGED <<kstate, pc, pend, child, group, pvars, known, delayed, phantom, cur, bps, todo,
                 stepper, manual, asked, ncont>>

WaitStop(t) ==
  /\ dpc = "haltwait" /\ t \in known /\ wstatus[t] = "STOP"
  /\ wstatus' = [wstatus EXCEPT ![t] = None]
  /\ running' = [running EXCEPT ![t] = FALSE]
  /\ Return
  /\ UNCHANGED <<kstate, pc, pend, child, group, pvars, known, setbp, delayed, phantom, cur, bps,
                 todo, stepper, trapthread, manual, asked, ncont>>

(* Any other signal: kept for later if the thread is already counted as    *)
(* stopped, else handed back at once, a SIGSTOP outside halt included.     *)
WaitSignal(t) ==
  /\ dpc \in Waiting /\ t \in known
  /\ wstatus[t] \in Sigs \cup (IF dpc = "haltwait" THEN {} ELSE {"STOP"})
  /\ IF dpc = "haltwait" /\ ~running[t]
     THEN /\ delayed' = [delayed EXCEPT ![t] = wstatus[t]]
          /\ wstatus' = [wstatus EXCEPT ![t] = None]
          /\ Return
          /\ UNCHANGED <<kstate, held, running>>
     ELSE resumeWithSig({t}, wstatus) /\ UNCHANGED <<delayed, dpc>>
  /\ UNCHANGED <<pc, pend, child, group, events, known, setbp, phantom, cur, bps, todo, stepper,
                 trapthread, manual, asked, ncont>>

(* The process exits between this wait and PTRACE_CONT, which then answers *)
(* ESRCH: a thread is forgotten before its exit is waited for, and the     *)
(* leader's death is that of the process, whatever has been reaped.        *)
WaitSignalDied(t) ==
  /\ dpc \in Waiting /\ t \in known
  /\ wstatus[t] \in Sigs \cup (IF dpc = "haltwait" THEN {} ELSE {"STOP"})
  /\ dpc = "haltwait" => running[t]
  /\ ExitGroup
  /\ running' = [running EXCEPT ![t] = TRUE]
  /\ known' = known \ ({t} \cap Others)
  /\ dpc' = IF t = Leader THEN "exited" ELSE dpc
  /\ UNCHANGED <<setbp, delayed, phantom, cur, bps, todo, stepper, trapthread, manual, asked, ncont>>

(***************************************************************************)
(* stop                                                                    *)
(***************************************************************************)
(* wait4 with WNOHANG finds nothing more.                                  *)
Drained ==
  /\ dpc = "drain" /\ \A t \in Tids : ~Waitable(t)
  /\ todo' = {t \in known : running[t]}
  /\ dpc' = IF todo' = {} THEN "halt" ELSE "kill"
  /\ UNCHANGED <<kvars, pvars, known, osvars, cur, bps, stepper, trapthread, manual, asked, ncont>>

(* th.stop: tgkill of a zombie succeeds and has no effect.                 *)
stopThread(t) ==
  /\ dpc = "kill" /\ t \in todo
  /\ pend' = [pend EXCEPT ![t] = IF Live(t) THEN @ \cup {"STOP"} ELSE @]
  /\ todo' = todo \ {t}
  /\ dpc' = IF todo' = {} THEN "halt" ELSE "kill"
  /\ UNCHANGED <<kstate, pc, wstatus, child, group, pvars, known, osvars, cur, bps, stepper,
                 trapthread, manual, asked, ncont>>

HaltWait ==
  /\ dpc = "halt" /\ \E t \in known : running[t]
  /\ dpc' = "haltwait"
  /\ UNCHANGED <<kvars, pvars, known, osvars, cur, bps, todo, stepper, trapthread, manual,
                 asked, ncont>>

(* dbp.FindBreakpoint(a, true): the breakpoint just executed before the    *)
(* one about to be.                                                        *)
FindBreakpoint(a) ==
  IF a - 1 \in bps THEN a - 1 ELSE IF a \in bps THEN a ELSE None

\* Defective variant: only threads that reported a SIGTRAP are looked at.
NoPhantom(t) == IF setbp[t] /\ phantom[t] = pc[t] THEN pc[t] ELSE 0

(* The pc the thread may have reached by a hit not reported yet.           *)
Phantom(t) ==
  IF (~setbp[t] /\ FindBreakpoint(pc[t]) # None) \/ phantom[t] = pc[t] THEN pc[t] ELSE 0

(* SetCurrentBreakpoint(true), for the threads that reported a SIGTRAP.    *)
Found(t) == IF setbp[t] THEN FindBreakpoint(pc[t]) ELSE None

(* A SIGTRAP with no breakpoint for it, at the pc of a phantom hit.        *)
Rewound(t) ==
  /\ setbp[t] /\ Found(t) = None
  /\ ~(t = trapthread /\ manual)
  /\ Phantom(t) = pc[t] /\ pc[t] - 1 \notin Hard

(* stop1 for every thread, then the choice of the thread to report; with   *)
(* none left ContinueOnce resumes again.                                   *)
stop1 ==
  /\ dpc = "halt" /\ \A t \in known : ~running[t]
  /\ phantom' = [t \in Tids |-> IF t \in known THEN Phantom(t) ELSE phantom[t]]
  /\ cur' = [t \in Tids |-> IF t \in known THEN Found(t) ELSE cur[t]]
  /\ pc' = [t \in Tids |-> IF t \notin known THEN pc[t]
                           ELSE IF Found(t) # None THEN Found(t)
                           ELSE IF Rewound(t) THEN pc[t] - 1
                           ELSE pc[t]]
  /\ setbp' = [t \in Tids |-> setbp[t] /\ ~(t \in known /\ Rewound(t))]
  /\ IF Rewound(trapthread)
     THEN LET others == {t \in known : setbp'[t]} IN
          IF others = {} THEN trapthread' = None /\ dpc' = "resume"
          ELSE trapthread' \in others /\ dpc' = "stopped"
     ELSE dpc' = "stopped" /\ UNCHANGED trapthread
  /\ UNCHANGED <<kstate, pend, wstatus, child, group, pvars, known, running, delayed, bps, todo,
                 stepper, manual, asked, ncont>>

(***************************************************************************)
(* Calls from pkg/proc.                                                    *)
(***************************************************************************)
RequestManualStop ==
  /\ events < MaxEvents /\ dpc \notin Over /\ kstate[Leader] # "zombie"
  /\ manual' = TRUE
  /\ group' = TRUE
  /\ asked' = TRUE
  /\ events' = events + 1
  /\ UNCHANGED <<kstate, pc, pend, wstatus, child, held, known, osvars, cur, bps, dpc, todo,
                 stepper, trapthread, ncont>>

WriteBreakpoint(a) ==
  /\ dpc = "stopped" /\ a \in Breakable \ bps
  /\ bps' = bps \cup {a}
  /\ UNCHANGED <<kvars, pvars, known, osvars, cur, dpc, todo, stepper, trapthread, manual, asked, ncont>>

EraseBreakpoint(a) ==
  /\ dpc = "stopped" /\ a \in bps
  /\ bps' = bps \ {a}
  /\ UNCHANGED <<kvars, pvars, known, osvars, cur, dpc, todo, stepper, trapthread, manual, asked, ncont>>

(* PTRACE_DETACH of every known thread, without a signal, after the target *)
(* has cleared its breakpoints.                                            *)
Detach ==
  /\ dpc = "stopped" /\ bps = {}
  /\ dpc' = "detached"
  /\ kstate' = [t \in Tids |-> IF t \in known THEN "free" ELSE kstate[t]]
  /\ wstatus' = [t \in Tids |-> IF t \in known THEN None ELSE wstatus[t]]
  /\ UNCHANGED <<pc, pend, child, group, pvars, known, osvars, cur, bps, todo, stepper, trapthread,
                 manual, asked, ncont>>

-----------------------------------------------------------------------------

Init ==
  /\ \E up \in {{}, {CHOOSE t \in Others : TRUE}} :
       /\ known = {Leader} \cup up
       /\ kstate = [t \in Tids |-> IF t \in known THEN "stopped" ELSE "none"]
  /\ pc \in [Tids -> {After(0)}]
  /\ pend = [t \in Tids |-> {}]
  /\ wstatus = [t \in Tids |-> None] /\ child = [t \in Tids |-> None]
  /\ group = FALSE /\ manual = FALSE
  /\ events = 0 /\ asked = FALSE /\ ncont = 0
  /\ held = [t \in Tids |-> {}]
  /\ running = [t \in Tids |-> FALSE] /\ setbp = running
  /\ delayed = wstatus /\ phantom = [t \in Tids |-> 0] /\ cur = wstatus
  /\ bps = {} /\ dpc = "stopped" /\ todo = {} /\ stepper = None /\ trapthread = None

Program ==
  \/ \E t \in Tids : Execute(t) \/ ThreadExit(t) \/ Clone(t)
  \/ \E t \in Tids, s \in Sigs : SendSignal(t, s)
  \/ ProcessExit

Kernel == \E t \in Tids, s \in Sigs \cup {"STOP", "TRAP"} : TakeSignal(t, s)

Backend ==
  \/ \E t \in Tids : stepInstruction(t) \/ resume(t) \/ stopThread(t)
  \/ StepExecuted \/ StartCont \/ Drained \/ HaltWait \/ stop1
  \/ \E s \in Sigs \cup {"STOP", "TRAP"} : StepSignal(s)
  \/ \E t \in Tids : WaitExited(t) \/ WaitClone(t) \/ WaitUnknown(t) \/ WaitTrap(t)
                       \/ WaitStop(t) \/ WaitSignal(t) \/ WaitSignalDied(t)

User ==
  \/ ContinueOnce \/ RequestManualStop \/ Detach
  \/ \E a \in Starts : WriteBreakpoint(a) \/ EraseBreakpoint(a)

Next == Program \/ Kernel \/ Backend \/ User

Spec == Init /\ [][Next]_vars

(***************************************************************************)
(* Properties.                                                             *)
(***************************************************************************)
TakesSignal(t) == \E s \in Sigs \cup {"STOP", "TRAP"} : TakeSignal(t, s)

(* The goroutine in ContinueOnce goes on whenever it is not blocked in     *)
(* wait4, and the kernel stops a running thread that has a signal pending. *)
Fairness == WF_vars(Backend) /\ \A t \in Tids : WF_vars(TakesSignal(t))
FairSpec == Spec /\ Fairness

(* Type invariant of the kernel's and the backend's state.                 *)
TypeOK ==
  /\ kstate \in [Tids -> {"none", "born", "running", "stopped", "zombie", "gone", "free"}]
  /\ pend \in [Tids -> SUBSET (Sigs \cup {"STOP", "TRAP"})]
  /\ wstatus \in [Tids -> Sigs \cup {"STOP", "TRAP", "CLONE", "EXITED", None}]
  /\ known \subseteq Tids /\ bps \subseteq Breakable
  /\ delayed \in [Tids -> Sigs \cup {None}]
  /\ cur \in [Tids -> Breakable \cup {None}]
  /\ trapthread \in Tids \cup {None}

(* The per-thread protocol implements what pkg/proc assumes of a backend:  *)
(* from the return of ContinueOnce to the next call no thread, known or    *)
(* not, moves, and a thread reported at a breakpoint is at it.             *)
Abstract == INSTANCE AllStop WITH
  Addrs <- Breakable, NoAddr <- None,
  world <- IF dpc = "stopped" THEN "stopped" ELSE IF dpc \in Over THEN "over" ELSE "running",
  live <- known, at <- pc, hit <- cur
ImplementsAllStop == Abstract!Spec

(* When ContinueOnce returns, every thread of the process is in            *)
(* dbp.threads, whatever the order in which the stop of a new thread and   *)
(* the clone event of its parent were reported.                            *)
EveryThreadKnown == dpc = "stopped" => {t \in Tids : Live(t)} \subseteq known

(* A hit the debugger has not been told of when it erases the breakpoint   *)
(* (a phantom hit) is undone: as long as nobody asks for a manual stop, no *)
(* thread runs, and none is left by ContinueOnce, in the middle of the     *)
(* instruction that was under it, unless its SIGTRAP is still to come.     *)
PhantomRewound ==
  ~asked =>
    \A t \in Tids : kstate[t] = "running" \/ (t \in known /\ dpc = "stopped") =>
      pc[t] \in Starts \/ "TRAP" \in pend[t] \/ wstatus[t] = "TRAP"

(* A signal taken from a thread by a stop has been handed back when the    *)
(* thread runs again, whether it was reported to trapWait, to the halt     *)
(* loop or to singleStep.  (One signal at a time: the slot delayedSignal   *)
(* holds one.)                                                             *)
SignalsHandedBack == \A t \in Tids : kstate[t] = "running" => held[t] = {}

(* Every call of stop() gets all the threads to stop, whatever they clone, *)
(* hit, receive or exit meanwhile, or finds out that the process exited.   *)
EveryThreadStops == dpc = "drain" ~> dpc = "exited" \/ \A t \in known : ~running[t]

(* stop(): "wait for all threads to stop" (proc_linux.go:785) and go on.   *)
StopReturns == dpc = "drain" ~> dpc \in {"stopped", "resume", "exited"}
=============================================================================
