----------------------------- MODULE NativeDarwin -----------------------------
(***************************************************************************)
(* The native macOS backend: the fork/exec handshake of Launch, and        *)
(* ContinueOnce over Mach exceptions.  A thread that hits a breakpoint,    *)
(* ends a step or takes a signal sends a message to the exception port and *)
(* waits for the reply; the debugger holds it back by suspending it before *)
(* it replies.  Suspensions are counted.  New threads are not announced.   *)
(*                                                                         *)
(* dpc follows the goroutine in Launch and ContinueOnce:                   *)
(*   fork, write, read    fork_exec in the parent                          *)
(*   threads              the loop of Launch that waits for the new task   *)
(*   failed, quit         Launch returned an error, the debugger has ended *)
(*   stopped              outside ContinueOnce                             *)
(*   resume, step, cont   resume(): steps over breakpoints, then thread by *)
(*                        thread                                           *)
(*   wait, reap           trapWait, and the wait4 at its end               *)
(*   stop, halt, count    stop(): its loop, waitForStop, and inside        *)
(*                        num_running_threads                              *)
(*   kill                 the last loop of kill                            *)
(*   error, exited, detached, panic                                        *)
(* An address is a number, the instruction at a start reaches up to the    *)
(* next start, and a breakpoint hit at a leaves the pc at a + 1.           *)
(***************************************************************************)
EXTENDS Integers, Sequences

CONSTANTS
  Main, Others,   \* threads of the program: the one exec starts, the others
  Foreign,        \* a thread of a child process, which inherits the ports
  Starts,         \* the addresses of the instructions of the program
  Faults,         \* steps of the launch that may fail: acquire, setup, exec
  MaxEvents,      \* bound on new threads, signals, manual stops, interrupts
  MaxContinue,    \* bound on the calls to ContinueOnce
  None

Tids == {Main} \cup Others

ASSUME DarwinAssumption ==
  /\ Main \notin Others /\ {Foreign, None} \cap Tids = {} /\ Foreign # None
  /\ Starts \subseteq Nat \ {0} /\ Starts # {} /\ None \notin Nat
  /\ Faults \subseteq {"acquire", "setup", "exec"}
  /\ {MaxEvents, MaxContinue} \subseteq Nat

VARIABLES
  (* the child process; its task is 1 before exec, 2 after, 0 once dead *)
  child,    \* reading, ready, closing, prog, traced, dead
  fd, efd,  \* the pipes of fork_exec
  ktask,    \* task_for_pid
  live,     \* its threads
  sc,       \* their suspend counts
  blocked,  \* those that wait for the reply to an exception
  tf,       \* those with the trap flag set
  pc,
  (* the port set *)
  queue,    \* messages of the exception port
  deaths,   \* tasks with a dead-name notification in the notification port
  notify,   \* tasks for which one has been requested
  events,   \* new threads, signals, manual stops and interrupts so far
  (* the debugger *)
  ostask,   \* dbp.os.task
  inited,   \* dbp.os.initialized
  halt,     \* dbp.os.halt
  known, cur, bps, mem,       \* dbp.threads, CurrentBreakpoint, M, memthread
  dpc, todo, stepper, trapthread,
  ports,    \* the threads waitForStop has heard of
  list,     \* the threads num_running_threads looks at
  overlooked, \* ghost: threads started behind the back of num_running_threads
  lost,     \* ghost: threads that stop() returned without having dealt with
  ncont     \* calls of ContinueOnce so far

lvars == <<child, fd, efd>>
kvars == <<ktask, live, sc, blocked, tf, pc>>
mvars == <<queue, deaths, notify>>
bvars == <<ostask, inited, halt, known, cur, bps, mem>>
svars == <<todo, stepper, trapthread, ports, list, overlooked>>
cvars == <<dpc, svars>>
vars == <<lvars, kvars, mvars, events, bvars, cvars, lost, ncont>>

Over == {"failed", "quit", "error", "exited", "detached", "panic"}
Runs(t) == t \in live /\ sc[t] = 0 /\ t \notin blocked
Msg(t, kind) == [thread |-> t, kind |-> kind]

(***************************************************************************)
(* fork_exec and Launch, from a fork that works (one that fails returns    *)
(* -1, and the debugger itself goes the way of the child).                 *)
(***************************************************************************)
acquire_mach_task ==
  /\ dpc = "fork"
  /\ \/ dpc' = "write" /\ ostask' = 1 /\ notify' = {1}
     \/ "acquire" \in Faults /\ dpc' = "failed" /\ UNCHANGED <<ostask, notify>>
  /\ UNCHANGED <<lvars, kvars, queue, deaths, events, inited, halt, known, cur, bps, mem, svars,
                 lost, ncont>>

WritePipe ==
  /\ dpc = "write"
  /\ dpc' = "read"
  /\ fd' = "written"
  /\ UNCHANGED <<child, efd, kvars, mvars, events, bvars, svars, lost, ncont>>

\* Defective variant: the child does not wait for the parent.
ChildSetupAtOnce ==
  /\ child = "reading"
  /\ child' = "ready"
  /\ UNCHANGED <<fd, efd, kvars, mvars, events, bvars, cvars, lost, ncont>>

(* The child: setpgid, PT_TRACE_ME, chdir and PT_SIGEXC, each of which     *)
(* exits without a message if it fails.                                    *)
ChildSetup ==
  /\ child = "reading" /\ fd # "open"
  /\ \/ child' = "ready" /\ UNCHANGED <<efd, ktask, deaths>>
     \/ /\ "setup" \in Faults
        /\ child' = "dead" /\ efd' = "closed"
        /\ ktask' = 0 /\ deaths' = deaths \cup ({1} \cap notify)
  /\ UNCHANGED <<fd, live, sc, blocked, tf, pc, queue, notify, events, bvars, cvars, lost,
                 ncont>>

(* execve closes the pipe; or it returns and the child says so.            *)
ChildExec ==
  /\ child = "ready"
  /\ \/ child' = "closing" /\ efd' = "closed" /\ UNCHANGED <<ktask, deaths>>
     \/ /\ "exec" \in Faults
        /\ child' = "dead" /\ efd' = "data"
        /\ ktask' = 0 /\ deaths' = deaths \cup ({1} \cap notify)
  /\ UNCHANGED <<fd, live, sc, blocked, tf, pc, queue, notify, events, bvars, cvars, lost,
                 ncont>>

(* The new program has a task of its own.                                  *)
NewTask ==
  /\ child = "closing"
  /\ child' = "prog"
  /\ ktask' = 2 /\ live' = {Main}
  /\ deaths' = deaths \cup ({1} \cap notify)
  /\ UNCHANGED <<fd, efd, sc, blocked, tf, pc, queue, notify, events, bvars, cvars, lost,
                 ncont>>

(* The SIGTRAP of a traced execve.                                         *)
ExecTrap ==
  /\ child = "prog" /\ notify # {}
  /\ child' = "traced"
  /\ blocked' = {Main}
  /\ queue' = Append(queue, Msg(Main, "trap"))
  /\ UNCHANGED <<fd, efd, ktask, live, sc, tf, pc, deaths, notify, events, bvars, cvars, lost,
                 ncont>>

ReadPipe ==
  /\ dpc = "read" /\ efd # "open"
  /\ dpc' = IF efd = "data" THEN "failed" ELSE "threads"
  /\ UNCHANGED <<lvars, kvars, mvars, events, bvars, svars, lost, ncont>>

(* The loop ends when the pid has a task with threads other than the one   *)
(* acquired; then resume(), with no breakpoint to step over.               *)
Launch ==
  /\ dpc = "threads" /\ ktask \notin {0, ostask}
  /\ known' = live
  /\ mem' = Main
  /\ todo' = live
  /\ dpc' = "cont"
  /\ UNCHANGED <<lvars, kvars, mvars, events, ostask, inited, halt, cur, bps, stepper,
                 trapthread, ports, list, overlooked, lost, ncont>>

(* The debugger ends after the error, and with it its end of the pipe.     *)
Quit ==
  /\ dpc = "failed"
  /\ dpc' = "quit"
  /\ fd' = IF fd = "open" THEN "closed" ELSE fd
  /\ UNCHANGED <<child, efd, kvars, mvars, events, bvars, svars, lost, ncont>>

(***************************************************************************)
(* The program and the kernel.                                             *)
(***************************************************************************)
After(a) ==
  LET later == {b \in Starts : b > a} IN
  CHOOSE b \in IF later = {} THEN Starts ELSE later :
    \A c \in IF later = {} THEN Starts ELSE later : b <= c

(* The program is followed as long as the debugger is.                     *)
Active(t) == child = "traced" /\ Runs(t) /\ dpc \notin Over

(* A thread with the trap flag executes the instruction under the          *)
(* breakpoint, which stepInstruction has erased.                           *)
Execute(t) ==
  LET hit == pc[t] \in bps /\ t \notin tf IN
  /\ Active(t) /\ pc[t] \in Starts
  /\ pc' = [pc EXCEPT ![t] = IF hit THEN @ + 1 ELSE After(@)]
  /\ IF hit \/ t \in tf
     THEN blocked' = blocked \cup {t} /\ queue' = Append(queue, Msg(t, "trap"))
     ELSE UNCHANGED <<blocked, queue>>
  /\ UNCHANGED <<lvars, ktask, live, sc, tf, deaths, notify, events, bvars, cvars, lost, ncont>>

(* Nobody is told of a new thread.                                         *)
NewThread(t) ==
  /\ events < MaxEvents /\ Active(t) /\ t \notin tf
  /\ pc[t] \in Starts \ bps
  /\ \E c \in Others : pc[c] = 0
  /\ LET c == CHOOSE x \in Others : pc[x] = 0 IN
     /\ live' = live \cup {c} /\ pc' = [pc EXCEPT ![c] = pc[t]]
     /\ overlooked' = overlooked \cup {x \in {c} : t \in overlooked}
     /\ lost' = lost \cup {x \in {c} : t \in overlooked \cap lost}
  /\ events' = events + 1
  /\ UNCHANGED <<lvars, ktask, sc, blocked, tf, mvars, bvars, dpc, todo, stepper, trapthread,
                 ports, list, ncont>>

(* PT_SIGEXC: a signal is an exception first.                              *)
Signal(t) ==
  /\ events < MaxEvents /\ Active(t)
  /\ blocked' = blocked \cup {t}
  /\ queue' = Append(queue, Msg(t, "signal"))
  /\ events' = events + 1
  /\ UNCHANGED <<lvars, ktask, live, sc, tf, pc, deaths, notify, bvars, cvars, lost, ncont>>

(* A child the program has forked hits a breakpoint before its exec.       *)
ForkHits ==
  /\ events < MaxEvents /\ bps # {} /\ \E t \in Tids : Active(t)
  /\ queue' = Append(queue, Msg(Foreign, "trap"))
  /\ events' = events + 1
  /\ UNCHANGED <<lvars, kvars, deaths, notify, bvars, cvars, lost, ncont>>

(* A thread may exit between task_threads and its thread_info; what it has *)
(* started meanwhile is not on the list, and is overlooked.                *)
ThreadExit(t) ==
  /\ Active(t) /\ t # Main /\ t \notin tf
  /\ live' = live \ {t}
  /\ overlooked' = IF dpc = "count" /\ t \in list THEN overlooked \cup (live \ list)
                   ELSE overlooked
  /\ UNCHANGED <<lvars, ktask, sc, blocked, tf, pc, mvars, events, bvars, dpc, todo, stepper,
                 trapthread, ports, list, lost, ncont>>

Dies == ktask' = 0 /\ live' = {} /\ blocked' = {} /\ deaths' = deaths \cup ({ktask} \cap notify)

ProcessExit ==
  /\ \E t \in Tids : Active(t) /\ t \notin tf
  /\ Dies
  /\ UNCHANGED <<lvars, sc, tf, pc, queue, notify, events, bvars, cvars, lost, ncont>>

(***************************************************************************)
(* mach_port_wait and its callers.                                         *)
(***************************************************************************)
Waiting == {"wait", "step"}
Head1 == Head(queue)
Heard(kinds) == queue # <<>> /\ Head1.kind \in kinds /\ Head1.thread \in live

(* The thread is suspended, then answered.                                 *)
TakeTrap ==
  /\ queue' = Tail(queue)
  /\ sc' = [sc EXCEPT ![Head1.thread] = @ + 1]
  /\ blocked' = IF Head1.kind = "manual" THEN blocked ELSE blocked \ {Head1.thread}

\* Defective variant: the thread of a signal is resumed altogether.
TakeSignalResumes ==
  /\ dpc \in Waiting \cup {"halt", "kill"} /\ Heard({"signal"})
  /\ queue' = Tail(queue)
  /\ blocked' = blocked \ {Head1.thread}
  /\ sc' = [sc EXCEPT ![Head1.thread] = 0]
  /\ UNCHANGED <<lvars, ktask, live, tf, pc, deaths, notify, events, bvars, cvars, lost, ncont>>

(* Suspend, answer, resume, and receive again.                             *)
TakeSignal ==
  /\ dpc \in Waiting \cup {"halt", "kill"} /\ Heard({"signal"})
  /\ queue' = Tail(queue)
  /\ blocked' = blocked \ {Head1.thread}
  /\ UNCHANGED <<lvars, ktask, live, sc, tf, pc, deaths, notify, events, bvars, cvars, lost,
                 ncont>>

(* num_running_threads: task_threads, then thread_info of each.            *)
StartCount ==
  IF ktask = 0 THEN dpc' = "error" /\ UNCHANGED <<list, overlooked>>
  ELSE dpc' = "count" /\ list' = live /\ overlooked' = {}

(* thread_suspend of a thread that is gone fails.                          *)
TakeDead ==
  /\ dpc \in Waiting \cup {"halt", "kill"}
  /\ queue # <<>> /\ Head1.thread \notin live \cup {Foreign}
  /\ queue' = Tail(queue)
  /\ CASE dpc \in Waiting -> dpc' = "error" /\ UNCHANGED <<list, overlooked>>
       [] dpc = "halt" -> StartCount
       [] dpc = "kill" -> UNCHANGED <<dpc, list, overlooked>>
  /\ UNCHANGED <<lvars, kvars, deaths, notify, events, bvars, todo, stepper, trapthread, ports,
                 lost, ncont>>

(* The task of the message is not the one known, which is no longer valid: *)
(* reset_exception_ports.                                                  *)
FollowExec ==
  IF ktask # ostask
  THEN ostask' = ktask /\ notify' = notify \cup {ktask}
  ELSE UNCHANGED <<ostask, notify>>

(* trapWait returns t to ContinueOnce, or to singleStep, which ignores it  *)
(* unless it is the thread stepped.                                        *)
trapWait ==
  LET t == Head1.thread IN
  /\ dpc \in Waiting /\ Heard({"trap", "manual"})
  /\ TakeTrap
  /\ FollowExec
  /\ known' = live
  /\ CASE dpc = "wait" ->
            /\ dpc' = "stop" /\ trapthread' = t /\ todo' = live /\ ports' = {}
            /\ UNCHANGED <<tf, cur, stepper>>
       [] dpc = "step" /\ t = stepper ->
            /\ tf' = (tf \cup {t}) \ (tf \cap {t})
            /\ cur' = [cur EXCEPT ![t] = None]
            /\ dpc' = "resume" /\ stepper' = None
            /\ UNCHANGED <<trapthread, todo, ports>>
       [] OTHER -> UNCHANGED <<tf, cur, dpc, todo, stepper, trapthread, ports>>
  /\ UNCHANGED <<lvars, ktask, live, pc, deaths, events, inited, halt, bps, mem, list,
                 overlooked, lost, ncont>>

(* The thread is not in dbp.threads: whichever way trapWait goes, with     *)
(* halt, firstStart or neither, a nil thread is dereferenced.              *)
trapWaitUnknown ==
  /\ dpc \in Waiting /\ queue # <<>> /\ Head1.thread = Foreign
  /\ queue' = Tail(queue)
  /\ known' = live
  /\ halt' = FALSE
  /\ dpc' = "panic"
  /\ UNCHANGED <<lvars, kvars, deaths, notify, events, ostask, inited, cur, bps, mem, svars,
                 lost, ncont>>

\* Defective variant: any notification is that of the process.
IgnoredAlways(d) == FALSE

(* The task before exec may be notified as dead before or after exec is    *)
(* known of.                                                               *)
Ignored(d) == ostask # d \/ (~inited /\ ktask \notin {0, ostask})

(* Left out: an execve after the launch, of whose task the same may be     *)
(* said; trapWait looks for it only while the process is not initialized.  *)
trapWaitDeath(d) ==
  /\ dpc \in Waiting /\ d \in deaths
  /\ deaths' = deaths \ {d}
  /\ dpc' = IF Ignored(d) THEN dpc ELSE "reap"
  /\ UNCHANGED <<lvars, kvars, queue, notify, events, bvars, svars, lost, ncont>>

(* wait4 returns when the process is dead, or with an error.               *)
Reap ==
  /\ dpc = "reap"
  /\ dpc' \in {"error"} \cup {x \in {"exited"} : ktask = 0}
  /\ UNCHANGED <<lvars, kvars, mvars, events, bvars, svars, lost, ncont>>

(* MACH_RCV_INTERRUPTED; trapWait returns nil if halt is set, and halt is  *)
(* never reset by a stop that works.                                       *)
Interrupted ==
  /\ events < MaxEvents /\ dpc \in Waiting \cup {"halt"} /\ inited
  /\ events' = events + 1
  /\ IF dpc = "halt" THEN StartCount
     ELSE dpc' = (IF halt THEN "panic" ELSE dpc) /\ UNCHANGED <<list, overlooked>>
  /\ UNCHANGED <<lvars, kvars, mvars, bvars, todo, stepper, trapthread, ports, lost, ncont>>

(***************************************************************************)
(* ContinueOnce: resume.                                                   *)
(***************************************************************************)
ContinueOnce ==
  /\ dpc = "stopped" /\ ncont < MaxContinue
  /\ dpc' = "resume"
  /\ ncont' = ncont + 1
  /\ UNCHANGED <<lvars, kvars, mvars, events, bvars, svars, lost>>

resume_thread(t) == sc' = [sc EXCEPT ![t] = 0]

(* stepInstruction, up to the wait of singleStep.                          *)
singleStep(t) ==
  /\ dpc = "resume" /\ t \in known /\ cur[t] # None
  /\ IF t \in live
     THEN tf' = tf \cup {t} /\ resume_thread(t) /\ dpc' = "step" /\ stepper' = t
     ELSE dpc' = "error" /\ UNCHANGED <<tf, sc, stepper>>
  /\ UNCHANGED <<lvars, ktask, live, blocked, pc, mvars, events, bvars, todo, trapthread, ports,
                 list, overlooked, lost, ncont>>

StartCont ==
  /\ dpc = "resume" /\ \A t \in known : cur[t] = None
  /\ dpc' = "cont"
  /\ todo' = known
  /\ UNCHANGED <<lvars, kvars, mvars, events, bvars, stepper, trapthread, ports, list,
                 overlooked, lost, ncont>>

(* A launched process is never in a ptrace stop (PT_SIGEXC): ptraceCont    *)
(* fails and the thread is resumed.  If that fails too, exitGuard, which   *)
(* takes the process for exited unless a signal has killed it.             *)
resume(t) ==
  /\ dpc = "cont" /\ t \in todo
  /\ todo' = todo \ {t}
  /\ IF t \in live
     THEN resume_thread(t) /\ dpc' = IF todo' = {} THEN "wait" ELSE "cont"
     ELSE dpc' \in {"error"} \cup {x \in {"exited"} : ktask = 0} /\ UNCHANGED sc
  /\ UNCHANGED <<lvars, ktask, live, blocked, tf, pc, mvars, events, bvars, stepper, trapthread,
                 ports, list, overlooked, lost, ncont>>

(***************************************************************************)
(* stop                                                                    *)
(***************************************************************************)
(* th.stop for a thread that is not Stopped; of one that is gone the list  *)
(* of threads is updated, and the loop may or may not see what that adds.  *)
stopThread(t) ==
  /\ dpc = "stop" /\ t \in todo
  /\ IF t \in live \/ ktask # 0
     THEN /\ sc' = [sc EXCEPT ![t] = IF t \in live /\ @ = 0 THEN 1 ELSE @]
          /\ known' = IF t \in live THEN known ELSE live
          /\ \E new \in SUBSET (known' \ known) : todo' = ((todo \ {t}) \cap known') \cup new
          /\ dpc' = "stop"
     ELSE dpc' = "error" /\ UNCHANGED <<sc, known, todo>>
  /\ UNCHANGED <<lvars, ktask, live, blocked, tf, pc, mvars, events, ostask, inited, halt, cur,
                 bps, mem, stepper, trapthread, ports, list, overlooked, lost, ncont>>

StartHalt ==
  /\ dpc = "stop" /\ todo = {}
  /\ dpc' = "halt"
  /\ UNCHANGED <<lvars, kvars, mvars, events, bvars, svars, lost, ncont>>

(* waitForStop: a thread heard of, or nothing for 10 ms, or the death of a *)
(* task.                                                                   *)
HaltTrap ==
  /\ dpc = "halt" /\ Heard({"trap", "manual"})
  /\ TakeTrap
  /\ ports' = ports \cup {Head1.thread}
  /\ UNCHANGED <<lvars, ktask, live, tf, pc, deaths, notify, events, bvars, dpc, todo, stepper,
                 trapthread, list, overlooked, lost, ncont>>

HaltUnknown ==
  /\ dpc \in {"halt", "kill"} /\ queue # <<>> /\ Head1.thread = Foreign
  /\ queue' = Tail(queue)
  /\ UNCHANGED <<lvars, kvars, deaths, notify, events, bvars, cvars, lost, ncont>>

HaltTimeout ==
  /\ dpc = "halt" /\ queue = <<>> /\ deaths = {}
  /\ StartCount
  /\ UNCHANGED <<lvars, kvars, mvars, events, bvars, todo, stepper, trapthread, ports, lost,
                 ncont>>

HaltDeath(d) ==
  /\ dpc = "halt" /\ d \in deaths
  /\ deaths' = deaths \ {d}
  /\ StartCount
  /\ UNCHANGED <<lvars, kvars, queue, notify, events, bvars, todo, stepper, trapthread, ports,
                 lost, ncont>>

\* Defective variant: only the threads the debugger knows are counted.
num_running_known == {t \in list \cap live \cap known : sc[t] = 0}

num_running_threads == {t \in list \cap live : sc[t] = 0}

StillRunning ==
  /\ dpc = "count" /\ num_running_threads # {}
  /\ dpc' = "halt"
  /\ UNCHANGED <<lvars, kvars, mvars, events, bvars, svars, lost, ncont>>

(* dbp.FindBreakpoint(a, true)                                             *)
FindBreakpoint(a) ==
  IF a - 1 \in bps THEN a - 1 ELSE IF a \in bps THEN a ELSE None

\* Defective variant: only the thread that trapWait returned is looked at.
SetForTrapthread(t) == t = trapthread

(* SetCurrentBreakpoint is called.                                         *)
SetFor(t) == t = trapthread \/ t \in ports

(* stop returns; in Launch without setting breakpoints, and initialize     *)
(* updates the list of threads.                                            *)
Stopped ==
  LET found(t) == IF t \in known /\ SetFor(t) THEN FindBreakpoint(pc[t]) ELSE None IN
  /\ dpc = "count" /\ num_running_threads = {}
  /\ mem' = trapthread
  /\ inited' = TRUE
  /\ list' = {}
  /\ lost' = lost \cup overlooked \cup (ports \ known)
                  \cup {queue[i].thread : i \in DOMAIN queue}
  /\ IF ~inited
     THEN dpc' = "stopped" /\ known' = live /\ UNCHANGED <<cur, pc>>
     ELSE /\ dpc' = IF ports \cap known \subseteq live THEN "stopped" ELSE "error"
          /\ cur' = [t \in Tids |-> IF t \in live THEN found(t) ELSE None]
          /\ pc' = [t \in Tids |-> IF t \in live /\ found(t) # None THEN found(t) ELSE pc[t]]
          /\ UNCHANGED known
  /\ UNCHANGED <<lvars, ktask, live, sc, blocked, tf, mvars, events, ostask, halt, bps, todo,
                 stepper, trapthread, ports, overlooked, ncont>>

(***************************************************************************)
(* Calls from pkg/proc.                                                    *)
(***************************************************************************)
(* exception_raise to our own port, in the name of memthread.              *)
requestManualStop ==
  /\ events < MaxEvents /\ inited /\ dpc \notin Over
  /\ halt' = TRUE
  /\ queue' = IF mem \in live THEN Append(queue, Msg(mem, "manual")) ELSE queue
  /\ events' = events + 1
  /\ UNCHANGED <<lvars, kvars, deaths, notify, ostask, inited, known, cur, bps, mem, cvars,
                 lost, ncont>>

WriteBreakpoint(a) ==
  /\ dpc = "stopped" /\ a \in Starts \ bps /\ ncont < MaxContinue
  /\ bps' = bps \cup {a}
  /\ UNCHANGED <<lvars, kvars, mvars, events, ostask, inited, halt, known, cur, mem, cvars,
                 lost, ncont>>

EraseBreakpoint(a) ==
  /\ dpc = "stopped" /\ a \in bps /\ ncont < MaxContinue
  /\ bps' = bps \ {a}
  /\ UNCHANGED <<lvars, kvars, mvars, events, ostask, inited, halt, known, cur, mem, cvars,
                 lost, ncont>>

(* SIGKILL, then one thread_resume per thread, which fails for a thread    *)
(* that is dead already.                                                   *)
kill ==
  /\ dpc = "stopped"
  /\ dpc' \in IF live = {} THEN {"error"} ELSE {"kill", "error"}
  /\ Dies
  /\ UNCHANGED <<lvars, sc, tf, pc, queue, notify, events, bvars, svars, lost, ncont>>

Killed(d) ==
  /\ dpc = "kill" /\ d \in deaths
  /\ deaths' = deaths \ {d}
  /\ dpc' = "exited"
  /\ UNCHANGED <<lvars, kvars, queue, notify, events, bvars, svars, lost, ncont>>

(* PT_DETACH, after the target has cleared its breakpoints; the threads    *)
(* stay suspended.                                                         *)
Detach ==
  /\ dpc = "stopped" /\ bps = {}
  /\ dpc' = "detached"
  /\ UNCHANGED <<lvars, kvars, mvars, events, bvars, svars, lost, ncont>>

-----------------------------------------------------------------------------

Init ==
  /\ child = "reading" /\ fd = "open" /\ efd = "open"
  /\ ktask = 1 /\ live = {} /\ blocked = {} /\ tf = {}
  /\ sc = [t \in Tids |-> 0]
  /\ pc = [t \in Tids |-> IF t = Main THEN After(0) ELSE 0]
  /\ queue = <<>> /\ deaths = {} /\ notify = {} /\ events = 0
  /\ ostask = 0 /\ inited = FALSE /\ halt = FALSE
  /\ known = {} /\ cur = [t \in Tids |-> None] /\ bps = {} /\ mem = None
  /\ dpc = "fork" /\ todo = {} /\ stepper = None /\ trapthread = None
  /\ ports = {} /\ list = {} /\ overlooked = {} /\ lost = {} /\ ncont = 0

Child == ChildSetup \/ ChildExec \/ NewTask \/ ExecTrap

Program ==
  \/ \E t \in Tids : Execute(t) \/ NewThread(t) \/ Signal(t) \/ ThreadExit(t)
  \/ ForkHits \/ ProcessExit

Backend ==
  \/ acquire_mach_task \/ WritePipe \/ ReadPipe \/ Launch
  \/ \E t \in Tids : singleStep(t) \/ resume(t) \/ stopThread(t)
  \/ StartCont \/ StartHalt
  \/ TakeSignal \/ TakeDead \/ trapWait \/ trapWaitUnknown
  \/ HaltTrap \/ HaltUnknown \/ HaltTimeout \/ StillRunning \/ Stopped
  \/ \E d \in {1, 2} : trapWaitDeath(d) \/ HaltDeath(d) \/ Killed(d)
  \/ Reap

User ==
  \/ Quit \/ ContinueOnce \/ requestManualStop \/ kill \/ Detach
  \/ \E a \in Starts : WriteBreakpoint(a) \/ EraseBreakpoint(a)

Next == Child \/ Program \/ Backend \/ Interrupted \/ User

Spec == Init /\ [][Next]_vars

(* The debugger and the child of fork_exec run on; a thread being stepped  *)
(* executes its instruction.                                               *)
Fairness ==
  WF_vars(Child) /\ WF_vars(Backend) /\ WF_vars(\E t \in tf : Execute(t))
FairSpec == Spec /\ Fairness

(***************************************************************************)
(* Properties.                                                             *)
(***************************************************************************)
(* Type invariant of the kernel's and the backend's state.                 *)
TypeOK ==
  /\ child \in {"reading", "ready", "closing", "prog", "traced", "dead"}
  /\ ktask \in 0 .. 2 /\ ostask \in 0 .. 2
  /\ live \subseteq Tids /\ known \subseteq Tids /\ blocked \subseteq live /\ tf \subseteq Tids
  /\ sc \in [Tids -> 0 .. 2 + MaxEvents]
  /\ pc \in [Tids -> {0} \cup Starts \cup {a + 1 : a \in Starts}]
  /\ queue \in Seq([thread : Tids \cup {Foreign}, kind : {"trap", "signal", "manual"}])
  /\ cur \in [Tids -> Starts \cup {None}]
  /\ bps \subseteq Starts /\ ports \subseteq Tids

(* Mach exceptions and suspend counts implement what pkg/proc assumes of a *)
(* backend: from the return of Launch or ContinueOnce to the next call no  *)
(* thread moves, the ones the debugger has not heard of included, and a    *)
(* thread reported at a breakpoint is at it.  Excepted are the overlooked: *)
(* num_running_threads asks each thread on its list in turn, and one that  *)
(* starts another and exits before its turn leaves that one running.       *)
Abstract == INSTANCE AllStop WITH
  Addrs <- Starts, NoAddr <- None,
  world <- IF dpc = "stopped" THEN "stopped" ELSE IF dpc \in Over THEN "over" ELSE "running",
  live <- known, hit <- cur,
  at <- [t \in Tids |-> IF t \in overlooked THEN 0 ELSE pc[t]]
ImplementsAllStop == Abstract!Spec

(* A breakpoint hit stops its thread before the instruction: no thread     *)
(* runs on from the middle of it, also when several hits, a signal and a   *)
(* manual stop come together.  (Not so for a thread that stop() had not    *)
(* heard of, that an interrupted waitForStop left in the port set, or that *)
(* num_running_threads overlooked.)                                        *)
HitKept == \A t \in Tids \ lost : Runs(t) => pc[t] \in Starts

(* trapWait waits only while something can come: a thread that runs, a     *)
(* message in the port set, or the notification of the end of the process, *)
(* which the debugger has to ask for again after execve.                   *)
SomethingToCome ==
  dpc \in Waiting /\ inited => (\E t \in Tids : Runs(t)) \/ queue # <<>> \/ deaths # {}

(* A process is taken for exited only when it is dead, although the death  *)
(* of the task that called execve is notified too, and in any order with   *)
(* the first exception of the new one; so wait4 never blocks trapWait.     *)
ExitedIsDead == dpc \in {"reap", "exited"} => ktask = 0

(* waitForStop returns once every thread is suspended or has its hit in    *)
(* the port set, whatever signals come before it there.  (For a thread it  *)
(* has not heard of and that runs on it waits forever: its count of rounds *)
(* is never incremented.)                                                  *)
AllCaught ==
  \A t \in live : sc[t] # 0 \/ \E i \in DOMAIN queue : queue[i] = Msg(t, "trap")
StopReturns == dpc \in {"halt", "count"} /\ AllCaught ~> dpc \in Over \cup {"stopped"}

(* The child does not exec before the debugger has set its exception ports *)
(* (the purpose of the first pipe), as long as the debugger lives.         *)
PortsBeforeExec ==
  child \in {"closing", "prog", "traced"} => notify # {} \/ dpc = "quit"

(* The launch ends, unless the child died on its way to execve.            *)
LaunchReturns == <>(dpc \in Over \cup {"stopped"} \/ child = "dead")

(* Neither stop nor Launch waits for something that does not come.         *)
CallsReturn == StopReturns /\ LaunchReturns

(* What the comment on stop() says, that it stops all running threads: not *)
(* so for the overlooked ones.                                             *)
NothingRuns == dpc = "stopped" => \A t \in Tids : ~Runs(t)

(* fork_exec returns a pid only for a child that execs.                    *)
ForkExecTruthful == dpc = "threads" => child # "dead"
=============================================================================
