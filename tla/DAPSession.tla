------------------------------ MODULE DAPSession ------------------------------
(***************************************************************************)
(* A debug session of the DAP server (service/dap/server.go), after its    *)
(* launch.  Three kinds of goroutines share it:                            *)
(*   "loop"  the run goroutine, which handles one request after the other; *)
(*   "main"  the goroutine that calls Server.Stop;                         *)
(*   Async   one per request that resumes the target (continue and steps), *)
(*           which runs the target, resumes it after interruptions the     *)
(*           client should not see, and reports the stop.                  *)
(* The debugger below it is its target mutex, its running flag and the     *)
(* request to stop of Continue (module DebuggerService has the details).   *)
(*                                                                         *)
(* pc[h], for loop and main:                                               *)
(*   read, idle  waits for a request, for a signal                         *)
(*   mu, cs      about to lock Session.mu, changeStateMu                   *)
(*   nodebug     about to call isNoDebug with changeStateMu locked         *)
(*   halt, ask   halt(): about to look at IsRunning, to ask for a stop     *)
(*   wait        halt(): about to lock the target mutex for the state      *)
(*   act         about to do what the target was halted for                *)
(*   work        a request that needs no halt                              *)
(*   flag        waits until the goroutine it started has resumed          *)
(*   close       about to close the connection                             *)
(***************************************************************************)
EXTENDS Naturals, FiniteSets

CONSTANTS
  Async,       \* the goroutines of requests that resume the target
  Requests,    \* the requests the client makes
  Signal       \* the process may get an interrupt at any time

Resumes == {"continue", "step", "stepi"}
Interrupts == {"pause", "setbp", "restart", "disconnect"}

ASSUME DAPAssumption ==
  /\ Async # {} /\ Requests \subseteq Resumes \cup Interrupts /\ Signal \in BOOLEAN
  /\ Async \cap {"loop", "main", "nobody"} = {}

Nobody == "nobody"

VARIABLES
  mu, changeStateMu,          \* the holder, or Nobody
  targetMutex, running,       \* of the debugger
  stopRequested,              \* of the debugger: Continue was asked to stop
  StopReason, process,        \* why the target stopped; "live", "exited", "detached", or
                              \* "killed" by a restart that failed afterwards
  haltRequested, runningCmd, disconnected,   \* of the session
  closed,                     \* the connection is closed
  as,                         \* the asynchronous goroutines
  unlocker,                   \* those whose goroutine waits for asyncSetupDone
  pc, job, started,           \* loop and main; the goroutine the loop started last
  client,                     \* what the client was told last: the target is
                              \* "stopped", "running" or "ended"
  paused                      \* a pause was answered and nothing resumed since

target == <<targetMutex, running, stopRequested, StopReason, process>>
session == <<haltRequested, runningCmd, disconnected, closed>>
handlers == <<pc, job, started>>
view == <<client, paused>>
vars == <<mu, changeStateMu, target, session, as, unlocker, handlers, view>>

NoRun == [pc |-> "none", req |-> "continue", cmd |-> "continue", setup |-> 0,
          onBp |-> FALSE, out |-> "stop", flag |-> FALSE]

Init ==
  /\ mu = Nobody /\ changeStateMu = Nobody /\ targetMutex = Nobody
  /\ running = FALSE /\ stopRequested = FALSE /\ StopReason = "launched" /\ process = "live"
  /\ haltRequested = FALSE /\ runningCmd = FALSE /\ disconnected = FALSE /\ closed = FALSE
  /\ as = [a \in Async |-> NoRun] /\ unlocker = {}
  /\ pc = [h \in {"loop", "main"} |-> IF h = "loop" THEN "read" ELSE "idle"]
  /\ job = [h \in {"loop", "main"} |-> "none"] /\ started = Nobody
  /\ client = "stopped" /\ paused = FALSE

-----------------------------------------------------------------------------

Goto(h, from, to) == pc[h] = from /\ pc' = [pc EXCEPT ![h] = to]
Free(m) == m = Nobody

\* handleRequest, which first looks at noDebugProcess.  A request to resume is refused
\* while the target runs, setting breakpoints then needs a halt.  The client asks to
\* resume only a target it believes to be stopped.
Read(r) ==
  LET busy == running \/ runningCmd IN
  /\ pc["loop"] = "read" /\ ~closed /\ Free(mu)
  /\ r \in Resumes => client = "stopped"
  /\ job' = [job EXCEPT !["loop"] = r]
  /\ \/ /\ r \in Resumes /\ busy
        /\ UNCHANGED <<pc, started, as, view>>
     \/ /\ r \in Resumes /\ ~busy
        /\ \E a \in Async :
             /\ as[a].pc = "none" /\ a \notin unlocker
             /\ as' = [as EXCEPT ![a] = [NoRun EXCEPT !.pc = "begin", !.req = r, !.cmd = r]]
             /\ started' = a
        /\ pc' = [pc EXCEPT !["loop"] = "flag"]
        /\ client' = "running" /\ paused' = FALSE
     \/ /\ r \in Interrupts
        /\ pc' = [pc EXCEPT !["loop"] = CASE r = "disconnect" -> "mu"
                                          [] r = "setbp" /\ ~busy -> "work"
                                          [] OTHER -> "cs"]
        /\ UNCHANGED <<started, as, view>>
  /\ UNCHANGED <<mu, changeStateMu, target, session, unlocker>>

\* resumeRequestLoop.wait
Resumed ==
  /\ Goto("loop", "flag", "read") /\ as[started].flag
  /\ UNCHANGED <<mu, changeStateMu, target, session, as, unlocker, job, started, view>>

\* Breakpoints are set while nothing runs.
Work ==
  /\ Goto("loop", "work", "read") /\ Free(targetMutex)
  /\ UNCHANGED <<mu, changeStateMu, target, session, as, unlocker, job, started, view>>

\* The client or Stop closed the connection: ServeDAPCodec returns and asks for the
\* server to be stopped.
ReadFails ==
  /\ Goto("loop", "read", "done") /\ closed' = TRUE
  /\ UNCHANGED <<mu, changeStateMu, target, haltRequested, runningCmd, disconnected, as, unlocker,
                 job, started, view>>

\* Stop, once; on an interrupt or because the loop has ended.
Stop ==
  /\ Signal \/ pc["loop"] = "done"
  /\ Goto("main", "idle", "mu") /\ job' = [job EXCEPT !["main"] = "disconnect"]
  /\ UNCHANGED <<mu, changeStateMu, target, session, as, unlocker, started, view>>

-----------------------------------------------------------------------------
\* Handlers that change the state of the process, by loop and main.

LockMu(h) ==
  /\ Goto(h, "mu", "cs") /\ Free(mu) /\ mu' = h
  /\ UNCHANGED <<changeStateMu, target, session, as, unlocker, job, started, view>>

\* Whoever does not want the target to be resumed says so before the halt.
LockChangeState(h) ==
  /\ Free(changeStateMu) /\ changeStateMu' = h
  /\ \/ job[h] = "setbp" /\ Goto(h, "cs", "halt") /\ UNCHANGED haltRequested
     \/ job[h] = "pause" /\ Goto(h, "cs", "halt") /\ haltRequested' = TRUE
     \/ job[h] = "restart" /\ Goto(h, "cs", "nodebug") /\ UNCHANGED haltRequested
     \/ /\ job[h] = "disconnect" /\ ~disconnected
        /\ Goto(h, "cs", "halt") /\ haltRequested' = TRUE
     \/ /\ job[h] = "disconnect" /\ disconnected
        /\ Goto(h, "cs", "act") /\ UNCHANGED haltRequested
  /\ UNCHANGED <<mu, target, runningCmd, disconnected, closed, as, unlocker, job, started, view>>

\* onRestartRequest calls isNoDebug, which locks mu, with changeStateMu locked.
NoDebug(h) ==
  /\ Goto(h, "nodebug", "halt") /\ Free(mu) /\ haltRequested' = TRUE
  /\ UNCHANGED <<mu, changeStateMu, target, runningCmd, disconnected, closed, as, unlocker, job,
                 started, view>>

\* Defective variant: halt takes runningCmd to mean that the target runs already.
HaltIfIdle(h) ==
  /\ Goto(h, "halt", IF running /\ ~runningCmd THEN "ask" ELSE "wait")
  /\ UNCHANGED <<mu, changeStateMu, target, session, as, unlocker, job, started, view>>

\* halt
HaltCheck(h) ==
  /\ Goto(h, "halt", IF running THEN "ask" ELSE "wait")
  /\ UNCHANGED <<mu, changeStateMu, target, session, as, unlocker, job, started, view>>

\* Debugger.Command(halt): the request to stop comes first; then the target mutex is
\* taken, and running is set for as long as it is held.
HaltAsk(h) ==
  /\ Goto(h, "ask", "lock") /\ stopRequested' = TRUE
  /\ UNCHANGED <<mu, changeStateMu, targetMutex, running, StopReason, process, session, as,
                 unlocker, job, started, view>>

HaltLock(h) ==
  /\ Goto(h, "lock", "halted") /\ Free(targetMutex)
  /\ targetMutex' = h /\ running' = TRUE
  /\ UNCHANGED <<mu, changeStateMu, stopRequested, StopReason, process, session, as, unlocker, job,
                 started, view>>

HaltUnlock(h) ==
  /\ Goto(h, "halted", "act")
  /\ targetMutex' = Nobody /\ running' = FALSE
  /\ UNCHANGED <<mu, changeStateMu, stopRequested, StopReason, process, session, as, unlocker, job,
                 started, view>>

\* Debugger.State, when the target does not run.
HaltWait(h) ==
  /\ Goto(h, "wait", "act") /\ Free(targetMutex)
  /\ UNCHANGED <<mu, changeStateMu, target, session, as, unlocker, job, started, view>>

\* The rest of the handler, with an error when halt could not reach the process.  A
\* restart may fail before or after it has killed the old process.
Act(h) ==
  /\ pc[h] = "act" /\ (job[h] = "pause" \/ disconnected \/ Free(targetMutex))
  /\ changeStateMu' = Nobody
  /\ pc' = [pc EXCEPT ![h] = IF job[h] = "disconnect" THEN "close" ELSE "read"]
  /\ \/ job[h] = "setbp" /\ UNCHANGED <<process, StopReason, disconnected, view>>
     \/ /\ job[h] = "pause"
        /\ paused' = (process = "live")
        /\ UNCHANGED <<process, StopReason, disconnected, client>>
     \/ /\ job[h] = "restart" /\ process # "detached"
        /\ process' = "live" /\ StopReason' = "launched" /\ client' = "stopped"
        /\ UNCHANGED <<disconnected, paused>>
     \/ /\ job[h] = "restart"
        /\ UNCHANGED <<process, StopReason, disconnected, view>>
     \/ /\ job[h] = "restart" /\ process # "detached"
        /\ process' = "killed" /\ client' = IF process = "live" THEN "ended" ELSE client
        /\ UNCHANGED <<StopReason, disconnected, paused>>
     \/ /\ job[h] = "disconnect"
        /\ process' = "detached" /\ disconnected' = TRUE
        /\ UNCHANGED <<StopReason, view>>
  /\ UNCHANGED <<mu, targetMutex, running, stopRequested, haltRequested, runningCmd, closed, as,
                 unlocker, job, started>>

\* Session.Close closes the connection; a disconnect ends the loop, which does.
CloseConn(h) ==
  /\ Goto(h, "close", "done")
  /\ closed' = TRUE /\ mu' = Nobody
  /\ UNCHANGED <<changeStateMu, target, haltRequested, runningCmd, disconnected, as, unlocker, job,
                 started, view>>

-----------------------------------------------------------------------------
\* The asynchronous goroutines: runUntilStopAndNotify.

At(a, l) == as[a].pc = l
Rest == UNCHANGED <<mu, handlers>>

\* The goroutine ends; the one that waits for its asyncSetupDone may still be there.
Ended(g, flag) == [NoRun EXCEPT !.setup = g.setup, !.flag = flag]

\* stepUntilStopAndNotify: Debugger.Command(switchGoroutine) sets running as well.
SwitchGoroutine(a) ==
  /\ At(a, "begin") /\ as[a].cmd # "continue" /\ Free(targetMutex)
  /\ as' = [as EXCEPT ![a].pc = "switch"]
  /\ targetMutex' = a /\ running' = TRUE
  /\ UNCHANGED <<changeStateMu, stopRequested, StopReason, process, session, unlocker, view>> /\ Rest

Switched(a) ==
  /\ At(a, "switch")
  /\ \E p \in {"begun", "refused"} : as' = [as EXCEPT ![a].pc = p]
  /\ targetMutex' = Nobody /\ running' = FALSE
  /\ UNCHANGED <<changeStateMu, stopRequested, StopReason, process, session, unlocker, view>> /\ Rest

\* The goroutine to step does not exist: the answer was sent, so a stop is reported.
StepRefused(a) ==
  /\ At(a, "refused") /\ Free(targetMutex)
  /\ as' = [as EXCEPT ![a] = Ended(as[a], TRUE)]
  /\ client' = "stopped"
  /\ UNCHANGED <<changeStateMu, target, session, unlocker, paused>> /\ Rest

\* runUntilStop
RunBegin(a) ==
  /\ (At(a, "begin") /\ as[a].cmd = "continue") \/ At(a, "begun")
  /\ as' = [as EXCEPT ![a].pc = "set"] /\ haltRequested' = FALSE
  /\ UNCHANGED <<changeStateMu, target, runningCmd, disconnected, closed, unlocker, view>> /\ Rest

RunSet(a) ==
  /\ At(a, "set")
  /\ as' = [as EXCEPT ![a].pc = "loop"] /\ runningCmd' = TRUE
  /\ UNCHANGED <<changeStateMu, target, haltRequested, disconnected, closed, unlocker, view>> /\ Rest

RunLoop(a) ==
  /\ At(a, "loop")
  /\ as' = [as EXCEPT ![a].pc = IF runningCmd THEN "lock" ELSE "end"]
  /\ UNCHANGED <<changeStateMu, target, session, unlocker, view>> /\ Rest

RunEnd(a) ==
  /\ At(a, "end")
  /\ as' = [as EXCEPT ![a].pc = "notify"] /\ runningCmd' = FALSE
  /\ UNCHANGED <<changeStateMu, target, haltRequested, disconnected, closed, unlocker, view>> /\ Rest

\* resumeOnce: changeStateMu is locked by this goroutine and unlocked by another one
\* when the target runs or the command has returned.
ResumeLock(a) ==
  /\ At(a, "lock") /\ Free(changeStateMu) /\ changeStateMu' = a
  /\ as' = [as EXCEPT ![a].pc = "check", ![a].setup = 0] /\ unlocker' = unlocker \cup {a}
  /\ UNCHANGED <<target, session, view>> /\ Rest

\* Defective variant: changeStateMu is unlocked without waiting for the target to run.
ResumeUnlockEarly(a) ==
  /\ a \in unlocker
  /\ as' = [as EXCEPT ![a].flag = TRUE]
  /\ changeStateMu' = Nobody /\ unlocker' = unlocker \ {a}
  /\ UNCHANGED <<target, session, view>> /\ Rest

ResumeUnlock(a) ==
  /\ a \in unlocker /\ as[a].setup > 0
  /\ as' = [as EXCEPT ![a].flag = TRUE]
  /\ changeStateMu' = Nobody /\ unlocker' = unlocker \ {a}
  /\ UNCHANGED <<target, session, view>> /\ Rest

\* The deferred closeIfOpen(asyncSetupDone).
Closed(n) == IF n = 0 THEN 1 ELSE n

\* A halt requested while the target was stopped: it is not resumed.
CheckHalt(a) ==
  /\ At(a, "check")
  /\ \/ /\ ~haltRequested
        /\ as' = [as EXCEPT ![a].pc = "command"]
     \/ /\ haltRequested /\ Free(targetMutex)
        /\ as' = [as EXCEPT ![a].pc = "quit", ![a].setup = Closed(@), ![a].onBp = FALSE,
                            ![a].out = IF process = "exited" THEN "exited" ELSE "stop"]
  /\ UNCHANGED <<changeStateMu, target, session, unlocker, view>> /\ Rest

\* Debugger.Command
Command(a) ==
  /\ At(a, "command") /\ Free(targetMutex)
  /\ \/ /\ process = "live"
        /\ targetMutex' = a /\ running' = TRUE
        /\ as' = [as EXCEPT ![a].pc = "enter"]
     \/ /\ process # "live"
        /\ as' = [as EXCEPT ![a].pc = "quit", ![a].setup = Closed(@),
                            ![a].out = IF process = "exited" THEN "exited" ELSE "error"]
        /\ UNCHANGED <<targetMutex, running>>
  /\ UNCHANGED <<changeStateMu, stopRequested, StopReason, process, session, unlocker, view>> /\ Rest

Return(a, reason, onBp, out) ==
  /\ as' = [as EXCEPT ![a].pc = IF out = "stop" THEN "test" ELSE "quit", ![a].setup = Closed(@),
                      ![a].onBp = onBp, ![a].out = out]
  /\ targetMutex' = Nobody /\ running' = FALSE /\ StopReason' = reason

\* Continue forgets earlier requests to stop; a single instruction is stepped without
\* it, and a command can be refused.
Enter(a) ==
  /\ At(a, "enter")
  /\ \/ /\ as[a].cmd # "stepi"
        /\ stopRequested' = FALSE /\ as' = [as EXCEPT ![a].pc = "resume"]
        /\ UNCHANGED <<targetMutex, running, StopReason>>
     \/ as[a].cmd = "stepi" /\ Return(a, "nextFinished", FALSE, "stop") /\ UNCHANGED stopRequested
     \/ as[a].cmd = "step" /\ Return(a, StopReason, FALSE, "error") /\ UNCHANGED stopRequested
  /\ UNCHANGED <<changeStateMu, process, session, unlocker, view>> /\ Rest

\* ContinueOnce resumes the threads and closes asyncSetupDone.
Resume(a) ==
  /\ At(a, "resume") /\ ~stopRequested
  /\ as' = [as EXCEPT ![a].pc = "run", ![a].setup = @ + 1]
  /\ UNCHANGED <<changeStateMu, target, session, unlocker, view>> /\ Rest

\* A breakpoint, a log point (which is a tracepoint), the end of a step or of the process.
Event(a) ==
  /\ At(a, "run")
  /\ \/ \E onBp \in BOOLEAN : Return(a, "breakpoint", onBp, "stop") /\ UNCHANGED process
     \/ as[a].cmd = "step" /\ Return(a, "nextFinished", FALSE, "stop") /\ UNCHANGED process
     \/ Return(a, "exited", FALSE, "exited") /\ process' = "exited"
  /\ stopRequested' = FALSE
  /\ UNCHANGED <<changeStateMu, session, unlocker, view>> /\ Rest

\* The manual stop, which wins over a breakpoint that is hit at the same time.
Halted(a) ==
  /\ (At(a, "run") \/ At(a, "resume")) /\ stopRequested /\ stopRequested' = FALSE
  /\ \E onBp \in BOOLEAN : Return(a, "manual", onBp, "stop")
  /\ UNCHANGED <<changeStateMu, process, session, unlocker, view>> /\ Rest

\* resumeOnceAndCheckStop, after resumeOnce: not resumed, exited or an error
Quit(a) ==
  /\ At(a, "quit")
  /\ as' = [as EXCEPT ![a].pc = "loop"] /\ runningCmd' = FALSE
  /\ UNCHANGED <<changeStateMu, target, haltRequested, disconnected, closed, unlocker, view>> /\ Rest

\* Defective variant: every manual stop ends the command.
TestManualEnds(a) ==
  /\ At(a, "test") /\ Free(targetMutex)
  /\ runningCmd' = (~closed /\ as[a].cmd # "stepi" /\ StopReason = "breakpoint"
                    /\ ~as[a].onBp /\ ~haltRequested /\ runningCmd)
  /\ as' = [as EXCEPT ![a].pc = "loop", ![a].cmd = "continue"]
  /\ UNCHANGED <<changeStateMu, target, haltRequested, disconnected, closed, unlocker, view>> /\ Rest

\* and a stop: the command goes on if the target was only interrupted to set
\* breakpoints, or only at log points.
Test(a) ==
  /\ At(a, "test") /\ Free(targetMutex)
  /\ runningCmd' = (~closed /\ as[a].cmd # "stepi" /\ StopReason \in {"breakpoint", "manual"}
                    /\ ~as[a].onBp /\ ~haltRequested /\ runningCmd)
  /\ as' = [as EXCEPT ![a].pc = "loop", ![a].cmd = "continue"]
  /\ UNCHANGED <<changeStateMu, target, haltRequested, disconnected, closed, unlocker, view>> /\ Rest

\* The stopped, or the exited and terminated, events.  Steps raise the flag once more.
Notify(a) ==
  /\ At(a, "notify") /\ (~closed /\ as[a].out # "exited" => Free(targetMutex))
  /\ as' = [as EXCEPT ![a] = Ended(as[a], as[a].flag \/ as[a].req # "continue")]
  /\ client' = IF closed THEN client ELSE IF as[a].out = "exited" THEN "ended" ELSE "stopped"
  /\ UNCHANGED <<changeStateMu, target, session, unlocker, paused>> /\ Rest

-----------------------------------------------------------------------------

LoopStep == Resumed \/ Work
HandlerStep(h) ==
  \/ LockMu(h) \/ LockChangeState(h) \/ NoDebug(h) \/ HaltCheck(h) \/ HaltAsk(h)
  \/ HaltLock(h) \/ HaltUnlock(h) \/ HaltWait(h) \/ Act(h) \/ CloseConn(h)
AsyncStep(a) ==
  \/ SwitchGoroutine(a) \/ Switched(a) \/ StepRefused(a) \/ RunBegin(a) \/ RunSet(a) \/ RunLoop(a) \/ RunEnd(a)
  \/ ResumeLock(a) \/ CheckHalt(a) \/ Command(a) \/ Enter(a) \/ Resume(a) \/ Halted(a)
  \/ Quit(a) \/ Test(a) \/ Notify(a)

Next ==
  \/ \E r \in Requests : Read(r)
  \/ ReadFails \/ Stop \/ LoopStep
  \/ \E h \in {"loop", "main"} : HandlerStep(h)
  \/ \E a \in Async : AsyncStep(a) \/ Event(a) \/ ResumeUnlock(a)

Spec == Init /\ [][Next]_vars

\* Every goroutine is scheduled and gets a mutex it waits for.  Nothing is assumed
\* about the client, about signals, and about when the program stops by itself.
Fairness ==
  /\ SF_vars(LoopStep) /\ \A h \in {"loop", "main"} : SF_vars(HandlerStep(h))
  /\ \A a \in Async : SF_vars(AsyncStep(a)) /\ WF_vars(ResumeUnlock(a))
FairSpec == Spec /\ Fairness

-----------------------------------------------------------------------------

\* Type invariant.  (asyncSetupDone is closed at most once: a second close panics.)
TypeOK ==
  /\ {mu, changeStateMu, targetMutex} \subseteq Async \cup {"loop", "main", Nobody}
  /\ {running, stopRequested, haltRequested, runningCmd, disconnected, closed, paused} \subseteq BOOLEAN
  /\ \A a \in Async : as[a].setup \in 0 .. 1 /\ as[a].out \in {"stop", "exited", "error"}
  /\ unlocker \subseteq Async /\ process \in {"live", "exited", "detached", "killed"}

\* After a pause was answered the target does not run again until the client asks
\* for it, also when the pause came while the goroutine that runs the target was about to
\* resume it after a log point (resumeOnce: "There may have been a manual halt while the
\* program was stopped. If this happened, do not resume execution of the program.").
PauseSticks ==
  paused => \A a \in Async : as[a].pc \notin {"command", "enter", "resume", "run"}

\* Interrupting the target only to set breakpoints is not shown to the client: a
\* goroutine that is about to report a manual stop, at which no thread was at a
\* breakpoint, does so because a halt was asked for (resumeOnceAndCheckStop).
InterruptionIsHidden ==
  \A a \in Async :
    as[a].pc = "notify" /\ ~closed /\ as[a].out = "stop" /\ StopReason = "manual" /\ ~as[a].onBp
      => haltRequested

\* onRestartRequest waits for mu with changeStateMu locked, Close for changeStateMu
\* with mu locked.
RestartDeadlock ==
  pc["loop"] = "nodebug" /\ changeStateMu = "loop" /\ mu = "main" /\ pc["main"] = "cs"

\* A pause, a restart, a disconnect and a request to set breakpoints come to an end,
\* whatever the target does: the halt is never issued before the command in progress
\* can see it.  The one exception is RestartDeadlock.
HandlerEnds ==
  pc["loop"] \in {"mu", "cs"} ~> pc["loop"] \in {"read", "done"} \/ RestartDeadlock

\* Server.Stop closes the connection, detaches and returns, whatever request is being
\* served and whatever the target does, unless it meets a restart in RestartDeadlock.
StopEnds == pc["main"] = "mu" ~> (closed /\ pc["main"] = "done") \/ RestartDeadlock

\* Nobody in the session blocks: neither the handler of a request nor Stop.
NobodyBlocks == HandlerEnds /\ StopEnds

\* "Stop stops the DAP debugger service, closes the listener and the client
\* connection." (Server.Stop)
StopCloses == pc["main"] = "mu" ~> closed /\ pc["main"] = "done"

\* "there should be no more than one pending asynchronous request at a time"
\* (handleRequest)
OnePending == \A a, b \in Async : as[a].pc # "none" /\ as[b].pc # "none" => a = b
=============================================================================
