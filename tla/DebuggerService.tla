---------------------------- MODULE DebuggerService ----------------------------
(***************************************************************************)
(* The locks of the service layer (service/debugger/debugger.go, served by *)
(* service/rpccommon and service/rpc2).  Every call of a client runs in a  *)
(* goroutine of its own and the calls interleave at every lock operation;  *)
(* a core dump and a recording run in goroutines that inherit the target   *)
(* mutex from the call that started them.                                  *)
(*                                                                         *)
(* pc[c] is where the goroutine of call c is:                              *)
(*   idle     no call                                                      *)
(*   state-.  State            dump-.   DumpStart                          *)
(*   wait-.   DumpWait         cancel-. DumpCancel                         *)
(*   cmd-.    Command that resumes the target                              *)
(*   halt-.   Command(halt)    rec-.    StopRecording                      *)
(*   other-.  any other method: target mutex, work, unlock                 *)
(* runningMutex, recordMutex and StopMu are only ever held for a step.     *)
(***************************************************************************)
EXTENDS Naturals, FiniteSets

CONSTANTS
  Clients,       \* concurrent calls
  Calls,         \* the methods that are called
  StartRecording \* the target is being recorded (rr) when the server starts

Methods == {"state", "state-nowait", "dump", "wait", "wait-0", "cancel", "cmd", "halt", "rec", "other"}

Nobody == "nobody"
Dumper == "dumper"
Recorder == "recorder"

ASSUME ServiceAssumption ==
  /\ Calls \subseteq Methods /\ StartRecording \in BOOLEAN
  /\ Clients \cap {Nobody, Dumper, Recorder} = {}

VARIABLES
  targetMutex, dumpMutex,   \* the holder, or Nobody
  running,                  \* d.running
  recording,                \* d.stopRecording # nil
  recordMutexLost,          \* a goroutine died holding recordMutex
  target,                   \* d.target # nil
  Dumping, Canceled,        \* d.dumpState
  dumper, recorder,         \* where those goroutines are, or "none"
  stopRequested,            \* the running Continue was asked to stop
  ResumeChan,               \* cctx.ResumeChan: the call whose channel it is, or Nobody
  setupDone,                \* setupDone[c]: how often the channel of c was closed
  pc, call

vars == <<targetMutex, dumpMutex, running, recording, recordMutexLost, target, Dumping, Canceled,
          dumper, recorder, stopRequested, ResumeChan, setupDone, pc, call>>
locks == <<targetMutex, dumpMutex>>
dump == <<Dumping, Canceled, dumper>>
rec == <<recording, recordMutexLost, target, recorder>>
resume == <<running, stopRequested, ResumeChan, setupDone>>

Init ==
  /\ targetMutex = IF StartRecording THEN Recorder ELSE Nobody
  /\ dumpMutex = Nobody
  /\ running = FALSE
  /\ recording = StartRecording /\ recordMutexLost = FALSE /\ target = ~StartRecording
  /\ Dumping = FALSE /\ Canceled = FALSE
  /\ dumper = "none" /\ recorder = IF StartRecording THEN "run" ELSE "none"
  /\ stopRequested = FALSE /\ ResumeChan = Nobody
  /\ setupDone = [c \in Clients |-> 0]
  /\ pc = [c \in Clients |-> "idle"] /\ call = [c \in Clients |-> "none"]

-----------------------------------------------------------------------------

Lock(m, g) == m = Nobody /\ m' = g
Unlock(m, g) == m = g /\ m' = Nobody
Goto(c, from, to) == pc[c] = from /\ pc' = [pc EXCEPT ![c] = to]
Quiet == UNCHANGED call
First(m) == CASE m \in {"state", "state-nowait"} -> "state-running"
              [] m = "dump" -> "dump-target"
              [] m \in {"wait", "wait-0"} -> "wait-lock"
              [] m = "cancel" -> "cancel-lock"
              [] m = "cmd" -> "cmd-lock"
              [] m = "halt" -> "halt-request"
              [] m = "rec" -> "rec-stop"
              [] m = "other" -> "other-lock"

\* A request arrives.  Only a Command that resumes the target gives the channel of
\* its connection away: the other asynchronous methods close it themselves.
Call(c) ==
  /\ pc[c] = "idle"
  /\ \E m \in Calls :
       /\ call' = [call EXCEPT ![c] = m]
       /\ pc' = [pc EXCEPT ![c] = First(m)]
       /\ setupDone' = [setupDone EXCEPT ![c] = IF m = "cmd" THEN 0 ELSE 1]
  /\ UNCHANGED <<locks, dump, rec, running, stopRequested, ResumeChan>>

\* State: three checks that do not wait when nowait is set, then the target mutex.
StateRunning(c) ==
  /\ Goto(c, "state-running", IF running /\ call[c] = "state-nowait" THEN "idle" ELSE "state-recording")
  /\ UNCHANGED <<locks, dump, rec, resume>> /\ Quiet

StateRecording(c) ==
  /\ ~recordMutexLost
  /\ Goto(c, "state-recording", IF recording /\ call[c] = "state-nowait" THEN "idle" ELSE "state-dump")
  /\ UNCHANGED <<locks, dump, rec, resume>> /\ Quiet

\* The early return does not unlock dumpState.Mutex.
StateDump(c) ==
  /\ Lock(dumpMutex, c)
  /\ Goto(c, "state-dump", IF Dumping /\ call[c] = "state-nowait" THEN "idle" ELSE "state-unlock")
  /\ UNCHANGED <<targetMutex, dump, rec, resume>> /\ Quiet

\* Defective variant: the mutex of the dump is kept until the state is read.
StateKeepsDump(c) ==
  /\ Goto(c, "state-unlock", "other-lock")
  /\ UNCHANGED <<locks, dump, rec, resume>> /\ Quiet

StateUnlock(c) ==
  /\ Goto(c, "state-unlock", "other-lock") /\ Unlock(dumpMutex, c)
  /\ UNCHANGED <<targetMutex, dump, rec, resume>> /\ Quiet

\* Any method that holds the target mutex from beginning to end, and State from
\* here on.
OtherLock(c) ==
  /\ Goto(c, "other-lock", "other-work") /\ Lock(targetMutex, c)
  /\ UNCHANGED <<dumpMutex, dump, rec, resume>> /\ Quiet

OtherDone(c) ==
  /\ Goto(c, "other-work", "idle") /\ Unlock(targetMutex, c)
  /\ UNCHANGED <<dumpMutex, dump, rec, resume>> /\ Quiet

-----------------------------------------------------------------------------

DumpTarget(c) ==
  /\ Goto(c, "dump-target", "dump-lock") /\ Lock(targetMutex, c)
  /\ UNCHANGED <<dumpMutex, dump, rec, resume>> /\ Quiet

\* The target can not dump: ErrCoreDumpNotSupported.
DumpRefused(c) ==
  /\ Goto(c, "dump-lock", "idle") /\ Unlock(targetMutex, c)
  /\ UNCHANGED <<dumpMutex, dump, rec, resume>> /\ Quiet

DumpLock(c) ==
  /\ Goto(c, "dump-lock", "dump-start") /\ Lock(dumpMutex, c)
  /\ UNCHANGED <<targetMutex, dump, rec, resume>> /\ Quiet

\* Defective variant: the call releases the target mutex when it returns.
DumpStartUnlocks(c) ==
  /\ Goto(c, "dump-start", "idle") /\ ~Dumping
  /\ Dumping' = TRUE /\ Canceled' = FALSE /\ dumper' = "work"
  /\ Unlock(targetMutex, c) /\ Unlock(dumpMutex, c)
  /\ UNCHANGED <<rec, resume>> /\ Quiet

\* A dump is started by a goroutine that keeps the target mutex, unless one is
\* in progress or the file can not be created.
DumpStart(c) ==
  /\ Goto(c, "dump-start", "idle") /\ Unlock(dumpMutex, c)
  /\ \/ /\ ~Dumping
        /\ Dumping' = TRUE /\ Canceled' = FALSE /\ dumper' = "work"
        /\ targetMutex' = Dumper
     \/ Unlock(targetMutex, c) /\ UNCHANGED dump
  /\ UNCHANGED <<rec, resume>> /\ Quiet

\* Dump, which looks at Canceled and counts its progress before every thread and
\* block of memory.
DumpWork ==
  /\ dumper = "work" /\ dumpMutex = Nobody
  /\ dumper' \in IF Canceled THEN {"end"} ELSE {"work", "end"}
  /\ UNCHANGED <<locks, Dumping, Canceled, rec, resume, pc>> /\ Quiet

DumpEnd ==
  /\ dumper = "end" /\ dumpMutex = Nobody
  /\ Dumping' = FALSE /\ dumper' = "unlock"
  /\ UNCHANGED <<locks, Canceled, rec, resume, pc>> /\ Quiet

DumpUnlock ==
  /\ dumper = "unlock" /\ Unlock(targetMutex, Dumper)
  /\ dumper' = "none"
  /\ UNCHANGED <<dumpMutex, Dumping, Canceled, rec, resume, pc>> /\ Quiet

\* DumpWait; DoneChan is closed once the dump is over, and the alarm may go off
\* before.
WaitLock(c) ==
  /\ Goto(c, "wait-lock", IF Dumping /\ call[c] = "wait" THEN "wait-done" ELSE "idle")
  /\ dumpMutex = Nobody
  /\ UNCHANGED <<locks, dump, rec, resume>> /\ Quiet

WaitDone(c) ==
  /\ Goto(c, "wait-done", "idle")
  /\ UNCHANGED <<locks, dump, rec, resume>> /\ Quiet

DumpCancel(c) ==
  /\ Goto(c, "cancel-lock", "idle") /\ dumpMutex = Nobody
  /\ Canceled' = TRUE
  /\ UNCHANGED <<locks, Dumping, dumper, rec, resume>> /\ Quiet

-----------------------------------------------------------------------------

\* Command, for the commands that resume the target.
CmdLock(c) ==
  /\ Goto(c, "cmd-lock", "cmd-running") /\ Lock(targetMutex, c)
  /\ UNCHANGED <<dumpMutex, dump, rec, resume>> /\ Quiet

CmdRunning(c) ==
  /\ Goto(c, "cmd-running", "cmd-enter")
  /\ running' = TRUE /\ ResumeChan' = c
  /\ UNCHANGED <<locks, dump, rec, stopRequested, setupDone>> /\ Quiet

\* Continue is entered: earlier requests to stop are forgotten.  A command that
\* is refused does not get here.
CmdEnter(c) ==
  /\ \/ Goto(c, "cmd-enter", "cmd-resume") /\ stopRequested' = FALSE
     \/ Goto(c, "cmd-enter", "cmd-return") /\ UNCHANGED stopRequested
  /\ UNCHANGED <<locks, dump, rec, running, ResumeChan, setupDone>> /\ Quiet

\* ContinueOnce: the threads are resumed and the connection may go on to its next
\* request.
CmdResume(c) ==
  /\ Goto(c, "cmd-resume", "cmd-run") /\ ~stopRequested
  /\ setupDone' = IF ResumeChan = Nobody THEN setupDone ELSE [setupDone EXCEPT ![ResumeChan] = @ + 1]
  /\ ResumeChan' = Nobody
  /\ UNCHANGED <<locks, dump, rec, running, stopRequested>> /\ Quiet

\* A thread stops by itself: Continue repeats, or returns and forgets a request that
\* came meanwhile.
CmdEvent(c) ==
  /\ \/ Goto(c, "cmd-run", "cmd-resume") /\ UNCHANGED stopRequested
     \/ Goto(c, "cmd-run", "cmd-return") /\ stopRequested' = FALSE
  /\ UNCHANGED <<locks, dump, rec, running, ResumeChan, setupDone>> /\ Quiet

CmdHalted(c) ==
  /\ stopRequested /\ stopRequested' = FALSE
  /\ \/ Goto(c, "cmd-run", "cmd-return") \/ Goto(c, "cmd-resume", "cmd-return")
  /\ UNCHANGED <<locks, dump, rec, running, ResumeChan, setupDone>> /\ Quiet

\* The deferred functions, then RPCCallback.Return, which closes the channel if it
\* is still open.
CmdReturn(c) ==
  /\ Goto(c, "cmd-return", "cmd-reply")
  /\ running' = FALSE /\ Unlock(targetMutex, c)
  /\ UNCHANGED <<dumpMutex, dump, rec, stopRequested, ResumeChan, setupDone>> /\ Quiet

\* Defective variant: the channel is only closed by ContinueOnce.
CmdReplyOnly(c) ==
  /\ Goto(c, "cmd-reply", "idle")
  /\ UNCHANGED <<locks, dump, rec, resume>> /\ Quiet

CmdReply(c) ==
  /\ Goto(c, "cmd-reply", "idle")
  /\ setupDone' = [setupDone EXCEPT ![c] = IF @ = 0 THEN 1 ELSE @]
  /\ UNCHANGED <<locks, dump, rec, running, stopRequested, ResumeChan>> /\ Quiet

\* Command(halt) does not wait for the target mutex to ask the target to stop,
\* unless it is being recorded.  The request matters to a running Continue only.
HaltRequest(c) ==
  /\ ~recordMutexLost /\ (recording \/ target)
  /\ Goto(c, "halt-request", "halt-lock")
  /\ stopRequested' = IF recording THEN stopRequested ELSE TRUE
  /\ UNCHANGED <<locks, dump, rec, running, ResumeChan, setupDone>> /\ Quiet

\* There is no target yet: the call panics with recordMutex locked, which the server
\* reports to the client.
HaltCrash(c) ==
  /\ ~recordMutexLost /\ ~recording /\ ~target
  /\ Goto(c, "halt-request", "idle") /\ recordMutexLost' = TRUE
  /\ UNCHANGED <<locks, dump, recording, target, recorder, resume>> /\ Quiet

HaltLock(c) ==
  /\ Goto(c, "halt-lock", "halt-running") /\ Lock(targetMutex, c)
  /\ running' = TRUE
  /\ UNCHANGED <<dumpMutex, dump, rec, stopRequested, ResumeChan, setupDone>> /\ Quiet

HaltReturn(c) ==
  /\ Goto(c, "halt-running", "idle") /\ Unlock(targetMutex, c)
  /\ running' = FALSE
  /\ UNCHANGED <<dumpMutex, dump, rec, stopRequested, ResumeChan, setupDone>> /\ Quiet

-----------------------------------------------------------------------------

\* StopRecording: rr is told to stop, the recorder goes on.
StopRecording(c) ==
  /\ ~recordMutexLost
  /\ Goto(c, "rec-stop", "idle")
  /\ recorder' = IF recording /\ recorder = "run" THEN "ended" ELSE recorder
  /\ UNCHANGED <<locks, dump, recording, recordMutexLost, target, resume>> /\ Quiet

\* The goroutine started by Launch with the rr backend.
RecordEnds ==
  /\ recorder = "run" /\ recorder' = "ended"
  /\ UNCHANGED <<locks, dump, recording, recordMutexLost, target, resume, pc>> /\ Quiet

\* Defective variant: requests are served as soon as the recording is over.
RecordingDoneUnlocks ==
  /\ recorder = "ended" /\ recorder' = "replay" /\ ~recordMutexLost
  /\ recording' = FALSE /\ Unlock(targetMutex, Recorder)
  /\ UNCHANGED <<dumpMutex, dump, recordMutexLost, target, resume, pc>> /\ Quiet

RecordingDone ==
  /\ recorder = "ended" /\ recorder' = "replay" /\ ~recordMutexLost
  /\ recording' = FALSE
  /\ UNCHANGED <<locks, dump, recordMutexLost, target, resume, pc>> /\ Quiet

RecordInstall ==
  /\ recorder = "replay" /\ recorder' = "unlock"
  /\ target' = TRUE
  /\ UNCHANGED <<locks, dump, recording, recordMutexLost, resume, pc>> /\ Quiet

\* checkGoVersion asks whether the recording goes on, which takes recordMutex; then
\* the goroutine returns.  If the mutex is lost nobody gets the target mutex again.
RecordUnlock ==
  /\ recorder = "unlock" /\ recorder' = "none" /\ ~recordMutexLost
  /\ Unlock(targetMutex, Recorder)
  /\ UNCHANGED <<dumpMutex, dump, recording, recordMutexLost, target, resume, pc>> /\ Quiet

-----------------------------------------------------------------------------

StateStep(c) == StateRunning(c) \/ StateRecording(c) \/ StateDump(c) \/ StateUnlock(c)
OtherStep(c) == OtherLock(c) \/ OtherDone(c)
DumpStep(c) == DumpTarget(c) \/ DumpRefused(c) \/ DumpLock(c) \/ DumpStart(c)
WaitStep(c) == WaitLock(c) \/ WaitDone(c) \/ DumpCancel(c)
CmdStep(c) == CmdLock(c) \/ CmdRunning(c) \/ CmdEnter(c) \/ CmdResume(c) \/ CmdHalted(c)
              \/ CmdReturn(c) \/ CmdReply(c)
HaltStep(c) == HaltRequest(c) \/ HaltCrash(c) \/ HaltLock(c) \/ HaltReturn(c) \/ StopRecording(c)
Step(c) == StateStep(c) \/ OtherStep(c) \/ DumpStep(c) \/ WaitStep(c) \/ CmdStep(c) \/ HaltStep(c)
DumperStep == DumpWork \/ DumpEnd \/ DumpUnlock
RecorderStep == RecordingDone \/ RecordInstall \/ RecordUnlock

Next ==
  \/ \E c \in Clients : Call(c) \/ Step(c) \/ CmdEvent(c)
  \/ DumperStep \/ RecordEnds \/ RecorderStep

Spec == Init /\ [][Next]_vars

\* Goroutines are scheduled, and a goroutine that waits for a sync.Mutex gets it
\* after a bounded delay once it is released (its starvation mode).  Nothing is
\* assumed about when the program stops by itself, or when clients call.
Fairness ==
  /\ \A c \in Clients : SF_vars(Step(c))
  /\ SF_vars(DumperStep) /\ WF_vars(RecorderStep)
FairSpec == Spec /\ Fairness

-----------------------------------------------------------------------------

\* Type invariant of the locks and of the program counters.
TypeOK ==
  /\ targetMutex \in Clients \cup {Nobody, Dumper, Recorder}
  /\ dumpMutex \in Clients \cup {Nobody}
  /\ {running, recording, recordMutexLost, target, Dumping, Canceled, stopRequested} \subseteq BOOLEAN
  /\ dumper \in {"none", "work", "end", "unlock"}
  /\ recorder \in {"none", "run", "ended", "replay", "unlock"}
  /\ ResumeChan \in Clients \cup {Nobody}
  /\ setupDone \in [Clients -> 0 .. 1] /\ DOMAIN pc = Clients

\* While a dump reads the process nobody else uses it: a dump in progress holds
\* the target mutex ("targetMutex will only be unlocked when the dump is done") and no
\* command says the target is running.
DumpHoldsTarget ==
  Dumping => targetMutex = Dumper /\ ~running

\* The channel that releases the connection of a Command has been closed by the time
\* its answer is sent, whichever of ContinueOnce and Return does it: otherwise the
\* connection waits for ever.  (That it is never closed twice, which panics, is part
\* of TypeOK.)
SetupDoneOnce ==
  \A c \in Clients : pc[c] = "idle" /\ call[c] # "none" => setupDone[c] = 1

\* While the target is recorded, "any other request to debugger will block" (Launch):
\* no call gets the target mutex before there is a target.
TargetInstalled == targetMutex # Recorder => target

\* "If wait == 0 returns immediately." (DumpWait): also when other clients ask for
\* the state meanwhile.
DumpWaitReturns ==
  \A c \in Clients : pc[c] = "wait-lock" /\ call[c] = "wait-0" ~> pc[c] = "idle"

\* State(nowait) has returned with dumpState.Mutex locked.
DumpMutexLeaked ==
  \E c \in Clients : dumpMutex = c /\ pc[c] = "idle" /\ call[c] = "state-nowait"

\* Unless that has happened, DumpWait(0) returns, whatever the other clients, the dump
\* and the recording do.
DumpWaitEnds == []~DumpMutexLeaked => DumpWaitReturns

\* "If NonBlocking is true State will return immediately even if the target process
\* is running." (service/rpc2/server.go:106): such a call is never left waiting for the
\* target mutex by a command that is running the target.
NonBlockingNeverWaits ==
  \A c, x \in Clients :
    pc[c] = "other-lock" /\ call[c] = "state-nowait" => ~(targetMutex = x /\ pc[x] = "cmd-run")

\* "RequestManualStop does not invoke any ptrace syscalls, so it's safe to access the
\* process directly." (Command): there is a process to access.
HaltHasTarget ==
  \A c \in Clients : pc[c] = "halt-request" => recording \/ target
=============================================================================
