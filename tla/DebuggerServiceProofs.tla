------------------------ MODULE DebuggerServiceProofs ------------------------
(***************************************************************************)
(* Theorems about DebuggerService for every set of clients and of methods. *)
(* The argument is ownership: the target mutex passes from the call that   *)
(* took it to the goroutine of a dump and back to nobody, and every place  *)
(* that uses the process is a place of its holder.                         *)
(***************************************************************************)
EXTENDS DebuggerService, TLAPS

\* Where a call has set d.running, and where it holds the target mutex.
Runs == {"cmd-enter", "cmd-resume", "cmd-run", "cmd-return", "halt-running"}
Holds == Runs \cup {"other-work", "dump-lock", "dump-start", "cmd-running"}

\* Where a Command is that resumes the target: its channel may still be open.
Cmds == {"cmd-lock", "cmd-running", "cmd-enter", "cmd-resume", "cmd-run", "cmd-return", "cmd-reply"}
Pcs == Holds \cup Cmds \cup
  {"idle", "state-running", "state-recording", "state-dump", "state-unlock", "other-lock",
   "dump-target", "wait-lock", "wait-done", "cancel-lock", "halt-request", "halt-lock", "rec-stop"}

\* TypeOK, with the places a call can be at.
Typed ==
  /\ pc \in [Clients -> Pcs] /\ setupDone \in [Clients -> 0 .. 1]
  /\ call \in [Clients -> Methods \cup {"none"}]
  /\ targetMutex \in Clients \cup {Nobody, Dumper, Recorder}
  /\ dumpMutex \in Clients \cup {Nobody}
  /\ dumper \in {"none", "work", "end", "unlock"}
  /\ recorder \in {"none", "run", "ended", "replay", "unlock"}
  /\ ResumeChan \in Clients \cup {Nobody}

\* The Boolean variables.
Flags ==
  {running, recording, recordMutexLost, target, Dumping, Canceled, stopRequested} \subseteq BOOLEAN

\* Who holds the target mutex: the call at one of the places of Holds, the dump or the
\* recording as long as they last.  A dump in progress has a goroutine, a target that
\* is said to be running a call that said so and still holds the mutex.
Owned ==
  /\ \A c \in Clients : pc[c] \in Holds => targetMutex = c
  /\ dumper # "none" => targetMutex = Dumper
  /\ recorder # "none" => targetMutex = Recorder
  /\ recorder \in {"none", "unlock"} => target
  /\ Dumping => dumper \in {"work", "end"}
  /\ running => targetMutex \in Clients /\ pc[targetMutex] \in Runs

\* Whether the channel of a call has been closed, and which one ContinueOnce would close
\* next.  ResumeChan may be stale (a command that is refused leaves it), but not once a
\* command has reached Continue.
Channels ==
  /\ \A c \in Clients : pc[c] \in {"cmd-lock", "cmd-running"} => setupDone[c] = 0
  /\ \A c \in Clients : pc[c] \in {"cmd-enter", "cmd-resume"} =>
       \/ ResumeChan = c /\ setupDone[c] = 0
       \/ ResumeChan = Nobody /\ setupDone[c] = 1
  /\ \A c \in Clients : pc[c] = "cmd-run" => ResumeChan = Nobody /\ setupDone[c] = 1
  /\ \A c \in Clients : pc[c] \notin Cmds \cup {"idle"} => setupDone[c] = 1
  /\ \A c \in Clients : pc[c] = "idle" /\ call[c] # "none" => setupDone[c] = 1

\* The inductive invariant.
IInv == Typed /\ Owned /\ Channels

-----------------------------------------------------------------------------

USE DEF Lock, Unlock, Goto, Quiet, locks, dump, rec, resume, Nobody, Dumper, Recorder

\* The server starts with every lock free, or with the recording holding the target.
LEMMA InitInv == Init => IInv
<1> SUFFICES ASSUME Init PROVE IInv
  OBVIOUS
<1>1. Typed
  BY ServiceAssumption DEF Init, Typed, Pcs
<1>2. Owned
  BY ServiceAssumption, ZenonT(30) DEF Init, Owned, Holds, Runs
<1>3. Channels
  BY DEF Init, Channels, Cmds
<1> QED
  BY <1>1, <1>2, <1>3 DEF IInv

\* State, and any method that only takes the target mutex, preserve the invariant.
LEMMA StateInv ==
  ASSUME IInv, NEW c \in Clients, StateStep(c) \/ OtherStep(c)
  PROVE  IInv'
<1>1. CASE StateRunning(c)
  BY <1>1, ServiceAssumption DEF IInv, Typed, Owned, Channels, Pcs, Holds, Runs, Cmds, StateRunning
<1>2. CASE StateRecording(c)
  BY <1>2, ServiceAssumption DEF IInv, Typed, Owned, Channels, Pcs, Holds, Runs, Cmds,
     StateRecording
<1>3. CASE StateDump(c)
  BY <1>3, ServiceAssumption DEF IInv, Typed, Owned, Channels, Pcs, Holds, Runs, Cmds, StateDump
<1>4. CASE StateUnlock(c)
  BY <1>4, ServiceAssumption DEF IInv, Typed, Owned, Channels, Pcs, Holds, Runs, Cmds, StateUnlock
<1>5. CASE OtherLock(c)
  BY <1>5, ServiceAssumption DEF IInv, Typed, Owned, Channels, Pcs, Holds, Runs, Cmds, OtherLock
<1>6. CASE OtherDone(c)
  BY <1>6, ServiceAssumption DEF IInv, Typed, Owned, Channels, Pcs, Holds, Runs, Cmds, OtherDone
<1> QED
  BY <1>1, <1>2, <1>3, <1>4, <1>5, <1>6 DEF StateStep, OtherStep

\* So do DumpStart, which hands the target mutex to the dump, DumpWait and DumpCancel.
LEMMA DumpInv ==
  ASSUME IInv, NEW c \in Clients, DumpStep(c) \/ WaitStep(c)
  PROVE  IInv'
<1>1. CASE DumpTarget(c)
  BY <1>1, ServiceAssumption DEF IInv, Typed, Owned, Channels, Pcs, Holds, Runs, Cmds, DumpTarget
<1>2. CASE DumpRefused(c)
  BY <1>2, ServiceAssumption DEF IInv, Typed, Owned, Channels, Pcs, Holds, Runs, Cmds, DumpRefused
<1>3. CASE DumpLock(c)
  BY <1>3, ServiceAssumption DEF IInv, Typed, Owned, Channels, Pcs, Holds, Runs, Cmds, DumpLock
<1>4. CASE DumpStart(c)
  BY <1>4, ServiceAssumption DEF IInv, Typed, Owned, Channels, Pcs, Holds, Runs, Cmds, DumpStart
<1>5. CASE WaitLock(c)
  BY <1>5, ServiceAssumption DEF IInv, Typed, Owned, Channels, Pcs, Holds, Runs, Cmds, WaitLock
<1>6. CASE WaitDone(c)
  BY <1>6, ServiceAssumption DEF IInv, Typed, Owned, Channels, Pcs, Holds, Runs, Cmds, WaitDone
<1>7. CASE DumpCancel(c)
  BY <1>7, ServiceAssumption DEF IInv, Typed, Owned, Channels, Pcs, Holds, Runs, Cmds, DumpCancel
<1> QED
  BY <1>1, <1>2, <1>3, <1>4, <1>5, <1>6, <1>7 DEF DumpStep, WaitStep

\* So does a Command that resumes the target, from its lock to its answer.
LEMMA CmdInv ==
  ASSUME IInv, NEW c \in Clients, CmdStep(c) \/ CmdEvent(c)
  PROVE  IInv'
<1>1. CASE CmdLock(c)
  BY <1>1, ServiceAssumption DEF IInv, Typed, Owned, Channels, Pcs, Holds, Runs, Cmds, CmdLock
<1>2. CASE CmdRunning(c)
  BY <1>2, ServiceAssumption DEF IInv, Typed, Owned, Channels, Pcs, Holds, Runs, Cmds, CmdRunning
<1>3. CASE CmdEnter(c)
  BY <1>3, ServiceAssumption DEF IInv, Typed, Owned, Channels, Pcs, Holds, Runs, Cmds, CmdEnter
<1>4. CASE CmdResume(c)
  <2>1. Typed'
    BY <1>4 DEF IInv, Typed, Owned, Channels, Pcs, Holds, Runs, Cmds, CmdResume
  <2>2. Owned'
    BY <1>4, ServiceAssumption DEF IInv, Typed, Owned, Pcs, Holds, Runs, Cmds, CmdResume
  <2>3. Channels'
    BY <1>4, ServiceAssumption DEF IInv, Typed, Owned, Channels, Pcs, Holds, Runs, Cmds, CmdResume
  <2> QED
    BY <2>1, <2>2, <2>3 DEF IInv
<1>5. CASE CmdHalted(c)
  BY <1>5, ServiceAssumption DEF IInv, Typed, Owned, Channels, Pcs, Holds, Runs, Cmds, CmdHalted
<1>6. CASE CmdReturn(c)
  BY <1>6, ServiceAssumption DEF IInv, Typed, Owned, Channels, Pcs, Holds, Runs, Cmds, CmdReturn
<1>7. CASE CmdReply(c)
  BY <1>7, ServiceAssumption DEF IInv, Typed, Owned, Channels, Pcs, Holds, Runs, Cmds, CmdReply
<1>8. CASE CmdEvent(c)
  BY <1>8, ServiceAssumption DEF IInv, Typed, Owned, Channels, Pcs, Holds, Runs, Cmds, CmdEvent
<1> QED
  BY <1>1, <1>2, <1>3, <1>4, <1>5, <1>6, <1>7, <1>8 DEF CmdStep

\* So do Command(halt) and StopRecording.
LEMMA HaltInv ==
  ASSUME IInv, NEW c \in Clients, HaltStep(c)
  PROVE  IInv'
<1>1. CASE HaltRequest(c)
  BY <1>1, ServiceAssumption DEF IInv, Typed, Owned, Channels, Pcs, Holds, Runs, Cmds, HaltRequest
<1>2. CASE HaltCrash(c)
  BY <1>2, ServiceAssumption DEF IInv, Typed, Owned, Channels, Pcs, Holds, Runs, Cmds, HaltCrash
<1>3. CASE HaltLock(c)
  BY <1>3, ServiceAssumption DEF IInv, Typed, Owned, Channels, Pcs, Holds, Runs, Cmds, HaltLock
<1>4. CASE HaltReturn(c)
  BY <1>4, ServiceAssumption DEF IInv, Typed, Owned, Channels, Pcs, Holds, Runs, Cmds, HaltReturn
<1>5. CASE StopRecording(c)
  BY <1>5, ServiceAssumption DEF IInv, Typed, Owned, Channels, Pcs, Holds, Runs, Cmds, StopRecording
<1> QED
  BY <1>1, <1>2, <1>3, <1>4, <1>5 DEF HaltStep

\* So does the arrival of a request.
LEMMA CallInv ==
  ASSUME IInv, NEW c \in Clients, Call(c)
  PROVE  IInv'
BY ServiceAssumption DEF IInv, Typed, Owned, Channels, Pcs, Holds, Runs, Cmds, Call, First, Methods

\* So do the goroutines of the dump and of the recording.
LEMMA GoroutineInv ==
  ASSUME IInv, DumperStep \/ RecordEnds \/ RecorderStep
  PROVE  IInv'
<1>1. CASE DumpWork
  BY <1>1, ServiceAssumption DEF IInv, Typed, Owned, Channels, Pcs, Holds, Runs, Cmds, DumpWork
<1>2. CASE DumpEnd
  BY <1>2, ServiceAssumption DEF IInv, Typed, Owned, Channels, Pcs, Holds, Runs, Cmds, DumpEnd
<1>3. CASE DumpUnlock
  BY <1>3, ServiceAssumption DEF IInv, Typed, Owned, Channels, Pcs, Holds, Runs, Cmds, DumpUnlock
<1>4. CASE RecordEnds
  BY <1>4, ServiceAssumption DEF IInv, Typed, Owned, Channels, Pcs, Holds, Runs, Cmds, RecordEnds
<1>5. CASE RecordingDone
  BY <1>5, ServiceAssumption DEF IInv, Typed, Owned, Channels, Pcs, Holds, Runs, Cmds, RecordingDone
<1>6. CASE RecordInstall
  BY <1>6, ServiceAssumption DEF IInv, Typed, Owned, Channels, Pcs, Holds, Runs, Cmds, RecordInstall
<1>7. CASE RecordUnlock
  BY <1>7, ServiceAssumption DEF IInv, Typed, Owned, Channels, Pcs, Holds, Runs, Cmds, RecordUnlock
<1> QED
  BY <1>1, <1>2, <1>3, <1>4, <1>5, <1>6, <1>7 DEF DumperStep, RecorderStep

\* The flags stay Boolean.
LEMMA FlagsStep == Flags /\ [Next]_vars => Flags'
<1> SUFFICES ASSUME Flags, [Next]_vars PROVE Flags'
  OBVIOUS
<1>1. ASSUME NEW c \in Clients, StateStep(c) \/ OtherStep(c) PROVE Flags'
  BY <1>1, Zenon DEF Flags, StateStep, OtherStep, StateRunning, StateRecording, StateDump,
     StateUnlock, OtherLock, OtherDone
<1>2. ASSUME NEW c \in Clients, DumpStep(c) \/ WaitStep(c) PROVE Flags'
  BY <1>2, Zenon DEF Flags, DumpStep, WaitStep, DumpTarget, DumpRefused, DumpLock, DumpStart,
     WaitLock, WaitDone, DumpCancel
<1>3. ASSUME NEW c \in Clients, CmdStep(c) \/ CmdEvent(c) PROVE Flags'
  BY <1>3, Zenon DEF Flags, CmdStep, CmdLock, CmdRunning, CmdEnter, CmdResume, CmdHalted,
     CmdReturn, CmdReply, CmdEvent
<1>4. ASSUME NEW c \in Clients, HaltStep(c) PROVE Flags'
  BY <1>4, Zenon DEF Flags, HaltStep, HaltRequest, HaltCrash, HaltLock, HaltReturn, StopRecording
<1>5. ASSUME NEW c \in Clients, Call(c) PROVE Flags'
  BY <1>5, Zenon DEF Flags, Call
<1>6. CASE DumperStep \/ RecordEnds \/ RecorderStep
  BY <1>6, Zenon DEF Flags, DumperStep, RecorderStep, DumpWork, DumpEnd, DumpUnlock, RecordEnds,
     RecordingDone, RecordInstall, RecordUnlock
<1>7. CASE UNCHANGED vars
  BY <1>7, Zenon DEF Flags, vars
<1> QED
  BY <1>1, <1>2, <1>3, <1>4, <1>5, <1>6, <1>7, Zenon DEF Next, Step

\* IInv is preserved by every step, of whichever call or goroutine.
LEMMA NextInv == IInv /\ [Next]_vars => IInv'
<1> SUFFICES ASSUME IInv, [Next]_vars PROVE IInv'
  OBVIOUS
<1>1. CASE UNCHANGED vars
  BY <1>1 DEF vars, IInv, Typed, Owned, Channels
<1>2. ASSUME NEW c \in Clients, Call(c) \/ Step(c) \/ CmdEvent(c) PROVE IInv'
  BY <1>2, StateInv, DumpInv, CmdInv, HaltInv, CallInv DEF Step
<1>3. CASE DumperStep \/ RecordEnds \/ RecorderStep
  BY <1>3, GoroutineInv
<1> QED
  BY <1>1, <1>2, <1>3 DEF Next

\* The locks are owned as IInv says in every state of the server.
LEMMA SpecInv == Spec => []IInv
BY InitInv, NextInv, PTL DEF Spec

-----------------------------------------------------------------------------

\* Whatever the number of clients, every variable keeps its type; in particular no
\* connection's channel is closed twice, by ContinueOnce and by Return (which panics).
THEOREM ServiceTyped == Spec => []TypeOK
<1>1. IInv /\ Flags => TypeOK
  BY DEF IInv, Typed, Flags, TypeOK
<1>2. Init => Flags
  BY ServiceAssumption, Zenon DEF Init, Flags
<1> QED
  BY <1>1, <1>2, FlagsStep, SpecInv, PTL DEF Spec

\* Whatever the number of clients, a dump in progress has the process to itself.
THEOREM DumpExclusive == Spec => []DumpHoldsTarget
<1>1. IInv => DumpHoldsTarget
  BY ServiceAssumption DEF IInv, Typed, Owned, DumpHoldsTarget
<1> QED
  BY <1>1, SpecInv, PTL

\* Whatever the number of clients, the channel of every call that has been answered has
\* been closed, so no connection waits for ever for its next request.
THEOREM ConnectionsReleased == Spec => []SetupDoneOnce
<1>1. IInv => SetupDoneOnce
  BY DEF IInv, Channels, SetupDoneOnce
<1> QED
  BY <1>1, SpecInv, PTL

\* Whatever the number of clients, no call gets the target mutex before Launch has
\* installed the target that replays the recording.
THEOREM NoneBeforeTarget == Spec => []TargetInstalled
<1>1. IInv => TargetInstalled
  BY DEF IInv, Typed, Owned, TargetInstalled
<1> QED
  BY <1>1, SpecInv, PTL
=============================================================================
