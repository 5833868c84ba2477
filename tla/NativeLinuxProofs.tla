-------------------------- MODULE NativeLinuxProofs --------------------------
(***************************************************************************)
(* Proofs about NativeLinux for any number of threads, program and bounds: *)
(* the protocol that stops threads one at a time implements AllStop, and   *)
(* ContinueOnce never returns with a thread it does not know, and a thread *)
(* that stands behind a trap it never ran into is set back.                *)
(***************************************************************************)
EXTENDS NativeLinux, WellFoundedInduction, TLAPS

USE Zenon

(* The provers get the time that the larger leaves below need.             *)
KStates == {"none", "born", "running", "stopped", "zombie", "gone", "free"}

(* Nothing runs outside ContinueOnce, before the second loop of resume(),  *)
(* and after the end.                                                      *)
Halted == {"stopped", "resume", "step"} \cup Over

Typed ==
  /\ kstate \in [Tids -> KStates]
  /\ wstatus \in [Tids -> Sigs \cup {"STOP", "TRAP", "CLONE", "EXITED", None}]
  /\ child \in [Tids -> Others \cup {None}]
  /\ known \subseteq Tids
  /\ DOMAIN running = Tids

(* A thread that runs is in dbp.threads and counted as running.            *)
RunningCounted == \A t \in Tids : kstate[t] = "running" => t \in known /\ running[t]

(* Only a thread that stopped or exited has a status to report.            *)
StatusOfStopped ==
  \A t \in Tids : /\ wstatus[t] # None => kstate[t] \in {"stopped", "zombie"}
                  /\ wstatus[t] = "EXITED" => kstate[t] = "zombie"

(* The parent of a clone event not read yet still counts as running; the   *)
(* thread it announces is traced, has not run and is not known.            *)
CloneUnread ==
  \A t \in Tids : wstatus[t] = "CLONE" =>
    /\ kstate[t] = "stopped" /\ t \in known /\ running[t]
    /\ child[t] \in Others \ known
    /\ kstate[child[t]] \in {"born", "stopped"}

OneParent ==
  \A t, u \in Tids : wstatus[t] = "CLONE" /\ wstatus[u] = "CLONE" /\ child[t] = child[u] => t = u

(* A thread that is not known has been announced.                          *)
Announced ==
  \A t \in Tids : Live(t) /\ t \notin known =>
    \E p \in Tids : wstatus[p] = "CLONE" /\ child[p] = t

KnownExist == \A t \in known : kstate[t] # "none"

HaltedNoneRuns ==
  dpc \in Halted => \A t \in Tids : kstate[t] # "running" /\ wstatus[t] # "CLONE"

(* resume() has not touched the threads it is still to resume.             *)
ContTodo ==
  dpc = "cont" =>
    /\ todo \subseteq known
    /\ \A t \in todo : kstate[t] # "running" /\ wstatus[t] # "CLONE"

IInv ==
  /\ Typed /\ RunningCounted /\ StatusOfStopped /\ CloneUnread /\ OneParent
  /\ Announced /\ KnownExist /\ HaltedNoneRuns /\ ContTodo

(* The initial states are as IInv says.                                    *)
LEMMA InitIInv == Init => IInv
<1> SUFFICES ASSUME Init PROVE IInv
  OBVIOUS
<1> USE LinuxAssumption
<1>1. /\ dpc = "stopped"
      /\ known \subseteq Tids
      /\ kstate = [t \in Tids |-> IF t \in known THEN "stopped" ELSE "none"]
      /\ wstatus = [t \in Tids |-> None] /\ child = [t \in Tids |-> None]
      /\ running = [t \in Tids |-> FALSE]
  BY DEF Init, Tids
<1>2. Typed
  BY <1>1 DEF Typed, KStates
<1>3. RunningCounted /\ StatusOfStopped /\ CloneUnread /\ OneParent
  BY <1>1 DEF RunningCounted, StatusOfStopped, CloneUnread, OneParent
<1>4. Announced /\ KnownExist
  BY <1>1 DEF Announced, KnownExist, Live
<1>5. HaltedNoneRuns /\ ContTodo
  BY <1>1 DEF HaltedNoneRuns, ContTodo
<1> QED
  BY <1>2, <1>3, <1>4, <1>5 DEF IInv

(* A step that leaves the state of the threads alone and does not halt,    *)
(* resume or start the loop of resume() keeps IInv.                        *)
LEMMA QuietStep ==
  ASSUME IInv, UNCHANGED <<kstate, wstatus, child, known, running>>,
         dpc' \in Halted => dpc \in Halted,
         dpc' = "cont" => \/ dpc \in Halted /\ todo' = known
                          \/ dpc = "cont" /\ todo' = todo
  PROVE  IInv'
<1>1. Typed' /\ RunningCounted' /\ StatusOfStopped' /\ CloneUnread' /\ OneParent'
  BY DEF IInv, Typed, RunningCounted, StatusOfStopped, CloneUnread, OneParent
<1>2. Announced' /\ KnownExist'
  BY DEF IInv, Announced, KnownExist, Live
<1>3. HaltedNoneRuns'
  BY DEF IInv, HaltedNoneRuns
<1>4. ContTodo'
  BY DEF IInv, HaltedNoneRuns, ContTodo, Typed
<1> QED
  BY <1>1, <1>2, <1>3, <1>4 DEF IInv

(* PTRACE_CONT for a thread that is known and has no clone event to report *)
(* keeps IInv.                                                             *)
LEMMA ResumeOne ==
  ASSUME IInv, NEW t \in known, wstatus[t] # "CLONE", NEW sig,
         resumeWithSig({t}, sig), UNCHANGED <<child, known>>,
         dpc' \notin Halted, dpc' = "cont" => dpc = "cont" /\ todo' = todo \ {t}
  PROVE  IInv'
<1>inv. /\ Typed /\ RunningCounted /\ StatusOfStopped /\ CloneUnread /\ OneParent
        /\ Announced /\ KnownExist /\ ContTodo
  BY DEF IInv
<1>1. /\ kstate' = [u \in Tids |-> IF u = t /\ kstate[u] = "stopped" THEN "running" ELSE kstate[u]]
      /\ wstatus' = [u \in Tids |-> IF u = t /\ kstate[u] = "stopped" THEN None ELSE wstatus[u]]
  BY DEF resumeWithSig
<1>2. DOMAIN running' = Tids /\ \A u \in Tids : running'[u] <=> u = t \/ running[u]
  BY DEF resumeWithSig
<1>3. Typed' /\ RunningCounted' /\ StatusOfStopped' /\ KnownExist'
  BY <1>1, <1>2, <1>inv, LinuxAssumption
     DEF Typed, KStates, RunningCounted, StatusOfStopped, KnownExist
<1>4. \A u \in Tids : wstatus'[u] = "CLONE" <=> wstatus[u] = "CLONE"
  BY <1>1, LinuxAssumption DEF Typed
<1>5. CloneUnread'
  <2> SUFFICES ASSUME NEW u \in Tids, wstatus[u] = "CLONE"
               PROVE  /\ kstate'[u] = "stopped" /\ u \in known /\ running'[u]
                      /\ child[u] \in Others \ known
                      /\ kstate'[child[u]] \in {"born", "stopped"}
    BY <1>4 DEF CloneUnread
  <2>1. /\ kstate[u] = "stopped" /\ u \in known /\ running[u] /\ u # t
        /\ child[u] \in Others \ known /\ child[u] # t
        /\ kstate[child[u]] \in {"born", "stopped"}
    BY <1>inv DEF CloneUnread
  <2> QED
    BY <2>1, <1>1, <1>2 DEF Tids
<1>6. OneParent' /\ Announced'
  BY <1>1, <1>4, <1>inv, SMTT(30) DEF OneParent, Announced, Live, Typed
<1>7. HaltedNoneRuns' /\ ContTodo'
  BY <1>1, <1>4, <1>inv DEF HaltedNoneRuns, ContTodo, Typed
<1> QED
  BY <1>3, <1>5, <1>6, <1>7 DEF IInv

(* wait4 returning the stop of a thread, which then counts as stopped or   *)
(* not, keeps IInv.                                                        *)
LEMMA ReadStatus ==
  ASSUME IInv, NEW t \in Tids, wstatus[t] \notin {None, "CLONE", "EXITED"},
         wstatus' = [wstatus EXCEPT ![t] = None],
         running' \in {running, [running EXCEPT ![t] = FALSE]},
         UNCHANGED <<kstate, child, known>>,
         dpc' \notin Halted, dpc' # "cont"
  PROVE  IInv'
<1>inv. /\ Typed /\ RunningCounted /\ StatusOfStopped /\ CloneUnread /\ OneParent
        /\ Announced /\ KnownExist
  BY DEF IInv
<1>1. kstate[t] # "running"
  BY <1>inv DEF StatusOfStopped
<1>2. Typed' /\ RunningCounted' /\ StatusOfStopped' /\ KnownExist'
  BY <1>1, <1>inv, LinuxAssumption DEF Typed, RunningCounted, StatusOfStopped, KnownExist
<1>3. \A u \in Tids : wstatus'[u] = "CLONE" <=> wstatus[u] = "CLONE"
  BY <1>inv, LinuxAssumption DEF Typed
<1>4. CloneUnread'
  BY <1>3, <1>inv, ZenonT(60) DEF CloneUnread, Typed
<1>5. OneParent' /\ Announced'
  BY <1>3, <1>inv, ZenonT(60) DEF OneParent, Announced, Live
<1>6. HaltedNoneRuns' /\ ContTodo'
  BY DEF HaltedNoneRuns, ContTodo
<1> QED
  BY <1>2, <1>4, <1>5, <1>6 DEF IInv

(* Every step keeps IInv: the actions that touch the state of threads one  *)
(* by one, the others by QuietStep.                                        *)
LEMMA NextIInv == IInv /\ [Next]_vars => IInv'
<1> SUFFICES ASSUME IInv, [Next]_vars PROVE IInv'
  OBVIOUS
<1> USE LinuxAssumption
<1>inv. /\ Typed /\ RunningCounted /\ StatusOfStopped /\ CloneUnread /\ OneParent
        /\ Announced /\ KnownExist /\ HaltedNoneRuns /\ ContTodo
  BY DEF IInv
<1>1. CASE UNCHANGED vars
  BY <1>1, QuietStep DEF vars, kvars, dvars, osvars
<1>2. ASSUME NEW t \in Tids, Execute(t) PROVE IInv'
  BY <1>2, QuietStep DEF Execute, dvars, osvars
<1>3. ASSUME NEW t \in Tids, NEW s \in Sigs, SendSignal(t, s) PROVE IInv'
  BY <1>3, QuietStep DEF SendSignal, dvars, osvars
<1>4. CASE ContinueOnce
  BY <1>4, QuietStep DEF ContinueOnce, kvars, osvars, Halted
<1>5. ASSUME NEW t \in Tids, stepInstruction(t) PROVE IInv'
  BY <1>5, QuietStep DEF stepInstruction, kvars, osvars, Halted
<1>6. CASE StartCont
  BY <1>6, QuietStep DEF StartCont, kvars, osvars, Halted, Over
<1>7. CASE Drained
  BY <1>7, QuietStep DEF Drained, kvars, osvars, Halted, Over
<1>8. ASSUME NEW t \in Tids, stopThread(t) PROVE IInv'
  BY <1>8, QuietStep DEF stopThread, osvars, Halted, Over
<1>9. CASE HaltWait
  BY <1>9, QuietStep DEF HaltWait, kvars, osvars, Halted, Over
<1>10. CASE RequestManualStop
  BY <1>10, QuietStep DEF RequestManualStop, osvars
<1>11. ASSUME NEW a \in Starts, WriteBreakpoint(a) \/ EraseBreakpoint(a) PROVE IInv'
  BY <1>11, QuietStep DEF WriteBreakpoint, EraseBreakpoint, kvars, osvars
<1>12. ASSUME NEW t \in Tids, Clone(t) PROVE IInv'
  <2> DEFINE c == Fresh
  <2>1. c \in Others /\ kstate[c] = "none" /\ kstate[t] = "running"
    BY <1>12 DEF Clone, Fresh
  <2>2. /\ t \in known /\ running[t] /\ wstatus[t] = None
        /\ c \in Tids /\ c # t /\ c \notin known /\ wstatus[c] = None
    BY <1>inv, <2>1 DEF RunningCounted, StatusOfStopped, KnownExist, Tids
  <2>3. /\ kstate' = [kstate EXCEPT ![t] = "stopped", ![c] = "born"]
        /\ wstatus' = [wstatus EXCEPT ![t] = "CLONE"]
        /\ child' = [child EXCEPT ![t] = c]
        /\ UNCHANGED <<known, running, dpc, todo>>
    BY <1>12 DEF Clone, dvars, osvars
  <2> HIDE DEF c
  <2>4. Typed' /\ RunningCounted' /\ StatusOfStopped' /\ KnownExist'
    BY <2>1, <2>2, <2>3, <1>inv
       DEF Typed, KStates, RunningCounted, StatusOfStopped, KnownExist
  <2>5. CloneUnread'
    <3> SUFFICES ASSUME NEW u \in Tids, wstatus'[u] = "CLONE"
                 PROVE  /\ kstate'[u] = "stopped" /\ u \in known /\ running[u]
                        /\ child'[u] \in Others \ known
                        /\ kstate'[child'[u]] \in {"born", "stopped"}
      BY <2>3 DEF CloneUnread
    <3>1. CASE u = t
      BY <3>1, <2>1, <2>2, <2>3, <1>inv DEF Typed
    <3>2. CASE u # t
      BY <3>2, <2>1, <2>2, <2>3, <1>inv DEF Typed, CloneUnread, Tids
    <3> QED
      BY <3>1, <3>2
  <2>6. OneParent' /\ Announced'
    BY <2>1, <2>2, <2>3, <1>inv, SMTT(30) DEF OneParent, Announced, Live, Typed, CloneUnread
  <2>7. HaltedNoneRuns' /\ ContTodo'
    BY <2>1, <2>2, <2>3, <1>inv DEF HaltedNoneRuns, ContTodo, Typed
  <2> QED
    BY <2>4, <2>5, <2>6, <2>7 DEF IInv
<1>13. ASSUME NEW t \in Tids, ThreadExit(t) PROVE IInv'
  <2>1. Typed' /\ RunningCounted' /\ StatusOfStopped' /\ KnownExist'
    BY <1>13, <1>inv
       DEF Typed, KStates, RunningCounted, StatusOfStopped, KnownExist, ThreadExit, dvars, osvars
  <2>2. CloneUnread' /\ OneParent'
    BY <1>13, <1>inv, SMTT(30)
       DEF Typed, CloneUnread, OneParent, RunningCounted, StatusOfStopped, ThreadExit, dvars,
           osvars
  <2>3. Announced'
    BY <1>13, <1>inv, SMTT(30)
       DEF Typed, Announced, Live, RunningCounted, StatusOfStopped, CloneUnread, ThreadExit,
           dvars, osvars
  <2>4. HaltedNoneRuns' /\ ContTodo'
    BY <1>13, <1>inv
       DEF Typed, HaltedNoneRuns, ContTodo, ThreadExit, dvars, osvars
  <2> QED
    BY <2>1, <2>2, <2>3, <2>4 DEF IInv
<1>14. CASE ProcessExit
  <2>1. Typed' /\ RunningCounted' /\ StatusOfStopped' /\ KnownExist'
    BY <1>14, <1>inv
       DEF Typed, KStates, RunningCounted, StatusOfStopped, KnownExist, ProcessExit, ExitGroup, Live, dvars,
           osvars
  <2>2. CloneUnread' /\ OneParent'
    BY <1>14, <1>inv
       DEF Typed, CloneUnread, OneParent, RunningCounted, StatusOfStopped, ProcessExit, ExitGroup, Live,
           dvars, osvars
  <2>3. Announced'
    BY <1>14, <1>inv
       DEF Typed, Announced, Live, RunningCounted, StatusOfStopped, CloneUnread, ProcessExit,
           ExitGroup, dvars, osvars
  <2>4. HaltedNoneRuns' /\ ContTodo'
    BY <1>14, <1>inv
       DEF Typed, HaltedNoneRuns, ContTodo, ProcessExit, ExitGroup, Live, dvars, osvars
  <2> QED
    BY <2>1, <2>2, <2>3, <2>4 DEF IInv
<1>15. ASSUME NEW t \in Tids, NEW s \in Sigs \cup {"STOP", "TRAP"}, TakeSignal(t, s)
       PROVE  IInv'
  <2>1. Typed' /\ RunningCounted' /\ StatusOfStopped' /\ KnownExist'
    BY <1>15, <1>inv
       DEF Typed, KStates, RunningCounted, StatusOfStopped, KnownExist, TakeSignal, dvars, osvars
  <2>2. CloneUnread' /\ OneParent'
    BY <1>15, <1>inv, SMTT(30)
       DEF Typed, CloneUnread, OneParent, RunningCounted, StatusOfStopped, TakeSignal, dvars,
           osvars
  <2>3. Announced'
    BY <1>15, <1>inv, SMTT(30)
       DEF Typed, Announced, Live, RunningCounted, StatusOfStopped, CloneUnread, TakeSignal,
           dvars, osvars
  <2>4. HaltedNoneRuns' /\ ContTodo'
    BY <1>15, <1>inv
       DEF Typed, HaltedNoneRuns, ContTodo, TakeSignal, dvars, osvars
  <2> QED
    BY <2>1, <2>2, <2>3, <2>4 DEF IInv
<1>16. ASSUME NEW t \in Tids, resume(t) PROVE IInv'
  BY <1>16, <1>inv, ResumeOne DEF resume, ContTodo, Halted, Over
<1>17. CASE StepExecuted \/ \E s \in Sigs \cup {"STOP", "TRAP"} : StepSignal(s)
  <2>1. Typed' /\ RunningCounted' /\ StatusOfStopped' /\ KnownExist'
    BY <1>17, <1>inv, ZenonT(60)
       DEF Typed, KStates, RunningCounted, StatusOfStopped, KnownExist, StepExecuted, StepSignal,
           StepDone, osvars
  <2>2. CloneUnread' /\ OneParent'
    BY <1>17, <1>inv, SMTT(30)
       DEF Typed, CloneUnread, OneParent, RunningCounted, StatusOfStopped, StepExecuted,
           StepSignal, StepDone, osvars
  <2>3. Announced'
    BY <1>17, <1>inv, SMTT(30)
       DEF Typed, Announced, Live, RunningCounted, StatusOfStopped, CloneUnread, HaltedNoneRuns,
           Halted, StepExecuted, StepSignal, StepDone, osvars
  <2>4. HaltedNoneRuns' /\ ContTodo'
    BY <1>17, <1>inv
       DEF Typed, HaltedNoneRuns, ContTodo, Halted, Over, StepExecuted, StepSignal, StepDone,
           osvars
  <2> QED
    BY <2>1, <2>2, <2>3, <2>4 DEF IInv
<1>18. CASE stop1
  <2>1. Typed' /\ RunningCounted' /\ StatusOfStopped' /\ KnownExist'
    BY <1>18, <1>inv
       DEF Typed, KStates, RunningCounted, StatusOfStopped, KnownExist, stop1
  <2>2. CloneUnread' /\ OneParent'
    BY <1>18, <1>inv
       DEF Typed, CloneUnread, OneParent, RunningCounted, StatusOfStopped, stop1
  <2>3. Announced'
    BY <1>18, <1>inv
       DEF Typed, Announced, Live, RunningCounted, StatusOfStopped, CloneUnread, stop1
  <2>4. HaltedNoneRuns' /\ ContTodo'
    BY <1>18, <1>inv
       DEF Typed, HaltedNoneRuns, ContTodo, RunningCounted, CloneUnread, stop1
  <2> QED
    BY <2>1, <2>2, <2>3, <2>4 DEF IInv
<1>19. ASSUME NEW t \in Tids, WaitExited(t) PROVE IInv'
  <2>1. Typed' /\ RunningCounted' /\ StatusOfStopped' /\ KnownExist'
    BY <1>19, <1>inv
       DEF Typed, KStates, RunningCounted, StatusOfStopped, KnownExist, WaitExited, Waiting,
           Waitable, osvars
  <2>2. CloneUnread' /\ OneParent'
    BY <1>19, <1>inv, SMTT(30)
       DEF Typed, CloneUnread, OneParent, RunningCounted, StatusOfStopped, WaitExited, Waiting,
           Waitable, osvars
  <2>3. Announced'
    BY <1>19, <1>inv, SMTT(30)
       DEF Typed, Announced, Live, RunningCounted, StatusOfStopped, CloneUnread, WaitExited,
           Waiting, Waitable, osvars
  <2>4. HaltedNoneRuns' /\ ContTodo'
    BY <1>19, <1>inv
       DEF Typed, HaltedNoneRuns, ContTodo, Halted, Over, RunningCounted, StatusOfStopped, Tids,
           WaitExited, Waiting, Waitable, osvars
  <2> QED
    BY <2>1, <2>2, <2>3, <2>4 DEF IInv
<1>20. ASSUME NEW t \in Tids, WaitClone(t) PROVE IInv'
  <2>1. Typed' /\ RunningCounted' /\ StatusOfStopped' /\ KnownExist'
    <3>1. Typed' /\ KnownExist'
      BY <1>20, <1>inv, SMTT(30)
         DEF Typed, KStates, KnownExist, CloneUnread, Tids, WaitClone, Waiting, Return
    <3>2. RunningCounted'
      BY <1>20, <1>inv, SMTT(30) DEF Typed, RunningCounted, CloneUnread, WaitClone
    <3>3. StatusOfStopped'
      BY <1>20, <1>inv, SMTT(30) DEF Typed, StatusOfStopped, CloneUnread, WaitClone
    <3> QED
      BY <3>1, <3>2, <3>3
  <2>2. CloneUnread' /\ OneParent'
    BY <1>20, <1>inv, SMTT(30)
       DEF Typed, CloneUnread, OneParent, RunningCounted, StatusOfStopped, KnownExist, Tids,
           WaitClone
  <2>3. Announced'
    BY <1>20, <1>inv, SMTT(30)
       DEF Typed, Announced, Live, RunningCounted, StatusOfStopped, CloneUnread, WaitClone,
           Waiting, Return
  <2>4. HaltedNoneRuns' /\ ContTodo'
    BY <1>20, <1>inv
       DEF Typed, HaltedNoneRuns, ContTodo, Halted, Over, WaitClone, Waiting, Return
  <2> QED
    BY <2>1, <2>2, <2>3, <2>4 DEF IInv
<1>21. ASSUME NEW t \in Tids, WaitUnknown(t) \/ WaitTrap(t) \/ WaitStop(t) PROVE IInv'
  BY <1>21, ReadStatus
     DEF WaitUnknown, WaitTrap, WaitStop, Waiting, Return, Halted, Over, dvars, osvars
<1>22. ASSUME NEW t \in Tids, WaitSignal(t) PROVE IInv'
  <2>1. /\ t \in known /\ wstatus[t] # "CLONE"
        /\ dpc' \notin Halted /\ dpc' # "cont"
        /\ UNCHANGED <<child, known>>
    BY <1>22 DEF WaitSignal, Waiting, Return, Halted, Over
  <2>2. CASE resumeWithSig({t}, wstatus)
    BY <2>1, <2>2, ResumeOne
  <2>3. CASE wstatus' = [wstatus EXCEPT ![t] = None] /\ UNCHANGED <<kstate, running>>
    <3>1. wstatus[t] \notin {None, "EXITED"}
      BY <1>22 DEF WaitSignal
    <3> QED
      BY <2>1, <2>3, <3>1, ReadStatus
  <2> QED
    BY <2>2, <2>3, <1>22 DEF WaitSignal
<1>24. ASSUME NEW t \in Tids, WaitSignalDied(t) PROVE IInv'
  <2>1. /\ \A u \in Tids : ~Live(u)'
        /\ kstate' \in [Tids -> KStates] /\ DOMAIN running' = Tids
        /\ \A u \in Tids : kstate'[u] = "none" => kstate[u] = "none"
    BY <1>24, <1>inv DEF WaitSignalDied, ExitGroup, Typed, KStates, Live
  <2>2. /\ known' \subseteq known /\ UNCHANGED child /\ dpc' # "cont"
        /\ \A u \in Tids : IF Live(u) THEN kstate'[u] = "zombie" /\ wstatus'[u] = "EXITED"
                            ELSE kstate'[u] = kstate[u] /\ wstatus'[u] = wstatus[u]
        /\ DOMAIN wstatus' = Tids
    BY <1>24 DEF WaitSignalDied, ExitGroup, Waiting
  <2>3. Typed' /\ StatusOfStopped' /\ KnownExist'
    <3>1. wstatus' \in [Tids -> Sigs \cup {"STOP", "TRAP", "CLONE", "EXITED", None}]
      BY <1>24, <1>inv DEF WaitSignalDied, ExitGroup, Typed
    <3> QED
      BY <2>1, <2>2, <3>1, <1>inv DEF Typed, StatusOfStopped, KnownExist, Live
  <2>4. \A u \in Tids : wstatus'[u] # "CLONE"
    BY <2>2, <1>inv DEF CloneUnread, Live
  <2> QED
    BY <2>1, <2>2, <2>3, <2>4
       DEF IInv, RunningCounted, CloneUnread, OneParent, Announced, HaltedNoneRuns, ContTodo, Live
<1>23. CASE Detach
  <2>1. Typed' /\ RunningCounted' /\ StatusOfStopped' /\ KnownExist'
    BY <1>23, <1>inv
       DEF Typed, KStates, RunningCounted, StatusOfStopped, KnownExist, HaltedNoneRuns, Halted,
           Detach, osvars
  <2>2. CloneUnread' /\ OneParent'
    BY <1>23, <1>inv
       DEF Typed, CloneUnread, OneParent, RunningCounted, StatusOfStopped, HaltedNoneRuns,
           Halted, Detach, osvars
  <2>3. Announced'
    <3>1. \A t \in Tids : Live(t) => t \in known
      BY <1>23, <1>inv DEF Announced, HaltedNoneRuns, Halted, Detach
    <3>2. \A t \in Tids \ known : kstate'[t] = kstate[t]
      BY <1>23 DEF Detach
    <3>3. known' = known
      BY <1>23 DEF Detach
    <3> QED
      BY <3>1, <3>2, <3>3 DEF Announced, Live
  <2>4. HaltedNoneRuns' /\ ContTodo'
    BY <1>23, <1>inv
       DEF Typed, HaltedNoneRuns, ContTodo, Halted, Over, Detach, osvars
  <2> QED
    BY <2>1, <2>2, <2>3, <2>4 DEF IInv
<1> QED
  <2>1. CASE Program
    BY <2>1, <1>2, <1>3, <1>12, <1>13, <1>14 DEF Program
  <2>2. CASE Kernel
    BY <2>2, <1>15 DEF Kernel
  <2>3. CASE Backend
    BY <2>3, <1>5, <1>6, <1>7, <1>8, <1>9, <1>16, <1>17, <1>18, <1>19, <1>20, <1>21, <1>22,
       <1>24 DEF Backend
  <2>4. CASE User
    BY <2>4, <1>4, <1>10, <1>11, <1>23 DEF User
  <2> QED
    BY <2>1, <2>2, <2>3, <2>4, <1>1 DEF Next

(* IInv is an invariant of the backend.                                    *)
THEOREM IInvariant == Spec => []IInv
  BY InitIInv, NextIInv, PTL DEF Spec

(* When ContinueOnce returns every thread of the process is in             *)
(* dbp.threads: stop() cannot end before the clone event of every new      *)
(* thread has been read, because the parent counts as running until then.  *)
THEOREM ThreadsKnown == Spec => []EveryThreadKnown
<1>1. IInv => EveryThreadKnown
  BY DEF IInv, EveryThreadKnown, Announced, HaltedNoneRuns, Halted
<1> QED
  BY <1>1, IInvariant, PTL

(* Initially the target is stopped and no thread is at a breakpoint.       *)
LEMMA AbstractInit == Init => Abstract!Init
  BY DEF Init, Abstract!Init

(* Every step of the backend is one of AllStop or changes nothing there.   *)
LEMMA AbstractStep == IInv /\ [Next]_vars => [Abstract!Next]_(Abstract!vars)
<1> SUFFICES ASSUME IInv, [Next]_vars PROVE [Abstract!Next]_(Abstract!vars)
  OBVIOUS
<1> DEFINE w == IF dpc = "stopped" THEN "stopped" ELSE IF dpc \in Over THEN "over" ELSE "running"
<1>inv. HaltedNoneRuns
  BY DEF IInv
(* Steps that AllStop does not see.                                        *)
<1>1. ASSUME UNCHANGED <<dpc, known, pc, cur, bps>> PROVE [Abstract!Next]_(Abstract!vars)
  BY <1>1 DEF Abstract!vars
(* Steps inside ContinueOnce.                                              *)
<1>2. ASSUME w = "running", w' = "running", bps' = bps PROVE [Abstract!Next]_(Abstract!vars)
  BY <1>2 DEF Abstract!Next, Abstract!Run
(* The end of the process.                                                 *)
<1>3. ASSUME w # "over", w' = "over" PROVE [Abstract!Next]_(Abstract!vars)
  BY <1>3 DEF Abstract!Next, Abstract!End
<1>4. ASSUME NEW t \in Tids, Execute(t) \/ Clone(t) PROVE [Abstract!Next]_(Abstract!vars)
  BY <1>4, <1>2, <1>inv DEF Execute, Clone, HaltedNoneRuns, Halted, Over, dvars, osvars
<1>5. CASE UNCHANGED vars \/ ProcessExit \/ RequestManualStop
  BY <1>5, <1>1 DEF vars, ProcessExit, ExitGroup, RequestManualStop, kvars, dvars
<1>6. ASSUME NEW t \in Tids, NEW s \in Sigs \cup {"STOP", "TRAP"},
             ThreadExit(t) \/ SendSignal(t, s) \/ TakeSignal(t, s) \/ WaitUnknown(t)
      PROVE  [Abstract!Next]_(Abstract!vars)
  BY <1>6, <1>1 DEF ThreadExit, SendSignal, TakeSignal, WaitUnknown, dvars
<1>7. CASE ContinueOnce
  BY <1>7 DEF ContinueOnce, Abstract!Next, Abstract!Resume, Over, kvars
<1>8. CASE StepExecuted \/ StartCont \/ Drained \/ HaltWait
  BY <1>8, <1>2 DEF StepExecuted, StepDone, StartCont, Drained, HaltWait, Over
<1>9. ASSUME NEW s \in Sigs \cup {"STOP", "TRAP"}, StepSignal(s)
      PROVE  [Abstract!Next]_(Abstract!vars)
  BY <1>9, <1>2 DEF StepSignal, StepDone, Over
<1>10. ASSUME NEW t \in Tids, stepInstruction(t) \/ resume(t) \/ stopThread(t)
       PROVE  [Abstract!Next]_(Abstract!vars)
  BY <1>10, <1>2 DEF stepInstruction, resume, stopThread, Over
<1>11. ASSUME NEW t \in Tids, WaitClone(t) \/ WaitTrap(t) \/ WaitStop(t) \/ WaitSignal(t)
       PROVE  [Abstract!Next]_(Abstract!vars)
  BY <1>11, <1>2 DEF WaitClone, WaitTrap, WaitStop, WaitSignal, Waiting, Return, Over
<1>12. ASSUME NEW t \in Tids, WaitExited(t) \/ WaitSignalDied(t)
       PROVE  [Abstract!Next]_(Abstract!vars)
  BY <1>12, <1>2, <1>3 DEF WaitExited, WaitSignalDied, Waiting, Over
<1>13. CASE Detach
  BY <1>13, <1>3 DEF Detach, Over
<1>14. ASSUME NEW a \in Starts, WriteBreakpoint(a) \/ EraseBreakpoint(a)
       PROVE  [Abstract!Next]_(Abstract!vars)
  BY <1>14 DEF WriteBreakpoint, EraseBreakpoint, kvars,
               Abstract!Next, Abstract!SetBreakpoint, Abstract!ClearBreakpoint
<1>15. CASE stop1
  <2>1. CASE dpc' = "resume"
    BY <2>1, <1>15, <1>2 DEF stop1, Over
  <2>2. CASE dpc' = "stopped"
    <3>1. ASSUME NEW t \in known', cur'[t] # None
          PROVE  cur'[t] \in bps /\ pc'[t] = cur'[t]
      BY <3>1, <1>15 DEF IInv, Typed, stop1, Found, FindBreakpoint
    <3> QED
      BY <2>2, <3>1, <1>15 DEF stop1, Over, Abstract!Next, Abstract!Stop
  <2> QED
    BY <2>1, <2>2, <1>15 DEF stop1
<1> QED
  <2>1. CASE Program
    BY <2>1, <1>4, <1>5, <1>6 DEF Program
  <2>2. CASE Kernel
    BY <2>2, <1>6 DEF Kernel
  <2>3. CASE Backend
    BY <2>3, <1>6, <1>8, <1>9, <1>10, <1>11, <1>12, <1>15 DEF Backend
  <2>4. CASE User
    BY <2>4, <1>5, <1>7, <1>13, <1>14 DEF User
  <2> QED
    BY <2>1, <2>2, <2>3, <2>4, <1>5 DEF Next

(* The protocol in which threads stop one at a time is, seen from          *)
(* pkg/proc, a target that stops and resumes as a whole.                   *)
THEOREM LinuxImplementsAllStop == Spec => ImplementsAllStop
  BY IInvariant, AbstractInit, AbstractStep, PTL DEF Spec, ImplementsAllStop, Abstract!Spec

-----------------------------------------------------------------------------
(***************************************************************************)
(* PhantomRewound.  First what is known of threads that exit, then of one  *)
(* that has executed a trap: where it stands, and who still has to be told *)
(* about it.                                                               *)
(***************************************************************************)
AtRest == {"stopped", "resume", "step"}
Stopping == {"drain", "kill", "halt", "haltwait"}
AllDead == \A t \in Tids : ~Live(t)

(* The exit of a thread is read only by wait4: until then the thread       *)
(* counts as running, unless the whole process is dead.                    *)
ZombieCounted ==
  \A t \in Tids : kstate[t] = "zombie" =>
    wstatus[t] = "EXITED" /\ (AllDead \/ (t \in known /\ running[t]))

(* A process that dies during stop() has a thread that counts as running.  *)
DeadNoticed == dpc \in {"kill", "halt"} /\ AllDead => \E t \in known : running[t]

RestAlive == dpc \in AtRest => \A t \in Tids : kstate[t] # "zombie"

KnownAlive ==
  dpc \notin Over =>
    /\ Leader \in known
    /\ \A t \in known : kstate[t] \in {"running", "stopped", "zombie"}
    /\ \A t \in Tids : kstate[t] # "free"

(* No thread counts as running before resume() has resumed it.             *)
NotCounted ==
  /\ dpc \in AtRest => \A t \in known : ~running[t]
  /\ dpc = "cont" => \A t \in todo : ~running[t]

Dying == ZombieCounted /\ DeadNoticed /\ RestAlive /\ KnownAlive /\ NotCounted

(* A step that leaves the threads alone and takes none of the decisions of *)
(* stop() keeps Dying.                                                     *)
LEMMA DyingQuiet ==
  ASSUME Dying, UNCHANGED <<kstate, wstatus, known, running>>,
         dpc' \in AtRest => dpc \in AtRest,
         dpc' \in {"kill", "halt"} => dpc \in {"kill", "halt"},
         dpc' \notin Over => dpc \notin Over,
         dpc' = "cont" => \/ dpc = "cont" /\ todo' = todo
                          \/ dpc = "resume" /\ todo' = known
  PROVE  Dying'
<1>1. ZombieCounted' /\ DeadNoticed'
  BY DEF Dying, ZombieCounted, DeadNoticed, AllDead, Live
<1>2. RestAlive' /\ KnownAlive' /\ NotCounted'
  BY DEF Dying, RestAlive, KnownAlive, NotCounted, AtRest
<1> QED
  BY <1>1, <1>2 DEF Dying

(* PTRACE_CONT for a known thread keeps Dying.                             *)
LEMMA ResumeDying ==
  ASSUME IInv, Dying, NEW t \in known, NEW sig, resumeWithSig({t}, sig), UNCHANGED known,
         dpc \notin Over, dpc' \notin AtRest \cup {"kill", "halt"},
         dpc' = "cont" => dpc = "cont" /\ todo' = todo \ {t}
  PROVE  Dying'
<1>inv. Typed /\ ContTodo /\ ZombieCounted /\ KnownAlive /\ NotCounted
  BY DEF IInv, Dying
<1>1. /\ kstate' = [u \in Tids |-> IF u = t /\ kstate[u] = "stopped" THEN "running" ELSE kstate[u]]
      /\ wstatus' = [u \in Tids |-> IF u = t /\ kstate[u] = "stopped" THEN None ELSE wstatus[u]]
  BY DEF resumeWithSig
<1>2. \A u \in Tids : running'[u] <=> u = t \/ running[u]
  BY DEF resumeWithSig
<1>3. \A u \in Tids : /\ Live(u)' <=> Live(u)
                      /\ kstate'[u] = "zombie" => kstate[u] = "zombie" /\ wstatus'[u] = wstatus[u]
  BY <1>1 DEF Live
<1>4. ZombieCounted'
  BY <1>2, <1>3, <1>inv DEF ZombieCounted, AllDead
<1>5. DeadNoticed' /\ RestAlive'
  BY DEF DeadNoticed, RestAlive
<1>6. KnownAlive'
  BY <1>1, <1>inv DEF KnownAlive, Typed
<1>7. NotCounted'
  BY <1>2, <1>inv DEF NotCounted, ContTodo, Typed
<1> QED
  BY <1>4, <1>5, <1>6, <1>7 DEF Dying

(* Every step keeps Dying.                                                 *)
LEMMA NextDying == IInv /\ Dying /\ [Next]_vars => Dying'
<1> SUFFICES ASSUME IInv, Dying, [Next]_vars PROVE Dying'
  OBVIOUS
<1> USE LinuxAssumption
<1>inv. /\ Typed /\ RunningCounted /\ StatusOfStopped /\ CloneUnread /\ KnownExist
        /\ HaltedNoneRuns /\ ContTodo
        /\ ZombieCounted /\ DeadNoticed /\ RestAlive /\ KnownAlive /\ NotCounted
  BY DEF IInv, Dying
<1>1. CASE UNCHANGED vars
  BY <1>1, DyingQuiet DEF vars, kvars, dvars, osvars
<1>2. ASSUME NEW t \in Tids, Execute(t) PROVE Dying'
  BY <1>2, DyingQuiet DEF Execute, dvars, osvars
<1>3. ASSUME NEW t \in Tids, NEW s \in Sigs, SendSignal(t, s) PROVE Dying'
  BY <1>3, DyingQuiet DEF SendSignal, dvars, osvars
<1>4. CASE ContinueOnce
  BY <1>4, DyingQuiet DEF ContinueOnce, kvars, osvars, AtRest, Over
<1>5. ASSUME NEW t \in Tids, stepInstruction(t) PROVE Dying'
  BY <1>5, DyingQuiet DEF stepInstruction, kvars, osvars, AtRest, Over
<1>6. CASE StartCont
  BY <1>6, DyingQuiet DEF StartCont, kvars, osvars, AtRest, Over
<1>7. ASSUME NEW t \in Tids, stopThread(t) PROVE Dying'
  BY <1>7, DyingQuiet DEF stopThread, osvars, AtRest, Over
<1>8. CASE HaltWait
  BY <1>8, DyingQuiet DEF HaltWait, kvars, osvars, AtRest, Over
<1>9. CASE RequestManualStop
  BY <1>9, DyingQuiet DEF RequestManualStop, osvars
<1>10. ASSUME NEW a \in Starts, WriteBreakpoint(a) \/ EraseBreakpoint(a) PROVE Dying'
  BY <1>10, DyingQuiet DEF WriteBreakpoint, EraseBreakpoint, kvars, osvars
<1>11. CASE Drained
  <2>1. ZombieCounted'
    BY <1>11, <1>inv
       DEF Drained, kvars, osvars, ZombieCounted, AllDead, Live, Typed, RunningCounted
  <2>2. DeadNoticed'
    <3> SUFFICES ASSUME AllDead PROVE FALSE
      BY <1>11 DEF Drained, kvars, DeadNoticed, AllDead, Live
    <3>1. kstate[Leader] = "zombie" /\ wstatus[Leader] = "EXITED"
      BY <1>11, <1>inv DEF Drained, KnownAlive, AllDead, Live, Over, ZombieCounted, Tids
    <3>2. PICK u \in Others : kstate[u] \notin {"none", "gone"}
      BY <3>1, <1>11 DEF Drained, Waitable, Tids
    <3>3. kstate[u] = "zombie" /\ wstatus[u] = "EXITED"
      BY <3>2, <1>11, <1>inv
         DEF Drained, KnownAlive, AllDead, Live, Over, ZombieCounted, Tids, Typed, KStates
    <3> QED
      BY <3>3, <1>11 DEF Drained, Waitable, Tids
  <2>3. RestAlive' /\ NotCounted'
    BY <1>11, <1>inv
       DEF Drained, kvars, osvars, RestAlive, NotCounted, AtRest, Typed, HaltedNoneRuns, Halted,
           AtRest
  <2>4. KnownAlive'
    BY <1>11, <1>inv
       DEF Drained, kvars, osvars, KnownAlive, Typed, RunningCounted, Over, AtRest
  <2> QED
    BY <2>1, <2>2, <2>3, <2>4 DEF Dying
<1>12. CASE stop1
  <2>1. ZombieCounted'
    BY <1>12, <1>inv
       DEF stop1, ZombieCounted, AllDead, Live, Typed, RunningCounted, DeadNoticed
  <2>2. DeadNoticed'
    BY <1>12, <1>inv
       DEF stop1, ZombieCounted, DeadNoticed, AllDead, Live, Typed, RunningCounted
  <2>3. RestAlive' /\ NotCounted'
    BY <1>12, <1>inv
       DEF stop1, RestAlive, NotCounted, AtRest, Typed, HaltedNoneRuns, Halted, ZombieCounted,
           DeadNoticed
  <2>4. KnownAlive'
    BY <1>12, <1>inv
       DEF stop1, KnownAlive, Typed, RunningCounted, Over, ZombieCounted, DeadNoticed
  <2> QED
    BY <2>1, <2>2, <2>3, <2>4 DEF Dying
<1>13. ASSUME NEW t \in Tids, Clone(t) PROVE Dying'
  <2>1. ZombieCounted'
    BY <1>13, <1>inv
       DEF Clone, Fresh, dvars, osvars, Tids, KnownExist, ZombieCounted, AllDead, Live, Typed,
           RunningCounted
  <2>2. DeadNoticed'
    BY <1>13, <1>inv
       DEF Clone, Fresh, dvars, osvars, Tids, KnownExist, ZombieCounted, DeadNoticed, AllDead,
           Live, Typed, RunningCounted
  <2>3. RestAlive' /\ NotCounted'
    BY <1>13, <1>inv
       DEF Clone, Fresh, dvars, osvars, Tids, KnownExist, RestAlive, NotCounted, AtRest, Typed,
           HaltedNoneRuns, Halted
  <2>4. KnownAlive'
    BY <1>13, <1>inv
       DEF Clone, Fresh, dvars, osvars, Tids, KnownExist, KnownAlive, Typed, RunningCounted, Over
  <2> QED
    BY <2>1, <2>2, <2>3, <2>4 DEF Dying
<1>14. ASSUME NEW t \in Tids, ThreadExit(t) PROVE Dying'
  <2>1. ZombieCounted'
    BY <1>14, <1>inv
       DEF ThreadExit, dvars, osvars, ZombieCounted, AllDead, Live, Typed, RunningCounted
  <2>2. DeadNoticed'
    BY <1>14, <1>inv
       DEF ThreadExit, dvars, osvars, ZombieCounted, DeadNoticed, AllDead, Live, Typed,
           RunningCounted
  <2>3. RestAlive' /\ NotCounted'
    BY <1>14, <1>inv
       DEF ThreadExit, dvars, osvars, RestAlive, NotCounted, AtRest, Typed, HaltedNoneRuns, Halted
  <2>4. KnownAlive'
    BY <1>14, <1>inv
       DEF ThreadExit, dvars, osvars, KnownAlive, Typed, RunningCounted, Over
  <2> QED
    BY <2>1, <2>2, <2>3, <2>4 DEF Dying
<1>15. CASE ProcessExit
  <2>1. ZombieCounted'
    BY <1>15, <1>inv
       DEF ProcessExit, ExitGroup, dvars, osvars, ZombieCounted, AllDead, Live, Typed, RunningCounted
  <2>2. DeadNoticed'
    BY <1>15, <1>inv
       DEF ProcessExit, ExitGroup, dvars, osvars, ZombieCounted, DeadNoticed, AllDead, Live, Typed,
           RunningCounted
  <2>3. RestAlive' /\ NotCounted'
    BY <1>15, <1>inv
       DEF ProcessExit, ExitGroup, dvars, osvars, RestAlive, NotCounted, AtRest, Typed, HaltedNoneRuns,
           Halted, Live
  <2>4. KnownAlive'
    BY <1>15, <1>inv
       DEF ProcessExit, ExitGroup, dvars, osvars, KnownAlive, Typed, RunningCounted, Over, Live
  <2> QED
    BY <2>1, <2>2, <2>3, <2>4 DEF Dying
<1>16. ASSUME NEW t \in Tids, NEW s \in Sigs \cup {"STOP", "TRAP"}, TakeSignal(t, s) PROVE Dying'
  <2>1. ZombieCounted'
    BY <1>16, <1>inv
       DEF TakeSignal, dvars, osvars, ZombieCounted, AllDead, Live, Typed, RunningCounted
  <2>2. DeadNoticed'
    BY <1>16, <1>inv
       DEF TakeSignal, dvars, osvars, ZombieCounted, DeadNoticed, AllDead, Live, Typed,
           RunningCounted
  <2>3. RestAlive' /\ NotCounted'
    BY <1>16, <1>inv
       DEF TakeSignal, dvars, osvars, RestAlive, NotCounted, AtRest, Typed, HaltedNoneRuns, Halted
  <2>4. KnownAlive'
    BY <1>16, <1>inv
       DEF TakeSignal, dvars, osvars, KnownAlive, Typed, RunningCounted, Over
  <2> QED
    BY <2>1, <2>2, <2>3, <2>4 DEF Dying
<1>17. CASE StepExecuted \/ \E s \in Sigs \cup {"STOP", "TRAP"} : StepSignal(s)
  <2>1. ZombieCounted'
    BY <1>17, <1>inv
       DEF StepExecuted, StepSignal, StepDone, osvars, ZombieCounted, AllDead, Live, Typed,
           RunningCounted, RestAlive, AtRest
  <2>2. DeadNoticed'
    BY <1>17, <1>inv
       DEF StepExecuted, StepSignal, StepDone, osvars, ZombieCounted, DeadNoticed, AllDead, Live,
           Typed, RunningCounted
  <2>3. RestAlive' /\ NotCounted'
    <3>1. /\ kstate' = kstate /\ known' = known /\ running' = running
          /\ dpc = "step" /\ dpc' \in {"step", "resume"}
      BY <1>17 DEF StepExecuted, StepSignal, StepDone, osvars
    <3> QED
      BY <3>1, <1>inv DEF RestAlive, NotCounted, AtRest
  <2>4. KnownAlive'
    BY <1>17, <1>inv
       DEF StepExecuted, StepSignal, StepDone, osvars, KnownAlive, Typed, RunningCounted, Over
  <2> QED
    BY <2>1, <2>2, <2>3, <2>4 DEF Dying
<1>18. ASSUME NEW t \in Tids, resume(t) PROVE Dying'
  BY <1>18, <1>inv, ResumeDying DEF resume, ContTodo, AtRest, Over
<1>19. ASSUME NEW t \in Tids, WaitExited(t) PROVE Dying'
  <2>1. ZombieCounted'
    BY <1>19, <1>inv
       DEF WaitExited, Waiting, osvars, ZombieCounted, AllDead, Live, Typed, RunningCounted
  <2>2. DeadNoticed'
    BY <1>19, <1>inv
       DEF WaitExited, Waiting, osvars, ZombieCounted, DeadNoticed, AllDead, Live, Typed,
           RunningCounted
  <2>3. RestAlive' /\ NotCounted'
    BY <1>19, <1>inv
       DEF WaitExited, Waiting, osvars, RestAlive, NotCounted, AtRest, Typed, HaltedNoneRuns,
           Halted, Tids
  <2>4. KnownAlive'
    BY <1>19, <1>inv
       DEF WaitExited, Waiting, osvars, KnownAlive, Typed, RunningCounted, Over, Tids
  <2> QED
    BY <2>1, <2>2, <2>3, <2>4 DEF Dying
<1>20. ASSUME NEW t \in Tids, WaitClone(t) PROVE Dying'
  <2>1. ZombieCounted'
    BY <1>20, <1>inv, SMTT(30)
       DEF WaitClone, Waiting, Return, CloneUnread, Tids, ZombieCounted, AllDead, Live, Typed,
           RunningCounted
  <2>2. DeadNoticed'
    BY <1>20, <1>inv, ZenonT(60)
       DEF WaitClone, Waiting, Return, CloneUnread, Tids, ZombieCounted, DeadNoticed, AllDead,
           Live, Typed, RunningCounted, StatusOfStopped
  <2>3. RestAlive' /\ NotCounted'
    BY <1>20, <1>inv
       DEF WaitClone, Waiting, Return, CloneUnread, Tids, RestAlive, NotCounted, AtRest, Typed,
           HaltedNoneRuns, Halted
  <2>4. KnownAlive'
    BY <1>20, <1>inv, SMTT(30)
       DEF WaitClone, Waiting, Return, CloneUnread, Tids, KnownAlive, Typed, RunningCounted, Over
  <2> QED
    BY <2>1, <2>2, <2>3, <2>4 DEF Dying
<1>21. ASSUME NEW t \in Tids, WaitUnknown(t) \/ WaitTrap(t) \/ WaitStop(t) PROVE Dying'
  <2>1. ZombieCounted'
    BY <1>21, <1>inv, ZenonT(60)
       DEF WaitUnknown, WaitTrap, WaitStop, Waiting, Return, StatusOfStopped, dvars, osvars,
           ZombieCounted, AllDead, Live, Typed, RunningCounted
  <2>2. DeadNoticed'
    BY <1>21, <1>inv, ZenonT(60)
       DEF WaitUnknown, WaitTrap, WaitStop, Waiting, Return, StatusOfStopped, dvars, osvars,
           ZombieCounted, DeadNoticed, AllDead, Live, Typed, RunningCounted
  <2>3. RestAlive' /\ NotCounted'
    BY <1>21, <1>inv
       DEF WaitUnknown, WaitTrap, WaitStop, Waiting, Return, StatusOfStopped, dvars, osvars,
           RestAlive, NotCounted, AtRest, Typed, HaltedNoneRuns, Halted
  <2>4. KnownAlive'
    BY <1>21, <1>inv
       DEF WaitUnknown, WaitTrap, WaitStop, Waiting, Return, StatusOfStopped, dvars, osvars,
           KnownAlive, Typed, RunningCounted, Over
  <2> QED
    BY <2>1, <2>2, <2>3, <2>4 DEF Dying
<1>22. ASSUME NEW t \in Tids, WaitSignal(t) PROVE Dying'
  <2>1. CASE resumeWithSig({t}, wstatus) /\ UNCHANGED <<delayed, dpc>>
    BY <2>1, <1>22, ResumeDying DEF WaitSignal, Waiting, AtRest, Over
  <2>2. CASE /\ wstatus' = [wstatus EXCEPT ![t] = None]
             /\ dpc = "haltwait" /\ Return /\ UNCHANGED <<kstate, held, running>>
    <3>1. kstate[t] # "zombie" /\ UNCHANGED known
      BY <1>22, <1>inv DEF WaitSignal, ZombieCounted
    <3>2. Live(t)
      BY <1>22, <1>inv DEF WaitSignal, StatusOfStopped, ZombieCounted, Typed, KStates, Live
    <3>3. ZombieCounted' /\ DeadNoticed'
      BY <2>2, <3>1, <3>2, <1>inv DEF ZombieCounted, DeadNoticed, AllDead, Live, Typed
    <3>4. RestAlive' /\ KnownAlive' /\ NotCounted'
      BY <2>2, <3>1, <1>inv DEF RestAlive, KnownAlive, NotCounted, Return, AtRest, Over
    <3> QED
      BY <3>3, <3>4 DEF Dying
  <2> QED
    BY <1>22, <2>1, <2>2 DEF WaitSignal
<1>24. ASSUME NEW t \in Tids, WaitSignalDied(t) PROVE Dying'
  <2>1. /\ dpc \in Waiting /\ dpc' \notin AtRest \cup {"kill", "halt", "cont"}
        /\ known' \subseteq known /\ (Leader \in known => Leader \in known')
        /\ \A u \in Tids : IF Live(u) THEN kstate'[u] = "zombie" /\ wstatus'[u] = "EXITED"
                            ELSE kstate'[u] = kstate[u] /\ wstatus'[u] = wstatus[u]
    BY <1>24 DEF WaitSignalDied, ExitGroup, Waiting, AtRest
  <2>2. AllDead'
    BY <2>1 DEF AllDead, Live
  <2>3. ZombieCounted'
    BY <2>1, <2>2, <1>inv DEF ZombieCounted
  <2>4. KnownAlive'
    BY <2>1, <1>inv DEF KnownAlive, Typed, Waiting, Over
  <2> QED
    BY <2>1, <2>3, <2>4 DEF Dying, DeadNoticed, RestAlive, NotCounted
<1>23. CASE Detach
  <2>1. ZombieCounted'
    BY <1>23, <1>inv
       DEF Detach, osvars, ZombieCounted, AllDead, Live, Typed, RunningCounted, RestAlive, AtRest
  <2>2. DeadNoticed'
    BY <1>23, <1>inv
       DEF Detach, osvars, ZombieCounted, DeadNoticed, AllDead, Live, Typed, RunningCounted
  <2>3. RestAlive' /\ NotCounted'
    BY <1>23, <1>inv
       DEF Detach, osvars, RestAlive, NotCounted, AtRest, Typed, HaltedNoneRuns, Halted
  <2>4. KnownAlive'
    BY <1>23, <1>inv
       DEF Detach, osvars, KnownAlive, Typed, RunningCounted, Over
  <2> QED
    BY <2>1, <2>2, <2>3, <2>4 DEF Dying
<1> QED
  <2>1. CASE Program
    BY <2>1, <1>2, <1>3, <1>13, <1>14, <1>15 DEF Program
  <2>2. CASE Kernel
    BY <2>2, <1>16 DEF Kernel
  <2>3. CASE Backend
    BY <2>3, <1>5, <1>6, <1>11, <1>7, <1>8, <1>18, <1>17, <1>12,
       <1>19, <1>20, <1>21, <1>22, <1>24 DEF Backend
  <2>4. CASE User
    BY <2>4, <1>4, <1>9, <1>10, <1>23 DEF User
  <2> QED
    BY <2>1, <2>2, <2>3, <2>4, <1>1 DEF Next
-----------------------------------------------------------------------------

(* A SIGTRAP of the thread has not been dealt with: it is pending, not     *)
(* read, or read by the stop() in progress.                                *)
Trapped(t) ==
  "TRAP" \in pend[t] \/ wstatus[t] = "TRAP" \/ (setbp[t] /\ dpc \in Stopping)

(* What the debugger can tell of a thread in the middle of an instruction: *)
(* that its SIGTRAP is still to come, and that it went over a breakpoint,  *)
(* which is still set or was recorded as a phantom hit by an earlier stop. *)
HitTold(t) ==
  /\ Live(t) /\ Trapped(t) => pc[t] - 1 \in Starts
  /\ Live(t) /\ pc[t] \notin Starts =>
       Trapped(t) /\ pc[t] - 1 \in Breakable /\ (pc[t] - 1 \in bps \/ phantom[t] = pc[t])
  /\ Live(t) /\ pc[t] \notin Starts /\ dpc = "stopped" => phantom[t] = pc[t]
  /\ Live(t) /\ t \notin known => pc[t] \in Starts /\ ~Trapped(t)

(* One SIGTRAP at a time, and where it is.                                 *)
TrapPlace(t) ==
  /\ Live(t) /\ setbp[t] /\ dpc \in Stopping =>
       t \in known /\ kstate[t] = "stopped" /\ wstatus[t] = None /\ "TRAP" \notin pend[t]
  /\ wstatus[t] = "TRAP" => "TRAP" \notin pend[t]
  /\ t \in known /\ ~running[t] => wstatus[t] # "TRAP"
  /\ kstate[t] = "none" => ~setbp[t]

(* A thread about to step over a breakpoint is at it.                      *)
AtCurrent(t) == dpc \in AtRest /\ t \in known /\ cur[t] # None => pc[t] = cur[t]

Hits(t) == HitTold(t) /\ TrapPlace(t) /\ AtCurrent(t)

(* Until a manual stop is asked for, no SIGTRAP has another origin.        *)
AllHits == ~asked /\ dpc \notin Over => \A t \in Tids : Hits(t)

HitTypes ==
  /\ pc \in [Tids -> Int] /\ bps \subseteq Breakable
  /\ cur \in [Tids -> Breakable \cup {None}]
  /\ pend \in [Tids -> SUBSET (Sigs \cup {"STOP", "TRAP"})]
  /\ DOMAIN phantom = Tids /\ DOMAIN setbp = Tids
  /\ ~asked => ~group /\ ~manual
  /\ dpc = "step" => stepper \in known /\ cur[stepper] # None

(* A set of natural numbers has a least element.                           *)
LEMMA LeastElement ==
  ASSUME NEW T, T \subseteq Nat, T # {}
  PROVE  \E x \in T : \A y \in T : x <= y
<1>1. PICK x \in T : \A y \in T : ~(<<y, x>> \in OpToRel(<, Nat))
  BY NatLessThanWellFounded, WFMin
<1>2. \A y \in T : ~(y < x)
  BY <1>1 DEF OpToRel
<1> QED
  BY <1>2, SMTT(30)

(* Breakpoints are set on instructions, not on the program's own.          *)
LEMMA Addresses ==
  /\ Starts \subseteq Int /\ Breakable \subseteq Starts /\ None \notin Starts
  /\ \A a \in Breakable : a \notin Hard
<1>1. Starts \subseteq Nat /\ None \notin Nat
  BY LinuxAssumption
<1>2. Starts \subseteq Int
  BY <1>1, SMTT(30)
<1> QED
  BY <1>1, <1>2 DEF Breakable

(* No wait status passes for another or for none.                          *)
LEMMA Names ==
  None \notin {"STOP", "TRAP", "CLONE", "EXITED"} /\ "TRAP" \notin Sigs /\ None \notin Sigs
  BY LinuxAssumption

(* The program goes from an instruction to an instruction.                 *)
LEMMA AfterStart ==
  ASSUME NEW a \in Int
  PROVE  After(a) \in Starts /\ After(a) \in Int
<1> DEFINE later == {b \in Starts : b > a}
           next == IF later = {} THEN Starts ELSE later
<1>1. next \subseteq Starts /\ next \subseteq Nat /\ next # {}
  BY LinuxAssumption
<1>2. \E x \in next : \A y \in next : x <= y
  BY <1>1, LeastElement
<1>3. After(a) \in next
  BY <1>2 DEF After
<1> QED
  BY <1>1, <1>3, Addresses

(* The initial states are as HitTypes and Hits say.                        *)
LEMMA InitHits == Init => HitTypes /\ AllHits
<1> SUFFICES ASSUME Init PROVE HitTypes /\ AllHits
  OBVIOUS
<1> USE LinuxAssumption
<1>1. After(0) \in Starts
  BY AfterStart, SMTT(30)
<1>2. /\ dpc = "stopped" /\ bps = {} /\ ~group /\ ~manual
      /\ kstate = [t \in Tids |-> IF t \in known THEN "stopped" ELSE "none"]
      /\ pc \in [Tids -> {After(0)}] /\ pend = [t \in Tids |-> {}]
      /\ wstatus = [t \in Tids |-> None] /\ cur = [t \in Tids |-> None]
      /\ DOMAIN phantom = Tids
  BY DEF Init
<1>3. DOMAIN setbp = Tids /\ \A t \in Tids : ~setbp[t]
  BY DEF Init
<1>4. HitTypes
  <2>1. After(0) \in Int
    BY <1>1, Addresses
  <2>2. pc \in [Tids -> Int]
    BY <2>1, <1>2
  <2> QED
    BY <2>2, <1>2, <1>3 DEF HitTypes
<1>5. ASSUME NEW t \in Tids PROVE Hits(t)
  <2>1. ~Trapped(t) /\ pc[t] \in Starts
    BY <1>1, <1>2, <1>3 DEF Trapped
  <2> QED
    BY <2>1, <1>2, <1>3 DEF Hits, HitTold, TrapPlace, AtCurrent, Live
<1> QED
  BY <1>4, <1>5 DEF AllHits

(* A step that leaves a thread alone keeps Hits of it.                     *)
LEMMA HitsFrame ==
  ASSUME NEW t \in Tids, Hits(t),
         kstate'[t] = kstate[t], pc'[t] = pc[t], wstatus'[t] = wstatus[t],
         phantom'[t] = phantom[t], cur'[t] = cur[t],
         "TRAP" \in pend'[t] <=> "TRAP" \in pend[t],
         setbp'[t] /\ dpc' \in Stopping <=> setbp[t] /\ dpc \in Stopping,
         setbp'[t] => setbp[t], running[t] => running'[t],
         t \in known' <=> t \in known, bps \subseteq bps',
         dpc' = "stopped" => dpc = "stopped", dpc' \in AtRest => dpc \in AtRest
  PROVE  Hits(t)'
<1>1. (Trapped(t)' <=> Trapped(t)) /\ (Live(t)' <=> Live(t))
  BY DEF Trapped, Live
<1>2. HitTold(t)'
  BY <1>1 DEF Hits, HitTold
<1>3. TrapPlace(t)' /\ AtCurrent(t)'
  BY <1>1 DEF Hits, TrapPlace, AtCurrent
<1> QED
  BY <1>2, <1>3 DEF Hits

(* A thread that dies has nothing to tell.                                 *)
LEMMA HitsDead ==
  ASSUME NEW t \in Tids, Hits(t), ~Live(t)', wstatus'[t] # "TRAP", kstate'[t] # "none",
         pc'[t] = pc[t], cur'[t] = cur[t], t \in known' => t \in known,
         dpc' \in AtRest => dpc \in AtRest
  PROVE  Hits(t)'
  BY DEF Hits, HitTold, TrapPlace, AtCurrent

(* A step that leaves addresses and signals alone keeps HitTypes.          *)
LEMMA TypesQuiet ==
  ASSUME HitTypes, UNCHANGED <<pc, bps, cur, pend, phantom, setbp>>,
         UNCHANGED <<asked, group, manual>> \/ asked',
         dpc' = "step" => (dpc = "step" /\ stepper' = stepper /\ known' = known)
                          \/ (stepper' \in known' /\ cur[stepper'] # None)
  PROVE  HitTypes'
  BY SMTT(30) DEF HitTypes

(* Every step keeps HitTypes.                                              *)
LEMMA NextHitTypes == IInv /\ HitTypes /\ [Next]_vars => HitTypes'
<1> SUFFICES ASSUME IInv, HitTypes, [Next]_vars PROVE HitTypes'
  OBVIOUS
<1>inv. Typed
  BY DEF IInv
<1>1. CASE UNCHANGED vars
  BY <1>1, TypesQuiet DEF vars, kvars, dvars, osvars
<1>2. ASSUME NEW t \in Tids, Execute(t) PROVE HitTypes'
  <2>1. pc[t] \in Int /\ After(pc[t]) \in Int /\ pc[t] + 1 \in Int
    BY <1>2, AfterStart, SMTT(30) DEF HitTypes
  <2>2. pc' \in [Tids -> Int] /\ pend' \in [Tids -> SUBSET (Sigs \cup {"STOP", "TRAP"})]
    BY <1>2, <2>1, SMTT(30) DEF HitTypes, Execute
  <2> QED
    BY <1>2, <2>2 DEF HitTypes, Execute, dvars, osvars
<1>3. ASSUME NEW t \in Tids, Clone(t) PROVE HitTypes'
  <2>1. pc[t] \in Int /\ After(pc[t]) \in Int
    BY <1>3, AfterStart DEF HitTypes
  <2>2. pc' \in [Tids -> Int] /\ pend' \in [Tids -> SUBSET (Sigs \cup {"STOP", "TRAP"})]
    BY <1>3, <2>1 DEF HitTypes, Clone
  <2> QED
    BY <1>3, <2>2 DEF HitTypes, Clone, dvars, osvars
<1>4. ASSUME NEW t \in Tids, ThreadExit(t) \/ ProcessExit \/ WaitSignalDied(t) PROVE HitTypes'
  <2>1. /\ UNCHANGED <<pc, bps, cur, phantom, setbp, asked, manual>>
        /\ UNCHANGED <<dpc, known, stepper>> \/ dpc' # "step"
        /\ group' = group \/ ~group'
        /\ pend' \in {[pend EXCEPT ![t] = {}], [u \in Tids |-> {}]}
    BY <1>4 DEF ThreadExit, ProcessExit, WaitSignalDied, ExitGroup, Waiting, dvars, osvars
  <2>2. group' => group
    BY <2>1
  <2>3. pend' \in [Tids -> SUBSET (Sigs \cup {"STOP", "TRAP"})]
    BY <2>1 DEF HitTypes
  <2> QED
    BY <2>1, <2>2, <2>3 DEF HitTypes
<1>5. ASSUME NEW t \in Tids, NEW s \in Sigs \cup {"STOP", "TRAP"},
             SendSignal(t, s) \/ TakeSignal(t, s)
      PROVE  HitTypes'
  BY <1>5, SMTT(30) DEF HitTypes, SendSignal, TakeSignal, dvars, osvars
<1>6. CASE ContinueOnce \/ StartCont \/ RequestManualStop \/ Drained \/ HaltWait \/ Detach
  <2>1. CASE ContinueOnce
    BY <2>1 DEF HitTypes, ContinueOnce, kvars, osvars
  <2>2. CASE StartCont
    BY <2>2, TypesQuiet DEF StartCont, kvars, osvars
  <2>3. CASE RequestManualStop
    BY <2>3, TypesQuiet DEF RequestManualStop, osvars
  <2>4. CASE Drained
    BY <2>4, TypesQuiet DEF Drained, kvars, osvars
  <2>5. CASE HaltWait
    BY <2>5, TypesQuiet DEF HaltWait, kvars, osvars
  <2>6. CASE Detach
    BY <2>6, TypesQuiet DEF Detach, osvars
  <2> QED
    BY <1>6, <2>1, <2>2, <2>3, <2>4, <2>5, <2>6
<1>7. ASSUME NEW t \in Tids, stepInstruction(t) PROVE HitTypes'
  BY <1>7, TypesQuiet DEF stepInstruction, kvars, dvars, osvars
<1>8. ASSUME NEW t \in Tids,
             resume(t) \/ WaitExited(t) \/ WaitUnknown(t) \/ WaitStop(t) \/ WaitSignal(t)
      PROVE  HitTypes'
  BY <1>8, TypesQuiet
     DEF resume, WaitExited, WaitUnknown, WaitStop, WaitSignal, Waiting, Return, dvars, osvars
<1>9. ASSUME NEW t \in Tids, stopThread(t) PROVE HitTypes'
  BY <1>9 DEF HitTypes, stopThread, dvars, osvars
<1>10. ASSUME NEW t \in Tids, WaitTrap(t) PROVE HitTypes'
  <2>1. DOMAIN setbp' = Tids
    BY <1>10 DEF HitTypes, WaitTrap
  <2> QED
    BY <1>10, <2>1 DEF HitTypes, WaitTrap, Waiting, Return
<1>11. ASSUME NEW t \in Tids, WaitClone(t) PROVE HitTypes'
  BY <1>11 DEF HitTypes, WaitClone, Waiting, Return
<1>12. ASSUME NEW s \in Sigs \cup {"STOP", "TRAP"}, StepSignal(s) PROVE HitTypes'
  BY <1>12, SMTT(30) DEF HitTypes, StepSignal, StepDone
<1>13. CASE StepExecuted
  <2>1. stepper \in Tids
    BY <1>13, <1>inv DEF HitTypes, StepExecuted, Typed
  <2>2. After(pc[stepper]) \in Int
    BY <2>1, AfterStart DEF HitTypes
  <2>3. pc' \in [Tids -> Int]
    BY <1>13, <2>2 DEF HitTypes, StepExecuted
  <2> QED
    BY <1>13, <2>3 DEF HitTypes, StepExecuted, StepDone, osvars
<1>14. CASE stop1
  <2>1. \A t \in Tids : Found(t) \in Breakable \cup {None}
    BY DEF HitTypes, Found, FindBreakpoint
  <2>2. cur' \in [Tids -> Breakable \cup {None}]
    BY <2>1, <1>14 DEF HitTypes, stop1
  <2>3. \A t \in Tids : pc[t] - 1 \in Int
    BY SMTT(30) DEF HitTypes
  <2>6. \A t \in Tids : Found(t) # None => Found(t) \in Int
    BY <2>1, Addresses
  <2>4. pc' \in [Tids -> Int]
    BY <2>3, <2>6, <1>14 DEF HitTypes, stop1
  <2>5. DOMAIN phantom' = Tids /\ DOMAIN setbp' = Tids /\ dpc' # "step"
    BY <1>14, ZenonT(40) DEF stop1
  <2> QED
    BY <1>14, <2>2, <2>4, <2>5 DEF HitTypes, stop1
<1>15. ASSUME NEW a \in Starts, WriteBreakpoint(a) \/ EraseBreakpoint(a) PROVE HitTypes'
  BY <1>15, SMTT(30) DEF HitTypes, WriteBreakpoint, EraseBreakpoint, kvars, osvars
<1> QED
  <2>1. CASE Program
    BY <2>1, <1>2, <1>3, <1>4, <1>5 DEF Program, Tids
  <2>2. CASE Kernel
    BY <2>2, <1>5 DEF Kernel
  <2>3. CASE Backend
    BY <2>3, <1>4, <1>6, <1>7, <1>8, <1>9, <1>10, <1>11, <1>12, <1>13, <1>14 DEF Backend
  <2>4. CASE User
    BY <2>4, <1>6, <1>15 DEF User
  <2> QED
    BY <2>1, <2>2, <2>3, <2>4, <1>1 DEF Next

(* A process that exited or was detached from stays so; a request for a    *)
(* manual stop is not forgotten.                                           *)
LEMMA OverStays == [Next]_vars => (dpc \in Over => dpc' \in Over) /\ (asked => asked')
<1> SUFFICES ASSUME [Next]_vars PROVE (dpc \in Over => dpc' \in Over) /\ (asked => asked')
  OBVIOUS
<1>1. CASE Program \/ Kernel \/ UNCHANGED vars
  <2>1. \A t \in Tids : Execute(t) \/ ThreadExit(t) => dpc' = dpc /\ asked' = asked
    BY DEF Execute, ThreadExit, dvars
  <2>2. \A t \in Tids : Clone(t) => dpc' = dpc /\ asked' = asked
    BY DEF Clone, dvars
  <2>3. /\ \A t \in Tids, s \in Sigs : SendSignal(t, s) => dpc' = dpc /\ asked' = asked
        /\ ProcessExit \/ UNCHANGED vars => dpc' = dpc /\ asked' = asked
    BY DEF SendSignal, ProcessExit, ExitGroup, vars, dvars
  <2>4. Kernel => dpc' = dpc /\ asked' = asked
    BY DEF Kernel, TakeSignal, dvars
  <2>5. dpc' = dpc /\ asked' = asked
    BY <1>1, <2>1, <2>2, <2>3, <2>4 DEF Program
  <2> QED
    BY <2>5
<1>2. CASE User
  BY <1>2, SMTT(30) DEF User, ContinueOnce, RequestManualStop, Detach, WriteBreakpoint, EraseBreakpoint, Over
<1>3. CASE Backend
  <2>1. \A t \in Tids : stepInstruction(t) \/ resume(t) \/ stopThread(t) =>
                          dpc \notin Over /\ asked' = asked
    BY DEF stepInstruction, resume, stopThread, Over
  <2>2. StepExecuted \/ StartCont \/ Drained \/ HaltWait \/ stop1 =>
          dpc \notin Over /\ asked' = asked
    BY DEF StepExecuted, StartCont, Drained, HaltWait, stop1, Over
  <2>3. \A s \in Sigs \cup {"STOP", "TRAP"} : StepSignal(s) => dpc \notin Over /\ asked' = asked
    BY DEF StepSignal, Over
  <2>4. \A t \in Tids : WaitExited(t) \/ WaitClone(t) \/ WaitUnknown(t) =>
                          dpc \notin Over /\ asked' = asked
    BY DEF WaitExited, WaitClone, WaitUnknown, Waiting, Over
  <2>5. \A t \in Tids : WaitTrap(t) \/ WaitStop(t) \/ WaitSignal(t) \/ WaitSignalDied(t) =>
                          dpc \notin Over /\ asked' = asked
    BY DEF WaitTrap, WaitStop, WaitSignal, WaitSignalDied, Waiting, Over
  <2> QED
    BY <1>3, <2>1, <2>2, <2>3, <2>4, <2>5, SMTT(30) DEF Backend
<1> QED
  BY <1>1, <1>2, <1>3 DEF Next

(* A thread that executes an instruction, or the breakpoint over it.       *)
LEMMA ExecuteHits ==
  ASSUME IInv, HitTypes, \A u \in Tids : Hits(u), NEW t \in Tids, Execute(t)
  PROVE  \A u \in Tids : Hits(u)'
<1>inv. /\ Typed /\ RunningCounted /\ StatusOfStopped /\ HaltedNoneRuns
  BY DEF IInv
<1>1. ASSUME NEW u \in Tids \ {t} PROVE Hits(u)'
  <2>1. pc'[u] = pc[u] /\ pend'[u] = pend[u]
    BY <1>1 DEF Execute, HitTypes
  <2> QED
    BY <2>1, HitsFrame DEF Execute, dvars, osvars
<1>2. /\ Live(t) /\ Live(t)' /\ kstate[t] = "running" /\ t \in known /\ running[t]
      /\ wstatus[t] = None /\ dpc \notin AtRest
  BY <1>inv
     DEF Execute, Live, RunningCounted, StatusOfStopped, HaltedNoneRuns, Halted, AtRest
<1>3. ~(setbp[t] /\ dpc \in Stopping)
  BY <1>2 DEF Hits, TrapPlace
<1>4. TrapPlace(t)' /\ AtCurrent(t)'
  BY <1>2, <1>3, Names DEF TrapPlace, AtCurrent, Execute, dvars, osvars
<1>5. HitTold(t)'
  <2>1. CASE pc[t] \in bps \cup Hard
    <3>1. pc'[t] = pc[t] + 1 /\ "TRAP" \in pend'[t]
      BY <2>1, ZenonT(60) DEF Execute, HitTypes
    <3>2. pc[t] \in Starts /\ pc[t] \in Int /\ pc'[t] - 1 = pc[t]
      <4>1. pc[t] \in Starts /\ pc[t] \in Int
        BY DEF Execute, HitTypes
      <4> QED
        BY <4>1, <3>1, SMTT(30)
    <3>3. pc[t] \in Hard => pc'[t] \in Starts
      BY <3>1, LinuxAssumption
    <3>4. pc'[t] \notin Starts => pc[t] \in Breakable /\ pc[t] \in bps
      BY <3>2, <3>3, <2>1 DEF Breakable
    <3>5. UNCHANGED <<bps, dpc, known, phantom>>
      BY DEF Execute, dvars, osvars
    <3> QED
      BY <3>1, <3>2, <3>4, <3>5, <1>2 DEF HitTold, Trapped, AtRest
  <2>2. CASE pc[t] \notin bps \cup Hard
    <3>1. pc'[t] = After(pc[t]) /\ pend' = pend /\ "TRAP" \notin pend[t] /\ pc[t] \in Int
      BY <2>2 DEF Execute, HitTypes
    <3>2. pc'[t] \in Starts
      BY <3>1, AfterStart
    <3>3. ~Trapped(t)'
      BY <3>1, <1>2, <1>3, Names DEF Trapped, Execute, dvars, osvars
    <3> QED
      BY <3>2, <3>3 DEF HitTold
  <2> QED
    BY <2>1, <2>2
<1> QED
  BY <1>1, <1>4, <1>5 DEF Hits

(* A thread that clones another, which starts at an instruction.           *)
LEMMA CloneHits ==
  ASSUME IInv, HitTypes, \A u \in Tids : Hits(u), NEW t \in Tids, Clone(t)
  PROVE  \A u \in Tids : Hits(u)'
<1>inv. /\ Typed /\ RunningCounted /\ StatusOfStopped /\ HaltedNoneRuns /\ KnownExist
  BY DEF IInv
<1>1. PICK c \in Others : c = Fresh /\ kstate[c] = "none" /\ kstate[t] = "running"
  BY DEF Clone, Fresh
<1>2. c \in Tids /\ c # t /\ c \notin known /\ wstatus[c] = None
  BY <1>1, <1>inv DEF Tids, KnownExist, StatusOfStopped
<1>3. /\ kstate' = [kstate EXCEPT ![t] = "stopped", ![c] = "born"]
      /\ wstatus' = [wstatus EXCEPT ![t] = "CLONE"]
      /\ pend' = [pend EXCEPT ![c] = {"STOP"}]
      /\ pc' = [pc EXCEPT ![t] = After(@), ![c] = pc[t]]
      /\ UNCHANGED <<known, running, setbp, phantom, cur, bps, dpc>>
  BY <1>1 DEF Clone, dvars, osvars
<1>4. ASSUME NEW u \in Tids \ {t, c} PROVE Hits(u)'
  <2>1. pc'[u] = pc[u] /\ pend'[u] = pend[u] /\ wstatus'[u] = wstatus[u] /\ kstate'[u] = kstate[u]
    BY <1>3, <1>4, <1>inv DEF Typed, HitTypes
  <2> QED
    BY <2>1, <1>3, HitsFrame
<1>5. /\ t \in known /\ running[t] /\ dpc \notin AtRest /\ ~(setbp[t] /\ dpc \in Stopping)
      /\ pc[t] \in Starts /\ "TRAP" \notin pend[t]
  BY <1>1, <1>inv, Addresses
     DEF Clone, RunningCounted, HaltedNoneRuns, Halted, AtRest, Hits, TrapPlace, Live
<1>6. Hits(t)'
  <2>1. /\ pc'[t] = After(pc[t]) /\ kstate'[t] = "stopped" /\ wstatus'[t] = "CLONE"
        /\ pend'[t] = pend[t]
    BY <1>2, <1>3, <1>inv DEF Typed, HitTypes
  <2>2. pc'[t] \in Starts
    BY <2>1, AfterStart DEF HitTypes
  <2>3. ~Trapped(t)'
    BY <2>1, <1>3, <1>5 DEF Trapped
  <2> QED
    BY <2>1, <2>2, <2>3, <1>3, <1>5 DEF Hits, HitTold, TrapPlace, AtCurrent
<1>7. Hits(c)'
  <2>1. pc'[c] = pc[t] /\ kstate'[c] = "born" /\ wstatus'[c] = None /\ pend'[c] = {"STOP"}
    BY <1>2, <1>3, <1>inv DEF Typed, HitTypes
  <2>2. ~setbp'[c]
    BY <1>1, <1>2, <1>3 DEF Hits, TrapPlace
  <2>3. ~Trapped(c)'
    BY <2>1, <2>2, Names DEF Trapped
  <2> QED
    BY <2>1, <2>2, <2>3, <1>2, <1>3, <1>5, Names
    DEF Hits, HitTold, TrapPlace, AtCurrent
<1> QED
  BY <1>4, <1>6, <1>7

(* A status other than SIGTRAP, reported or read, and PTRACE_CONT.         *)
LEMMA HitsRead ==
  ASSUME NEW t \in Tids, Hits(t), Live(t)' <=> Live(t), kstate'[t] # "none",
         wstatus[t] # "TRAP", wstatus'[t] # "TRAP",
         ~(setbp[t] /\ dpc \in Stopping), ~(setbp'[t] /\ dpc' \in Stopping),
         pc'[t] = pc[t], phantom'[t] = phantom[t], cur'[t] = cur[t],
         "TRAP" \in pend'[t] <=> "TRAP" \in pend[t],
         t \in known' <=> t \in known, bps' = bps,
         dpc' = "stopped" => dpc = "stopped", dpc' \in AtRest => dpc \in AtRest
  PROVE  Hits(t)'
<1>1. Trapped(t)' <=> Trapped(t)
  BY DEF Trapped
<1>2. HitTold(t)'
  BY <1>1 DEF Hits, HitTold
<1>3. TrapPlace(t)' /\ AtCurrent(t)'
  BY <1>1 DEF Hits, TrapPlace, AtCurrent
<1> QED
  BY <1>2, <1>3 DEF Hits

(* The kernel stops a thread for a signal.                                 *)
LEMMA TakeSignalHits ==
  ASSUME IInv, Dying, HitTypes, ~group, dpc \notin Over, \A u \in Tids : Hits(u),
         NEW t \in Tids, NEW s \in Sigs \cup {"STOP", "TRAP"}, TakeSignal(t, s)
  PROVE  \A u \in Tids : Hits(u)'
<1>inv. /\ Typed /\ RunningCounted /\ StatusOfStopped /\ HaltedNoneRuns /\ KnownAlive
  BY DEF IInv, Dying
<1>1. /\ kstate' = [kstate EXCEPT ![t] = "stopped"]
      /\ wstatus' = [wstatus EXCEPT ![t] = s]
      /\ s \in pend[t] /\ pend' = [pend EXCEPT ![t] = @ \ {s}]
      /\ kstate[t] \in {"running", "born"}
      /\ UNCHANGED <<pc, known, running, setbp, phantom, cur, bps, dpc>>
  BY DEF TakeSignal, dvars, osvars
<1>2. ASSUME NEW u \in Tids \ {t} PROVE Hits(u)'
  <2>1. pend'[u] = pend[u] /\ wstatus'[u] = wstatus[u] /\ kstate'[u] = kstate[u]
    BY <1>1, <1>2, <1>inv DEF Typed, HitTypes
  <2> QED
    BY <2>1, <1>1, HitsFrame
<1>3. /\ kstate'[t] = "stopped" /\ wstatus'[t] = s /\ pend'[t] = pend[t] \ {s}
      /\ wstatus[t] = None /\ Live(t) /\ Live(t)' /\ ~(setbp[t] /\ dpc \in Stopping)
  BY <1>1, <1>inv DEF Typed, HitTypes, StatusOfStopped, Live, Hits, TrapPlace
<1>4. t \in known => running[t]
  BY <1>1, <1>inv DEF KnownAlive, RunningCounted
<1>5. Hits(t)'
  <2>1. CASE s # "TRAP"
    BY <2>1, <1>1, <1>3, Names, HitsRead
  <2>2. CASE s = "TRAP"
    <3>1. Trapped(t) /\ Trapped(t)'
      BY <2>2, <1>1, <1>3 DEF Trapped
    <3>2. HitTold(t)'
      BY <3>1, <1>1, <1>3 DEF Hits, HitTold
    <3>3. TrapPlace(t)' /\ AtCurrent(t)'
      BY <2>2, <3>1, <1>1, <1>3, <1>4 DEF Hits, HitTold, TrapPlace, AtCurrent
    <3> QED
      BY <3>2, <3>3 DEF Hits
  <2> QED
    BY <2>1, <2>2
<1> QED
  BY <1>2, <1>5

(* The end of singleStep, or a signal in place of it.                      *)
LEMMA StepHits ==
  ASSUME IInv, Dying, HitTypes, ~group, \A u \in Tids : Hits(u),
         StepExecuted \/ \E s \in Sigs \cup {"STOP", "TRAP"} : StepSignal(s)
  PROVE  \A u \in Tids : Hits(u)'
<1>inv. Typed /\ HaltedNoneRuns /\ KnownAlive /\ StatusOfStopped /\ RestAlive
  BY DEF IInv, Dying
<1>1. PICK t \in known : t = stepper /\ cur[t] # None /\ dpc = "step"
  BY DEF StepExecuted, StepSignal, HitTypes
<1>2. /\ UNCHANGED <<kstate, known, running, setbp, phantom, bps>>
      /\ dpc' \in {"step", "resume"}
      /\ t \in Tids
  BY <1>1, <1>inv DEF StepExecuted, StepSignal, StepDone, osvars, Typed
<1>3. ASSUME NEW u \in Tids \ {t} PROVE Hits(u)'
  <2>1. pend'[u] = pend[u] /\ pc'[u] = pc[u] /\ cur'[u] = cur[u] /\ wstatus'[u] = wstatus[u]
    BY <1>1, <1>3, <1>inv, ZenonT(60) DEF StepExecuted, StepSignal, StepDone, HitTypes, Typed
  <2> QED
    BY <2>1, <1>1, <1>2, HitsFrame DEF Stopping, AtRest
<1>4. /\ pc[t] \in Starts /\ kstate[t] = "stopped"
  BY <1>1, <1>2, <1>inv, Addresses
     DEF Hits, AtCurrent, AtRest, HitTypes, KnownAlive, HaltedNoneRuns, Halted, RestAlive, Over
<1>5. Hits(t)'
  <2>1. CASE StepExecuted \/ StepSignal("TRAP")
    <3>1. wstatus'[t] = None /\ cur'[t] = None /\ "TRAP" \notin pend'[t]
      BY <2>1, <1>1, <1>2, <1>inv, ZenonT(60)
         DEF StepExecuted, StepSignal, StepDone, HitTypes, Typed
    <3>2. pc'[t] \in Starts
      <4>1. pc[t] \in Int /\ (pc'[t] = After(pc[t]) \/ pc'[t] = pc[t])
        BY <2>1, <1>1, <1>2 DEF StepExecuted, StepSignal, HitTypes
      <4> QED
        BY <4>1, <1>4, AfterStart
    <3>3. ~Trapped(t)'
      BY <3>1, <1>2, Names DEF Trapped, Stopping
    <3> QED
      BY <3>1, <3>2, <3>3, <1>2, <1>4, Names
         DEF Hits, HitTold, TrapPlace, AtCurrent, Stopping
  <2>2. ASSUME NEW s \in Sigs \cup {"STOP"}, StepSignal(s) PROVE Hits(t)'
    <3>1. /\ "TRAP" \in pend'[t] <=> "TRAP" \in pend[t]
          /\ UNCHANGED <<pc, cur, wstatus, dpc>>
      <4>1. s # "TRAP"
        BY <2>2, Names
      <4>2. pend' = [pend EXCEPT ![t] = @ \ {s}] /\ UNCHANGED <<pc, cur, wstatus, dpc>>
        BY <4>1, <2>2, <1>1 DEF StepSignal
      <4>3. pend'[t] = pend[t] \ {s}
        BY <4>2, <1>2 DEF HitTypes
      <4> QED
        BY <4>1, <4>2, <4>3
    <3>2. /\ kstate'[t] = kstate[t] /\ pc'[t] = pc[t] /\ wstatus'[t] = wstatus[t]
          /\ phantom'[t] = phantom[t] /\ cur'[t] = cur[t] /\ setbp'[t] = setbp[t]
          /\ dpc' = dpc /\ running' = running /\ known' = known /\ bps' = bps
      BY <3>1, <1>2
    <3> QED
      BY <3>1, <3>2, <1>2, HitsFrame
  <2> QED
    BY <2>1, <2>2
<1> QED
  BY <1>3, <1>5

(* A status other than SIGTRAP is read, and the thread may be resumed.     *)
LEMMA ReadHits ==
  ASSUME IInv, HitTypes, \A u \in Tids : Hits(u), NEW t \in known,
         wstatus[t] # "TRAP", kstate[t] # "none", ~(setbp[t] /\ dpc \in Stopping),
         \/ wstatus' = [wstatus EXCEPT ![t] = None] /\ UNCHANGED kstate
         \/ \E sig : resumeWithSig({t}, sig),
         \A u \in Tids \ {t} : running[u] => running'[u],
         UNCHANGED <<pc, pend, known, setbp, phantom, cur, bps>>,
         dpc' \in Stopping <=> dpc \in Stopping, dpc' \notin AtRest
  PROVE  \A u \in Tids : Hits(u)'
<1>inv. Typed /\ t \in Tids
  BY DEF IInv, Typed
<1>1. /\ \A u \in Tids \ {t} : kstate'[u] = kstate[u] /\ wstatus'[u] = wstatus[u]
      /\ Live(t)' <=> Live(t)
      /\ kstate'[t] # "none" /\ wstatus'[t] \in {wstatus[t], None}
  BY <1>inv, ZenonT(60) DEF Typed, resumeWithSig, Live
<1>2. ASSUME NEW u \in Tids \ {t} PROVE Hits(u)'
  BY <1>1, <1>2, HitsFrame DEF AtRest
<1>3. Hits(t)'
  BY <1>1, <1>inv, HitsRead, Names DEF AtRest
<1> QED
  BY <1>2, <1>3

(* A SIGTRAP is read: the thread will be looked at by stop1.               *)
LEMMA WaitTrapHits ==
  ASSUME IInv, HitTypes, \A u \in Tids : Hits(u), NEW t \in Tids, WaitTrap(t)
  PROVE  \A u \in Tids : Hits(u)'
<1>inv. Typed /\ StatusOfStopped
  BY DEF IInv
<1>1. /\ wstatus' = [wstatus EXCEPT ![t] = None] /\ running' = [running EXCEPT ![t] = FALSE]
      /\ UNCHANGED <<kstate, pc, pend, known, phantom, cur, bps>>
      /\ t \in known /\ wstatus[t] = "TRAP"
  BY DEF WaitTrap
<1>2. dpc' \in Stopping /\ dpc' \notin AtRest /\ dpc \in Waiting
  BY DEF WaitTrap, Waiting, Return, Stopping, AtRest
<1>3. setbp'[t] /\ \A u \in Tids \ {t} : setbp'[u] <=> setbp[u] /\ dpc \in Stopping
  <2>1. CASE dpc = "wait"
    <3>1. \A u \in Tids : setbp'[u] <=> u = t
      BY <2>1 DEF WaitTrap
    <3> QED
      BY <2>1, <3>1 DEF Stopping
  <2>2. CASE dpc # "wait"
    BY <1>2, <2>2 DEF WaitTrap, HitTypes, Waiting, Stopping
  <2> QED
    BY <2>1, <2>2
<1>4. ASSUME NEW u \in Tids \ {t} PROVE Hits(u)'
  <2>1. wstatus'[u] = wstatus[u] /\ running'[u] = running[u]
    BY <1>1, <1>4, <1>inv DEF Typed
  <2> QED
    BY <2>1, <1>1, <1>2, <1>3, <1>4, HitsFrame DEF AtRest
<1>5. Hits(t)'
  <2>1. wstatus'[t] = None /\ "TRAP" \notin pend[t] /\ kstate[t] \in {"stopped", "zombie"}
    BY <1>1, <1>inv, Names DEF Typed, StatusOfStopped, Hits, TrapPlace
  <2>2. Trapped(t) /\ Trapped(t)'
    BY <1>1, <1>2, <1>3 DEF Trapped
  <2>3. HitTold(t)'
    BY <2>2, <1>1, <1>2 DEF Hits, HitTold, Live, AtRest
  <2>4. TrapPlace(t)' /\ AtCurrent(t)'
    BY <2>1, <1>1, <1>2, Names DEF TrapPlace, AtCurrent, Live
  <2> QED
    BY <2>3, <2>4 DEF Hits
<1> QED
  BY <1>4, <1>5

(* A new thread becomes known, stopped at an instruction.                  *)
LEMMA WaitCloneHits ==
  ASSUME IInv, HitTypes, \A u \in Tids : Hits(u), NEW t \in Tids, WaitClone(t)
  PROVE  \A u \in Tids : Hits(u)'
<1>inv. Typed /\ CloneUnread
  BY DEF IInv
<1>1. PICK c \in Others \ known : c = child[t] /\ kstate[c] \in {"born", "stopped"}
  BY <1>inv DEF WaitClone, CloneUnread
<1>2. c \in Tids /\ t \in known /\ c # t /\ kstate[t] = "stopped" /\ wstatus[t] = "CLONE"
  BY <1>1, <1>inv DEF WaitClone, CloneUnread, Tids
<1>3. /\ known' = known \cup {c}
      /\ pend' \in {pend, [pend EXCEPT ![c] = {}]}
      /\ setbp' = [setbp EXCEPT ![c] = FALSE]
      /\ phantom' = [phantom EXCEPT ![c] = 0]
      /\ UNCHANGED <<pc, cur, bps>>
  BY <1>1 DEF WaitClone
<1>4. dpc' \notin AtRest /\ (dpc' \in Stopping <=> dpc \in Stopping)
  BY DEF WaitClone, Waiting, Return, Stopping, AtRest
<1>5. /\ \A u \in Tids \ {t, c} : /\ kstate'[u] = kstate[u] /\ wstatus'[u] = wstatus[u]
                                  /\ running[u] => running'[u]
      /\ kstate'[t] \in {"stopped", "running"} /\ kstate'[c] \in {"stopped", "running"}
      /\ wstatus'[t] = None /\ wstatus'[c] \in {None, wstatus[c]}
  BY <1>1, <1>2, <1>inv, ZenonT(60) DEF WaitClone, Typed
<1>6. ASSUME NEW u \in Tids \ {t, c} PROVE Hits(u)'
  <2>1. pend'[u] = pend[u] /\ (setbp'[u] <=> setbp[u]) /\ phantom'[u] = phantom[u]
    BY <1>3, <1>6 DEF HitTypes
  <2> QED
    BY <2>1, <1>3, <1>4, <1>5, <1>6, HitsFrame DEF AtRest
<1>7. Hits(t)'
  <2>1. pend'[t] = pend[t] /\ (setbp'[t] <=> setbp[t]) /\ phantom'[t] = phantom[t]
    BY <1>2, <1>3 DEF HitTypes
  <2>2. ~(setbp[t] /\ dpc \in Stopping)
    BY <1>2, Names DEF Hits, TrapPlace, Live
  <2>3. Live(t) /\ Live(t)' /\ kstate'[t] # "none" /\ wstatus'[t] # "TRAP"
    BY <1>2, <1>5, Names DEF Live
  <2> QED
    BY <2>1, <2>2, <2>3, <1>2, <1>3, <1>4, HitsRead DEF AtRest
<1>8. Hits(c)'
  <2>1. pc[c] \in Starts /\ ~Trapped(c)
    BY <1>1, <1>2 DEF Hits, HitTold, Live
  <2>2. "TRAP" \notin pend'[c] /\ ~setbp'[c] /\ wstatus'[c] # "TRAP"
    BY <2>1, <1>2, <1>3, <1>5, Names DEF HitTypes, Trapped
  <2> QED
    BY <2>1, <2>2, <1>3, <1>4, <1>5
    DEF Hits, HitTold, TrapPlace, AtCurrent, Trapped, AtRest
<1> QED
  BY <1>6, <1>7, <1>8

(* stop1 undoes the hits that have been reported, and remembers the others.*)
LEMMA Stop1Hits ==
  ASSUME IInv, Dying, Dying', HitTypes, ~manual, \A u \in Tids : Hits(u), stop1
  PROVE  \A u \in Tids : Hits(u)'
<1>inv. Typed /\ CloneUnread /\ Announced /\ KnownAlive /\ (RestAlive /\ KnownAlive)'
  BY DEF IInv, Dying
<1>1. /\ dpc = "halt" /\ dpc' \in {"stopped", "resume"}
      /\ \A u \in known : ~running[u]
      /\ UNCHANGED <<kstate, pend, wstatus, known, running, bps>>
  BY DEF stop1
<1>2. \A u \in Tids : Live(u) <=> u \in known
  BY <1>1, <1>inv, ZenonT(60)
     DEF CloneUnread, Announced, KnownAlive, RestAlive, AtRest, Over, Live, Typed
<1> SUFFICES ASSUME NEW t \in Tids PROVE Hits(t)'
  OBVIOUS
<1>3. CASE t \notin known
  <2>1. ~Live(t)' /\ pc'[t] = pc[t] /\ cur'[t] = cur[t]
    BY <1>1, <1>2, <1>3 DEF stop1, Live
  <2>2. kstate[t] = "none" => ~setbp'[t]
    BY DEF Hits, TrapPlace, stop1
  <2> QED
    BY <2>1, <2>2, <1>1, <1>3 DEF Hits, HitTold, TrapPlace, AtCurrent
<1>4. CASE t \in known
  <2>1. /\ phantom'[t] = Phantom(t) /\ cur'[t] = Found(t)
        /\ pc'[t] = IF Found(t) # None THEN Found(t)
                    ELSE IF Rewound(t) THEN pc[t] - 1 ELSE pc[t]
    BY <1>4 DEF stop1
  <2>2. Live(t) /\ wstatus[t] # "TRAP" /\ pc[t] \in Int /\ kstate[t] # "none"
    BY <1>1, <1>2, <1>4, <1>inv DEF Hits, TrapPlace, HitTypes, Typed, Live
  <2>3. Trapped(t)' <=> "TRAP" \in pend[t]
    BY <1>1, <2>2 DEF Trapped, Stopping
  <2>4. Trapped(t) <=> "TRAP" \in pend[t] \/ setbp[t]
    BY <1>1, <2>2 DEF Trapped, Stopping
  <2>5. setbp[t] => ~Trapped(t)'
    BY <2>2, <2>3, <1>1 DEF Hits, TrapPlace, Stopping
  <2>6. CASE Found(t) # None
    <3>1. setbp[t] /\ Found(t) \in bps
      BY <2>6 DEF Found, FindBreakpoint
    <3>2. pc'[t] \in Starts
      BY <2>1, <2>6, <3>1, Addresses DEF HitTypes
    <3> QED
      BY <2>1, <2>2, <2>5, <2>6, <3>1, <3>2, <1>1
      DEF Hits, HitTold, TrapPlace, AtCurrent, Stopping
  <2>7. CASE Found(t) = None /\ Rewound(t)
    <3>1. setbp[t] /\ pc'[t] = pc[t] - 1
      BY <2>1, <2>7 DEF Rewound
    <3>2. pc'[t] \in Starts
      BY <3>1, <2>2, <2>4 DEF Hits, HitTold
    <3> QED
      BY <2>1, <2>2, <2>5, <2>7, <3>1, <3>2, <1>1
      DEF Hits, HitTold, TrapPlace, AtCurrent, Stopping
  <2>8. CASE Found(t) = None /\ ~Rewound(t) /\ setbp[t]
    <3>1. pc[t] \in Starts
      <4> SUFFICES ASSUME pc[t] \notin Starts PROVE FALSE
        OBVIOUS
      <4>1. pc[t] - 1 \in Breakable /\ (pc[t] - 1 \in bps \/ phantom[t] = pc[t])
        BY <2>2 DEF Hits, HitTold
      <4>2. pc[t] - 1 # None /\ pc[t] - 1 \notin Hard
        BY <4>1, Addresses
      <4>3. phantom[t] = pc[t]
        BY <4>1, <4>2, <2>8 DEF Found, FindBreakpoint
      <4> QED
        BY <4>2, <4>3, <2>8 DEF Rewound, Phantom
    <3> QED
      BY <2>1, <2>2, <2>5, <2>8, <3>1, <1>1
      DEF Hits, HitTold, TrapPlace, AtCurrent, Stopping
  <2>9. CASE Found(t) = None /\ ~Rewound(t) /\ ~setbp[t]
    <3>1. pc'[t] = pc[t] /\ cur'[t] = None /\ (Trapped(t)' <=> Trapped(t))
      BY <2>1, <2>3, <2>4, <2>9
    <3>2. pc[t] \notin Starts => phantom'[t] = pc[t]
      <4> SUFFICES ASSUME pc[t] \notin Starts PROVE Phantom(t) = pc[t]
        BY <2>1
      <4>1. pc[t] - 1 \in Breakable /\ (pc[t] - 1 \in bps \/ phantom[t] = pc[t])
        BY <2>2 DEF Hits, HitTold
      <4>2. pc[t] - 1 # None
        BY <4>1, Addresses
      <4> QED
        BY <4>1, <4>2, <2>9 DEF Phantom, FindBreakpoint
    <3>3. HitTold(t)'
      BY <3>1, <3>2, <1>1, <1>4, <2>2 DEF Hits, HitTold, Live
    <3>4. TrapPlace(t)' /\ AtCurrent(t)'
      BY <3>1, <1>1, <2>2 DEF Hits, TrapPlace, AtCurrent, Stopping
    <3> QED
      BY <3>3, <3>4 DEF Hits
  <2> QED
    BY <2>6, <2>7, <2>8, <2>9
<1> QED
  BY <1>3, <1>4

(* Every step keeps AllHits.                                               *)
LEMMA NextHits == IInv /\ Dying /\ Dying' /\ HitTypes /\ AllHits /\ [Next]_vars => AllHits'
<1> SUFFICES ASSUME IInv, Dying, Dying', HitTypes, AllHits, [Next]_vars, ~asked', dpc' \notin Over
             PROVE  \A u \in Tids : Hits(u)'
  BY DEF AllHits
<1>inv. /\ Typed /\ RunningCounted /\ StatusOfStopped /\ ContTodo /\ KnownAlive /\ NotCounted
        /\ ZombieCounted /\ ~asked /\ dpc \notin Over /\ ~group /\ ~manual
        /\ \A u \in Tids : Hits(u)
  BY OverStays DEF IInv, Dying, HitTypes, AllHits
<1>1. CASE UNCHANGED vars \/ ContinueOnce \/ StartCont
  BY <1>1, <1>inv, HitsFrame
     DEF vars, kvars, dvars, osvars, ContinueOnce, StartCont, AtRest, Stopping
<1>2. ASSUME NEW t \in Tids, Execute(t) PROVE \A u \in Tids : Hits(u)'
  BY <1>2, <1>inv, ExecuteHits
<1>3. ASSUME NEW t \in Tids, Clone(t) PROVE \A u \in Tids : Hits(u)'
  BY <1>3, <1>inv, CloneHits
<1>4. ASSUME NEW t \in Tids, NEW s \in Sigs, SendSignal(t, s) PROVE \A u \in Tids : Hits(u)'
  <2> SUFFICES ASSUME NEW u \in Tids PROVE Hits(u)'
    OBVIOUS
  <2>1. "TRAP" \in pend'[u] <=> "TRAP" \in pend[u]
    BY <1>4, Names DEF SendSignal, HitTypes
  <2> QED
    BY <1>4, <2>1, <1>inv, HitsFrame DEF SendSignal, dvars, osvars
<1>5. ASSUME NEW t \in Tids, ThreadExit(t) PROVE \A u \in Tids : Hits(u)'
  <2>1. Hits(t)'
    <3>1. kstate'[t] = "zombie" /\ wstatus'[t] = "EXITED"
      BY <1>5, <1>inv DEF ThreadExit, Typed
    <3> QED
      BY <1>5, <3>1, <1>inv, HitsDead, ZenonT(40) DEF ThreadExit, dvars, osvars, Live
  <2>2. ASSUME NEW u \in Tids \ {t} PROVE Hits(u)'
    <3>1. kstate'[u] = kstate[u] /\ wstatus'[u] = wstatus[u] /\ pend'[u] = pend[u]
      BY <1>5, <2>2, <1>inv DEF ThreadExit, Typed, HitTypes
    <3> QED
      BY <1>5, <3>1, <1>inv, HitsFrame DEF ThreadExit, dvars, osvars
  <2> QED
    BY <2>1, <2>2
<1>6. CASE ProcessExit
  <2> SUFFICES ASSUME NEW u \in Tids PROVE Hits(u)'
    OBVIOUS
  <2>1. /\ UNCHANGED <<pc, known, running, setbp, phantom, cur, bps, dpc>>
        /\ IF Live(u) THEN kstate'[u] = "zombie" /\ wstatus'[u] = "EXITED"
                      ELSE kstate'[u] = kstate[u] /\ wstatus'[u] = wstatus[u]
        /\ "TRAP" \notin pend'[u]
    BY <1>6 DEF ProcessExit, ExitGroup, dvars, osvars
  <2> QED
    BY <2>1, <1>inv DEF Hits, HitTold, TrapPlace, AtCurrent, Live
<1>21. ASSUME NEW t \in Tids, WaitSignalDied(t) PROVE \A u \in Tids : Hits(u)'
  <2> SUFFICES ASSUME NEW u \in Tids PROVE Hits(u)'
    OBVIOUS
  <2>1. /\ UNCHANGED <<pc, setbp, phantom, cur, bps>> /\ known' \subseteq known /\ dpc' \notin AtRest
        /\ IF Live(u) THEN kstate'[u] = "zombie" /\ wstatus'[u] = "EXITED"
                      ELSE kstate'[u] = kstate[u] /\ wstatus'[u] = wstatus[u]
    BY <1>21 DEF WaitSignalDied, ExitGroup, Waiting, AtRest
  <2>2. ~Live(u)' /\ (kstate'[u] = "none" => kstate[u] = "none")
    BY <2>1 DEF Live
  <2>3. wstatus'[u] # "TRAP"
    BY <2>1, <1>inv, Names DEF StatusOfStopped, ZombieCounted, Live
  <2> QED
    BY <2>1, <2>2, <2>3, <1>inv DEF Hits, HitTold, TrapPlace, AtCurrent
<1>7. ASSUME NEW t \in Tids, NEW s \in Sigs \cup {"STOP", "TRAP"}, TakeSignal(t, s)
      PROVE  \A u \in Tids : Hits(u)'
  BY <1>7, <1>inv, TakeSignalHits
<1>8. ASSUME NEW t \in Tids, stepInstruction(t) PROVE \A u \in Tids : Hits(u)'
  BY <1>8, <1>inv, HitsFrame DEF stepInstruction, kvars, osvars, AtRest, Stopping
<1>9. ASSUME NEW t \in Tids, resume(t) PROVE \A u \in Tids : Hits(u)'
  <2>1. t \in known /\ ~running[t] /\ dpc = "cont" /\ dpc' \in {"cont", "wait"}
    BY <1>9, <1>inv DEF resume, ContTodo, NotCounted
  <2>2. wstatus[t] # "TRAP" /\ kstate[t] # "none"
    BY <2>1, <1>inv DEF Hits, TrapPlace, KnownAlive
  <2>3. \A u \in Tids \ {t} : running[u] => running'[u]
    BY <1>9 DEF resume, resumeWithSig
  <2> QED
    BY <1>9, <2>1, <2>2, <2>3, <1>inv, ReadHits DEF resume, AtRest, Stopping
<1>10. ASSUME NEW t \in Tids, stopThread(t) PROVE \A u \in Tids : Hits(u)'
  <2> SUFFICES ASSUME NEW u \in Tids PROVE Hits(u)'
    OBVIOUS
  <2>1. "TRAP" \in pend'[u] <=> "TRAP" \in pend[u]
    BY <1>10 DEF stopThread, HitTypes
  <2> QED
    BY <1>10, <2>1, <1>inv, HitsFrame DEF stopThread, osvars, AtRest, Stopping
<1>11. CASE StepExecuted \/ \E s \in Sigs \cup {"STOP", "TRAP"} : StepSignal(s)
  BY <1>11, <1>inv, StepHits
<1>12. CASE Drained \/ HaltWait
  <2> SUFFICES ASSUME NEW u \in Tids PROVE Hits(u)'
    OBVIOUS
  <2> QED
    BY <1>12, <1>inv, HitsFrame DEF Drained, HaltWait, kvars, osvars, AtRest, Stopping
<1>13. CASE stop1
  BY <1>13, <1>inv, Stop1Hits
<1>14. ASSUME NEW t \in Tids, WaitExited(t) PROVE \A u \in Tids : Hits(u)'
  <2>1. /\ UNCHANGED <<pc, pend, running, setbp, phantom, cur, bps, dpc>>
        /\ known' = known \ {t} /\ kstate'[t] = "gone" /\ wstatus'[t] = None
    BY <1>14, <1>inv DEF WaitExited, osvars, Over, Typed, Tids
  <2>2. Hits(t)'
    BY <2>1, <1>inv, HitsDead, Names DEF Live
  <2>3. ASSUME NEW u \in Tids \ {t} PROVE Hits(u)'
    <3>1. kstate'[u] = kstate[u] /\ wstatus'[u] = wstatus[u]
      BY <1>14, <2>3, <1>inv DEF WaitExited, Typed
    <3> QED
      BY <2>1, <2>3, <3>1, <1>inv, HitsFrame
  <2> QED
    BY <2>2, <2>3
<1>15. ASSUME NEW t \in Tids, WaitClone(t) PROVE \A u \in Tids : Hits(u)'
  BY <1>15, <1>inv, WaitCloneHits
<1>16. ASSUME NEW t \in Tids, WaitUnknown(t) PROVE \A u \in Tids : Hits(u)'
  <2>1. /\ UNCHANGED <<kstate, pc, pend, known, running, setbp, phantom, cur, bps, dpc>>
        /\ wstatus' = [wstatus EXCEPT ![t] = None] /\ wstatus[t] = "STOP"
    BY <1>16 DEF WaitUnknown, dvars, osvars
  <2>2. Hits(t)'
    <3>1. ~(setbp[t] /\ dpc \in Stopping) \/ ~Live(t)
      BY <2>1, <1>inv, Names DEF Hits, TrapPlace
    <3>2. kstate[t] \in {"stopped", "zombie"} /\ wstatus'[t] = None
      BY <2>1, <1>inv, Names DEF StatusOfStopped, Typed
    <3>3. CASE Live(t)
      BY <2>1, <3>1, <3>2, <3>3, <1>inv, Names, HitsRead DEF Live
    <3>4. CASE ~Live(t)
      BY <2>1, <3>2, <3>4, <1>inv, Names, HitsDead DEF Live
    <3> QED
      BY <3>3, <3>4
  <2>3. ASSUME NEW u \in Tids \ {t} PROVE Hits(u)'
    <3>1. wstatus'[u] = wstatus[u]
      BY <2>1, <2>3, <1>inv DEF Typed
    <3> QED
      BY <2>1, <3>1, <1>inv, HitsFrame
  <2> QED
    BY <2>2, <2>3
<1>17. ASSUME NEW t \in Tids, WaitTrap(t) PROVE \A u \in Tids : Hits(u)'
  BY <1>17, <1>inv, WaitTrapHits
<1>18. ASSUME NEW t \in Tids, WaitStop(t) \/ WaitSignal(t) PROVE \A u \in Tids : Hits(u)'
  <2>1. /\ t \in known /\ wstatus[t] \in Sigs \cup {"STOP"}
        /\ dpc' \notin AtRest /\ (dpc' \in Stopping <=> dpc \in Stopping)
        /\ UNCHANGED <<pc, pend, known, setbp, phantom, cur, bps>>
    BY <1>18 DEF WaitStop, WaitSignal, Waiting, Return, AtRest, Stopping
  <2>2. kstate[t] = "stopped" /\ wstatus[t] # "TRAP" /\ Live(t)
    BY <2>1, <1>inv, LinuxAssumption DEF StatusOfStopped, ZombieCounted, Live
  <2>3. ~(setbp[t] /\ dpc \in Stopping)
    BY <2>1, <2>2, <1>inv, Names DEF Hits, TrapPlace
  <2>4. \/ wstatus' = [wstatus EXCEPT ![t] = None] /\ UNCHANGED kstate
        \/ \E sig : resumeWithSig({t}, sig)
    BY <1>18 DEF WaitStop, WaitSignal
  <2>5. \A u \in Tids \ {t} : running[u] => running'[u]
    BY <1>18, <1>inv DEF WaitStop, WaitSignal, resumeWithSig, Typed
  <2> QED
    BY <2>1, <2>2, <2>3, <2>4, <2>5, <1>inv, ReadHits
<1>19. ASSUME NEW a \in Starts, WriteBreakpoint(a) PROVE \A u \in Tids : Hits(u)'
  BY <1>19, <1>inv, HitsFrame DEF WriteBreakpoint, kvars, osvars
<1>20. ASSUME NEW a \in Starts, EraseBreakpoint(a) PROVE \A u \in Tids : Hits(u)'
  <2>1. /\ UNCHANGED <<kstate, pc, pend, wstatus, known, running, setbp, phantom, cur, dpc>>
        /\ dpc = "stopped"
    BY <1>20 DEF EraseBreakpoint, kvars, osvars
  <2> SUFFICES ASSUME NEW u \in Tids PROVE Hits(u)'
    OBVIOUS
  <2>2. Hits(u)
    BY <1>inv
  <2>3. TrapPlace(u)' /\ AtCurrent(u)' /\ (Live(u)' <=> Live(u)) /\ (Trapped(u)' <=> Trapped(u))
    BY <2>1, <2>2 DEF Hits, TrapPlace, AtCurrent, Live, Trapped
  <2> QED
    BY <2>1, <2>2, <2>3 DEF Hits, HitTold
<1> QED
  <2>1. CASE Program
    BY <2>1, <1>2, <1>3, <1>4, <1>5, <1>6 DEF Program
  <2>2. CASE Kernel
    BY <2>2, <1>7 DEF Kernel
  <2>3. CASE Backend
    BY <2>3, <1>1, <1>8, <1>9, <1>10, <1>11, <1>12, <1>13, <1>14, <1>15, <1>16, <1>17, <1>18,
       <1>21 DEF Backend
  <2>4. CASE User
    <3>1. ~RequestManualStop /\ ~Detach
      BY DEF RequestManualStop, Detach, Over
    <3> QED
      BY <2>4, <3>1, <1>1, <1>19, <1>20 DEF User
  <2> QED
    BY <2>1, <2>2, <2>3, <2>4, <1>1 DEF Next

(* Init gives Dying: nothing has run yet.                                  *)
LEMMA InitDying == Init => Dying
<1> SUFFICES ASSUME Init PROVE Dying
  OBVIOUS
<1>1. /\ dpc = "stopped" /\ Leader \in known /\ known \subseteq Tids
      /\ kstate = [t \in Tids |-> IF t \in known THEN "stopped" ELSE "none"]
  BY InitIInv DEF Init, IInv, Typed
<1>2. \A t \in Tids : ~running[t]
  BY DEF Init
<1> QED
  BY <1>1, <1>2
  DEF Dying, ZombieCounted, DeadNoticed, RestAlive, KnownAlive, NotCounted, AtRest, Over

PhInv == IInv /\ Dying /\ HitTypes /\ AllHits

(* A hit the debugger was not told of before it erased the breakpoint is   *)
(* undone by a later stop1, for any number of threads, any program and any *)
(* breakpoints: no thread is left to run from the middle of an instruction.*)
THEOREM PhantomsRewound == Spec => []PhantomRewound
<1>1. Init => PhInv
  BY InitIInv, InitDying, InitHits DEF PhInv
<1>2. PhInv /\ [Next]_vars => PhInv'
  BY NextIInv, NextDying, NextHitTypes, NextHits DEF PhInv
<1>3. PhInv => PhantomRewound
  <2> SUFFICES ASSUME PhInv, ~asked, NEW t \in Tids,
                      kstate[t] = "running" \/ (t \in known /\ dpc = "stopped")
               PROVE  pc[t] \in Starts \/ "TRAP" \in pend[t] \/ wstatus[t] = "TRAP"
    BY DEF PhantomRewound
  <2>1. HaltedNoneRuns /\ RestAlive /\ KnownAlive /\ HitTypes
    BY DEF PhInv, IInv, Dying
  <2>2. dpc \notin Over
    BY <2>1 DEF HaltedNoneRuns, Halted, Over
  <2>3. Hits(t)
    BY <2>2 DEF PhInv, AllHits
  <2>4. Live(t)
    BY <2>1, <2>2 DEF RestAlive, KnownAlive, AtRest, Live
  <2>5. setbp[t] /\ dpc \in Stopping => kstate[t] = "stopped" /\ dpc # "stopped"
    BY <2>3, <2>4 DEF Hits, TrapPlace, Stopping
  <2> QED
    BY <2>3, <2>4, <2>5 DEF Hits, HitTold, Trapped
<1> QED
  BY <1>1, <1>2, <1>3, PTL DEF Spec
=============================================================================
