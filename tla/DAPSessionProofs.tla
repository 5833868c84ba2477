-------------------------- MODULE DAPSessionProofs --------------------------
(***************************************************************************)
(* That a pause is final, for any number of goroutines that run the        *)
(* target, and whatever the other requests, restarts included, do; and     *)
(* that a stop made only to handle a request is hidden from the client, as *)
(* long as one goroutine at a time runs the target.                        *)
(***************************************************************************)
EXTENDS DAPSession, TLAPS

Handlers == {"loop", "main"}

\* Where a goroutine is on its way from the decision to resume the target to its stop;
\* where it has locked changeStateMu for that; where it holds the target mutex.
Going == {"command", "enter", "resume", "run"}
Deciding == {"check", "command", "enter", "resume"}
Inside == {"enter", "resume", "run"}

\* Where it has not yet cleared haltRequested.
Starting == {"begin", "switch", "begun", "refused"}

\* Where a handler has locked changeStateMu.
Locked == {"nodebug", "halt", "ask", "lock", "halted", "wait", "act"}

\* The fields of a goroutine's record.
Fields == {"pc", "req", "cmd", "setup", "onBp", "out", "flag"}
Typed ==
  /\ DOMAIN as = Async
  /\ \A a \in Async : DOMAIN as[a] = Fields
  /\ unlocker \subseteq Async
  /\ DOMAIN pc = Handlers /\ DOMAIN job = Handlers
  /\ job["main"] # "pause"

\* The two mutexes: changeStateMu is held by a handler, or by a goroutine until the one
\* that waits for asyncSetupDone unlocks it, which it does not before the target runs.
Owned ==
  /\ \A a \in Async : as[a].pc \in Inside \cup {"switch"} => targetMutex = a
  /\ \A a \in unlocker : changeStateMu = a
  /\ \A a \in Async : as[a].pc \in Deciding => a \in unlocker /\ ~(as[a].setup > 0)
  /\ \A h \in Handlers : pc[h] \in Locked => changeStateMu = h
  /\ \A h \in Handlers : pc[h] = "halted" => targetMutex = h

\* The request loop does not go on before the goroutine it started has resumed the
\* target, so none is about to clear haltRequested when a pause is handled.
Waits ==
  \A a \in Async : as[a].pc \in Starting =>
    pc["loop"] = "flag" /\ started = a /\ ~as[a].flag /\ a \notin unlocker

\* From the moment a pause is handled haltRequested is set, and once the target mutex was
\* free nobody is on the way to resume the target.
Pausing ==
  /\ pc["loop"] \in {"halt", "ask", "lock", "halted", "wait", "act"} /\ job["loop"] = "pause"
       => haltRequested
  /\ pc["loop"] \in {"halted", "act"} /\ job["loop"] = "pause" => \A a \in Async : as[a].pc \notin Going
  /\ paused => haltRequested /\ \A a \in Async : as[a].pc \notin Going \cup Starting

\* The inductive invariant.
IInv == Typed /\ Owned /\ Waits /\ Pausing

\* What the handlers look at.
shared == <<pc, job, started, changeStateMu, unlocker, haltRequested, paused>>

-----------------------------------------------------------------------------

USE DEF Goto, Free, At, Rest, Nobody, target, session, handlers, view, Handlers, shared,
        Starting

\* A session starts with the target stopped and nothing locked.
LEMMA InitInv == Init => IInv
BY DAPAssumption DEF Init, IInv, Typed, Owned, Waits, Pausing, NoRun, Fields, Going, Deciding,
   Inside, Locked

\* Goroutine a moves, and no other.
Moves(a) ==
  /\ DOMAIN as' = Async /\ \A b \in Async : DOMAIN as'[b] = Fields
  /\ \A b \in Async \ {a} : as'[b] = as[b]

\* A goroutine that stops the target, or does not resume it, and goes on without touching
\* what the handlers use, preserves the invariant.
LEMMA NotResuming ==
  ASSUME IInv, NEW a \in Async, Moves(a),
         as'[a].pc \notin Going \cup Starting \cup {"check"},
         targetMutex' = targetMutex \/ (targetMutex = a /\ targetMutex' = Nobody),
         UNCHANGED shared
  PROVE  IInv'
<1>1. Typed'
  BY DEF IInv, Typed, Moves
<1>2. Owned'
  <2>1. \A b \in Async : as'[b].pc \in Inside \cup {"switch"} => targetMutex' = b
    BY DAPAssumption, Zenon DEF IInv, Owned, Moves, Going, Inside
  <2>2. \A b \in Async : as'[b].pc \in Deciding => b \in unlocker' /\ ~(as'[b].setup > 0)
    BY Zenon DEF IInv, Owned, Moves, Going, Deciding
  <2>3. \A h \in Handlers : pc'[h] = "halted" => targetMutex' = h
    BY DAPAssumption, Zenon DEF IInv, Owned
  <2> QED
    BY <2>1, <2>2, <2>3, Zenon DEF IInv, Owned, Locked
<1>3. Waits'
  BY Zenon DEF IInv, Typed, Waits, Moves
<1>4. Pausing'
  BY Zenon DEF IInv, Typed, Pausing, Moves, Going
<1> QED
  BY <1>1, <1>2, <1>3, <1>4 DEF IInv

\* The fields a command that has returned, or was not given, leaves.
LEMMA Fields4 ==
  ASSUME DOMAIN as = Async, \A b \in Async : DOMAIN as[b] = Fields, NEW a \in Async,
         NEW p, NEW n, NEW o, NEW q,
         as' = [as EXCEPT ![a].pc = p, ![a].setup = n, ![a].onBp = o, ![a].out = q]
  PROVE  /\ Moves(a) /\ as'[a].pc = p
         /\ as'[a].onBp = o /\ as'[a].out = q /\ as'[a].cmd = as[a].cmd
BY Zenon DEF Moves, Fields

\* A command that returns releases the target mutex and leaves the running places.
LEMMA ReturnMoves ==
  ASSUME DOMAIN as = Async, \A b \in Async : DOMAIN as[b] = Fields, NEW a \in Async,
         NEW reason, NEW onBp, NEW out, Return(a, reason, onBp, out)
  PROVE  /\ Moves(a) /\ as'[a].pc \in {"test", "quit"} /\ targetMutex' = Nobody
         /\ as'[a].pc = "quit" => as'[a].out # "stop"
         /\ as'[a].cmd = as[a].cmd
<1> DEFINE n == Closed(as[a].setup)
           p == IF out = "stop" THEN "test" ELSE "quit"
<1>1. as' = [as EXCEPT ![a].pc = p, ![a].setup = n, ![a].onBp = onBp, ![a].out = out]
  BY DEF Return
<1>2. p \in {"test", "quit"} /\ (p = "quit" => out # "stop")
  OBVIOUS
<1>3. targetMutex' = Nobody
  BY DEF Return
<1> HIDE DEF n, p
<1>4. /\ Moves(a) /\ as'[a].pc = p
      /\ as'[a].onBp = onBp /\ as'[a].out = out /\ as'[a].cmd = as[a].cmd
  BY <1>1, Fields4, ZenonT(60)
<1> QED
  BY <1>2, <1>3, <1>4, Zenon

\* The request loop and Stop preserve the invariant.
LEMMA LoopInv ==
  ASSUME IInv, ReadFails \/ Stop \/ LoopStep \/ \E r \in Requests : Read(r)
  PROVE  IInv'
<1>1. ASSUME NEW r \in Requests, Read(r) PROVE IInv'
  <2> DEFINE again == UNCHANGED <<pc, started, as, view>>
             begin(a) == /\ as[a].pc = "none" /\ a \notin unlocker
                         /\ as' = [as EXCEPT ![a] = [NoRun EXCEPT !.pc = "begin", !.req = r,
                                                                 !.cmd = r]]
                         /\ started' = a /\ pc' = [pc EXCEPT !["loop"] = "flag"] /\ paused' = FALSE
             handle(l) == pc' = [pc EXCEPT !["loop"] = l] /\ UNCHANGED <<started, as, view>>
  <2>1. /\ pc["loop"] = "read" /\ job' = [job EXCEPT !["loop"] = r]
        /\ UNCHANGED <<changeStateMu, targetMutex, unlocker, haltRequested>>
    BY <1>1, Zenon DEF Read
  <2>2. again \/ (\E a \in Async : begin(a)) \/ handle("mu") \/ handle("work") \/ handle("cs")
    BY <1>1, Zenon DEF Read
  <2>3. CASE again
    BY <2>1, <2>3, Zenon DEF IInv, Typed, Owned, Waits, Pausing, Locked
  <2>4. ASSUME NEW a \in Async, begin(a) PROVE IInv'
    <3>1. Moves(a) /\ as'[a].pc = "begin" /\ ~as'[a].flag
      BY <2>4, Zenon DEF IInv, Typed, Moves, NoRun, Fields
    <3>2. Typed'
      BY <2>1, <2>4, <3>1, Zenon DEF IInv, Typed, Moves
    <3>3. Owned'
      BY <2>1, <2>4, <3>1, Zenon DEF IInv, Typed, Owned, Moves, Going, Deciding, Inside, Locked
    <3>4. Waits'
      BY <2>1, <2>4, <3>1, Zenon DEF IInv, Typed, Waits, Moves
    <3>5. Pausing'
      BY <2>1, <2>4, <3>1, Zenon DEF IInv, Typed, Pausing
    <3> QED
      BY <3>2, <3>3, <3>4, <3>5 DEF IInv
  <2>5. ASSUME NEW l \in {"mu", "work", "cs"}, handle(l) PROVE IInv'
    BY <2>1, <2>5, Zenon DEF IInv, Typed, Owned, Waits, Pausing, Locked
  <2> QED
    BY <2>2, <2>3, <2>4, <2>5, Zenon
<1>2. CASE ReadFails
  BY <1>2, DAPAssumption, Zenon DEF IInv, Typed, Owned, Waits, Pausing, Locked, ReadFails
<1>3. CASE Stop
  BY <1>3, DAPAssumption, Zenon DEF IInv, Typed, Owned, Waits, Pausing, Locked, Stop
<1>4. CASE Resumed
  BY <1>4, DAPAssumption, Zenon DEF IInv, Typed, Owned, Waits, Pausing, Locked, Resumed
<1>5. CASE Work
  BY <1>5, DAPAssumption, Zenon DEF IInv, Typed, Owned, Waits, Pausing, Locked, Work
<1> QED
  BY <1>1, <1>2, <1>3, <1>4, <1>5 DEF LoopStep

\* So do the handlers that halt the target.
LEMMA HandlerInv ==
  ASSUME IInv, NEW h \in Handlers, HandlerStep(h)
  PROVE  IInv'
<1>1. CASE LockMu(h)
  BY <1>1, DAPAssumption, Zenon DEF IInv, Typed, Owned, Waits, Pausing, Locked, LockMu
<1>2. CASE LockChangeState(h)
  <2>1. Typed'
    BY <1>2, DAPAssumption, Zenon DEF IInv, Typed, Locked, LockChangeState
  <2>2. Owned'
    BY <1>2, DAPAssumption, Zenon DEF IInv, Typed, Owned, Locked, LockChangeState
  <2>3. Waits'
    BY <1>2, DAPAssumption, Zenon DEF IInv, Typed, Owned, Waits, Locked, LockChangeState
  <2>4. Pausing'
    BY <1>2, DAPAssumption, Zenon DEF IInv, Typed, Owned, Waits, Pausing, Locked, LockChangeState
  <2> QED
    BY <2>1, <2>2, <2>3, <2>4 DEF IInv
<1>3. CASE NoDebug(h)
  BY <1>3, DAPAssumption, Zenon DEF IInv, Typed, Owned, Waits, Pausing, Locked, NoDebug
<1>4. CASE HaltCheck(h)
  BY <1>4, DAPAssumption, Zenon DEF IInv, Typed, Owned, Waits, Pausing, Locked, HaltCheck
<1>5. CASE HaltAsk(h)
  BY <1>5, DAPAssumption, Zenon DEF IInv, Typed, Owned, Waits, Pausing, Locked, HaltAsk
<1>9. CASE HaltLock(h)
  <2>0. /\ \A a \in Async : as[a].pc \notin Going \cup {"switch"}
        /\ \A g \in Handlers : pc[g] # "halted"
    BY <1>9, DAPAssumption, Zenon DEF IInv, Owned, HaltLock, Going, Deciding, Inside, Locked
  <2>1. /\ pc[h] = "lock" /\ pc' = [pc EXCEPT ![h] = "halted"] /\ targetMutex' = h
        /\ UNCHANGED <<as, unlocker, job, started, haltRequested, changeStateMu, paused>>
    BY <1>9 DEF HaltLock
  <2>2. Typed'
    BY <2>1, Zenon DEF IInv, Typed
  <2>3. Owned'
    BY <2>0, <2>1, DAPAssumption, Zenon DEF IInv, Typed, Owned, Going, Inside, Locked
  <2>4. Waits'
    BY <2>1, Zenon DEF IInv, Typed, Waits
  <2>5. Pausing'
    BY <2>0, <2>1, Zenon DEF IInv, Typed, Pausing
  <2> QED
    BY <2>2, <2>3, <2>4, <2>5 DEF IInv
<1>10. CASE HaltUnlock(h)
  <2>1. /\ pc[h] = "halted" /\ pc' = [pc EXCEPT ![h] = "act"] /\ targetMutex' = Nobody
        /\ targetMutex = h
        /\ UNCHANGED <<as, unlocker, job, started, haltRequested, changeStateMu, paused>>
    BY <1>10 DEF HaltUnlock, IInv, Owned
  <2>2. Typed'
    BY <2>1, Zenon DEF IInv, Typed
  <2>3. Owned'
    BY <2>1, DAPAssumption, Zenon DEF IInv, Typed, Owned, Inside, Locked
  <2>4. Waits'
    BY <2>1, Zenon DEF IInv, Typed, Waits
  <2>5. Pausing'
    BY <2>1, Zenon DEF IInv, Typed, Pausing
  <2> QED
    BY <2>2, <2>3, <2>4, <2>5 DEF IInv
<1>6. CASE HaltWait(h)
  <2>1. Typed'
    BY <1>6, DAPAssumption, Zenon DEF IInv, Typed, Locked, HaltWait
  <2>2. Owned'
    BY <1>6, DAPAssumption, Zenon DEF IInv, Typed, Owned, Locked, HaltWait
  <2>3. Waits'
    BY <1>6, DAPAssumption, Zenon DEF IInv, Typed, Owned, Waits, Locked, HaltWait
  <2>4. Pausing'
    <3>1. \A a \in Async : as[a].pc \notin Going
      BY <1>6, DAPAssumption, Zenon DEF IInv, Owned, HaltWait, Going, Deciding, Inside, Locked
    <3>2. pc[h] = "wait" /\ UNCHANGED <<as, job, haltRequested, paused>>
      BY <1>6 DEF HaltWait
    <3>3. pc' = [pc EXCEPT ![h] = "act"]
      BY <1>6 DEF HaltWait
    <3> QED
      BY <3>1, <3>2, <3>3, Zenon DEF IInv, Typed, Pausing
  <2> QED
    BY <2>1, <2>2, <2>3, <2>4 DEF IInv
<1>7. CASE Act(h)
  <2>1. Typed'
    BY <1>7, DAPAssumption, Zenon DEF IInv, Typed, Locked, Act
  <2>2. Owned'
    BY <1>7, DAPAssumption, ZenonT(60) DEF IInv, Typed, Owned, Locked, Act
  <2>3. Waits'
    BY <1>7, DAPAssumption, Zenon DEF IInv, Typed, Owned, Waits, Locked, Act
  <2>4. Pausing'
    <3>1. /\ pc[h] = "act" /\ UNCHANGED <<as, job, haltRequested>>
          /\ pc'[h] \notin {"halt", "ask", "lock", "halted", "wait", "act"}
          /\ \A g \in Handlers \ {h} : pc'[g] = pc[g]
      BY <1>7 DEF Act, IInv, Typed
    <3>2. CASE job[h] = "pause"
      <4>1. h = "loop"
        BY <3>2 DEF IInv, Typed
      <4>2. haltRequested /\ \A a \in Async : as[a].pc \notin Going \cup Starting
        BY <3>1, <3>2, <4>1, Zenon DEF IInv, Pausing, Waits
      <4> QED
        BY <3>1, <4>1, <4>2, Zenon DEF Pausing
    <3>3. CASE job[h] # "pause"
      <4>1. paused' = paused
        BY <1>7, <3>3 DEF Act
      <4> QED
        BY <3>1, <3>3, <4>1, Zenon DEF IInv, Pausing
    <3> QED
      BY <3>2, <3>3
  <2> QED
    BY <2>1, <2>2, <2>3, <2>4 DEF IInv
<1>8. CASE CloseConn(h)
  BY <1>8, DAPAssumption, Zenon DEF IInv, Typed, Owned, Waits, Pausing, Locked, CloseConn
<1> QED
  BY <1>1, <1>2, <1>3, <1>4, <1>5, <1>6, <1>7, <1>8, <1>9, <1>10 DEF HandlerStep

\* So do the goroutines that run the target.
LEMMA AsyncInv ==
  ASSUME IInv, NEW a \in Async, AsyncStep(a) \/ Event(a) \/ ResumeUnlock(a)
  PROVE  IInv'
<1>0. DOMAIN as = Async /\ \A b \in Async : DOMAIN as[b] = Fields
  BY Zenon DEF IInv, Typed
<1>1. CASE StepRefused(a)
  <2>1. Moves(a) /\ as'[a].pc \notin Going \cup Starting \cup {"check"}
    BY <1>0, <1>1, Zenon DEF Moves, Fields, Going, StepRefused, Ended, NoRun
  <2>2. /\ targetMutex' = targetMutex
        /\ UNCHANGED shared
    BY <1>1 DEF IInv, Owned, Inside, StepRefused
  <2> QED
    BY <2>1, <2>2, NotResuming
<1>2. CASE RunSet(a)
  <2>1. Moves(a) /\ as'[a].pc \notin Going \cup Starting \cup {"check"}
    BY <1>0, <1>2, Zenon DEF Moves, Fields, Going, RunSet
  <2>2. /\ targetMutex' = targetMutex
        /\ UNCHANGED shared
    BY <1>2 DEF IInv, Owned, Inside, RunSet
  <2> QED
    BY <2>1, <2>2, NotResuming
<1>3. CASE RunLoop(a)
  <2>1. Moves(a) /\ as'[a].pc \notin Going \cup Starting \cup {"check"}
    BY <1>0, <1>3, Zenon DEF Moves, Fields, Going, RunLoop
  <2>2. /\ targetMutex' = targetMutex
        /\ UNCHANGED shared
    BY <1>3 DEF IInv, Owned, Inside, RunLoop
  <2> QED
    BY <2>1, <2>2, NotResuming
<1>4. CASE RunEnd(a)
  <2>1. Moves(a) /\ as'[a].pc \notin Going \cup Starting \cup {"check"}
    BY <1>0, <1>4, Zenon DEF Moves, Fields, Going, RunEnd
  <2>2. /\ targetMutex' = targetMutex
        /\ UNCHANGED shared
    BY <1>4 DEF IInv, Owned, Inside, RunEnd
  <2> QED
    BY <2>1, <2>2, NotResuming
<1>5. CASE Quit(a)
  <2>1. Moves(a) /\ as'[a].pc \notin Going \cup Starting \cup {"check"}
    BY <1>0, <1>5, Zenon DEF Moves, Fields, Going, Quit
  <2>2. /\ targetMutex' = targetMutex
        /\ UNCHANGED shared
    BY <1>5 DEF IInv, Owned, Inside, Quit
  <2> QED
    BY <2>1, <2>2, NotResuming
<1>6. CASE Test(a)
  <2>1. Moves(a) /\ as'[a].pc \notin Going \cup Starting \cup {"check"}
    BY <1>0, <1>6, Zenon DEF Moves, Fields, Going, Test
  <2>2. /\ targetMutex' = targetMutex
        /\ UNCHANGED shared
    BY <1>6 DEF IInv, Owned, Inside, Test
  <2> QED
    BY <2>1, <2>2, NotResuming
<1>7. CASE Notify(a)
  <2>1. Moves(a) /\ as'[a].pc \notin Going \cup Starting \cup {"check"}
    BY <1>0, <1>7, Zenon DEF Moves, Fields, Going, Notify, Ended, NoRun
  <2>2. /\ targetMutex' = targetMutex
        /\ UNCHANGED shared
    BY <1>7 DEF IInv, Owned, Inside, Notify
  <2> QED
    BY <2>1, <2>2, NotResuming
<1>8. CASE Halted(a)
  <2>1. /\ as[a].pc \in Inside /\ \E r, b, o : Return(a, r, b, o)
        /\ UNCHANGED shared
    BY <1>8, Zenon DEF Inside, Halted
  <2>2. Moves(a) /\ as'[a].pc \in {"test", "quit"} /\ targetMutex' = Nobody
    BY <1>0, <2>1, ReturnMoves, Zenon
  <2>3. targetMutex = a
    BY <2>1, Zenon DEF IInv, Owned
  <2> QED
    BY <2>1, <2>2, <2>3, NotResuming DEF Going
<1>9. CASE Event(a)
  <2>1. /\ as[a].pc \in Inside /\ \E r, b, o : Return(a, r, b, o)
        /\ UNCHANGED shared
    BY <1>9, Zenon DEF Inside, Event
  <2>2. Moves(a) /\ as'[a].pc \in {"test", "quit"} /\ targetMutex' = Nobody
    BY <1>0, <2>1, ReturnMoves, Zenon
  <2>3. targetMutex = a
    BY <2>1, Zenon DEF IInv, Owned
  <2> QED
    BY <2>1, <2>2, <2>3, NotResuming DEF Going
<1>10. CASE RunBegin(a)
  <2>1. Moves(a) /\ as[a].pc \in {"begin", "begun"} /\ as'[a].pc = "set"
    BY <1>0, <1>10, Zenon DEF Moves, Fields, RunBegin
  <2>2. /\ haltRequested' = FALSE
        /\ UNCHANGED <<pc, job, started, changeStateMu, unlocker, targetMutex, paused>>
    BY <1>10 DEF RunBegin
  <2>3. Typed'
    BY <2>1, <2>2 DEF IInv, Typed, Moves
  <2>4. Owned'
    BY <2>1, <2>2, DAPAssumption, Zenon DEF IInv, Typed, Owned, Moves, Going, Deciding,
       Inside, Locked
  <2>5. Waits'
    BY <2>1, <2>2, Zenon DEF IInv, Typed, Owned, Waits, Moves
  <2>6. Pausing'
    BY <2>1, <2>2, DAPAssumption, Zenon DEF IInv, Typed, Owned, Waits, Pausing, Moves, Going,
       Deciding, Locked
  <2> QED
    BY <2>3, <2>4, <2>5, <2>6 DEF IInv
<1>11. CASE ResumeLock(a)
  <2>1. Moves(a) /\ as'[a].pc = "check" /\ as'[a].setup = 0
    BY <1>0, <1>11, Zenon DEF Moves, Fields, ResumeLock
  <2>2. /\ changeStateMu = Nobody /\ changeStateMu' = a /\ unlocker' = unlocker \cup {a}
        /\ UNCHANGED <<pc, job, started, haltRequested, targetMutex, paused>>
    BY <1>11 DEF ResumeLock
  <2>3. ~(as'[a].setup > 0)
    BY <2>1
  <2>4. Typed'
    BY <2>1, <2>2 DEF IInv, Typed, Moves
  <2>5. Owned'
    BY <2>1, <2>2, <2>3, DAPAssumption, Zenon DEF IInv, Typed, Owned, Moves, Going, Deciding,
       Inside,
       Locked
  <2>6. Waits'
    BY <2>1, <2>2, Zenon DEF IInv, Typed, Owned, Waits, Moves
  <2>7. Pausing'
    BY <2>1, <2>2, DAPAssumption, Zenon DEF IInv, Typed, Owned, Waits, Pausing, Moves, Going,
       Deciding, Locked
  <2> QED
    BY <2>4, <2>5, <2>6, <2>7 DEF IInv
<1>12. CASE CheckHalt(a) /\ ~haltRequested
  <2>1. Moves(a) /\ as[a].pc = "check" /\ as'[a].pc = "command" /\ as'[a].setup = as[a].setup
    BY <1>0, <1>12, Zenon DEF Moves, Fields, CheckHalt
  <2>2. ~haltRequested /\ targetMutex' = targetMutex /\ UNCHANGED shared
    BY <1>12 DEF CheckHalt
  <2>3. Typed'
    BY <2>1, <2>2 DEF IInv, Typed, Moves
  <2>4. Owned'
    BY <2>1, <2>2, DAPAssumption, Zenon DEF IInv, Typed, Owned, Moves, Going, Deciding,
       Inside, Locked
  <2>5. Waits'
    BY <2>1, <2>2, ZenonT(60) DEF IInv, Typed, Owned, Waits, Moves
  <2>6. Pausing'
    BY <2>1, <2>2, DAPAssumption, Zenon DEF IInv, Typed, Owned, Waits, Pausing, Moves, Going,
       Deciding, Locked
  <2> QED
    BY <2>3, <2>4, <2>5, <2>6 DEF IInv
<1>13. CASE CheckHalt(a) /\ haltRequested
  <2> DEFINE n == Closed(as[a].setup)
             q == IF process = "exited" THEN "exited" ELSE "stop"
  <2>1. /\ as' = [as EXCEPT ![a].pc = "quit", ![a].setup = n, ![a].onBp = FALSE, ![a].out = q]
        /\ targetMutex' = targetMutex
        /\ UNCHANGED shared
    BY <1>13, Zenon DEF CheckHalt
  <2> HIDE DEF n, q
  <2>2. Moves(a) /\ as'[a].pc = "quit"
    BY <1>0, <2>1, Fields4, ZenonT(60)
  <2> QED
    BY <2>1, <2>2, NotResuming, Zenon DEF Going
<1>14. CASE Command(a) /\ process = "live"
  <2>1. Moves(a) /\ as[a].pc = "command" /\ as'[a].pc = "enter" /\ as'[a].setup = as[a].setup
    BY <1>0, <1>14, Zenon DEF Moves, Fields, Command
  <2>2. targetMutex = Nobody /\ targetMutex' = a /\ UNCHANGED shared
    BY <1>14 DEF Command
  <2>3. Typed'
    BY <2>1, <2>2 DEF IInv, Typed, Moves
  <2>4. Owned'
    BY <2>1, <2>2, DAPAssumption, Zenon DEF IInv, Typed, Owned, Moves, Going, Deciding,
       Inside, Locked
  <2>5. Waits'
    BY <2>1, <2>2, ZenonT(60) DEF IInv, Typed, Owned, Waits, Moves
  <2>6. Pausing'
    BY <2>1, <2>2, DAPAssumption, Zenon DEF IInv, Typed, Owned, Waits, Pausing, Moves, Going,
       Deciding, Locked
  <2> QED
    BY <2>3, <2>4, <2>5, <2>6 DEF IInv
<1>15. CASE Command(a) /\ process # "live"
  <2> DEFINE n == Closed(as[a].setup)
             q == IF process = "exited" THEN "exited" ELSE "error"
  <2>1. /\ as' = [as EXCEPT ![a].pc = "quit", ![a].setup = n, ![a].out = q]
        /\ targetMutex' = targetMutex
        /\ UNCHANGED shared
    BY <1>15, Zenon DEF Command
  <2> HIDE DEF n, q
  <2>2. Moves(a) /\ as'[a].pc = "quit"
    BY <1>0, <2>1, Zenon DEF Moves, Fields
  <2> QED
    BY <2>1, <2>2, NotResuming, Zenon DEF Going
<1>16. CASE Enter(a) /\ as' = [as EXCEPT ![a].pc = "resume"] /\ UNCHANGED targetMutex
  <2>1. Moves(a) /\ as[a].pc = "enter" /\ as'[a].pc = "resume" /\ as'[a].setup = as[a].setup
    BY <1>0, <1>16, Zenon DEF Moves, Fields, Enter
  <2>2. targetMutex' = targetMutex /\ UNCHANGED shared
    BY <1>16 DEF Enter
  <2>3. Typed'
    BY <2>1, <2>2 DEF IInv, Typed, Moves
  <2>4. Owned'
    BY <2>1, <2>2, DAPAssumption, Zenon DEF IInv, Typed, Owned, Moves, Going, Deciding,
       Inside, Locked
  <2>5. Waits'
    BY <2>1, <2>2, ZenonT(60) DEF IInv, Typed, Owned, Waits, Moves
  <2>6. Pausing'
    BY <2>1, <2>2, DAPAssumption, Zenon DEF IInv, Typed, Owned, Waits, Pausing, Moves, Going,
       Deciding, Locked
  <2> QED
    BY <2>3, <2>4, <2>5, <2>6 DEF IInv
<1>17. CASE Enter(a) /\ \E r, b, o : Return(a, r, b, o)
  <2>1. /\ as[a].pc \in Inside /\ \E r, b, o : Return(a, r, b, o)
        /\ UNCHANGED shared
    BY <1>17 DEF Inside, Enter
  <2>2. Moves(a) /\ as'[a].pc \in {"test", "quit"} /\ targetMutex' = Nobody
    BY <1>0, <2>1, ReturnMoves, Zenon
  <2>3. targetMutex = a
    BY <2>1, Zenon DEF IInv, Owned
  <2> QED
    BY <2>1, <2>2, <2>3, NotResuming DEF Going
<1>18. CASE Resume(a)
  <2>1. Moves(a) /\ as[a].pc = "resume" /\ as'[a].pc = "run"
    BY <1>0, <1>18, Zenon DEF Moves, Fields, Resume
  <2>2. targetMutex' = targetMutex /\ UNCHANGED shared
    BY <1>18 DEF Resume
  <2>3. Typed'
    BY <2>1, <2>2 DEF IInv, Typed, Moves
  <2>4. Owned'
    BY <2>1, <2>2, DAPAssumption, Zenon DEF IInv, Typed, Owned, Moves, Going, Deciding,
       Inside, Locked
  <2>5. Waits'
    BY <2>1, <2>2, ZenonT(60) DEF IInv, Typed, Owned, Waits, Moves
  <2>6. Pausing'
    BY <2>1, <2>2, DAPAssumption, Zenon DEF IInv, Typed, Owned, Waits, Pausing, Moves, Going,
       Deciding, Locked
  <2> QED
    BY <2>3, <2>4, <2>5, <2>6 DEF IInv
<1>19. CASE ResumeUnlock(a)
  <2>1. Moves(a) /\ as'[a].pc = as[a].pc /\ as'[a].setup = as[a].setup /\ as[a].setup > 0
    BY <1>0, <1>19, Zenon DEF Moves, Fields, ResumeUnlock
  <2>2. /\ a \in unlocker /\ changeStateMu' = Nobody /\ unlocker' = unlocker \ {a}
        /\ UNCHANGED <<pc, job, started, haltRequested, targetMutex, paused>>
    BY <1>19 DEF ResumeUnlock
  <2>3. Typed'
    BY <2>1, <2>2 DEF IInv, Typed, Moves
  <2>4. Owned'
    BY <2>1, <2>2, DAPAssumption, ZenonT(60) DEF IInv, Typed, Owned, Moves, Going, Deciding,
       Inside, Locked
  <2>5. Waits'
    BY <2>1, <2>2, ZenonT(60) DEF IInv, Typed, Owned, Waits, Moves
  <2>6. Pausing'
    BY <2>1, <2>2, DAPAssumption, Zenon DEF IInv, Typed, Owned, Waits, Pausing, Moves, Going,
       Deciding, Locked
  <2> QED
    BY <2>3, <2>4, <2>5, <2>6 DEF IInv
<1>20. CASE SwitchGoroutine(a)
  <2>1. Moves(a) /\ as[a].pc = "begin" /\ as'[a].pc = "switch" /\ as'[a].flag = as[a].flag
    BY <1>0, <1>20, Zenon DEF Moves, Fields, SwitchGoroutine
  <2>2. targetMutex = Nobody /\ targetMutex' = a /\ UNCHANGED shared
    BY <1>20 DEF SwitchGoroutine
  <2>3. Typed'
    BY <2>1, <2>2 DEF IInv, Typed, Moves
  <2>4. Owned'
    BY <2>1, <2>2, DAPAssumption, ZenonT(60) DEF IInv, Typed, Owned, Moves, Deciding, Inside, Locked
  <2>5. Waits'
    BY <2>1, <2>2, ZenonT(60) DEF IInv, Typed, Waits, Moves
  <2>6. Pausing'
    BY <2>1, <2>2, ZenonT(60) DEF IInv, Typed, Pausing, Moves, Going
  <2> QED
    BY <2>3, <2>4, <2>5, <2>6 DEF IInv
<1>21. CASE Switched(a)
  <2>1. /\ Moves(a) /\ as[a].pc = "switch" /\ as'[a].pc \in {"begun", "refused"}
        /\ as'[a].flag = as[a].flag
    BY <1>0, <1>21, Zenon DEF Moves, Fields, Switched
  <2>2. targetMutex = a /\ targetMutex' = Nobody /\ UNCHANGED shared
    BY <1>21, Zenon DEF Switched, IInv, Owned
  <2>3. Typed'
    BY <2>1, <2>2 DEF IInv, Typed, Moves
  <2>4. Owned'
    BY <2>1, <2>2, DAPAssumption, ZenonT(60) DEF IInv, Typed, Owned, Moves, Deciding, Inside, Locked
  <2>5. Waits'
    BY <2>1, <2>2, ZenonT(60) DEF IInv, Typed, Waits, Moves
  <2>6. Pausing'
    BY <2>1, <2>2, ZenonT(60) DEF IInv, Typed, Pausing, Moves, Going
  <2> QED
    BY <2>3, <2>4, <2>5, <2>6 DEF IInv
<1> QED
  BY <1>1, <1>2, <1>3, <1>4, <1>5, <1>6, <1>7, <1>8, <1>9, <1>10, <1>11, <1>12, <1>13, <1>14, Zenon,
     <1>15, <1>16, <1>17, <1>18, <1>19, <1>20, <1>21 DEF AsyncStep, Enter, CheckHalt, Command

\* The invariant is preserved by every step of the session.
LEMMA NextInv == IInv /\ [Next]_vars => IInv'
<1> SUFFICES ASSUME IInv, [Next]_vars PROVE IInv'
  OBVIOUS
<1>1. CASE UNCHANGED vars
  BY <1>1, Zenon DEF vars, IInv, Typed, Owned, Waits, Pausing
<1>2. ASSUME NEW r \in Requests, Read(r) PROVE IInv'
  BY <1>2, LoopInv
<1>3. CASE ReadFails \/ Stop \/ LoopStep
  BY <1>3, LoopInv
<1>4. ASSUME NEW h \in Handlers, HandlerStep(h) PROVE IInv'
  BY <1>4, HandlerInv
<1>5. ASSUME NEW a \in Async, AsyncStep(a) \/ Event(a) \/ ResumeUnlock(a) PROVE IInv'
  BY <1>5, AsyncInv
<1> QED
  BY <1>1, <1>2, <1>3, <1>4, <1>5 DEF Next

\* Whatever the number of goroutines, and whatever requests, restarts and interrupts come
\* in between: once a pause was answered nothing runs until the client asks for it.
THEOREM PauseFinal == Spec => []PauseSticks
<1>1. IInv => PauseSticks
  BY Zenon DEF IInv, Pausing, PauseSticks, Going
<1> QED
  BY <1>1, InitInv, NextInv, PTL DEF Spec
-----------------------------------------------------------------------------

\* Where a goroutine has not yet decided to end its command.
Busy == {"lock", "check", "command", "enter", "resume", "run", "test"}
Ending(a) == as[a].pc \in {"end", "notify"} \/ (as[a].pc = "loop" /\ ~runningCmd)

\* What makes InterruptionIsHidden inductive as long as one goroutine runs the target:
\* runningCmd is its own; a step of an instruction does not end in a manual stop; one
\* that gave up without resuming found haltRequested set.
Hides(a) ==
  /\ as[a].pc \in Busy => runningCmd
  /\ as[a].pc \in {"resume", "run"} => as[a].cmd # "stepi"
  /\ as[a].pc = "test" /\ as[a].cmd = "stepi" => StopReason # "manual"
  /\ as[a].pc = "quit" /\ as[a].out = "stop" => haltRequested
  /\ Ending(a) /\ ~closed /\ as[a].out = "stop" /\ StopReason = "manual" /\ ~as[a].onBp
       => haltRequested
Hidden == \A a \in Async : Hides(a)

\* A step that asks for a halt, closes the connection or restarts the target, and moves
\* no goroutine, preserves it.
LEMMA HandlersHide ==
  ASSUME Hidden, NEW a \in Async,
         as'[a].pc = as[a].pc /\ as'[a].cmd = as[a].cmd /\ as'[a].out = as[a].out
           /\ as'[a].onBp = as[a].onBp,
         runningCmd' = runningCmd,
         haltRequested => haltRequested', closed => closed',
         StopReason' = StopReason \/ StopReason' = "launched"
  PROVE  Hides(a)'
BY Zenon DEF Hidden, Hides, Ending

\* A goroutine that moves is the only one there is.
LEMMA OthersNone ==
  ASSUME OnePending, NEW a \in Async, Moves(a), as[a].pc # "none", NEW b \in Async \ {a}
  PROVE  Hides(b)'
<1>1. as'[b].pc = "none"
  BY Zenon DEF OnePending, Moves
<1> QED
  BY <1>1, Zenon DEF Hides, Ending, Busy
\* The goroutines that run the target preserve it, one at a time.
LEMMA AsyncHides ==
  ASSUME IInv, Hidden, OnePending, NEW a \in Async, AsyncStep(a) \/ Event(a)
  PROVE  Hidden'
<1>0. DOMAIN as = Async /\ (\A b \in Async : DOMAIN as[b] = Fields) /\ Hides(a)
  BY Zenon DEF IInv, Typed, Hidden
<1>1. CASE StepRefused(a)
  <2>1. Moves(a) /\ as[a].pc = "refused" /\ as'[a].pc = "none"
    BY <1>0, <1>1, Zenon DEF Moves, Fields, StepRefused, Ended, NoRun
  <2>2. UNCHANGED <<StopReason, haltRequested, runningCmd, closed>>
    BY <1>1, Zenon DEF StepRefused
  <2>3. Hides(a)'
    BY <1>0, <2>1, <2>2, Zenon DEF Hides, Ending, Busy
  <2> QED
    BY <2>1, <2>3, OthersNone, Zenon DEF Hidden
<1>2. CASE RunBegin(a)
  <2>1. /\ Moves(a) /\ as[a].pc \in {"begin", "begun"} /\ as'[a].pc = "set"
        /\ as'[a].cmd = as[a].cmd /\ as'[a].out = as[a].out /\ as'[a].onBp = as[a].onBp
    BY <1>0, <1>2, Zenon DEF Moves, Fields, RunBegin
  <2>2. UNCHANGED <<StopReason, runningCmd, closed>>
    BY <1>2, Zenon DEF RunBegin
  <2>3. Hides(a)'
    BY <1>0, <2>1, <2>2, Zenon DEF Hides, Ending, Busy
  <2> QED
    BY <2>1, <2>3, OthersNone, Zenon DEF Hidden
<1>3. CASE RunSet(a)
  <2>1. /\ Moves(a) /\ as[a].pc = "set" /\ as'[a].pc = "loop"
        /\ as'[a].cmd = as[a].cmd /\ as'[a].out = as[a].out /\ as'[a].onBp = as[a].onBp
    BY <1>0, <1>3, Zenon DEF Moves, Fields, RunSet
  <2>2. runningCmd' = TRUE /\ UNCHANGED <<StopReason, haltRequested, closed>>
    BY <1>3, Zenon DEF RunSet
  <2>3. Hides(a)'
    BY <1>0, <2>1, <2>2, Zenon DEF Hides, Ending, Busy
  <2> QED
    BY <2>1, <2>3, OthersNone, Zenon DEF Hidden
<1>4. CASE RunLoop(a)
  <2>1. /\ Moves(a) /\ as[a].pc = "loop"
        /\ (as'[a].pc = "lock" /\ runningCmd) \/ (as'[a].pc = "end" /\ ~runningCmd)
        /\ as'[a].cmd = as[a].cmd /\ as'[a].out = as[a].out /\ as'[a].onBp = as[a].onBp
    BY <1>0, <1>4, Zenon DEF Moves, Fields, RunLoop
  <2>2. UNCHANGED <<StopReason, haltRequested, runningCmd, closed>>
    BY <1>4, Zenon DEF RunLoop
  <2>3. Hides(a)'
    BY <1>0, <2>1, <2>2, Zenon DEF Hides, Ending, Busy
  <2> QED
    BY <2>1, <2>3, OthersNone, Zenon DEF Hidden
<1>5. CASE RunEnd(a)
  <2>1. /\ Moves(a) /\ as[a].pc = "end" /\ as'[a].pc = "notify"
        /\ as'[a].cmd = as[a].cmd /\ as'[a].out = as[a].out /\ as'[a].onBp = as[a].onBp
    BY <1>0, <1>5, Zenon DEF Moves, Fields, RunEnd
  <2>2. UNCHANGED <<StopReason, haltRequested, closed>>
    BY <1>5, Zenon DEF RunEnd
  <2>3. Hides(a)'
    BY <1>0, <2>1, <2>2, Zenon DEF Hides, Ending, Busy
  <2> QED
    BY <2>1, <2>3, OthersNone, Zenon DEF Hidden
<1>6. CASE ResumeLock(a)
  <2>1. /\ Moves(a) /\ as[a].pc = "lock" /\ as'[a].pc = "check"
        /\ as'[a].cmd = as[a].cmd /\ as'[a].out = as[a].out /\ as'[a].onBp = as[a].onBp
    BY <1>0, <1>6, Zenon DEF Moves, Fields, ResumeLock
  <2>2. UNCHANGED <<StopReason, haltRequested, runningCmd, closed>>
    BY <1>6, Zenon DEF ResumeLock
  <2>3. Hides(a)'
    BY <1>0, <2>1, <2>2, Zenon DEF Hides, Ending, Busy
  <2> QED
    BY <2>1, <2>3, OthersNone, Zenon DEF Hidden
<1>7. CASE Resume(a)
  <2>1. /\ Moves(a) /\ as[a].pc = "resume" /\ as'[a].pc = "run"
        /\ as'[a].cmd = as[a].cmd /\ as'[a].out = as[a].out /\ as'[a].onBp = as[a].onBp
    BY <1>0, <1>7, Zenon DEF Moves, Fields, Resume
  <2>2. UNCHANGED <<StopReason, haltRequested, runningCmd, closed>>
    BY <1>7, Zenon DEF Resume
  <2>3. Hides(a)'
    BY <1>0, <2>1, <2>2, Zenon DEF Hides, Ending, Busy
  <2> QED
    BY <2>1, <2>3, OthersNone, Zenon DEF Hidden
<1>8. CASE Quit(a)
  <2>1. /\ Moves(a) /\ as[a].pc = "quit" /\ as'[a].pc = "loop"
        /\ as'[a].cmd = as[a].cmd /\ as'[a].out = as[a].out /\ as'[a].onBp = as[a].onBp
    BY <1>0, <1>8, Zenon DEF Moves, Fields, Quit
  <2>2. UNCHANGED <<StopReason, haltRequested, closed>>
    BY <1>8, Zenon DEF Quit
  <2>3. Hides(a)'
    BY <1>0, <2>1, <2>2, Zenon DEF Hides, Ending, Busy
  <2> QED
    BY <2>1, <2>3, OthersNone, Zenon DEF Hidden
<1>9. CASE Test(a)
  <2>1. /\ Moves(a) /\ as[a].pc = "test" /\ as'[a].pc = "loop"
        /\ as'[a].out = as[a].out /\ as'[a].onBp = as[a].onBp
    BY <1>0, <1>9, Zenon DEF Moves, Fields, Test
  <2>2. /\ UNCHANGED <<StopReason, haltRequested, closed>>
        /\ ~runningCmd' => \/ closed \/ as[a].cmd = "stepi" \/ StopReason # "manual"
                            \/ as[a].onBp \/ haltRequested \/ ~runningCmd
    BY <1>9, Zenon DEF Test
  <2>3. Hides(a)'
    BY <1>0, <2>1, <2>2, Zenon DEF Hides, Ending, Busy
  <2> QED
    BY <2>1, <2>3, OthersNone, Zenon DEF Hidden
<1>10. CASE Notify(a)
  <2>1. Moves(a) /\ as[a].pc = "notify" /\ as'[a].pc = "none"
    BY <1>0, <1>10, Zenon DEF Moves, Fields, Notify, Ended, NoRun
  <2>2. UNCHANGED <<StopReason, haltRequested, runningCmd, closed>>
    BY <1>10, Zenon DEF Notify
  <2>3. Hides(a)'
    BY <1>0, <2>1, <2>2, Zenon DEF Hides, Ending, Busy
  <2> QED
    BY <2>1, <2>3, OthersNone, Zenon DEF Hidden
<1>11. ASSUME NEW reason, NEW b, NEW o, Return(a, reason, b, o), as[a].pc \in Inside,
              as[a].cmd = "stepi" => reason # "manual",
              UNCHANGED <<haltRequested, runningCmd, closed>>
       PROVE  Hidden'
  <2>1. /\ Moves(a) /\ as'[a].pc \in {"test", "quit"}
        /\ as'[a].pc = "quit" => as'[a].out # "stop"
        /\ as'[a].cmd = as[a].cmd
    BY <1>0, <1>11, ReturnMoves, Zenon
  <2>2. StopReason' = reason
    BY <1>11 DEF Return
  <2>3. Hides(a)'
    BY <1>0, <1>11, <2>1, <2>2, Zenon DEF Hides, Ending, Busy, Inside
  <2>4. as[a].pc # "none"
    BY <1>11, Zenon DEF Inside
  <2> QED
    BY <2>1, <2>3, <2>4, OthersNone, Zenon DEF Hidden
<1>12. CASE Halted(a)
  <2>1. as[a].pc \in {"resume", "run"} /\ UNCHANGED <<haltRequested, runningCmd, closed>>
    BY <1>12, Zenon DEF Halted
  <2>2. PICK b \in BOOLEAN : Return(a, "manual", b, "stop")
    BY <1>12, Zenon DEF Halted
  <2> QED
    BY <1>0, <1>11, <2>1, <2>2, Zenon DEF Hides, Inside
<1>13. CASE Event(a)
  <2>1. as[a].pc = "run" /\ UNCHANGED <<haltRequested, runningCmd, closed>>
    BY <1>13, Zenon DEF Event
  <2>2. \E b \in BOOLEAN, o \in {"stop", "exited"}, r \in {"breakpoint", "nextFinished", "exited"} :
          Return(a, r, b, o)
    BY <1>13, Zenon DEF Event
  <2> QED
    BY <1>11, <2>1, <2>2, Zenon DEF Inside
<1>14. CASE Enter(a)
  <2>1. as[a].pc = "enter" /\ UNCHANGED <<haltRequested, runningCmd, closed>>
    BY <1>14, Zenon DEF Enter
  <2>2. CASE Return(a, "nextFinished", FALSE, "stop")
    BY <1>11, <2>1, <2>2, Zenon DEF Inside
  <2>3. CASE as[a].cmd = "step" /\ Return(a, StopReason, FALSE, "error")
    BY <1>11, <2>1, <2>3, Zenon DEF Inside
  <2>4. CASE /\ as[a].cmd # "stepi" /\ as' = [as EXCEPT ![a].pc = "resume"]
             /\ StopReason' = StopReason
    <3>1. /\ Moves(a) /\ as'[a].pc = "resume"
          /\ as'[a].cmd = as[a].cmd /\ as'[a].out = as[a].out /\ as'[a].onBp = as[a].onBp
      BY <1>0, <2>4, Zenon DEF Moves, Fields
    <3>2. Hides(a)'
      BY <1>0, <2>1, <2>4, <3>1, Zenon DEF Hides, Ending, Busy
    <3> QED
      BY <2>1, <3>1, <3>2, OthersNone, Zenon DEF Hidden
  <2> QED
    BY <1>14, <2>2, <2>3, <2>4, Zenon DEF Enter
<1>15. CASE CheckHalt(a)
  <2>1. as[a].pc = "check" /\ UNCHANGED <<StopReason, haltRequested, runningCmd, closed>>
    BY <1>15, Zenon DEF CheckHalt
  <2>2. CASE as' = [as EXCEPT ![a].pc = "command"]
    <3>1. /\ Moves(a) /\ as'[a].pc = "command"
          /\ as'[a].cmd = as[a].cmd /\ as'[a].out = as[a].out /\ as'[a].onBp = as[a].onBp
      BY <1>0, <2>2, Zenon DEF Moves, Fields
    <3>2. Hides(a)'
      BY <1>0, <2>1, <3>1, Zenon DEF Hides, Ending, Busy
    <3> QED
      BY <2>1, <3>1, <3>2, OthersNone, Zenon DEF Hidden
  <2>3. ASSUME NEW n, NEW q, haltRequested,
               as' = [as EXCEPT ![a].pc = "quit", ![a].setup = n, ![a].onBp = FALSE, ![a].out = q]
        PROVE  Hidden'
    <3>1. Moves(a) /\ as'[a].pc = "quit"
      BY <1>0, <2>3, Fields4, ZenonT(60)
    <3>2. Hides(a)'
      BY <1>0, <2>1, <2>3, <3>1, Zenon DEF Hides, Ending, Busy
    <3> QED
      BY <2>1, <3>1, <3>2, OthersNone, Zenon DEF Hidden
  <2>4. CASE haltRequested
    <3> DEFINE n == Closed(as[a].setup)
               q == IF process = "exited" THEN "exited" ELSE "stop"
    <3>1. as' = [as EXCEPT ![a].pc = "quit", ![a].setup = n, ![a].onBp = FALSE, ![a].out = q]
      BY <1>15, <2>4, Zenon DEF CheckHalt
    <3> HIDE DEF n, q
    <3> QED
      BY <2>3, <2>4, <3>1, Zenon
  <2> QED
    BY <1>15, <2>2, <2>4, Zenon DEF CheckHalt
<1>16. CASE Command(a)
  <2>1. as[a].pc = "command" /\ UNCHANGED <<StopReason, haltRequested, runningCmd, closed>>
    BY <1>16, Zenon DEF Command
  <2>2. CASE as' = [as EXCEPT ![a].pc = "enter"]
    <3>1. /\ Moves(a) /\ as'[a].pc = "enter"
          /\ as'[a].cmd = as[a].cmd /\ as'[a].out = as[a].out /\ as'[a].onBp = as[a].onBp
      BY <1>0, <2>2, Zenon DEF Moves, Fields
    <3>2. Hides(a)'
      BY <1>0, <2>1, <3>1, Zenon DEF Hides, Ending, Busy
    <3> QED
      BY <2>1, <3>1, <3>2, OthersNone, Zenon DEF Hidden
  <2>3. ASSUME NEW n, NEW q \in {"exited", "error"},
               as' = [as EXCEPT ![a].pc = "quit", ![a].setup = n, ![a].out = q]
        PROVE  Hidden'
    <3>1. Moves(a) /\ as'[a].pc = "quit" /\ as'[a].out = q
      BY <1>0, <2>3, Zenon DEF Moves, Fields
    <3>2. Hides(a)'
      BY <1>0, <2>1, <2>3, <3>1, Zenon DEF Hides, Ending, Busy
    <3> QED
      BY <2>1, <3>1, <3>2, OthersNone, Zenon DEF Hidden
  <2>4. CASE process # "live"
    <3> DEFINE n == Closed(as[a].setup)
               q == IF process = "exited" THEN "exited" ELSE "error"
    <3>1. as' = [as EXCEPT ![a].pc = "quit", ![a].setup = n, ![a].out = q]
      BY <1>16, <2>4, Zenon DEF Command
    <3>2. q \in {"exited", "error"}
      OBVIOUS
    <3> HIDE DEF n, q
    <3> QED
      BY <2>3, <3>1, <3>2, Zenon
  <2> QED
    BY <1>16, <2>2, <2>4, Zenon DEF Command
<1>17. CASE SwitchGoroutine(a) \/ Switched(a)
  <2>1. Moves(a) /\ as[a].pc \in {"begin", "switch"} /\ as'[a].pc \in {"switch", "begun", "refused"}
    BY <1>0, <1>17, Zenon DEF Moves, Fields, SwitchGoroutine, Switched
  <2>2. Hides(a)'
    BY <2>1, Zenon DEF Hides, Ending, Busy
  <2> QED
    BY <2>1, <2>2, OthersNone, Zenon DEF Hidden
<1> QED
  BY <1>1, <1>2, <1>3, <1>4, <1>5, <1>6, <1>7, <1>8, <1>9, <1>10, <1>12, <1>13, <1>14, <1>15,
     <1>16, <1>17, Zenon DEF AsyncStep

\* Every step preserves it.
LEMMA NextHides ==
  ASSUME IInv, Hidden, OnePending, OnePending', [Next]_vars
  PROVE  Hidden'
<1>0. DOMAIN as = Async /\ \A b \in Async : DOMAIN as[b] = Fields
  BY Zenon DEF IInv, Typed
<1>1. ASSUME as' = as, runningCmd' = runningCmd, haltRequested => haltRequested', closed => closed',
             StopReason' = StopReason \/ StopReason' = "launched"
      PROVE  Hidden'
  BY <1>1, HandlersHide, Zenon DEF Hidden
<1>2. CASE UNCHANGED vars
  BY <1>1, <1>2, Zenon DEF vars
<1>3. ASSUME NEW r \in Requests, Read(r) PROVE Hidden'
  <2>1. UNCHANGED <<runningCmd, haltRequested, closed, StopReason>>
    BY <1>3, Zenon DEF Read
  <2>2. CASE as' = as
    BY <1>1, <2>1, <2>2, Zenon
  <2>3. ASSUME NEW a \in Async, as' = [as EXCEPT ![a] = [NoRun EXCEPT !.pc = "begin", !.req = r,
                                                                    !.cmd = r]]
        PROVE  Hidden'
    <3>1. Moves(a) /\ as'[a].pc = "begin"
      BY <1>0, <2>3, Zenon DEF Moves, NoRun, Fields
    <3>2. ASSUME NEW b \in Async PROVE as'[b].pc \in {"none", "begin"}
      BY <3>1, Zenon DEF OnePending
    <3> QED
      BY <3>2, Zenon DEF Hidden, Hides, Ending, Busy
  <2> QED
    BY <1>3, <2>2, <2>3, Zenon DEF Read
<1>4. CASE ReadFails \/ Stop \/ LoopStep
  BY <1>1, <1>4, Zenon DEF ReadFails, Stop, LoopStep, Resumed, Work
<1>5. ASSUME NEW h \in Handlers, HandlerStep(h) PROVE Hidden'
  <2>1. as' = as /\ runningCmd' = runningCmd
    BY <1>5, Zenon DEF HandlerStep, LockMu, LockChangeState, NoDebug, HaltCheck, HaltAsk,
       HaltLock, HaltUnlock, HaltWait, Act, CloseConn
  <2>2. /\ haltRequested' = haltRequested \/ haltRequested' = TRUE
        /\ closed' = closed \/ closed' = TRUE
    BY <1>5, Zenon DEF HandlerStep, LockMu, LockChangeState, NoDebug, HaltCheck, HaltAsk,
       HaltLock, HaltUnlock, HaltWait, Act, CloseConn
  <2>3. StopReason' = StopReason \/ StopReason' = "launched"
    BY <1>5, Zenon DEF HandlerStep, LockMu, LockChangeState, NoDebug, HaltCheck, HaltAsk,
       HaltLock, HaltUnlock, HaltWait, Act, CloseConn
  <2>4. (haltRequested => haltRequested') /\ (closed => closed')
    BY <2>2
  <2> QED
    BY <1>1, <2>1, <2>3, <2>4
<1>6. ASSUME NEW a \in Async, AsyncStep(a) \/ Event(a) PROVE Hidden'
  BY <1>6, AsyncHides
<1>7. ASSUME NEW a \in Async, ResumeUnlock(a) PROVE Hidden'
  <2>1. \A b \in Async : /\ as'[b].pc = as[b].pc /\ as'[b].cmd = as[b].cmd
                          /\ as'[b].out = as[b].out /\ as'[b].onBp = as[b].onBp
    BY <1>0, <1>7, Zenon DEF ResumeUnlock, Fields
  <2>2. UNCHANGED <<runningCmd, haltRequested, closed, StopReason>>
    BY <1>7, Zenon DEF ResumeUnlock
  <2> QED
    BY <2>1, <2>2, HandlersHide, Zenon DEF Hidden
<1> QED
  BY <1>2, <1>3, <1>4, <1>5, <1>6, <1>7 DEF Next

\* As long as handleRequest is right that "there should be no more than one pending
\* asynchronous request at a time" (a restart can break that), a stop that only served to
\* set breakpoints is never reported to the client.
THEOREM InterruptionsHidden == Spec /\ []OnePending => []InterruptionIsHidden
<1>1. Init => Hidden
  <2>1. Init => as = [a \in Async |-> NoRun]
    BY DEF Init
  <2>2. NoRun.pc = "none"
    BY DEF NoRun
  <2>3. Init => \A a \in Async : as[a].pc = "none"
    BY <2>1, <2>2, Zenon
  <2> QED
    BY <2>3, Zenon DEF Hidden, Hides, Ending, Busy
<1>2. IInv /\ Hidden /\ OnePending /\ OnePending' /\ [Next]_vars => Hidden'
  BY NextHides
<1>3. Hidden => InterruptionIsHidden
  BY Zenon DEF Hidden, Hides, Ending, InterruptionIsHidden
<1> QED
  BY <1>1, <1>2, <1>3, InitInv, NextInv, PTL DEF Spec
=============================================================================
