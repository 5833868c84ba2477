------------------------------ MODULE Execution ------------------------------
(***************************************************************************)
(* Resuming one target: TargetGroup.Continue, the commands that set        *)
(* stepping breakpoints before they call it (Next, Step, StepOut,          *)
(* StepInstruction), and the manual stop requests (Halt) that reach it     *)
(* from another goroutine at any moment.                                   *)
(*                                                                         *)
(* phase follows the goroutine that holds the debugger's target mutex:     *)
(*   idle     no command                                                   *)
(*   start    the command has been accepted, Continue not entered          *)
(*   top      head of the loop of Continue                                 *)
(*   run      the threads run, ContinueOnce waits for one of them to trap  *)
(*   check    the conditions of the threads in todo are to be evaluated    *)
(*   decide   all conditions evaluated                                     *)
(*   ret      Continue returns, its deferred function has yet to run       *)
(* One logical user breakpoint is set at the address UserAddr; where the   *)
(* stepping breakpoints of a command go is an element of StepPlans.        *)
(*                                                                         *)
(* Taking a trap out of the process always succeeds here (module           *)
(* Breakpoints has the erasures that fail), so ClearSteppingBreakpoints    *)
(* returns no error.  Of an injected call only its end is seen: module     *)
(* CallInjection has the protocol.                                         *)
(***************************************************************************)
EXTENDS BreakpointState, FiniteSets

CONSTANTS
  Threads,      \* the threads of the process, one goroutine on each
  Addrs,        \* the addresses that may hold a breakpoint
  UserAddr,     \* the address of the user breakpoint
  StepPlans,    \* [Addrs -> Seq(Breaklet)]: what next() may set
  HitConds,     \* the hit conditions of the user breakpoint
  KeepOnHalt,   \* KeepSteppingBreakpoints & HaltKeepsSteppingBreakpoints
  KeepOnTrace,  \* KeepSteppingBreakpoints & TracepointKeepsSteppingBreakpoints
  Tracepoint,   \* the user breakpoint is a tracepoint
  InjectedCalls, \* injected calls may be in progress when the target runs
  MaxHits,      \* bound on the hits of the user breakpoint
  MaxBreaklets  \* bound on the breaklets at one address

NoAddr == "none"
Hard == "hardcoded"

(* What the stepping commands set; the breakpoint on a go statement always  *)
(* has its callback.                                                        *)
StepBreaklet ==
  {b \in Breaklet : b.kind \notin {"user", "inactivated"} /\ (b.kind = "newproc" => b.cb # "none")}

(* No condition is "% 0": parseHitCondition lets it pass, and checkHitCond  *)
(* would divide by zero.                                                    *)
ASSUME ExecutionAssumption ==
  /\ UserAddr \in Addrs /\ {NoAddr, Hard} \cap Addrs = {}
  /\ StepPlans \subseteq [Addrs -> Seq(StepBreaklet)]
  /\ HitConds \subseteq [op : HitOps \cup {"nil"}, val : Nat, perG : BOOLEAN]
  /\ \A hc \in HitConds : hc.op = "%" => hc.val > 0
  /\ {KeepOnHalt, KeepOnTrace, Tracepoint, InjectedCalls} \subseteq BOOLEAN
  /\ MaxHits \in Nat /\ MaxBreaklets \in Nat

VARIABLES
  bps,      \* breakpoints.M: the breaklets at every address
  lbp,      \* the logical breakpoint: hits, hitCond, condSatisfiable
  ts,       \* thread.Breakpoint() of every thread
  cur,      \* currentThread
  reason,   \* StopReason
  flag,     \* cctx.manualStopRequested
  sig,      \* a SIGTRAP sent by RequestManualStop is pending
  phase,
  todo,     \* threads whose conditions are to be evaluated
  trap,     \* the thread found first to have trapped
  ret       \* what Continue is returning

vars == <<bps, lbp, ts, cur, reason, flag, sig, phase, todo, trap, ret>>

Reasons == {"unknown", "launched", "breakpoint", "hardcoded", "nextFinished", "manual",
            "callReturned"}
Phases == {"idle", "start", "top", "run", "check", "decide", "ret", "exited"}

NewState == [at |-> NoAddr, Active |-> FALSE, Stepping |-> FALSE, SteppingInto |-> FALSE,
             RangeBody |-> FALSE, CondError |-> FALSE, userMet |-> FALSE, stepMet |-> FALSE]

Clear(st) == Cleared(st, NoAddr)

Stepping(b) == b.kind \in SteppingKinds
HasSteppingBreakpoints(tab) == \E a \in Addrs : \E i \in 1..Len(tab[a]) : Stepping(tab[a][i])

(* The breaklets of list that are not of the kinds, in their order.        *)
Keep(list, kinds) ==
  LET kept[i \in 0..Len(list)] ==
        IF i = 0 THEN <<>>
        ELSE IF list[i].kind \in kinds THEN kept[i - 1] ELSE Append(kept[i - 1], list[i])
  IN kept[Len(list)]

Without(tab, kinds) == [a \in Addrs |-> Keep(tab[a], kinds)]

(* Defective variant: also when other breaklets are left at the address.    *)
DetachedAlways(states, old, new) ==
  [t \in Threads |-> LET a == states[t].at
                     IN IF a \in Addrs /\ old[a] # new[a]
                        THEN Clear(states[t]) ELSE states[t]]

(* Threads at a breakpoint that a clear removes from the table lose it.     *)
Detached(states, old, new) ==
  [t \in Threads |-> LET a == states[t].at
                     IN IF a \in Addrs /\ old[a] # <<>> /\ new[a] = <<>>
                        THEN Clear(states[t]) ELSE states[t]]

(* ClearSteppingBreakpoints, and clearInactivatedSteppingBreakpoint.        *)
ClearStepping(tab, states) ==
  LET new == Without(tab, SteppingKinds)
  IN [bps |-> new, ts |-> Detached(states, tab, new)]

ClearInactivated(tab, states) ==
  LET new == Without(tab, {"inactivated"})
  IN [bps |-> new, ts |-> Detached(states, tab, new)]

(* clearHardcodedBreakpoints.                                               *)
ClearHardcoded(states) ==
  [t \in Threads |-> IF states[t].at = Hard
                     THEN [states[t] EXCEPT !.at = NoAddr, !.Active = FALSE] ELSE states[t]]

Init ==
  /\ bps = [a \in Addrs |-> IF a = UserAddr THEN <<[kind |-> "user", cb |-> "none"]>> ELSE <<>>]
  /\ \E hc \in HitConds :
       lbp = [hits |-> 0, hitsG |-> [t \in Threads |-> 0], hitCond |-> hc,
              condSatisfiable |-> TRUE]
  /\ ts = [t \in Threads |-> NewState]
  /\ cur \in Threads
  /\ reason = "launched" /\ flag = FALSE /\ sig = FALSE
  /\ phase = "idle" /\ todo = {} /\ trap = cur /\ ret = "nil"

(***************************************************************************)
(* Commands                                                                *)
(***************************************************************************)

ContinueCmd ==
  /\ phase = "idle" /\ phase' = "start"
  /\ UNCHANGED <<bps, lbp, ts, cur, reason, flag, sig, todo, trap, ret>>

Add(tab, plan) == [a \in Addrs |-> tab[a] \o plan[a]]

(* next() sets the current breakpoint of a thread that has none, without    *)
(* evaluating its conditions.                                               *)
SetCurrentBreakpoint(states, tab, t, a) ==
  IF states[t].at = NoAddr /\ a # NoAddr /\ tab[a] # <<>>
  THEN [states EXCEPT ![t].at = a] ELSE states

(* Next, Step and StepOut: refused while a step is in progress; next()      *)
(* either sets all of the breakpoints of a plan or, failing, clears them.   *)
(* a is the address at which the current thread is stopped.                 *)
StepCmd ==
  /\ phase = "idle" /\ ~HasSteppingBreakpoints(bps)
  /\ \E plan \in StepPlans, a \in Addrs \cup {NoAddr} :
       /\ bps' = Add(bps, plan)
       /\ ts' = SetCurrentBreakpoint(ts, bps', cur, a)
  /\ phase' = "start"
  /\ UNCHANGED <<lbp, cur, reason, flag, sig, todo, trap, ret>>

(* StepInstruction of a running goroutine: one thread executes one          *)
(* instruction, the others stay stopped.                                    *)
StepInstruction ==
  /\ phase = "idle"
  /\ \E a \in Addrs \cup {NoAddr} :
       /\ a # NoAddr => bps[a] # <<>>
       /\ ts' = [ts EXCEPT ![cur] = [Clear(ts[cur]) EXCEPT !.at = a]]
  /\ reason' = "nextFinished"
  /\ UNCHANGED <<bps, lbp, cur, flag, sig, phase, todo, trap, ret>>

(* Step going backward, from a StepBreakpoint that is still the active      *)
(* breakpoint of the current thread (a condition failed when it was hit,    *)
(* and the step was cancelled): what next() has set is cleared again, and   *)
(* one instruction is executed.                                             *)
StepBack ==
  /\ phase = "idle" /\ ~HasSteppingBreakpoints(bps)
  /\ ts[cur].at # NoAddr /\ ts[cur].Active /\ ts[cur].SteppingInto
  /\ \E plan \in StepPlans, a \in Addrs \cup {NoAddr} :
       LET c == ClearStepping(Add(bps, plan), ts) IN
       /\ a # NoAddr => c.bps[a] # <<>>
       /\ bps' = c.bps
       /\ ts' = [c.ts EXCEPT ![cur] = [Clear(c.ts[cur]) EXCEPT !.at = a]]
  /\ reason' = "nextFinished"
  /\ UNCHANGED <<lbp, cur, flag, sig, phase, todo, trap, ret>>

(* StepInstruction of a parked goroutine: a stepping breakpoint where it    *)
(* will resume, with no check that no step is in progress.                  *)
StepParked ==
  /\ phase = "idle"
  /\ \E a \in Addrs :
       /\ Len(bps[a]) < MaxBreaklets
       /\ bps' = [bps EXCEPT ![a] = Append(@, [kind |-> "next", cb |-> "none"])]
  /\ phase' = "start"
  /\ UNCHANGED <<lbp, ts, cur, reason, flag, sig, todo, trap, ret>>

CancelNext ==
  /\ phase = "idle" /\ HasSteppingBreakpoints(bps)
  /\ LET c == ClearStepping(bps, ts) IN bps' = c.bps /\ ts' = c.ts
  /\ UNCHANGED <<lbp, cur, reason, flag, sig, phase, todo, trap, ret>>

(* RequestManualStop, from the goroutine that serves Halt: no lock but      *)
(* StopMu is needed, so it may happen at any moment.                        *)
RequestManualStop ==
  /\ phase # "exited"
  /\ flag' = TRUE /\ sig' = TRUE
  /\ UNCHANGED <<bps, lbp, ts, cur, reason, phase, todo, trap, ret>>

(***************************************************************************)
(* Continue                                                                *)
(***************************************************************************)

Enter ==
  /\ phase = "start" /\ phase' = "top"
  /\ ts' = ClearHardcoded(ts)
  /\ flag' = FALSE
  /\ UNCHANGED <<bps, lbp, cur, reason, sig, todo, trap, ret>>

(* manageUnsatisfiableBreakpoints for the one logical breakpoint: the user  *)
(* breaklet is removed once no later hit can satisfy the hit condition.     *)
Managed ==
  IF lbp.condSatisfiable /\ ~satisfiable(lbp)
  THEN [lbp |-> [lbp EXCEPT !.condSatisfiable = FALSE],
        bps |-> Without(bps, {"user"})]
  ELSE [lbp |-> lbp, bps |-> bps]

(* Defective variant: the step that is interrupted is left in place.        *)
finishManualStopKeepsStep(tab) ==
  reason' = "manual" /\ bps' = tab /\ ts' = ClearHardcoded(ts)

(* finishManualStop.                                                        *)
finishManualStop(tab) ==
  LET states == ClearHardcoded(ts)
      c == IF KeepOnHalt THEN [bps |-> tab, ts |-> states] ELSE ClearStepping(tab, states)
  IN /\ reason' = "manual"
     /\ bps' = c.bps /\ ts' = c.ts

TopHalted ==
  /\ phase = "top" /\ flag
  /\ lbp' = Managed.lbp
  /\ flag' = FALSE
  /\ finishManualStop(Managed.bps)
  /\ phase' = "ret" /\ ret' = "nil"
  /\ UNCHANGED <<cur, sig, todo, trap>>

(* Defective variant: the request is only looked at on entry.               *)
ResumeAnyway ==
  /\ phase = "top"
  /\ lbp' = Managed.lbp /\ bps' = Managed.bps
  /\ ts' = [t \in Threads |-> Clear(ts[t])]
  /\ phase' = "run"
  /\ UNCHANGED <<cur, reason, flag, sig, todo, trap, ret>>

(* ContinueOnce up to the wait: threads at a breakpoint step over it, all   *)
(* are resumed and their breakpoint states cleared.                         *)
Resume ==
  /\ phase = "top" /\ ~flag
  /\ lbp' = Managed.lbp /\ bps' = Managed.bps
  /\ ts' = [t \in Threads |-> Clear(ts[t])]
  /\ phase' = "run"
  /\ UNCHANGED <<cur, reason, flag, sig, todo, trap, ret>>

(* ContinueOnce, from the wait on: some threads are stopped by a breakpoint *)
(* or by a breakpoint instruction of the program, one of the threads is     *)
(* found first.                                                             *)
Stop(where) ==
  /\ Cardinality({t \in Threads : where[t] = UserAddr}) + lbp.hits <= MaxHits
  /\ \A t \in Threads : where[t] \in Addrs => bps[where[t]] # <<>>
  /\ ts' = [t \in Threads |-> [ts[t] EXCEPT !.at = where[t]]]
  /\ todo' = {t \in Threads : where[t] \in Addrs}
  /\ reason' = "unknown"
  /\ phase' = "check"
  /\ UNCHANGED <<bps, lbp, cur, flag, ret>>

TrapHit ==
  /\ phase = "run"
  /\ \E where \in [Threads -> Addrs \cup {NoAddr, Hard}] :
       /\ Stop(where)
       /\ trap' \in {t \in Threads : where[t] # NoAddr}
  /\ UNCHANGED sig

(* The same, when the thread found first got the signal of a manual stop.   *)
TrapSignal ==
  /\ phase = "run" /\ sig
  /\ sig' = FALSE
  /\ \E where \in [Threads -> Addrs \cup {NoAddr, Hard}] :
       Stop(where) /\ trap' \in {t \in Threads : where[t] = NoAddr}

(* The process exits: ContinueOnce returns ErrProcessExited.                *)
Exit ==
  /\ phase = "run"
  /\ phase' = "exited" /\ ret' = "exited" /\ flag' = FALSE
  /\ UNCHANGED <<bps, lbp, ts, cur, reason, sig, todo, trap>>

Inactivate(tab, A, kinds) ==
  [a \in Addrs |-> IF a \in A
                   THEN [i \in 1..Len(tab[a]) |->
                          IF tab[a][i].kind \in kinds
                          THEN [kind |-> "inactivated", cb |-> tab[a][i].cb] ELSE tab[a][i]]
                   ELSE tab[a]]

AppendNext(tab, a) == [tab EXCEPT ![a] = Append(@, [kind |-> "next", cb |-> "none"])]

(* What the callbacks that ran do to the table: stepIntoCallback and the    *)
(* callback of a go statement set a breakpoint at the destination dest,     *)
(* the latter and the one of a range-over-func body inactivate breakpoints. *)
AfterCallbacks(tab, ran, dest, body) ==
  LET t1 == IF "inactivate" \in ran THEN Inactivate(tab, body, {"next"}) ELSE tab
      t2 == IF "newproc" \in ran THEN Inactivate(t1, Addrs, SteppingKinds) ELSE t1
  IN IF ran \cap {"stepInto", "newproc"} # {} /\ dest # NoAddr THEN AppendNext(t2, dest) ELSE t2

CheckThread ==
  /\ phase = "check"
  /\ \E t \in todo :
       LET a == ts[t].at IN
       \E os \in {f \in [1..Len(bps[a]) -> UNION {Outcomes(bps[a][i]) : i \in 1..Len(bps[a])}] :
                  \A i \in 1..Len(bps[a]) : f[i] \in Outcomes(bps[a][i])} :
         LET r == checkCondition(ts[t], bps[a], os, lbp, t) IN
         /\ \E dest \in (IF r.ran \cap {"stepInto", "newproc"} = {} THEN {NoAddr}
                         ELSE {d \in Addrs : Len(bps[d]) < MaxBreaklets} \cup {NoAddr}),
               body \in (IF "inactivate" \in r.ran THEN SUBSET (Addrs \ {a}) ELSE {{}}) :
              bps' = AfterCallbacks(bps, r.ran, dest, body)
         /\ ts' = [ts EXCEPT ![t] = r.st]
         /\ lbp' = r.lbp
         /\ todo' = todo \ {t}
  /\ UNCHANGED <<cur, reason, flag, sig, phase, trap, ret>>

(* All conditions evaluated: inactivated breakpoints go, then threads at a  *)
(* breakpoint instruction of the program get a breakpoint, except the one   *)
(* a manual stop is taken to have stopped.  The end of an injected call is  *)
(* the reason unless such an instruction overwrites it.                     *)
CheckDone ==
  /\ phase = "check" /\ todo = {}
  /\ LET c == ClearInactivated(bps, ts)
         hard == {t \in Threads : c.ts[t].at = Hard /\ ~(t = trap /\ flag)}
     IN /\ bps' = c.bps
        /\ ts' = [t \in Threads |-> IF t \in hard THEN [c.ts[t] EXCEPT !.Active = TRUE]
                                    ELSE c.ts[t]]
        /\ reason' \in IF hard # {} THEN {"hardcoded"}
                       ELSE {reason} \cup (IF InjectedCalls THEN {"callReturned"} ELSE {})
  /\ phase' = "decide"
  /\ UNCHANGED <<lbp, cur, flag, sig, todo, trap, ret>>

(* Defective variant: stepping threads are not preferred.                   *)
pickTrapThreadFirst ==
  LET active == {t \in Threads : ts[t].Active}
  IN IF trap \in active \/ active = {} THEN {trap} ELSE active

pickCurrentThread ==
  LET active == {t \in Threads : ts[t].Active}
      stepping == {t \in active : ts[t].Stepping}
  IN CASE stepping # {} -> stepping
       [] stepping = {} /\ trap \in active -> {trap}
       [] stepping = {} /\ trap \notin active /\ active # {} -> active
       [] OTHER -> {trap}

(* The thread found first is not looked at again.                           *)
SwitchThread == cur' \in pickCurrentThread /\ trap' = cur'

conditionErrors == IF \E t \in Threads : ts[t].CondError THEN "err" ELSE "nil"

Return(r) == phase' = "ret" /\ ret' = r

(* Whether an injected call has ended at this stop.                         *)
callInjectionDone ==
  CASE reason = "callReturned" -> {TRUE}
    [] reason = "hardcoded" /\ InjectedCalls -> BOOLEAN
    [] OTHER -> {FALSE}

(* A failing call injection, or a failure to step out of                    *)
(* runtime.Breakpoint, once the current thread is picked.                   *)
DecideFailed ==
  /\ phase = "decide" /\ SwitchThread
  /\ Return("err")
  /\ UNCHANGED <<bps, lbp, ts, reason, flag, sig, todo>>

(* A StepBreakpoint without a callback is only set going backward: the call *)
(* it precedes is entered with StepInstruction.                             *)
DecideStepInto ==
  /\ phase = "decide" /\ SwitchThread
  /\ ts[cur'].Active /\ ts[cur'].Stepping /\ ts[cur'].SteppingInto
  /\ LET c == ClearStepping(bps, ts) IN
     IF conditionErrors = "err"
     THEN Return("err") /\ UNCHANGED <<bps, ts, reason>>
     ELSE /\ bps' = c.bps
          /\ \E a \in Addrs \cup {NoAddr} :
               /\ a # NoAddr => c.bps[a] # <<>>
               /\ ts' = [c.ts EXCEPT ![cur'] = [Clear(c.ts[cur']) EXCEPT !.at = a]]
          /\ reason' = "nextFinished" /\ Return("nil")
  /\ UNCHANGED <<lbp, flag, sig, todo>>

(* The body of a range-over-func loop was entered: next() starts over from  *)
(* there and target execution continues, unless an injected call has ended. *)
DecideRangeBody ==
  /\ phase = "decide" /\ SwitchThread
  /\ ts[cur'].Active /\ ts[cur'].Stepping /\ ~ts[cur'].SteppingInto /\ ts[cur'].RangeBody
  /\ IF conditionErrors = "err"
     THEN Return("err") /\ UNCHANGED <<bps, ts>>
     ELSE LET c == ClearStepping(bps, ts) IN
          \/ /\ \E plan \in StepPlans, a \in Addrs \cup {NoAddr} :
                  bps' = Add(c.bps, plan) /\ ts' = SetCurrentBreakpoint(c.ts, bps', cur', a)
             /\ \/ FALSE \in callInjectionDone /\ phase' = "top" /\ UNCHANGED ret
                \/ TRUE \in callInjectionDone /\ Return("nil")
          \/ bps' = c.bps /\ ts' = c.ts /\ Return("err")
  /\ UNCHANGED <<lbp, reason, flag, sig, todo>>

DecideNextFinished ==
  /\ phase = "decide" /\ SwitchThread
  /\ ts[cur'].Active /\ ts[cur'].Stepping /\ ~ts[cur'].SteppingInto /\ ~ts[cur'].RangeBody
  /\ LET c == ClearStepping(bps, ts) IN bps' = c.bps /\ ts' = c.ts
  /\ reason' = "nextFinished"
  /\ Return(conditionErrors)
  /\ UNCHANGED <<lbp, flag, sig, todo>>

(* A user or hardcoded breakpoint: it ends a step of the same goroutine,    *)
(* unless it is a tracepoint that keeps stepping breakpoints.               *)
DecideBreakpoint ==
  /\ phase = "decide" /\ SwitchThread
  /\ ts[cur'].Active /\ ~ts[cur'].Stepping
  /\ \E onNextGoroutine \in (IF HasSteppingBreakpoints(bps) THEN BOOLEAN ELSE {FALSE}) :
       IF onNextGoroutine /\ ~(Tracepoint /\ ts[cur'].at = UserAddr /\ KeepOnTrace)
       THEN LET c == ClearStepping(bps, ts) IN bps' = c.bps /\ ts' = c.ts
       ELSE UNCHANGED <<bps, ts>>
  /\ reason' = IF ts[cur'].at = Hard THEN reason ELSE "breakpoint"
  /\ Return(conditionErrors)
  /\ UNCHANGED <<lbp, flag, sig, todo>>

(* Nothing to stop for: repeat, unless an injected call has ended.          *)
DecideRepeat ==
  /\ phase = "decide" /\ SwitchThread
  /\ ~ts[cur'].Active
  /\ \/ FALSE \in callInjectionDone /\ phase' = "top" /\ UNCHANGED ret
     \/ TRUE \in callInjectionDone /\ Return(conditionErrors)
  /\ UNCHANGED <<bps, lbp, ts, reason, flag, sig, todo>>

(* The deferred function of Continue, and Command releasing the mutex.      *)
Deferred ==
  /\ phase = "ret" /\ phase' = "idle"
  /\ flag' = FALSE
  /\ IF flag THEN finishManualStop(bps) ELSE UNCHANGED <<bps, ts, reason>>
  /\ UNCHANGED <<lbp, cur, sig, todo, trap, ret>>

Decide ==
  \/ DecideFailed \/ DecideStepInto \/ DecideRangeBody
  \/ DecideNextFinished \/ DecideBreakpoint \/ DecideRepeat

Command == ContinueCmd \/ StepCmd \/ StepInstruction \/ StepBack \/ StepParked \/ CancelNext

Next ==
  \/ Command \/ RequestManualStop
  \/ Enter \/ TopHalted \/ Resume \/ TrapHit \/ TrapSignal \/ Exit
  \/ CheckThread \/ CheckDone \/ Decide \/ Deferred

(* The goroutine that runs Continue is never descheduled for ever, and a    *)
(* pending signal stops a thread of a running process.                      *)
Fairness ==
  WF_vars(Enter \/ TopHalted \/ Resume \/ TrapSignal \/ CheckThread \/ CheckDone
          \/ Decide \/ Deferred)

Spec == Init /\ [][Next]_vars
FairSpec == Spec /\ Fairness

(***************************************************************************)
(* Properties                                                              *)
(***************************************************************************)

States == [at : Addrs \cup {NoAddr, Hard}, Active : BOOLEAN, Stepping : BOOLEAN,
           SteppingInto : BOOLEAN, RangeBody : BOOLEAN, CondError : BOOLEAN,
           userMet : BOOLEAN, stepMet : BOOLEAN]

TypeOK ==
  /\ \A a \in Addrs : \A i \in 1..Len(bps[a]) : bps[a][i] \in Breaklet
  /\ lbp.hits \in 0..MaxHits
  /\ ts \in [Threads -> States]
  /\ {cur, trap} \subseteq Threads /\ todo \subseteq Threads
  /\ reason \in Reasons /\ phase \in Phases /\ ret \in {"nil", "err", "exited"}
  /\ {flag, sig} \subseteq BOOLEAN

(* A step outlives a stop that is reported without an error only when       *)
(* another goroutine's breakpoint (or a tracepoint that keeps steps), the   *)
(* end of an injected call, or a manual stop that keeps steps, interrupted  *)
(* it: Continue never returns "next finished" or "manual stop" with         *)
(* stepping breakpoints left behind, as long as traps can be taken out of   *)
(* the process (finishManualStop ignores the error if one cannot).          *)
StepOutlivesOnlyInterruption ==
  [][phase = "ret" /\ phase' = "idle" /\ ret = "nil" /\ HasSteppingBreakpoints(bps')
     => reason' \in {"breakpoint", "hardcoded", "callReturned"}
                     \cup (IF KeepOnHalt THEN {"manual"} ELSE {})]_vars

(* When a thread has reached the end of the step, the stop is reported as   *)
(* the end of the step, whatever other threads stopped for (the priority    *)
(* list of pickCurrentThread).                                              *)
StepEndReported ==
  phase = "ret" /\ reason = "breakpoint" => \A t \in Threads : ~(ts[t].Active /\ ts[t].Stepping)

(* A stop is reported as a breakpoint only with a current thread that is at  *)
(* an active breakpoint, for as long as the target is not resumed.          *)
CurrentThreadAtBreakpoint ==
  phase \in {"ret", "idle"} /\ ret = "nil" /\ reason = "breakpoint" => ts[cur].Active

(* The later hits: if any of them satisfies the condition, one of these.    *)
LaterHits == lbp.hits + 1..lbp.hits + lbp.hitCond.val + 1

(* A breakpoint disabled because of its hit condition can never be hit      *)
(* again by a program that would satisfy it (breakpointConditionSatisfiable *)
(* against checkHitCond).                                                   *)
DisabledIsUnsatisfiable ==
  ~lbp.condSatisfiable
    => ~lbp.hitCond.perG /\ \A n \in LaterHits : ~checkHitCond(lbp.hitCond, n)

(* While the target runs, the user breakpoint is in the process exactly     *)
(* when a later hit may satisfy its condition.                              *)
ArmedWhileRunning ==
  phase = "run" =>
    /\ lbp.condSatisfiable <=> \E i \in 1..Len(bps[UserAddr]) : bps[UserAddr][i].kind = "user"
    /\ lbp.condSatisfiable
         <=> lbp.hitCond.perG \/ \E n \in LaterHits : checkHitCond(lbp.hitCond, n)

(* A manual stop requested once Continue has been entered stops the target, *)
(* whatever the program does in the meantime.                               *)
HaltStops == (flag /\ phase \notin {"idle", "start"}) ~> (phase \in {"idle", "exited"})

(* Continue "will continue until it hits a breakpoint": the target is not   *)
(* resumed while a thread is at a user breakpoint whose condition and hit   *)
(* condition are met.                                                       *)
NoSwallowedStop ==
  [][phase = "decide" /\ phase' = "top" => \A t \in Threads : ~ts[t].userMet]_vars

(* "Active is true if the condition of any breaklet is met"                *)
(* (BreakpointState): a user breakpoint whose conditions are met is active  *)
(* once they have been evaluated, whatever else is set at the address.      *)
ActiveIfAnyMet == phase = "decide" => \A t \in Threads : ts[t].userMet => ts[t].Active

(* "Stepping is true if one of the active breaklets is a stepping           *)
(* breakpoint" (BreakpointState).                                           *)
SteppingMeansSteppingBreaklet == \A t \in Threads : ts[t].Stepping => ts[t].stepMet
=============================================================================
