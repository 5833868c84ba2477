--------------------------- MODULE CallInjection ---------------------------
(***************************************************************************)
(* Calling functions of the target from the debugger (pkg/proc/fncall.go,  *)
(* with the stack machine of pkg/proc/eval.go).  The debugger makes a      *)
(* stopped goroutine call runtime.debugCallV2 and resumes the target.  The *)
(* runtime then stops, at hardcoded breakpoints, whenever it wants         *)
(* something of the debugger, and says what in a register; Continue passes *)
(* each of these stops to the evaluation that it belongs to.               *)
(*                                                                         *)
(* The protocol crosses goroutines and threads.  debugCallV2 parks the     *)
(* goroutine and runs the call on a new one, on the same thread; when the  *)
(* call is over the first goroutine goes on, on any thread.  An argument   *)
(* may need a call of its own, which nests the protocol; other goroutines  *)
(* hit breakpoints in the middle of it, and calls may be injected into     *)
(* several goroutines at once.                                             *)
(*                                                                         *)
(* A goroutine is its stack, a sequence of frames from the outermost:      *)
(*   "user"      code of the program                                       *)
(*   "entry"     debugCallV2, not yet executed                             *)
(*   "reg8"      debugCallV2 at its stop: the call can not be made here    *)
(*   "parked"    debugCallV2 waiting for the goroutine that runs the call  *)
(*   "reg16"     debugCallV2 at its stop: restore the registers            *)
(*   "begin"     the goroutine made for a call, before its first stop      *)
(*   "reg0"      ... at its stop: set up the call                          *)
(*   "callee"    the injected function                                     *)
(*   "reg1"      ... at its stop: read the return values                   *)
(*   "reg2"      ... at its stop: read the panic                           *)
(* The number after reg is the value of the protocol register.             *)
(***************************************************************************)
EXTENDS EvalCompile, FiniteSets

CONSTANTS
    Goroutines,         \* the goroutines of the program
    Threads,
    NoThread,
    Calls,              \* the expressions the user evaluates on each goroutine
    MaxPins,            \* addresses to pin in one return value
    MaxEvals,           \* evaluations on one goroutine
    MaxStops,           \* breakpoints hit (or halts) while the target runs
    ConcurrentErrors,   \* evaluations fail while another call is in progress
    LateErrors          \* requests to the target fail when the call can not
                        \*   be undone, not yet or no longer

ASSUME CallAssumption ==
    /\ IsFiniteSet(Threads) /\ NoThread \notin Threads
    /\ Cardinality(Threads) > Cardinality(Goroutines)
    /\ DOMAIN Calls = Goroutines
    /\ MaxPins \in Nat /\ MaxEvals \in Nat /\ MaxStops \in Nat
    /\ {ConcurrentErrors, LateErrors} \subseteq BOOLEAN

VARIABLES
    pinner,     \* the target has runtime.debugPinner
    gs,         \* goroutine -> its stack, thread (NoThread if not running)
                \*   and whether it is parked
    traps,      \* threads stopped at a hardcoded breakpoint of debugCall
    fncallForG, \* goroutine -> the goroutine whose injection it executes
    inj,        \* goroutine -> the state of its call injection
    dbg         \* where the debugger is

vars == <<pinner, gs, traps, fncallForG, inj, dbg>>

\* The evaluations that are possible, compiled for both kinds of target.
Programs ==
    [e \in UNION {Calls[g] : g \in Goroutines} |->
        [p \in BOOLEAN |-> Compile(e, p)]]

ProgramDepths ==
    [e \in DOMAIN Programs |-> [p \in BOOLEAN |-> Depths(Programs[e][p])]]

\* The goroutine made for the n-th call injected for g.
Worker(g, n) == <<g, n>>
Root(g) == IF g \in Goroutines THEN g ELSE g[1]

NoExpr == [k |-> "none"]
Live == {c \in Goroutines : inj[c].expr # NoExpr}
Ops(c) == inj[c].ops

On(t) == CHOOSE g \in DOMAIN gs : gs[g].th = t
Busy == {gs[g].th : g \in DOMAIN gs} \ {NoThread}
Top(g) == Last(gs[g].frames)
SetTop(frames, f) == Append(Front(frames), f)

NoInjection ==
    [expr |-> NoExpr, ops |-> <<>>, opidx |-> 1, depth |-> 0, fncalls |-> <<>>, err |-> "none",
     lastRetiredFncall |-> 0, n |-> 0, startThreadID |-> NoThread, pins |-> 0,
     evals |-> 0]

\* Which threads the goroutines start on makes no difference.
Placed == CHOOSE f \in [Goroutines -> Threads] : IsInjective(f)

Init ==
    /\ pinner \in BOOLEAN
    /\ gs = [g \in Goroutines |->
                [frames |-> <<"user">>, th |-> Placed[g], parked |-> FALSE]]
    /\ traps = {}
    /\ fncallForG = <<>>
    /\ inj = [g \in Goroutines |-> NoInjection]
    /\ dbg = [at |-> "prompt", return |-> FALSE, todo |-> {}, stops |-> 0,
              c |-> NoThread, g |-> NoThread, initial |-> FALSE]

\* Goroutines run on different threads, a stopped thread runs one of them, and
\* the evaluator removes neither a value nor an address that it does not have.
TypeOK ==
    /\ pinner \in BOOLEAN
    /\ Goroutines \subseteq DOMAIN gs
    /\ \A g \in DOMAIN gs : gs[g].th \in Threads \cup {NoThread}
    /\ \A g, h \in DOMAIN gs : gs[g].th = gs[h].th /\ g # h => gs[g].th = NoThread
    /\ traps \subseteq Busy /\ dbg.todo \subseteq traps
    /\ dbg.at \in {"prompt", "running", "protocol", "eval", "crashed"}
    /\ \A c \in Goroutines :
           /\ inj[c].depth \in Nat
           /\ \A k \in DOMAIN inj[c].fncalls : inj[c].fncalls[k].addrsToPin \in Nat

-----------------------------------------------------------------------------
(* The target: the scheduler of the Go runtime and debugCallV2.            *)

Running == dbg.at = "running"

\* A goroutine in code of the program is preempted.
Preempt(g) ==
    /\ Running /\ gs[g].th # NoThread
    /\ gs[g].frames = <<"user">>
    /\ gs' = [gs EXCEPT ![g].th = NoThread]
    /\ UNCHANGED <<pinner, traps, fncallForG, inj, dbg>>

Schedule(g) ==
    /\ Running /\ gs[g].th = NoThread /\ ~gs[g].parked
    /\ \E t \in Threads \ Busy : gs' = [gs EXCEPT ![g].th = t]
    /\ UNCHANGED <<pinner, traps, fncallForG, inj, dbg>>

\* t runs up to the next stop of the protocol.  A call that was undone, or
\* never set up, is taken for one that returned.
ToStop(t) ==
    LET g == On(t) IN
    /\ Running /\ t \in Busy \ traps
    /\ Top(g) \in {"reg8", "begin", "reg0", "parked"}
    /\ gs' = [gs EXCEPT ![g].frames = SetTop(@,
                 CASE Top(g) = "begin" -> "reg0"
                   [] Top(g) = "reg0" -> "reg1"
                   [] OTHER -> "reg16")]
    /\ traps' = traps \cup {t}
    /\ UNCHANGED <<pinner, fncallForG, inj, dbg>>

\* An evaluation that fails makes callInjectionProtocol return before it has
\* looked at the stops of others (see Finish).  Unless ConcurrentErrors, calls
\* fail only alone and none is started while a failed one is being undone.
MayFail(c) == ConcurrentErrors \/ Live = {c}
MayStart == ConcurrentErrors \/ \A c \in Live : inj[c].err # "error"

\* debugCallV2 checks that a call can be made where the goroutine is.
PrecheckFails(t) ==
    LET g == On(t) IN
    /\ Running /\ t \in Busy
    /\ Top(g) = "entry" /\ MayFail(Root(g))
    /\ gs' = [gs EXCEPT ![g].frames = SetTop(@, "reg8")]
    /\ traps' = traps \cup {t}
    /\ UNCHANGED <<pinner, fncallForG, inj, dbg>>

\* debugCallV2 parks its goroutine and runs a new one on its thread.
NewGoroutine(t) ==
    LET g == On(t)
        w == Worker(Root(g), inj[Root(g)].n)
    IN
    /\ Running /\ t \in Busy
    /\ Top(g) = "entry"
    /\ gs' = w :> [frames |-> <<"begin">>, th |-> t, parked |-> FALSE, parent |-> g]
             @@ [gs EXCEPT ![g].frames = SetTop(@, "parked"),
                           ![g].th = NoThread, ![g].parked = TRUE]
    /\ UNCHANGED <<pinner, traps, fncallForG, inj, dbg>>

\* The injected function ends, by returning or by a panic.
CalleeEnds(t) ==
    LET g == On(t) IN
    /\ Running /\ t \in Busy
    /\ Top(g) = "callee"
    /\ \E how \in {"reg1", "reg2"} : gs' = [gs EXCEPT ![g].frames = <<how>>]
    /\ traps' = traps \cup {t}
    /\ UNCHANGED <<pinner, fncallForG, inj, dbg>>

\* The goroutine made for the call is over, and the one that waits for it may
\* run; or debugCallV2 returns without having been served (this happens only
\* to a stop that callInjectionProtocol never looked at).
LeavesProtocol(t) ==
    LET g == On(t) IN
    /\ Running /\ t \in Busy \ traps
    /\ Top(g) \in {"reg1", "reg2", "reg16"}
    /\ gs' = IF Top(g) = "reg16"
             THEN [gs EXCEPT ![g].frames = Front(@)]
             ELSE Restrict([gs EXCEPT ![gs[g].parent].parked = FALSE], DOMAIN gs \ {g})
    /\ UNCHANGED <<pinner, traps, fncallForG, inj, dbg>>

-----------------------------------------------------------------------------
(* Continue and callInjectionProtocol.                                     *)

Continue ==
    /\ dbg.at = "prompt"
    /\ dbg' = [dbg EXCEPT !.at = "running"]
    /\ UNCHANGED <<pinner, gs, traps, fncallForG, inj>>

\* ContinueOnce returns with every thread stopped, those at a stop of the
\* protocol among them.
StopAtTrap ==
    /\ Running /\ traps # {}
    /\ dbg' = [dbg EXCEPT !.at = "protocol", !.todo = traps]
    /\ UNCHANGED <<pinner, gs, traps, fncallForG, inj>>

\* ... because of a breakpoint in the program or in an injected function, or
\* because of a halt: Continue will return to the user.
StopAtBreakpoint ==
    /\ Running /\ dbg.stops < MaxStops
    /\ \E t \in Busy \ traps : Top(On(t)) \in {"user", "callee"}
    /\ dbg' = [dbg EXCEPT !.at = "protocol", !.todo = traps, !.return = TRUE,
                          !.stops = @ + 1]
    /\ UNCHANGED <<pinner, gs, traps, fncallForG, inj>>

\* findCallInjectionStateForThread: the injection that a goroutine is known
\* to execute, or else one that was started on its thread.
StatesForThread(t) ==
    IF On(t) \in DOMAIN fncallForG
    THEN {fncallForG[On(t)]}
    ELSE {c \in Live : inj[c].startThreadID = t}

NextThread(t) == dbg' = [dbg EXCEPT !.todo = @ \ {t}]
RunOps(t, c) ==
    dbg' = [dbg EXCEPT !.todo = @ \ {t}, !.at = "eval", !.c = c, !.g = On(t),
                       !.initial = FALSE]

FirstErr(c, e) == IF inj[c].err = "none" THEN e ELSE inj[c].err

\* fncall.err of the innermost call of the evaluation is set.
StepFails(c) ==
    inj' = [inj EXCEPT ![c].err = FirstErr(c, "error"),
                       ![c].fncalls[Len(inj[c].fncalls)].failed = TRUE]

\* One step of the protocol (resume and funcCallStep), for each request of the
\* runtime.  A step ends with the target to be resumed (NextThread) or with
\* operations of the program to be executed (RunOps).
PrecheckFailed(t, c) ==
    /\ StepFails(c)
    /\ NextThread(t)
    /\ UNCHANGED gs

\* Defective variant: the thread of the call is not forgotten when the call is set up.
CompleteKeepsThread(t, c) ==
    RunOps(t, c) /\ UNCHANGED <<gs, inj>>

CompleteCall(t, c) ==
    /\ inj' = [inj EXCEPT ![c].startThreadID = NoThread]
    /\ RunOps(t, c)
    /\ UNCHANGED gs

\* The values are read as those of the function fncall.fn, which is unknown if
\* its evaluation failed.
ReadReturn(t, c) ==
    LET fncall == Last(inj[c].fncalls) IN
    /\ UNCHANGED gs
    /\ IF fncall.failed
       THEN UNCHANGED inj /\ NextThread(t)
       ELSE IF ~fncall.hasFn
       THEN dbg' = [dbg EXCEPT !.at = "crashed"] /\ UNCHANGED inj
       ELSE IF fncall.doPinning
       THEN /\ \E n \in 0..MaxPins :
                   inj' = [inj EXCEPT ![c].fncalls[Len(inj[c].fncalls)].addrsToPin = n]
            /\ RunOps(t, c)
       ELSE UNCHANGED inj /\ NextThread(t)

\* Defective variant: the request is repeated, the target is not resumed.
ReadPanicAgain(t, c) ==
    /\ inj' = [inj EXCEPT ![c].fncalls[Len(inj[c].fncalls)].panicked = TRUE]
    /\ UNCHANGED <<gs, dbg>>

ReadPanic(t, c) ==
    /\ inj' = [inj EXCEPT ![c].fncalls[Len(inj[c].fncalls)].panicked = TRUE]
    /\ NextThread(t)
    /\ UNCHANGED gs

\* The return values or the panic can not be read.
ReadFails(t, c) ==
    /\ MayFail(c)
    /\ StepFails(c)
    /\ NextThread(t)
    /\ UNCHANGED gs

\* The registers, and the request with them, can not be read.  run then undoes
\* the call, for which it is too late at the last request and when it has been
\* undone already.
RegistersUnread(t, c) ==
    /\ MayFail(c)
    /\ ~LateErrors => /\ Top(On(t)) # "reg16"
                      /\ Last(inj[c].fncalls).id # inj[c].lastRetiredFncall
    /\ StepFails(c)
    /\ RunOps(t, c)
    /\ UNCHANGED gs

\* The last request: debugCallV2 is left by stepping, and funcCallFinish pops
\* the call and pushes what it returned.  The registers may not be restored,
\* and then neither may stepping succeed.
RestoreRegisters(t, c) ==
    LET fncall == Last(inj[c].fncalls) IN
    \E restored, out \in BOOLEAN :
    LET failed == fncall.failed \/ ~restored
        ok == inj[c].err = "none" /\ ~failed /\ ~fncall.panicked
    IN
    /\ ~restored => MayFail(c)
    /\ ~out => ~restored /\ LateErrors
    /\ gs' = IF out THEN [gs EXCEPT ![On(t)].frames = Front(@)] ELSE gs
    /\ inj' = [inj EXCEPT
                 ![c].fncalls = Front(@),
                 ![c].err = IF failed THEN FirstErr(c, "error")
                            ELSE IF fncall.panicked THEN FirstErr(c, "panic") ELSE @,
                 ![c].depth = IF ok THEN @ + 1 ELSE @,
                 ![c].pins = CASE ok /\ fncall.fn = "Pin" -> @ + 1
                               [] ok /\ fncall.fn = "Unpin" -> 0
                               [] OTHER -> @]
    /\ RunOps(t, c)

\* callInjectionProtocol: a thread at a stop of the protocol is given to its
\* injection.  If the injection is not found Continue returns the error, and
\* the threads that are left are not looked at; an injection without a call in
\* progress is an index out of range (fncallPeek).
InjectionStop(t) ==
    /\ dbg.at = "protocol" /\ t \in dbg.todo
    /\ UNCHANGED <<pinner, traps>>
    /\ IF StatesForThread(t) = {}
       THEN /\ dbg' = [dbg EXCEPT !.todo = {}, !.return = TRUE]
            /\ UNCHANGED <<gs, fncallForG, inj>>
       ELSE \E c \in StatesForThread(t) :
               /\ fncallForG' = (On(t) :> c) @@ fncallForG
               /\ CASE inj[c].fncalls = <<>> ->
                          /\ dbg' = [dbg EXCEPT !.at = "crashed"]
                          /\ UNCHANGED <<gs, inj>>
                    [] inj[c].fncalls # <<>> ->
                          \/ CASE Top(On(t)) = "reg8" -> PrecheckFailed(t, c)
                               [] Top(On(t)) = "reg0" -> CompleteCall(t, c)
                               [] Top(On(t)) = "reg1" -> ReadReturn(t, c) \/ ReadFails(t, c)
                               [] Top(On(t)) = "reg2" -> ReadPanic(t, c) \/ ReadFails(t, c)
                               [] Top(On(t)) = "reg16" -> RestoreRegisters(t, c)
                          \/ RegistersUnread(t, c)

\* Every thread has been looked at: Continue returns if an evaluation ended or
\* a breakpoint was hit, and resumes the target otherwise.
ProtocolEnds ==
    /\ dbg.at = "protocol" /\ dbg.todo = {}
    /\ traps' = {}
    /\ dbg' = [dbg EXCEPT !.at = IF dbg.return THEN "prompt" ELSE "running",
                          !.return = FALSE]
    /\ UNCHANGED <<pinner, gs, fncallForG, inj>>

-----------------------------------------------------------------------------
(* The evaluation: EvalExpressionWithCalls and evalStack.run.              *)

\* A call is refused on a goroutine that is not running, or that executes an
\* injection.
EvalExpressionWithCalls(g) ==
    /\ dbg.at = "prompt" /\ inj[g].evals < MaxEvals /\ MayStart
    /\ gs[g].th # NoThread
    /\ g \notin DOMAIN fncallForG
    /\ fncallForG' = (g :> g) @@ fncallForG
    /\ \E e \in Calls[g] :
           inj' = [inj EXCEPT ![g] = [NoInjection EXCEPT !.expr = e, !.ops = Programs[e][pinner],
                                                         !.evals = inj[g].evals + 1]]
    /\ dbg' = [dbg EXCEPT !.at = "eval", !.c = g, !.g = g, !.initial = TRUE]
    /\ UNCHANGED <<pinner, gs, traps>>

\* run is about to execute the operation o of the evaluation.
Executing ==
    /\ dbg.at = "eval" /\ inj[dbg.c].err = "none"
    /\ inj[dbg.c].opidx <= Len(Ops(dbg.c))
ThisOp == Ops(dbg.c)[inj[dbg.c].opidx]

\* The stack of the evaluation after operation o, which pushes its result when
\* the call is over if it injects one.
After(s, o) ==
    [s EXCEPT !.opidx = @ + 1,
              !.depth = @ - NPop(o) + (IF o.op \in {"CallInjectionComplete",
                                                   "CallInjectionComplete2"}
                                       THEN 0 ELSE NPush(o))]
Advance(s) == inj' = [inj EXCEPT ![dbg.c] = s]
InTop(s, f, v) == [s EXCEPT !.fncalls[Len(s.fncalls)][f] = v]

\* The operation asks for the target to be resumed: by the Continue at the end
\* of EvalExpressionWithCalls, or by the one that runs the protocol.
Suspend == dbg' = [dbg EXCEPT !.at = IF dbg.initial THEN "running" ELSE "protocol"]

\* An operation on the call in progress when there is none: fncallPeek indexes
\* an empty slice, which executeOp recovers from.
NoCall ==
    /\ inj[dbg.c].fncalls = <<>>
    /\ \/ ThisOp.op \in {"CallInjectionSetTarget", "CallInjectionCopyArg",
                         "CallInjectionComplete", "CallInjectionComplete2",
                         "PushPinAddress"}
       \/ ThisOp.op = "Jump" /\ ThisOp.when \in {"JumpIfFalse", "JumpIfPinningDone"}

CanExecute == Executing /\ ~NoCall

\* An operation on values may not be possible on the values it finds.  That
\* includes what CallInjectionStart does before it moves the pc of the thread.
ValuesMayFail ==
    /\ MayFail(dbg.c)
    /\ ThisOp.op \notin {"Pop", "Roll", "Jump", "CallInjectionComplete",
                         "CallInjectionComplete2", "SetDebugPinner"}
    /\ ThisOp.op = "CallInjectionSetTarget" => Last(inj[dbg.c].fncalls).reeval

OpFails ==
    /\ Executing /\ (IF NoCall THEN TRUE ELSE ValuesMayFail)
    /\ Advance([inj[dbg.c] EXCEPT !.err = IF NoCall THEN "internal" ELSE "error"])
    /\ UNCHANGED <<pinner, gs, traps, fncallForG, dbg>>

OpOnValues ==
    LET s == inj[dbg.c] IN
    /\ CanExecute
    /\ ThisOp.op \in {"Push", "Pop", "Roll", "PushLen", "ConvertAllocToString",
                      "SetValue", "SetDebugPinner", "CallInjectionCopyArg"}
    /\ Advance(After(s, ThisOp))
    /\ UNCHANGED <<pinner, gs, traps, fncallForG, dbg>>

\* Whether the string literal needs no allocation depends on its value.
OpJump ==
    LET s == inj[dbg.c]
        jumps == CASE ThisOp.when = "JumpAlways" -> {TRUE}
                   [] ThisOp.when = "JumpIfAllocStringChecksFail" -> BOOLEAN
                   [] ThisOp.when = "JumpIfFalse" -> {~Last(s.fncalls).reeval}
                   [] ThisOp.when = "JumpIfPinningDone" ->
                          {Last(s.fncalls).addrsToPin = 0}
    IN
    /\ CanExecute /\ ThisOp.op = "Jump"
    /\ \E jump \in jumps :
           Advance([After(s, ThisOp) EXCEPT
                       !.opidx = s.opidx + (IF jump THEN ThisOp.by ELSE 1)])
    /\ UNCHANGED <<pinner, gs, traps, fncallForG, dbg>>

\* Defective variant: fncall.fn is left to CallInjectionSetTarget.
NewFncallNoFn(s, o) ==
    [id |-> s.n + 1, fn |-> o.fn, hasFn |-> FALSE,
     reeval |-> ~pinner /\ (~o.hasFunc \/ o.fn = "method"),
     undo |-> "none", doPinning |-> FALSE, addrsToPin |-> 0,
     failed |-> FALSE, panicked |-> FALSE, from |-> gs[dbg.g].frames]

\* The functionCallState of a call.  reeval says that the function must be
\* evaluated again when the call has started; from, where the call was made.
NewFncall(s, o) ==
    [id |-> s.n + 1, fn |-> o.fn, hasFn |-> o.hasFunc,
     reeval |-> ~pinner /\ (~o.hasFunc \/ o.fn = "method"),
     undo |-> "none", doPinning |-> FALSE, addrsToPin |-> 0,
     failed |-> FALSE, panicked |-> FALSE, from |-> gs[dbg.g].frames]

\* evalCallInjectionStart: the goroutine that stopped last is made to call
\* debugCallV2.  When the frame size can not be written after that (amd64), the
\* error is returned before the call is recorded.
OpStart ==
    LET s == inj[dbg.c]
        o == ThisOp
    IN
    /\ CanExecute /\ o.op \in {"CallInjectionStart", "CallInjectionStartSpecial"}
    /\ gs' = [gs EXCEPT ![dbg.g].frames = Append(@, "entry")]
    /\ \E written \in {TRUE, ~(LateErrors /\ MayFail(dbg.c))} :
           IF written
           THEN /\ Advance([After(s, o) EXCEPT !.n = @ + 1,
                                               !.startThreadID = gs[dbg.g].th,
                                               !.fncalls = Append(@, NewFncall(s, o))])
                /\ Suspend
           ELSE Advance([s EXCEPT !.err = "error"]) /\ UNCHANGED dbg
    /\ UNCHANGED <<pinner, traps, fncallForG>>

\* evalCallInjectionSetTarget: the new goroutine is made to call the function.
\* Reading its registers may fail before that, copying the receiver after it.
OpSetTarget ==
    LET s == inj[dbg.c]
        known == InTop(After(s, ThisOp), "hasFn", TRUE)
    IN
    /\ CanExecute /\ ThisOp.op = "CallInjectionSetTarget"
    /\ \/ /\ gs' = [gs EXCEPT ![dbg.g].frames = Append(@, "callee")]
          /\ \E copied \in {TRUE, ~(Last(s.fncalls).fn = "method" /\ MayFail(dbg.c))} :
                 Advance([InTop(known, "undo", "oldpc") EXCEPT
                             !.err = IF copied THEN "none" ELSE "error"])
       \/ MayFail(dbg.c) /\ Advance([known EXCEPT !.err = "error"]) /\ UNCHANGED gs
    /\ UNCHANGED <<pinner, traps, fncallForG, dbg>>

OpComplete ==
    LET s == inj[dbg.c] IN
    /\ CanExecute /\ ThisOp.op = "CallInjectionComplete"
    /\ Advance(InTop(InTop(After(s, ThisOp), "doPinning", ThisOp.doPinning),
                     "undo", IF ThisOp.doPinning THEN "complete2" ELSE "none"))
    /\ Suspend
    /\ UNCHANGED <<pinner, gs, traps, fncallForG>>

\* The registers may not be readable here either.
OpComplete2 ==
    LET s == inj[dbg.c]
        left == Last(s.fncalls).addrsToPin # 0
    IN
    /\ CanExecute /\ ThisOp.op = "CallInjectionComplete2"
    /\ \E e \in {IF left THEN "internal" ELSE "none"} \cup {x \in {"error"} : MayFail(dbg.c)} :
           /\ Advance([InTop(After(s, ThisOp), "undo", "none") EXCEPT !.err = e])
           /\ IF e = "none" THEN Suspend ELSE UNCHANGED dbg
    /\ UNCHANGED <<pinner, gs, traps, fncallForG>>

OpPushPinAddress ==
    LET s == inj[dbg.c] IN
    /\ CanExecute /\ ThisOp.op = "PushPinAddress"
    /\ Advance(InTop(After(s, ThisOp), "addrsToPin", Last(s.fncalls).addrsToPin - 1))
    /\ UNCHANGED <<pinner, gs, traps, fncallForG, dbg>>

\* run ends.  After an error the calls in progress are undone one by one, from
\* the innermost: the thread is taken out of the function that was set up and
\* the protocol goes on as if it had returned.
RunEnded == dbg.at = "eval" /\ ~Executing

CannotUndo(s) ==
    \/ s.err = "none"
    \/ Last(s.fncalls).id = s.lastRetiredFncall

\* Defective variant: the thread is left in the function that was set up.
LeftInCallee(fncall) == gs

\* The thread, if it was made to call the function, is taken back.
TakenOut(fncall) ==
    IF fncall.undo = "oldpc" THEN [gs EXCEPT ![dbg.g].frames = Front(@)] ELSE gs

\* Defective variant: the call is forgotten when it is undone.
ForgetUndone(s) == [s EXCEPT !.fncalls = Front(@)]

Retire(s) == [s EXCEPT !.lastRetiredFncall = Last(s.fncalls).id]

Undo ==
    LET s == inj[dbg.c] IN
    /\ RunEnded /\ s.fncalls # <<>> /\ ~CannotUndo(s)
    /\ gs' = TakenOut(Last(s.fncalls))
    /\ Advance(Retire(s))
    /\ Suspend
    /\ UNCHANGED <<pinner, traps, fncallForG>>

\* For an error callInjectionProtocol returns without looking at other threads.
ThreadsLeft(failed) == IF failed THEN {} ELSE dbg.todo

\* finishEvalExpressionWithCalls: the injection is forgotten, for all the
\* goroutines that executed it.  A panic of the function is a result.
Finish ==
    LET s == inj[dbg.c]
        internal == s.fncalls # <<>> \/ (s.err = "none" /\ s.depth > 1)
        failed == s.err = "error" \/ internal
    IN
    /\ RunEnded /\ (s.fncalls # <<>> => CannotUndo(s))
    /\ fncallForG' = Restrict(fncallForG, {g \in DOMAIN fncallForG :
                                              fncallForG[g] # dbg.c})
    /\ inj' = [inj EXCEPT ![dbg.c] = [NoInjection EXCEPT !.evals = s.evals]]
    /\ dbg' = IF dbg.initial
              THEN [dbg EXCEPT !.at = "prompt"]
              ELSE [dbg EXCEPT !.at = "protocol", !.return = TRUE,
                               !.todo = ThreadsLeft(failed)]
    /\ UNCHANGED <<pinner, gs, traps>>

-----------------------------------------------------------------------------
RunsThread(t) ==
    \/ ToStop(t) \/ PrecheckFails(t) \/ NewGoroutine(t)
    \/ CalleeEnds(t) \/ LeavesProtocol(t)

Debugger ==
    \/ StopAtTrap \/ ProtocolEnds
    \/ \E t \in Threads : InjectionStop(t)
    \/ OpFails \/ OpOnValues \/ OpJump \/ OpStart \/ OpSetTarget
    \/ OpComplete \/ OpComplete2 \/ OpPushPinAddress
    \/ Undo \/ Finish

Next ==
    \/ \E g \in DOMAIN gs : Preempt(g) \/ Schedule(g)
    \/ \E t \in Threads : RunsThread(t)
    \/ Debugger
    \/ Continue \/ StopAtBreakpoint
    \/ \E g \in Goroutines : EvalExpressionWithCalls(g)

Spec == Init /\ [][Next]_vars

\* Threads of the target run, a goroutine that can run is scheduled (there are
\* more threads than goroutines with work), the debugger does not stop in the
\* middle of a command and its user continues the target.
FairSpec ==
    /\ Spec
    /\ \A t \in Threads : WF_vars(RunsThread(t))
    /\ \A c \in Goroutines :
           WF_vars(\E g \in DOMAIN gs : Root(g) = c /\ Schedule(g))
    /\ WF_vars(Debugger)
    /\ WF_vars(Continue)

-----------------------------------------------------------------------------
\* A stop of the protocol is given to the evaluation that it belongs to, on
\* whatever goroutine and thread it happens (findCallInjectionStateForThread).
RightInjection == \A g \in DOMAIN fncallForG : fncallForG[g] = Root(g)

\* The goroutines that execute an injection.
Chain(c) == {g \in DOMAIN gs : Root(g) = c}
InDebugCall == {"entry", "reg8", "parked", "reg16"}
Frames(g, S) == {i \in DOMAIN gs[g].frames : gs[g].frames[i] \in S}

\* What the evaluation believes to be in progress is what the target is doing:
\* evalStack.fncalls has one entry for each debugCallV2 on the stacks of the
\* goroutines of the injection, made where the entry says.  In particular an
\* evaluation, failed or not, leaves nothing behind when it ends.
FncallsMatchTarget ==
    dbg.at # "crashed" =>
    \A c \in Goroutines :
        LET fncalls == inj[c].fncalls
            calls == {<<g, i>> \in Chain(c) \X (1..4) : i \in Frames(g, InDebugCall)}
        IN  /\ Len(fncalls) = Cardinality(calls)
            /\ \A k \in DOMAIN fncalls :
                   \E x \in calls : fncalls[k].from = SubSeq(gs[x[1]].frames, 1, x[2] - 1)

\* An injected function runs only when it was called: all its arguments were
\* copied, without an error, by the evaluation that is waiting for it.
\* (CallInjectionSetTarget moves the thread into it before that.)
CalleeIsComplete ==
    dbg.at \in {"running", "prompt"} =>
    \A g \in DOMAIN gs :
        Top(g) = "callee" =>
            LET s == inj[Root(g)] IN
            /\ s.err = "none"
            /\ Ops(Root(g))[s.opidx - 1].op = "CallInjectionComplete"

\* None of the "internal debugger error" paths of the evaluator is taken, and
\* neither an empty slice nor a nil function is dereferenced.
NoInternalError ==
    /\ dbg.at # "crashed"
    /\ \A c \in Goroutines : inj[c].err # "internal"
    /\ RunEnded => LET s == inj[dbg.c] IN
           /\ s.fncalls # <<>> => ~CannotUndo(s)
           /\ s.err = "none" => s.depth = EndDepth(s.expr)

\* Programs pass depthCheck, and what it says of the stack is what the machine
\* finds: the result of a call is pushed in another step of the protocol than
\* the one that executed its operation.
StackAsChecked ==
    \A c \in Live :
        LET s == inj[c] IN
        /\ s.opidx = 1 => DepthCheck(Ops(c), EndDepth(s.expr))
        /\ dbg.at = "eval" /\ dbg.c = c /\ s.err = "none" =>
               s.depth = ProgramDepths[s.expr][pinner][s.opidx]

\* callInjectionProtocol progresses the protocol for all the threads at a stop:
\* none is resumed without having been served.
StopsServed == [][\A t \in dbg.todo \ dbg'.todo : InjectionStop(t)]_vars

\* What an evaluation pinned is released by the time it ends well.
PinsReleased ==
    [][\A c \in Goroutines :
          c \in Live /\ c \notin Live' => inj[c].err # "none" \/ inj[c].pins = 0]_vars

\* Every evaluation ends.
EvaluationEnds ==
    \A c \in Goroutines : (inj[c].expr # NoExpr) ~> (inj[c].expr = NoExpr)
=============================================================================
