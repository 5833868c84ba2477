# A TLA+ model of Delve

Delve is a debugger for Go. A debugger is a concurrent program whose other half
is somebody else's process: it writes into that process, resumes it, is told of
stops of several threads at once, decides which of them the user asked for, and
meanwhile several clients, signals and goroutines ask for the state, for a halt
or for other breakpoints. These specifications model the parts of Delve where
the order of such events matters. TLC checks them on small instances, and TLAPS
proves properties of eight of them for every size.

## 1. The system and its parts

    DAP client          RPC clients (terminal, editors)
        |                    |
    service/dap         service/rpc2, service/rpccommon
    DAPSession               |
        |                    |
        +---- service/debugger ----+     locks, dumps, recordings: DebuggerService
                     |                   logical breakpoints:      LogicalBreakpoints
              pkg/proc TargetGroup, Target
              Continue, next, step:                                Execution
              calls of functions of the target:                    CallInjection, EvalCompile
              conditions and hit counts:                           BreakpointState
              table of physical breakpoints:                       Breakpoints
                     |
              what is asked of a backend:                          AllStop
              native, Linux (ptrace):                              NativeLinux
              native, macOS (Mach exceptions):                     NativeDarwin
              eBPF tracing:                                        EBPFTrace
              gdbserial, core

| Part | State | Operations | What makes it hard |
|---|---|---|---|
| Physical breakpoints | `BreakpointMap.M`, traps in the text, debug registers, `CurrentBreakpoint` of threads | set, clear, clear stepping, inactivate, detach | breaklets of several kinds share an address; an erasure fails in the middle of a loop; threads stopped at what is cleared |
| Conditions | `BreakpointState`, hit counts, `condSatisfiable` | `checkCondition`, `checkHitCond`, `breakpointConditionSatisfiable` | breaklets evaluated in order overwrite each other's flags; boundaries of hit counts |
| Execution | stop reason, current thread, breaklets of a step, manual stop flag | `Continue`, `Step`, `StepInstruction`, `CancelNext`, `RequestManualStop` | several threads stop at once; a halt at any moment; Continue goes on by itself |
| Logical breakpoints | `LogicalBreakpoints`, ID counter, locations in each target | create, amend, enable, disable, clear, restart, new target, plugin | several addresses in several processes, failing half way; conditions that take a breakpoint out |
| Call injection | `fncallForG`, the stack machine of each evaluation, `functionCallState` | `EvalExpressionWithCalls`, `callInjectionProtocol`, `funcCallStep`, the operations of the machine | the protocol crosses goroutines and threads; nested and concurrent calls; undoing after an error |
| Linux backend | `os` of each thread, pending signals and wait statuses in the kernel | `resume`, `trapWait`, `stop`, `singleStep`, detach | every thread stops, clones, exits and takes signals on its own; hits nobody has been told of |
| macOS backend | suspend counts, the port set, `task`, `halt`, two pipes | `fork_exec`, `resume`, `trapWait`, `stop`, `kill`, detach | new threads are not announced; `execve` replaces the task; messages queue up |
| eBPF tracing | `arg_map`, ring buffer, `pendingEvents`, `parsedBpfEvents` | the program in the kernel, `SetUProbe`, `pollEvents`, `Close` | events of a hit are reassembled from a buffer that drops some |
| Debugger service | `targetMutex`, `runningMutex`, `recordMutex`, `dumpState` | `State`, `Command`, halt, dump start, wait and cancel, recording | mutexes handed from one goroutine to another; flags read before a lock |
| DAP session | `mu`, `changeStateMu`, `runningCmd`, `haltRequested` | the request handlers, `runUntilStop`, `Stop` | a goroutine resumes the target behind the client's back; two mutexes |

`PROJECT.json` lists every part of the repository, those that are not modelled
with the reason, and the hazards of the code at the lines where they bite.

## 2. Modules

Every definition that models code is mapped to its source lines in
`PROJECT.json`. Definitions keep the names of the code. A definition whose
comment begins with *Defective variant* is not part of the specification: it is
what a plausible mistake would make of the definition that follows it, and shows
that the properties would notice.

**Breakpoints** (`pkg/proc/breakpoints.go`). `M` is the table, `text` the code
addresses that hold a trap, `dr` the debug registers, `cur` the entry each
thread is stopped at, `Logical` the keys of the map of logical breakpoints. One
action per operation of `Target`; a clear of many entries takes the sets of
those it dealt with and of those where it failed, because the code ranges over a
Go map in any order. `ContinueOnce` is the backend: threads stop anywhere. A
step and its cancellation are sequences of these actions in any order, which
allows more behaviours than the callers do. IDs of watchpoints are not those of
other breakpoints (`WatchIDs`); see `IDKeepsItsBreakpoint` in section 3 for when the service
does not keep to that.

**BreakpointState** holds the evaluation of the breaklets at an address as
operators: `checkCondition` applies `checkCond` to them in their order, as a
recursive function. An expression evaluates to true, false or an error, which `Outcomes` chooses.

**Execution** (`pkg/proc/target_exec.go`) is the loop of `Continue`. `phase` is
the place in it: at the top of the loop, running, checking the threads one by
one, deciding. `bps` has the breaklets by address, `ts` the `BreakpointState` of
each thread, `flag` and `sig` the request to stop and its signal. A step command
puts the breaklets of one of `StepPlans` in the table; where these are is a
matter of disassembly and stacks and is an input. The big switch of `Continue` is
one action per branch (`DecideFailed` ... `DecideRepeat`). Of an injected call only
its end is seen (`InjectedCalls`), which makes `Continue` return. Taking a trap out
of the process always succeeds here: `finishManualStop` ignores the error if it does
not (`target_exec.go:320`) and would leave a step behind without saying so; the
erasures that fail are in Breakpoints.

**LogicalBreakpoints** (`service/debugger/debugger.go`,
`pkg/proc/target_group.go`). `lbps` are the logical breakpoints, `phys[t]` maps
the addresses that have a breakpoint in target `t` to the owner. A place is a
member of `Locs`, resolved to a sequence of addresses in each target. Loops over
the map of breakpoints (`manageUnsatisfiableBreakpoints`, a restart, a plugin, a
new process) take one breakpoint at a time in any order. `ProgramAddrs` is what a
place resolves to in the program alone, `LocAddrs` with its plugin; the places in
`ExprLocs` are given by an expression, which is evaluated again after a restart. `WriteFaults` are
addresses where a write may fail, `MayExit` lets targets exit.

**DebuggerService** (`service/debugger/debugger.go`). Each client makes one call
after the other; `pc[c]` is the next lock operation or the next point at which
another goroutine can see a difference. The goroutine of a dump and that of a
recording are processes of their own. All calls that lock the target mutex for
their whole duration are the one call `other`. A halt between the end of a recording
and the installation of the target panics with `recordMutex` locked; the goroutine of
the recording then waits for that mutex in `checkGoVersion` with the target mutex
locked, for ever.

**DAPSession** (`service/dap/server.go`). The request loop, the goroutine that
calls `Stop`, and the goroutines of requests that resume the target, again at
the grain of locks and flags. The debugger below is its mutex, its running flag
and the request to stop, a small copy of what DebuggerService has in detail.
The client asks to resume only a target it was told is stopped, and may send
everything else at any time. A restart may fail before it has killed the old process
or after (`process = "killed"`).

**EvalCompile** (`pkg/proc/evalop`) compiles an expression with calls to the
operations of the stack machine, with the code's two ways to evaluate arguments
(when the target has `runtime.debugPinner` and when it has not), the loop that
pins what a call returned, and `depthCheck`. It is recursive, so it is used by
TLC only.

**CallInjection** (`pkg/proc/fncall.go`, `pkg/proc/eval.go`). `gs` are the
goroutines of the target with their stacks, `traps` the threads at a stop of the
protocol, `fncallForG` and `inj` the debugger's view of its evaluations, `dbg`
where the goroutine in `Continue` is. `runtime.debugCallV2` and the scheduler are
external and modelled from what `funcCallStep` expects of them. One action is one
operation of the machine, one request of the runtime (`InjectionStop`), or one
step of the target. Values are left out except for how many there are. Requests
to the target fail too: registers that cannot be read at a stop of the protocol
(`RegistersUnread`), when the function is set up or when pinning ends, and
registers that cannot be restored. The failures the code has no way to undo are
under a constant, `LateErrors`. The results of `callOP` in
`CallInjectionSetTarget` and of the requests that undo it, which the code drops,
are taken to be success.

**AllStop** is what `pkg/proc` asks of a backend: a target is running, and
nothing is known of its threads, or stopped, and nothing moves.

**NativeLinux** (`pkg/proc/native/proc_linux.go` and the files it calls) has the
kernel's state of each thread (running, stopped with a wait status, pending
signals) next to the debugger's (`running`, `setbp`, `delayed`, `phantom`). A
call of `wait4` is one action with the `ptrace` requests to the same thread that
answer it, so that other threads move between any two of them; what they can do in
the middle of one is to end the process, and `WaitSignalDied` is the wait whose
`PTRACE_CONT` answers `ESRCH` for that reason. (Where `trapWaitInternal` reads a
clone event an `ESRCH` leaves `dbp.threads` as an exit just before or just after
the action does.) Not in the model: an instruction that is stepped over and
clones or ends the process, `SIGKILL` while stopped, job control, more than one
process, hardware watchpoints. A process that ends during a single step is
waited for with `waitFast`, which "does not handle process-exit correctly"
(`proc_linux.go:661`): `singleStep` returns `ErrProcessExited` only when the
stepping thread is the leader (`threads_hardware_singlestep_linux.go:22-29`).
Nor are signals sent to a thread between its creation and its first stop. Without
them no thread that counts as stopped has a signal to report, so the branch
`halt && !th.os.running` of `trapWaitInternal` (606) is in `WaitSignal` but is
never taken; a signal is kept in `delayedSignal` by `singleStep` only.

**NativeDarwin** (`pkg/proc/native/*_darwin.go` and `*_darwin.c`) has the fork
and exec handshake over two pipes, then exceptions as messages in a port set,
suspend counts and notifications of dead tasks. A debugger that is killed during
a launch is an action (`Quit`). `num_running_threads` reads a list and then asks
thread by thread; `overlooked` are the threads it cannot see because the one that
started them has exited in between, and `lost` those `stop` returned without
having dealt with. Not in the model: a `fork` that fails (-1 is not greater than 0, so the
debugger's own process goes on as the child, `exec_darwin.c:36-37`), and an
`execve` after the launch, whose death notice `trapWait` tells from an exit only
before the process is initialized (`proc_darwin.go:319-327`: if it comes before
the first exception of the new task, `wait4` blocks until the process ends).

**EBPFTrace** (`pkg/proc/internal/ebpf`, the Go side and the C program). The
program runs in steps on the thread that hits a probe; parsing a parameter and
writing it to the ring are separate, as the slot in `arg_map` is shared. A read of
the ring may fail at any time (`ReadError`), which ends `pollEvents` with what is
still buffered. Not in the model: probes hit on a system stack. The goroutine id
read there is 0 for every thread, so two of them share a key of `pendingEvents` and
their parameters can be mixed.

Modules named `MC...` give the constants their values. Modules named `...Proofs`
contain theorems.

## 3. What is checked

### Runs that pass

| Run | Shows | Bounds |
|---|---|---|
| `breakpoints` | `TrapsMatchTable`, `RegistersMatchTable`: the table agrees with the process. `UserBreakletOwned`: with the logical breakpoints. `ThreadsFollowTable`: a stopped thread loses its breakpoint only with the entry, and keeps none of a deleted step. `CompleteClearRetries`: clearing a step finishes what an earlier clear could not | two code addresses, one whose trap may refuse to go; two watched addresses for one register, so that the limit is met (the proofs cover more registers); two IDs, three internal kinds |
| `execution` | `StepEndReported`, `CurrentThreadAtBreakpoint`, `StepOutlivesOnlyInterruption`: what `Continue` reports agrees with the threads and with what it leaves armed | two threads, a user breakpoint at one of two addresses, every kind of step plan |
| `halt` | `HaltStops`: a manual stop seen by `Continue` ends it. `DisabledIsUnsatisfiable`, `ArmedWhileRunning`: a breakpoint is out of the process exactly when no later hit can satisfy its condition | one thread, with tracepoints and steps that are kept; every operator of a hit condition, operands 1 and 2, three hits: one more than the largest operand |
| `logical_enable` | `DisabledHasNoLocation`, `ArmedEverywhere`: a breakpoint is in every process exactly when it is enabled and can be hit. `RestartDiscardsUnset`: a restart keeps no breakpoint without a location, unless its expression has no value in the new process | two processes, an inlined place, one in a plugin, one address of one process, an expression that has a value in the second process and, with the plugin, in the first, a watchpoint, two IDs; clients that have no two breakpoints at one place |
| `logical_faults` | `OwnedByLogical`: every location belongs to a known breakpoint, with writes that fail in the second or third process after the first has been written, exits, conditions that do not parse | three processes, three IDs (two breakpoints at a place and one more), an inlined place that can be written and one that may not; the places do not overlap (the proof covers more) |
| `service` | `DumpHoldsTarget`, `SetupDoneOnce`; `TargetInstalled`: no client gets the target mutex before there is a target. `DumpWaitEnds`: polling a dump returns, unless the mutex was lost in the way of `service_dump_leak` | two clients and all ten kinds of calls, from the recording of a program on (the proofs cover more clients) |
| `dap` | `PauseSticks`: after a pause nothing runs. `InterruptionIsHidden`: a stop made to set breakpoints is not reported. `NobodyBlocks`: no halt is lost and no request or shutdown blocks, but for the one deadlock below | one goroutine that runs the target at a time, all requests, an interrupt at any time (the proof covers more goroutines) |
| `call` | `RightInjection`: each stop of the protocol reaches the evaluation it belongs to, on whatever thread. `FncallsMatchTarget`: the evaluation and the target agree on the calls in progress, so nothing is left behind. `CalleeIsComplete`: a function runs only with all its arguments, never when it is being undone. `NoInternalError`: none of the "internal debugger error" paths is taken. `EvaluationEnds` | two goroutines, three threads, `f(g())`, a method, a string to allocate, one address to pin, one breakpoint hit or halt during a call, with and without a pinner |
| `linux` | `ImplementsAllStop`: the per-thread protocol implements AllStop. `EveryThreadStops`: `stop` gets all of them. `PhantomRewound`: a hit nobody was told of is undone once. `SignalsHandedBack` | three threads, three instructions of which one is a breakpoint of the program, one event (clone, signal or manual stop) beside the hits, two calls of `ContinueOnce` |
| `darwin` | `ImplementsAllStop`, again, for all threads but the overlooked ones. `HitKept`: every hit stops its thread before the instruction. `ExitedIsDead`: `wait4` is called for a dead process only, across `execve` too. `PortsBeforeExec` for the launch. `CallsReturn`: neither `stop` nor `Launch` waits for what does not come | four threads, two instructions, two calls of `ContinueOnce`, two events at any time and a third that starts a thread while threads are counted, every failure of the launch |
| `ebpf` | `ParamsOfOneHit`, `ReportedOnce`, `ReportedInOrder`: what is reported is what happened, whatever is dropped. `CloseReturns`: closing ends, if all probes were attached, with everything handed on, if no read failed | two goroutines, two functions, a ring buffer of two records, a table of one hit in reassembly, so that both overflow |

Why small instances are enough: the interesting cases are two threads stopped in
one turn of the loop, two breaklets at an address, two targets of which the
second fails, two calls around a lock operation, one register fewer than there
are watchpoints, two evaluations whose stops come together, a thread that is
created and one that traps while the third is being stopped, one record more than
fits; all happen within the bounds. Bounds on counters (`MaxHits`,
`MaxBreaklets`, `MaxID`, `MaxEvents`, `MaxContinue`, `MaxPins`, `MaxEvals`,
`MaxStops`) are guards of actions. `CHECK_DEADLOCK FALSE` is set where the system
may stop: the process exits or is detached, the IDs or the events are used up, the
session is closed; and in `service`, where a mutex can be lost in two of the ways
described below. Each property
of each passing run is violated when one mapped definition is replaced by its
defective variant.

Some properties are stated in the modules and listed by no run, because another
run or a proof covers most of what they say. TLC finds them true when they are
added to the configurations: the type invariants `TypeOK`, `EntriesConsistent`
(part of the proof of Breakpoints), `EveryThreadKnown` of NativeLinux,
`SomethingToCome` of NativeDarwin, `ValueOfHit` and `InputsNamed` of EBPFTrace,
`StopsServed`, `StackAsChecked` and `PinsReleased` of CallInjection.

### Fairness

`HaltStops` assumes that the loop of `Continue`, which is sequential code, takes
its steps, and that the signal sent to a running thread arrives. It assumes
nothing about the program. `DumpWaitEnds` assumes that each client's call in
progress, the dump and its writer take steps, and that a mutex that is free again
and again is obtained (Go's mutexes hand over to a waiter that has starved for a
millisecond). `NobodyBlocks` assumes the same of the goroutines of
the session. `EveryThreadStops` assumes that the debugger takes its steps and
that the kernel delivers a signal that is pending for a running thread;
`CallsReturn` that the debugger, the child of
`fork_exec` and a thread that is being stepped go on; `CloseReturns` that the
reader, whose reads have a deadline, and `Close` go on. There the bound on hits
matters: `drainRingBuf` reads as long as there are records, whatever its deadline
says, so it ends because the program does not hit probes for ever. `EvaluationEnds` assumes
that threads of the target run, that a runnable goroutine gets a thread (there
are more threads than goroutines), that an injected function returns or panics,
and that the user continues the target after a breakpoint in the middle of a
call. Beyond that nothing is assumed about the client, about signals, or about
when the program stops by itself.

That a halt always ends a command is not claimed at the level of DebuggerService:
`service/api/types.go` documents that a halt sent before the command has
begun is lost. HaltStops, and NobodyBlocks for the DAP session, whose
`changeStateMu` exists to close that gap, say where it does hold.

### Where the code disagrees with what is said of it

The run `service_dump_leak` checks one property, taken from a comment, that the
code violates: `State` without waiting returns with the mutex of the dump locked
(`debugger.go:580`), and `DumpWait(0)`, which "returns immediately", never
returns. `PROJECT.json` quotes the lines.

TLC also finds the following properties of the modules violated when they are
added to a configuration. They are kept beside the others as statements of what
a change of the code should establish.

| Property | Configuration | What happens |
|---|---|---|
| `ActiveIfAnyMet` | `MCExecution` with `MaxBreaklets = 2` | the callback of a stepping breaklet overwrites `Active`, and a user breakpoint at the address is passed (`breakpoints.go:361`; `breakpoints.go:1057` says otherwise) |
| `StopCloses` | `MCDAP` | `Stop` during a restart: the two lock `mu` and `changeStateMu` in opposite orders and both wait for ever (`server.go:3516`) |
| `StopReturns` (NativeLinux) | `MCLinux` | the exit of a thread is not returned to the loop of `stop`, which then waits for an event although every thread it knows has stopped (`proc_linux.go:486`) |
| `ResultsNamed` | `MCEBPF` | results are reported with the names and types of the inputs, because the number of inputs is looked up under the address of the return probe (`helpers.go:209`) |
| `NoPanic` | `MCEBPF` | `AttachUprobe` appends the link before it looks at the error; a probe that could not be attached leaves a nil link on which `Close` panics, with the links after it open (`helpers.go:193`, `helpers.go:180`) |
| `ForkExecTruthful` | `MCDarwin` | a child that fails before `execve` closes the pipe as a successful one does; `fork_exec` returns its pid and `Launch` waits for its threads for ever (`exec_darwin.c:51`) |
| `NothingRuns` | `MCDarwin` | `num_running_threads` lists the threads and asks one after the other; one that starts a thread and exits before its turn leaves it running, and `stop`, which "stops all running threads" (`proc_darwin.go:446`), returns (`threads_darwin.c:160`) |
| `StopsServed`, `NoInternalError` | `MCCall` with `ConcurrentErrors = TRUE` | an evaluation that ends with an error makes `callInjectionProtocol` return before it has looked at the stop of another, whose thread is then resumed unserved; the two are out of step from there on (`fncall.go:1189`; the comment at 1148 says "for all threads") |
| `FncallsMatchTarget`, `NoInternalError`, `EvaluationEnds` | `MCCall` with `LateErrors = TRUE` | a request to the target fails where the call cannot be undone: the frame size cannot be written once the thread is in `debugCallV2`, and the call has not been recorded (`fncall.go:339-342`); `debugCallV2` cannot be left by stepping, and the call is popped (872-874); the registers cannot be read at the last request, or at a stop of a call that was undone already, and `run` undoes what is over (816-820). No test or comment says these requests may fail, so this is listed as the limit of what the run shows |
| `NoInternalError` | `MCCall` with `f()()` among `Calls` and no pinner | the inner call fails, the outer one is undone, and its return values are read with no function (`fncall.go:903`) |
| `DetachedProcessHasNoTrap` | `MCBreakpoints` | detaching clears user breakpoints only; traps of a step or of plugin and library loading stay in the process that is left running (`target_group.go:262`) |
| `SteppingMeansSteppingBreaklet` | `MCExecution` with `MaxBreaklets = 2` | a user breakpoint on the first line of a deferred function, called directly, ends a step that has not ended (`breakpoints.go:364`) |
| `NoSwallowedStop` | the same | a user breakpoint another thread hit is passed when the picked thread enters a range-over-func body (`target_exec.go:255`) |
| `OwnedByLogical` | `MCLogicalFaults` with `Locs = {"f.go:1", "adr"}` and `LocAddrs <- OverlapLocs` | an error at the last address of a place leaves the earlier ones set, with no owner (`target_group.go:352`) |
| `OwnedByLogical` | `MCLogicalFaults` with `WriteFaults = {"a2", "a3"}` | in a new process a write fails half way through an inlined place, which nobody rolls back (`target_group.go:177`); a second breakpoint takes the rest of the place, the first is disabled, and the creation of a third writes the free address, returns *exists* for the last one and is dropped with no rollback (`target_group.go:352`) |
| `RestartDiscardsAll` | `MCLogicalEnable` | an expression that can not be evaluated gives no addresses and no error (`debugger.go:770`), so a breakpoint without a location survives the restart; "Breakpoints that can not be set will be discarded" (`target_group.go:77`) |
| `ArmedEverywhere` | `MCLogicalEnable` with `ProgramAddrs <- PartlyInPlugin` | `pluginOpenCallback` passes over breakpoints that have a location in the process, so the copy of an inlined function in the plugin gets none (`target.go:707`) |
| `IDKeepsItsBreakpoint` | `MCLogicalFaults` with `ReqIDs = {0, 1}` | a requested low ID moves the counter back and a later breakpoint replaces an existing one (`debugger.go:785`) |
| `DisabledHasNoLocation` | `MCLogicalFaults` with `ReqIDs = {0, 1, 2}` and `WatchAddrs = {"w1"}` | the counter moves back in the same way and a watchpoint takes the ID of a breakpoint that is not enabled (`debugger.go:785`) |
| `SatisfiableIsArmed` | `MCLogicalFaults` with `HitConds = {0, 1}`, `MaxHits = 1` | a condition that does not parse leaves an enabled breakpoint out of the process for good (`target_group.go:473`) |
| `NonBlockingNeverWaits` | `MCService` | `State` without waiting may wait for a command that has just begun (`debugger.go:584`) |
| `HaltHasTarget` | `MCService` | a halt at the end of a recording finds no target (`debugger.go:324`) |
| `OnePending` | `MCDAP` with `Async = {a1, a2}` | after a restart two goroutines may run the target (`server.go:790`) |

## 4. What is proved

`BreakpointsProofs` proves, for all sets of addresses, threads, IDs and kinds and
any number of debug registers, `Spec => []` of `TypeOK`, `TrapsMatchTable`,
`RegistersMatchTable` and `UserBreakletOwned`, and the properties
`ThreadsFollowTable` and `CompleteClearRetries`.

Assumptions: code and data addresses differ, IDs are positive, only the removal
of a trap may fail, never the clearing of a debug register (on linux/amd64 it
has no failure path). TLC evaluates them in the run `breakpoints`.

Argument: the inductive invariant `Inv` is the conjunction of the four and of
`EntriesConsistent`. The latter is needed twice. Clearing the user breaklet of a
watchpoint must empty its entry, or the register would be free while an entry
still names it: so entries of watchpoints have exactly that breaklet. And
clearing a watchpoint also deletes its logical breakpoint, which must not own
anything else: so no other entry is owned by it. All operations that remove
breaklets (`ClearBreakpoint`, `ClearSteppingBreakpoints`,
`clearInactivatedSteppingBreakpoint`, `detachTarget`) are instances of one lemma,
`ClearingPreserves`; setting breakpoints and watchpoints, and inactivating those
of a range-over-func frame, have lemmas of their own; `NextInv` is one case per
action. `ThreadsFollowTable` is an invariant and a property of every step:
`ForgetFollows` covers the steps that delete entries, and `UserClearedNotStepping`
is why a user's clear, which does not look at the threads, never deletes the entry
of a step.

`ExecutionProofs` proves all the safety properties of Execution, for any number
of threads and addresses, any step plans and any hit conditions:
`StepEndReported`, `CurrentThreadAtBreakpoint`, `StepOutlivesOnlyInterruption`,
`DisabledIsUnsatisfiable` and `ArmedWhileRunning`. Assumptions
(`ExecutionAssumption`): step plans hold breaklets that stepping commands set, the
one on a go statement with its callback; the operand of `%` is positive. The
code does not see to the latter: `parseHitCondition` accepts `% 0`, and
`checkHitCond` then divides by zero at the first hit (`breakpoints.go:402`), which
ends the debugger with a panic; the model describes conditions that can be
evaluated. Argument: a property of what `Continue`
returns depends on the whole turn of the loop, so the invariant `IInv` follows it.
While the conditions are evaluated a thread that is active for no step is at the
user breakpoint, whose breaklet is in the table (`StoppedAt`); no branch of the
switch clears that one, so it is still there when the stop is reported
(`CurrentAt`). Every branch either clears the step or reports an interruption
(`StepsLeft`). What `checkCondition` does to a list of breaklets, and which of
them a clear keeps, are recursive functions; the lemmas `CheckConditionFacts` and
`KeepKinds` are inductions over the length of the list, done by hand from the
well-ordering of the natural numbers (`WFMin`). `SatisfiableExact` is the
arithmetic: for each operator, `breakpointConditionSatisfiable` is true exactly
when one of the next `val + 1` hits satisfies `checkHitCond`.

`DebuggerServiceProofs` proves `TypeOK`, `DumpHoldsTarget`, `SetupDoneOnce` and
`TargetInstalled` of DebuggerService for every set of clients and of calls.
Assumption: no client is one of the names used for the goroutines of a dump and
of a recording. Argument: ownership. The target mutex is handed from a call to
the goroutine of the dump, or from the recording to the clients, so that a
property of one place in the code depends on what all the others hold; `IInv`
says for each place of each process which mutex it holds and which of the
channels that release a connection are still open.

`DAPSessionProofs` proves `PauseSticks` for any number of goroutines that run the
target, which restarts can produce. The invariant says who owns
`changeStateMu`, including a goroutine that waits for another to unlock it, that
the request loop does not go on before the goroutine it started has resumed the
target, and that from the moment a pause is handled nobody is on the way to
resume it. It also proves `InterruptionIsHidden` under the hypothesis
`[]OnePending`: with two goroutines on one target, which a restart can produce
(section 3), one consumes the halt of the other and the property is not true.
`Hides` says that `runningCmd` is set until a goroutine has decided to end its
command, and that one which ends it for a manual stop found `haltRequested` set.

`NativeLinuxProofs` proves `ImplementsAllStop` and `EveryThreadKnown` for any
number of threads, any program and any number of signals. Assumption: the marker
for *no status* is not a wait status. The argument is about what `stop()` has not
read yet. A new thread is traced, and may already have stopped, before anybody
knows it; but its parent stopped to announce it and counts as running until that
event is read, so `stop()` cannot end before. `IInv` says that every thread that
runs is known and counted, that every live thread that is not known is announced
by an unread clone event, by one parent only (`OneParent`: reading it must not
leave another parent announcing a thread that now runs), and that the threads
`resume()` has not reached yet (`ContTodo`) do not run. From it every step of the
backend is a resume, a stop, or a stutter of AllStop.

The third theorem, `PhantomRewound`, is about a single `SIGTRAP` on its way: from
the thread that executed the trap (`pend`), over the wait status, to `setbp`. For a
thread in the middle of an instruction `HitTold` says that its `SIGTRAP` is at one
of these places and that the breakpoint it went over is still set or was recorded
as a phantom hit; `TrapPlace` that it is at one place only; `AtCurrent` that a thread
that is about to step over a breakpoint is at it. All of this is lost when a thread
is forgotten that lives, or waited for that is dead, so it needs `Dying`: the exit of
a thread is read before anybody acts on it, except when the whole process is dead.

`NativeDarwinProofs` proves `ImplementsAllStop`, `ExitedIsDead` and
`PortsBeforeExec`, for any number of threads. Assumptions: those of
`DarwinAssumption`. Three facts carry it. The pipe: the child goes on only after
the debugger has written, which it does after it has set the ports, or has ended.
The tasks: only dead tasks are notified as dead, and the debugger takes the
second task for its own only after the first is gone, so a death notice of the
first is never taken for an exit. The count (`CountSees`): threads are not
announced, but one that was missed while the list was read was started by one
that is on the list and runs, or that has exited before it was asked. The latter
is a race of the code: the thread is overlooked and runs on while the target
counts as stopped (section 3, `NothingRuns`). `ImplementsAllStop` claims nothing of
where such a thread is; all others, known to the debugger or not, are suspended
when the count is zero. That a thread reported at a breakpoint is not an overlooked
one needs `OInv`: the debugger knows only threads that were on the list.

For `HitKept` the invariant `Held` follows the exception of a hit: the thread waits
for the reply and has one message in the port set (`WaitsForReply`), or the message
was read, the thread is suspended and the loop of `stop()` will move it back to the
breakpoint (`HitHeld`), which is still set because breakpoints change only when all
threads are suspended (`Suspended`).

`EBPFTraceProofs` proves all the safety properties of its run, `ParamsOfOneHit`,
`ReportedInOrder` and `ReportedOnce`, for any number of goroutines, functions
and parameters, and any sizes of the ring and of the table. Assumptions: these
are finite, and a function has at most `MaxParams` of either kind of parameter.
The first property is not inductive: whether a parameter read from the ring is of the
hit that is collected depends on the headers before it in the ring. `Belongs`
says what the event at a place in the ring will find when it is read: the last
header of its key before it is that of its hit, and if no header is left in the
ring, the table has the entry of that hit or none. It holds for all events in the
ring (`RingOrdered`) and for the one a running program would write next
(`ProgOrdered`), because a program whose header was dropped writes no
parameters. `AppendBelongs` and `TailBelongs` carry it over a write and a read.
A result has its parameters as a set: the order of their indices, which the code
keeps, is a field of each.

The other two follow from `HitsTracked`, which takes the results handed on, the
table and the ring as one line that a hit moves along: headers in the ring are in
the order of their hits and later than what the table collects for their key
(`HeadersOrdered`, `TableOrdered`), which is later than what was reported
(`ResultsOrdered`), and a hit that got into the ring is in exactly one of the three
(`Somewhere`). The table is full when a header comes, when parameters were dropped,
or when the reader ends; each empties some entries in an order the code does not
fix, so the lemmas are stated for any set of entries and any order (`EmitsAt`,
`Emptied`).

`LogicalBreakpointsProofs` proves, for any number of targets, places, addresses and
breakpoints, `TypeOK` and `RestartDiscardsUnset` with no further assumption, and
three properties under assumptions without which TLC finds counterexamples
(section 3), each a hypothesis of its theorem:

- `DisabledHasNoLocation`, when the debugger chooses the IDs (`ReqIDs \subseteq {0}`).
  Any write and any erasure may fail and processes may exit.
- `OwnedByLogical`, when also `WholePlaces` holds: two places have the same addresses
  or none in common, a write may fail only at a place that has one address, a place is
  not both in the program and in its plugin, and traps can be erased. The code does not roll back on every error (*not found* and
  *exists* leave what was written), so it is correct only if such an error means
  that nothing was.
- `ArmedEverywhere`, when nothing fails or exits, places have no address in common and
  none is both in the program and in its plugin (`Undisturbed`), for behaviours in which no two breakpoints are at one place
  (`[][DistinctPlaces]_vars`, the action constraint of the run).

Argument: the operators of the model are sets of outcomes, of which the provers see
nothing, so the first part says what each may do: `Changed` (only locations of this
breakpoint come and go, and new ones are at its place), `Touched` (one operation on
one breakpoint: nothing but flags, or enabled, or disabled), and an `...Effect` for
each handler. The invariants then say little each. `NoStale`: no process that has
not exited holds a location of a breakpoint whose flags say it has none; an ID that
is given out next has no location yet (`Numbered`), a process that is added has
none (`Stages`) and neither has a breakpoint that `Restart` has still to enable
(`Awaited`). `Settled`: in each process a place belongs as a whole to one breakpoint
or to none; this is what makes *exists* mean that nothing was written, so that `Held`
(every location has an owner) survives the creations that are dropped. `Exact`: a
location is at the place of its owner (`Placed`), so the place of a breakpoint that
shares it with nobody is free or its own (`PlaceFree`), enabling it writes all of it
(`EnableArms`), and each breakpoint is armed in each process unless the loop of
`addTarget`, `pluginOpenCallback` or `Restart` has still to come to it (`Waiting`).

Only model-checked: CallInjection; `SignalsHandedBack` of NativeLinux, which holds for
one signal at a time only, as the code keeps one; all liveness, which is out of reach
of the prover. CallInjection uses EvalCompile, which is recursive, and the prover
takes no module that reaches a recursive operator.

## 5. What is not modelled

Section 1 and the notes in `PROJECT.json` say what is left out of each part. As
a whole: reading debug information, unwinding, evaluating expressions, the
encodings of the protocols, the terminal and the command line. They are pure
functions of large inputs, or input and output. Where they influence control the
model has a choice among their outcomes.

Most of the C code of the repository is generated: `vmlinux.h` (a dump of the
types of a kernel) and the MIG stubs of the macOS backend (`mach_exc*`,
`exc_user*`). They hold declarations and marshalling, no state of Delve, and are
not mapped. The hand-written C, `trace.bpf.c` and its headers and the `*_darwin.c`
files, is modelled in EBPFTrace and NativeDarwin.

In CallInjection: calls are started on goroutines of the program only; a stack
is a sequence of frames, so that what is saved in registers and whether a pointer
escapes is not visible; `StartCallInjection`, which matters to replays (a compile
error returns without ending the diversion), and a detach in the middle of a call
are left out.

## 6. What would come next

1. **StackWatch**: sentinels, retreat and adjustment of watchpoints on the stack,
   on top of Breakpoints; a failing write while the stack moves.
2. **GdbConn**: packets, acknowledgements and retries of `gdbserver_conn.go`
   over a connection that corrupts packets.
3. **DAPSession** for several clients of one server: disconnect without
   terminating, reattach, a command that outlives its client.
4. Algorithms as functions against reference definitions: LEB128, the line number
   state machine, the call frame program, the short circuit jumps of `evalop`.
5. The Windows and FreeBSD backends as implementations of AllStop, and Execution
   on top of it.

Theorems: `RightInjection` for any number of evaluations, and `OwnedByLogical` for
a code that rolls back on every error, without `WholePlaces`.
