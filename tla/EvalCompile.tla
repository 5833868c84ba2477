---------------------------- MODULE EvalCompile ----------------------------
(***************************************************************************)
(* The compiler of pkg/proc/evalop for expressions that call functions: it *)
(* turns an expression into the program of a stack machine whose           *)
(* CallInjection operations drive the injection protocol (module           *)
(* CallInjection).                                                         *)
(*                                                                         *)
(* An expression is a record:                                              *)
(*   [k |-> "name"]          a variable or any other operand               *)
(*   [k |-> "string"]        a string literal, which an argument allocates *)
(*   [k |-> "func"]          the name of a function                        *)
(*   [k |-> "method"]        a method with its receiver, or a closure      *)
(*   [k |-> "call", fun |-> expression, args |-> sequence of expressions]  *)
(*   [k |-> "set", rhs |-> expression]    the assignment of rhs to a name  *)
(* Operations keep the code's names; a jump holds the distance it jumps.   *)
(***************************************************************************)
EXTENDS Integers, Sequences, SequencesExt

Op(name) == [op |-> name]
Push == Op("Push")
Pop == Op("Pop")
CopyArg == Op("CallInjectionCopyArg")
SetTarget == Op("CallInjectionSetTarget")
Roll(n) == [op |-> "Roll", n |-> n]
Jump(when, by) == [op |-> "Jump", when |-> when, by |-> by]
CallInjectionStart(fun, hasFunc) ==
    [op |-> "CallInjectionStart", fn |-> fun.k, hasFunc |-> hasFunc]
CallInjectionStartSpecial(fn) ==
    [op |-> "CallInjectionStartSpecial", fn |-> fn, hasFunc |-> TRUE]
CallInjectionComplete(doPinning) ==
    [op |-> "CallInjectionComplete", doPinning |-> doPinning]

\* The operations of a call to a runtime function known at compile time.
\* args holds, for each argument, the operations that push it.
SpecialCall(fn, args) ==
    <<CallInjectionStartSpecial(fn), SetTarget>>
        \o FlattenSeq([i \in DOMAIN args |-> Append(args[i], CopyArg)])

\* Pins the addresses found in a return value, one injected call for each.
PinningLoop ==
    LET body == <<Op("PushPinAddress")>>
                    \o SpecialCall("Pin", << <<Push>>, <<>> >>)
                    \o <<CallInjectionComplete(FALSE), Pop>>
    IN  <<Jump("JumpIfPinningDone", Len(body) + 2)>>
            \o body
            \o <<Jump("JumpAlways", -(Len(body) + 1))>>
            \o <<Op("CallInjectionComplete2")>>

Completed(ops, doPinning) ==
    ops \o <<CallInjectionComplete(doPinning)>>
        \o (IF doPinning THEN PinningLoop ELSE <<>>)

\* A string literal passed to a function is copied into memory allocated by
\* an injected call of runtime.mallocgc, unless it needs no allocation.
AllocLiteralString(pinner) ==
    LET ops == Completed(SpecialCall("mallocgc",
                                     << <<Op("PushLen")>>, <<Push>>, <<Push>> >>),
                         pinner)
                   \o <<Op("ConvertAllocToString")>>
    IN  <<Jump("JumpIfAllocStringChecksFail", Len(ops) + 1)>> \o ops

Materialize(e, pinner) ==
    IF e.k = "string" THEN AllocLiteralString(pinner) ELSE <<>>

HasCall(e) == e.k = "call"

RECURSIVE CompileAST(_, _, _)

\* The target has runtime.debugPinner: the function and all the arguments are
\* evaluated before the call is injected, and what a nested call returns is
\* pinned.
CompileFunctionCallWithPinning(e, toplevel) ==
    LET Arg(i) == CompileAST(e.args[i], TRUE, FALSE) \o Materialize(e.args[i], TRUE)
    IN  Completed(
            CompileAST(e.fun, TRUE, FALSE)
                \o FlattenSeq([i \in DOMAIN e.args |-> Arg(i)])
                \o <<Roll(Len(e.args)), CallInjectionStart(e.fun, TRUE), Pop, SetTarget>>
                \o [i \in DOMAIN e.args |-> CopyArg],
            ~toplevel)

\* Without a pinner the arguments are evaluated while the call is suspended at
\* its first instruction, so that they are not moved.  The function is
\* evaluated before the call when it contains no call itself, and once more
\* when the call has started if CallInjectionStart asks for it.
CompileFunctionCallNoPinning(e) ==
    LET Fun == CompileAST(e.fun, FALSE, FALSE)
        again == <<Pop>> \o Fun
        Arg(i) == CompileAST(e.args[i], FALSE, FALSE)
                      \o Materialize(e.args[i], FALSE) \o <<CopyArg>>
    IN  Completed(
            (IF HasCall(e.fun)
             THEN <<CallInjectionStart(e.fun, FALSE)>> \o again
             ELSE Fun \o <<CallInjectionStart(e.fun, TRUE), Jump("JumpIfFalse", Len(again) + 1)>>
                      \o again)
                \o <<SetTarget>>
                \o FlattenSeq([i \in DOMAIN e.args |-> Arg(i)]),
            FALSE)

CompileAST(e, pinner, toplevel) ==
    CASE e.k = "call" /\ pinner  -> CompileFunctionCallWithPinning(e, toplevel)
      [] e.k = "call" /\ ~pinner -> CompileFunctionCallNoPinning(e)
      [] OTHER -> <<Push>>

\* What needs the pinner: an allocated literal, and a call whose result is
\* used by the rest of the expression.
UsesPinner(ops) ==
    \E i \in DOMAIN ops :
        ops[i].op = "CallInjectionComplete" /\ ops[i].doPinning

\* The pinner is allocated before the expression and released after it.
DebugPinnerSetupTeardown(ops) ==
    IF ~UsesPinner(ops)
    THEN ops
    ELSE SpecialCall("debugPinner", <<>>)
             \o <<CallInjectionComplete(FALSE), Op("SetDebugPinner")>>
             \o ops
             \o SpecialCall("Unpin", << <<Push>> >>)
             \o <<CallInjectionComplete(FALSE), Pop, Push, Op("SetDebugPinner")>>

Compile(e, pinner) ==
    DebugPinnerSetupTeardown(
        IF e.k = "set"
        THEN CompileAST(e.rhs, pinner, FALSE) \o Materialize(e.rhs, pinner)
                 \o <<Push, Op("SetValue")>>
        ELSE CompileAST(e, pinner, TRUE))

EndDepth(e) == IF e.k = "set" THEN 0 ELSE 1

-----------------------------------------------------------------------------
\* How many values an operation takes from the stack and how many it puts
\* there, as its depthCheck method says.
NPop(o) ==
    CASE o.op \in {"Pop", "PushLen", "Roll", "CallInjectionSetTarget",
                   "CallInjectionCopyArg", "SetDebugPinner"} -> 1
      [] o.op \in {"ConvertAllocToString", "SetValue"} -> 2
      [] o.op = "Jump" ->
             IF o.when \in {"JumpIfFalse", "JumpIfAllocStringChecksFail"} THEN 1 ELSE 0
      [] OTHER -> 0

NPush(o) ==
    CASE o.op \in {"Push", "Roll", "CallInjectionStart", "CallInjectionStartSpecial",
                   "PushPinAddress", "CallInjectionComplete2",
                   "ConvertAllocToString"} -> 1
      [] o.op = "PushLen" -> 2
      [] o.op = "CallInjectionComplete" -> IF o.doPinning THEN 0 ELSE 1
      [] o.op = "Jump" -> IF o.when = "JumpIfAllocStringChecksFail" THEN 1 ELSE 0
      [] OTHER -> 0

\* The depth of the stack before each operation, and after the last.
Depths(ops) ==
    LET depth[i \in 1..Len(ops) + 1] ==
            IF i = 1 THEN 0
                     ELSE depth[i - 1] - NPop(ops[i - 1]) + NPush(ops[i - 1])
    IN  depth

\* compileCtx.depthCheck: no operation lacks an argument, every path to an
\* operation reaches it with the same depth, nothing is pinned before the
\* pinner is allocated, and the result is left alone on the stack.
DepthCheck(ops, endDepth) ==
    LET depth == Depths(ops)
    IN  /\ \A i \in DOMAIN ops :
               /\ depth[i] >= NPop(ops[i])
               /\ ops[i].op = "Jump" => depth[i + ops[i].by] = depth[i + 1]
               /\ ops[i] = CallInjectionComplete(TRUE) =>
                      \E j \in 1..i : ops[j].op = "CallInjectionStartSpecial"
        /\ depth[Len(ops) + 1] = endDepth
=============================================================================
