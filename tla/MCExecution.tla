----------------------------- MODULE MCExecution -----------------------------
(* Two threads, a user breakpoint at a1, and the ways a step can overlap    *)
(* with it.                                                                 *)
EXTENDS Execution, TLC

CONSTANTS a1, a2

B(k, c) == [kind |-> k, cb |-> c]
Plan(x, y) == [a \in Addrs |-> IF a = a1 THEN x ELSE y]
next == <<B("next", "none")>>

(* next and stepout over plain lines.                                       *)
PlainPlans == {Plan(<<>>, next)}
(* next in a function with a deferred call, whose first line is a1.         *)
DeferPlans == {Plan(<<B("nextdefer", "none")>>, next)}
(* step into a call through a pointer at a1 or a2; a go statement.          *)
StepIntoPlans == {Plan(<<B("step", "stepInto")>>, <<>>), Plan(<<>>, <<B("newproc", "newproc")>>)}
(* next inside the body of a range-over-func loop.                          *)
RangePlans == {Plan(next, <<B("next", "inactivate")>>)}
(* next on the line of a range-over-func loop.                              *)
RangeBodyPlans == {Plan(<<>>, <<B("rangebody", "none")>>)}

(* reverse step over a line with a call, the call at a1 or a2.              *)
ReversePlans == {Plan(<<>>, <<B("step", "none")>>), Plan(<<B("step", "none")>>, <<>>)}

NoPlan == {}
AllPlans == {Plan(next, next)} \cup ReversePlans \cup DeferPlans \cup StepIntoPlans \cup RangePlans \cup RangeBodyPlans

HC(o, v, g) == [op |-> o, val |-> v, perG |-> g]
AllHitConds == {NoHitCond} \cup {HC(o, v, FALSE) : o \in HitOps, v \in 1..2} \cup {HC("==", 1, TRUE)}
NoCond == {NoHitCond}

Symmetry == Permutations(Threads)
=============================================================================
