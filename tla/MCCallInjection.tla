-------------------------- MODULE MCCallInjection --------------------------
(***************************************************************************)
(* Small instances of CallInjection.                                       *)
(***************************************************************************)
EXTENDS CallInjection

CONSTANTS g1, g2

string == [k |-> "string"]
func == [k |-> "func"]
method == [k |-> "method"]
call(fun, args) == [k |-> "call", fun |-> fun, args |-> args]

\* g1 evaluates what the protocol makes difficult: f(g()), x.m() and
\* y = "literal".  g2 makes a plain call.
MCCalls ==
    g1 :> {call(func, <<call(func, <<>>)>>), call(method, <<>>),
           [k |-> "set", rhs |-> string]}
    @@ g2 :> {call(func, <<>>)}

=============================================================================
