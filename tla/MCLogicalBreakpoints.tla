------------------------ MODULE MCLogicalBreakpoints ------------------------
(* Small groups of targets and tables of addresses for LogicalBreakpoints. *)
EXTENDS LogicalBreakpoints

\* f.go:1 is inlined (two addresses) and unknown to the second process; p.go:1
\* is in a plugin; adr is the address of an instruction of the first process,
\* found by the expression exp, which the second process can evaluate and the new
\* one after a restart only with the plugin.
DisjointLocs == [l \in {"f.go:1", "p.go:1", "adr", "exp"} |->
  CASE l = "f.go:1" -> [t \in Targets |-> IF t = 1 THEN <<"a1", "a2">> ELSE <<>>]
    [] l = "p.go:1" -> [t \in Targets |-> <<"a3">>]
    [] l = "adr"    -> [t \in Targets |-> IF t = 1 THEN <<"a4">> ELSE <<>>]
    [] l = "exp"    -> [t \in Targets |-> <<"a5">>]]

WithoutPlugin == [DisjointLocs EXCEPT !["p.go:1"] = [t \in Targets |-> <<>>],
                                      !["exp"][1] = <<>>]

\* f.go:1 is also inlined in the plugin.
PartlyInPlugin == [DisjointLocs EXCEPT !["f.go:1"][1] = <<"a1">>]

ExprOfAdr == [l \in {"adr"} |-> "exp"]
NoExpr == [l \in {} |-> NoSet]

\* f.go:1 is inlined, g.go:1 is found once in every process.
FaultLocs == [l \in {"f.go:1", "g.go:1"} |->
  [t \in Targets |-> IF l = "f.go:1" THEN <<"a1", "a2">> ELSE <<"a3">>]]

\* adr is the second of the two addresses of f.go:1.
OverlapLocs == [l \in {"f.go:1", "adr"} |->
  [t \in Targets |-> IF l = "f.go:1" THEN <<"a1", "a2">> ELSE <<"a2">>]]
=============================================================================
