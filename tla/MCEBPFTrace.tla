----------------------------- MODULE MCEBPFTrace -----------------------------
(* A function with two parameters, and one with a parameter and a result.  *)
EXTENDS EBPFTrace

CONSTANTS f1, f2

In == [f \in Fns |-> IF f = f1 THEN 2 ELSE 1]
Ret == [f \in Fns |-> IF f = f1 THEN 0 ELSE 1]
=============================================================================
