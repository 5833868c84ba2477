------------------------- MODULE MCDebuggerService -------------------------
(* Two concurrent clients of the methods of DebuggerService.               *)
EXTENDS DebuggerService
=============================================================================
