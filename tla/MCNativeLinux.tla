---------------------------- MODULE MCNativeLinux ----------------------------
(* A program of three instructions, the second a breakpoint instruction.   *)
EXTENDS NativeLinux

CONSTANTS t0, t1, t2, u, v
=============================================================================
