----------------------------- MODULE MCBreakpoints -----------------------------
EXTENDS Breakpoints, TLC
CONSTANTS c1, c2, w1, w2, t1
=============================================================================
