--------------------------- MODULE MCNativeDarwin ---------------------------
(* Instances of NativeDarwin for TLC.                                      *)
EXTENDS NativeDarwin

CONSTANTS m0, m1, m2, m3    \* threads

(* The last event is the start of a thread while num_running_threads is at *)
(* work; the others come at any time.                                      *)
LastInCount == events' = MaxEvents /\ events' # events => dpc = "count" /\ live' # live
=============================================================================
