SPECIFICATION FairSpec
CONSTANTS
  Clients = {c1, c2}
  Calls = {"state", "state-nowait", "dump", "wait", "wait-0", "cancel", "cmd", "halt", "rec", "other"}
  StartRecording = TRUE
INVARIANT DumpHoldsTarget
INVARIANT SetupDoneOnce
INVARIANT TargetInstalled
PROPERTY DumpWaitEnds
CHECK_DEADLOCK FALSE
