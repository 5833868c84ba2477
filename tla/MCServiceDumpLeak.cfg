SPECIFICATION FairSpec
CONSTANTS
  Clients = {c1, c2}
  Calls = {"state-nowait", "dump", "wait-0"}
  StartRecording = FALSE
PROPERTY DumpWaitReturns
CHECK_DEADLOCK FALSE
