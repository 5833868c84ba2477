SPECIFICATION FairSpec
CONSTANTS
  m0 = m0
  m1 = m1
  m2 = m2
  m3 = m3
  Main = m0
  Others = {m1, m2, m3}
  Foreign = Foreign
  Starts = {2, 4}
  Faults = {"acquire", "setup", "exec"}
  MaxEvents = 3
  MaxContinue = 2
  None = None
INVARIANT HitKept
INVARIANT ExitedIsDead
INVARIANT PortsBeforeExec
PROPERTY ImplementsAllStop
PROPERTY CallsReturn
ACTION_CONSTRAINT LastInCount
CHECK_DEADLOCK FALSE
