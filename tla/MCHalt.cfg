SPECIFICATION FairSpec
CONSTANTS
  a1 = a1
  a2 = a2
  Threads = {t1}
  Addrs = {a1, a2}
  UserAddr = a1
  StepPlans <- PlainPlans
  HitConds <- AllHitConds
  KeepOnHalt = TRUE
  KeepOnTrace = TRUE
  Tracepoint = TRUE
  InjectedCalls = TRUE
  MaxHits = 3
  MaxBreaklets = 1
PROPERTY HaltStops
INVARIANT DisabledIsUnsatisfiable
INVARIANT ArmedWhileRunning
CHECK_DEADLOCK FALSE
