SPECIFICATION Spec
CONSTANTS
  a1 = a1
  a2 = a2
  Threads = {t1, t2}
  Addrs = {a1, a2}
  UserAddr = a1
  StepPlans <- AllPlans
  HitConds <- NoCond
  KeepOnHalt = FALSE
  KeepOnTrace = FALSE
  Tracepoint = FALSE
  InjectedCalls = TRUE
  MaxHits = 1
  MaxBreaklets = 1
SYMMETRY Symmetry
INVARIANT StepEndReported
INVARIANT CurrentThreadAtBreakpoint
PROPERTY StepOutlivesOnlyInterruption
CHECK_DEADLOCK FALSE
