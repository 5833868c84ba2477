SPECIFICATION FairSpec
CONSTANTS
  f1 = f1
  f2 = f2
  Goroutines = {g1, g2}
  Fns = {f1, f2}
  NIn <- In
  NRet <- Ret
  MaxParams = 2
  RingSize = 2
  ArgMapSize = 3
  MaxPending = 1
  MaxHits = 2
  None = None
INVARIANT ParamsOfOneHit
INVARIANT ReportedOnce
INVARIANT ReportedInOrder
PROPERTY CloseReturns
CHECK_DEADLOCK FALSE
