SPECIFICATION FairSpec
CONSTANTS
  t0 = t0
  t1 = t1
  t2 = t2
  Leader = t0
  Others = {t1, t2}
  Starts = {2, 4, 5}
  Hard = {4}
  u = u
  v = v
  Sigs = {u, v}
  SyncSigs = {v}
  MaxEvents = 1
  MaxContinue = 2
  None = None
INVARIANT PhantomRewound
INVARIANT SignalsHandedBack
PROPERTY ImplementsAllStop
PROPERTY EveryThreadStops
CHECK_DEADLOCK FALSE
