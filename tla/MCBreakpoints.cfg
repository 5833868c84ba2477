SPECIFICATION Spec
CONSTANTS
  c1 = c1
  c2 = c2
  w1 = w1
  w2 = w2
  t1 = t1
  CodeAddrs = {c1, c2}
  DataAddrs = {w1, w2}
  Threads = {t1}
  IDs = {1, 2}
  InternalKinds = {"next", "plugin-open", "next-inactivated"}
  NumHW = 1
  EraseFaults = {c1}
INVARIANT TrapsMatchTable
INVARIANT RegistersMatchTable
INVARIANT UserBreakletOwned
PROPERTY ThreadsFollowTable
PROPERTY CompleteClearRetries
CHECK_DEADLOCK FALSE
