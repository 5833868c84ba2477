SPECIFICATION Spec
CONSTANTS
  NumTargets = 3
  Addrs = {"a1", "a2", "a3"}
  WatchAddrs = {}
  Locs = {"f.go:1", "g.go:1"}
  LocAddrs <- FaultLocs
  PidLocs = {}
  ProgramAddrs <- FaultLocs
  ExprLocs = {}
  ExprOf <- NoExpr
  ReqIDs = {0}
  Suspend = {TRUE, FALSE}
  HitConds = {0}
  Deps = {0}
  ParseErrors = {"cond", "hitcond"}
  WriteFaults = {"a3"}
  EraseFaults = {}
  MayExit = TRUE
  MaxID = 3
  MaxHits = 0
INVARIANT OwnedByLogical
CHECK_DEADLOCK FALSE
