SPECIFICATION Spec
CONSTANTS
  NumTargets = 2
  Addrs = {"a1", "a2", "a3", "a4", "a5"}
  WatchAddrs = {"w1"}
  Locs = {"f.go:1", "p.go:1", "adr", "exp"}
  LocAddrs <- DisjointLocs
  PidLocs = {"adr"}
  ProgramAddrs <- WithoutPlugin
  ExprLocs = {"exp"}
  ExprOf <- ExprOfAdr
  ReqIDs = {0}
  Suspend = {TRUE, FALSE}
  HitConds = {0, 1}
  Deps = {0, 1}
  ParseErrors = {}
  WriteFaults = {}
  EraseFaults = {}
  MayExit = FALSE
  MaxID = 2
  MaxHits = 1
ACTION_CONSTRAINT DistinctPlaces
INVARIANT DisabledHasNoLocation
INVARIANT ArmedEverywhere
PROPERTY RestartDiscardsUnset
CHECK_DEADLOCK FALSE
