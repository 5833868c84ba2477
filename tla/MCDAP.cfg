SPECIFICATION FairSpec
CONSTANTS
  Async = {a1}
  Requests = {"continue", "step", "stepi", "pause", "setbp", "restart", "disconnect"}
  Signal = TRUE
INVARIANT PauseSticks
INVARIANT InterruptionIsHidden
PROPERTY NobodyBlocks
CHECK_DEADLOCK FALSE
