\* Helius goes down for good, and nothing else fails.
CONSTANTS
  Txs <- FiveTxs
  Time <- FiveTimes
  Broken = {3}
  Live = live
  Days = {}
  DayLength = 2
  Settle = 1
  StartBack = 3
  PageSize = 1
  MaxPages = 3
  FlushRows = 2
  MaxWindow = 2
  ListSize = 1
  ListPages = 4
  NodeGaps = FALSE
  Outage = TRUE
  MaxTime = 6
  MaxFailures = 0
SPECIFICATION FairSpec
PROPERTIES CaughtUpInWindows
CHECK_DEADLOCK FALSE
