\* The fallback node lists a transaction and answers null for it.
CONSTANTS
  Txs <- FiveTxs
  Time <- FiveTimes
  Broken = {3}
  Live = live
  Days = {}
  DayLength = 2
  Settle = 1
  StartBack = 3
  PageSize = 1
  MaxPages = 3
  FlushRows = 2
  MaxWindow = 2
  ListSize = 1
  ListPages = 4
  NodeGaps = TRUE
  Outage = TRUE
  MaxTime = 6
  MaxFailures = 0
SPECIFICATION Spec
INVARIANTS NoGap
CHECK_DEADLOCK FALSE
