\* Live reader and one backfill day; failures, truncated passes, an outage that
\* the listing budget of three transactions may or may not reach across.
CONSTANTS
  Txs <- FiveTxs
  Time <- FiveTimes
  Broken = {3}
  Live = live
  Days = {1}
  DayLength = 2
  Settle = 1
  StartBack = 3
  PageSize = 1
  MaxPages = 3
  FlushRows = 2
  MaxWindow = 2
  ListSize = 1
  ListPages = 4
  NodeGaps = FALSE
  Outage = TRUE
  MaxTime = 6
  MaxFailures = 1
SPECIFICATION FairSpec
INVARIANTS NoGap DaysRead
PROPERTIES CatchesUp
CHECK_DEADLOCK FALSE
