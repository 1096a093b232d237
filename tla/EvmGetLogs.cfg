\* Every range of up to seven blocks; a configured span and a request limit.
CONSTANTS
  MaxBlock = 6
  MaxLogs = 6
  MaxSplits = 5
  MaxLogRequests <- Some9
  LogsMaxSpan <- Some4
  AnswerSizes = {0, 2}
  NamedSpans = {0, 1, 2, 3, 5, 9}
SPECIFICATION FairSpec
INVARIANTS EveryBlockReadOnce RequestsBounded
PROPERTIES ReadsInOrder SpanCapNeverGrows Returns
CHECK_DEADLOCK FALSE
