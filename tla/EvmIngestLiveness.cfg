\* Two forward passes beside a backfill, or two backfills beside a forward
\* pass; one failure.  Facts steer no pass, so the chain has none.
CONSTANTS
  Forward = {f1, f2}
  Backfill = {b1, b2}
  Teams = {{f1, f2, b1}, {f1, b1, b2}}
  Tokens = {}
  NoFact = NoFact
  Confirmations = 1
  StartBack = 2
  Span = 3
  StepCap = 2
  MinStep = 1
  MaxLag = 1
  InitHead = 3
  MaxHead = 4
  MaxFailures = 1
SPECIFICATION TeamFairSpec
PROPERTIES CursorCatchesUp BackfillEnds
CHECK_DEADLOCK FALSE
