\* The limiter: a cost that fits the bucket until a retune makes it smaller; a
\* full queue.  The client: two tasks share a budget of seven requests, with a
\* fallback; one call may make eight.
CONSTANTS
  Callers = {c1, c2, c3}
  Costs = {2}
  Rate = 4
  Burst = 2
  Retunes <- RetuneDown
  MinRate = 1
  MaxWaiters = 2
  HalveDebounce = 2
  RecoverStep = 3
  RecoverDivisor = 2
  Scale = 2
  MaxAge = 8
  Tasks = {t1, t2}
  Limit = {7}
  MaxAttempts = 2
  ExtraRetries = 1
  Limited = {"primary"}
  HasFallback = TRUE
  MaxCalls = 2
SPECIFICATION RpcFairSpec
INVARIANTS QueueBounded SustainedRate BudgetExact AttemptsBounded
PROPERTIES NeverStuck CallsReturn
CHECK_DEADLOCK FALSE
