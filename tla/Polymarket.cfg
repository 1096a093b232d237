\* One token from the start and two watched later by three calls; three keys for two places.
CONSTANTS
  Tokens = {t1, t2, t3}
  First = {t1}
  Watchers = {w1, w2, w3}
  MaxBreaks = 3
  CacheKeys = {k1, k2, k3}
  Callers = {c1, c2}
  Ttl = 2
  Capacity = 2
  MaxLoad = 2
SPECIFICATION FairSpec
INVARIANTS PricesOfConnection NotForgotten OrderIsRetained ServedFresh
PROPERTIES AllSubscribed
CHECK_DEADLOCK FALSE
