CONSTANTS
  t1 = t1
  t2 = t2
  Threads = {t1, t2}
  Rates = {1, 2}
  MaxRate = 2
  Minute = 4
  Gap = 1
  MaxRetries = 1
  RetryAfter = {2}
  MaxTime = 7
  MaxCalls = 4
SPECIFICATION Spec
SYMMETRY Symmetry
INVARIANTS
  TypeOK
  BurstIsBounded
  RequestsKeepTheGap
