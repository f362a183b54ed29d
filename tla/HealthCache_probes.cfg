SPECIFICATION Spec
CONSTANTS
  t1 = t1
  t2 = t2
  Threads = {t1, t2}
  Levels = {0, 1, 2}
  CachedNone = 9
  Resources <- MCResources
  TTL = 1
  MaxTime = 3
INVARIANTS BreachReported FreshUnlessRaced
PROPERTIES RecoversPastMargin
CHECK_DEADLOCK FALSE
