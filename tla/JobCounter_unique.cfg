SPECIFICATION Spec
CONSTANTS
  Threads = {t1, t2}
  MaxValue = 5
  MaxCalls = 2
INVARIANTS
  EveryIdIsNew
CHECK_DEADLOCK FALSE
