SPECIFICATION Spec
CONSTANTS
  Requests = {r1}
  MaxWriteErrors = 0
INVARIANTS
  BuffersReturnAtMostOnce
CHECK_DEADLOCK FALSE
