SPECIFICATION FairSpec
CONSTANTS
  Requests = {r1, r2}
  MaxWriteErrors = 1
INVARIANTS
  TypeOK
  RequestsFindTheirContext
  ClosedClientsAreUnregistered
  BuffersAreNotLost
PROPERTIES
  ResponsesAreWritten
  SilentClientsAreBooted
  DeadClientsAreShutDown
CHECK_DEADLOCK FALSE
