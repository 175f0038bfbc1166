SPECIFICATION SpecWork
CONSTANTS
  Threads = {t1, t2}
  MaxValue = 4
  MaxCalls = 5
  ByteBits = 3
  WordBits = 9
  NonceSize = 2
  InstanceId <- Instance
  TargetSize = 4
  TargetHead = 2
  DiffOne = 4095
  Templates <- SmallTemplates
  Difficulty = 140
SYMMETRY ThreadSymmetry
INVARIANTS
  TypeOK
  TypeOKWork
  LaterCallsGetLargerIds
  LaterJobsGetNewWork
  ReservedAreaIsKept
CHECK_DEADLOCK FALSE
