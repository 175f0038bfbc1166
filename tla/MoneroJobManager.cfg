SPECIFICATION FairSpec
CONSTANTS
  None = None
  Branches = {a, b}
  MaxHeight = 3
  MaxTicks = 1
  MaxId = 2
INVARIANTS
  TypeOK
  JobsClimb
  EveryJobIsBroadcastInOrder
PROPERTIES
  NewBlocksBecomeJobs
