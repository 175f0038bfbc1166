SPECIFICATION Spec
CONSTANTS
  Clients = {c1}
  Logins = {l1, l2, l3}
  Names <- MCNames
  Hash = "#"
  PoolAddresses <- MCPoolAddresses
  MaxJobs = 2
  Nobody = Nobody
INVARIANTS
  TypeOK
  NoMinerMissesAJob
  WorkGoesToValidMiners
SYMMETRY LoginSymmetry
CHECK_DEADLOCK FALSE
