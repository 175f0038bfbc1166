SPECIFICATION Spec
CONSTANTS
  Clients = {c1}
  Logins = {l1}
  Names <- MCNames
  Hash = "#"
  PoolAddresses <- MCPoolAddresses
  MaxJobs = 2
  Nobody = Nobody
INVARIANTS
  PaymentIdIsSet
CHECK_DEADLOCK FALSE
