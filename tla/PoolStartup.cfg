SPECIFICATION FairStartupSpec
CONSTANTS
  None = None
  Branches = {a}
  MaxHeight = 2
  MaxTicks = 1
  MaxId = 2
  PeerCounts = {0, 1}
INVARIANTS
  TypeOKStartup
  ServingHasAJob
  ServingKnowsItsPrefix
  ServingDaemonWasSynced
PROPERTIES
  StartupReachesServing
