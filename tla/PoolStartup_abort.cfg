SPECIFICATION StartupSpec
CONSTANTS
  None = None
  Branches = {a, b}
  MaxHeight = 2
  MaxTicks = 1
  MaxId = 2
  PeerCounts = {0, 1}
INVARIANTS
  AbortedPoolNeverServes
