SPECIFICATION Spec
CONSTANTS
  a = a
  b = b
  m1 = m1
  m2 = m2
  Sides <- MCSides
  Hosts <- MCHosts
  Homes <- MCHomes
  Platforms <- MCPlatforms
  Sessions = {"s1"}
  MaxRounds = 2
  MaxDeletes = 1
INVARIANTS FingerprintStable KeysMatch MissExplained DeleteSurvived
CHECK_DEADLOCK FALSE
