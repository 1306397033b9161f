SPECIFICATION ServerSafetySpec
CONSTANTS
  k1 = k1
  c1 = c1
  c2 = c2
  h1 = h1
  p1 = p1
  p2 = p2
  g1 = g1
  g2 = g2
  d1 = d1
  Keys = {k1}
  Blobs = {c1}
  Size <- MCSize
  Hashes = {h1}
  NoHash = NoHash
  NoEntry = NoEntry
  TTLs = {1}
  Reads = {1, 2}
  MaxStoreBytes = 0
  MaxTime = 2
  Posts = {p1}
  Gets = {g1}
  Dels = {}
  Body <- MCBody
  WriteToken = TRUE
  MaxConcurrentGets = 0
  SvcHour <- MCSvcHour
  HourLen = 1
  QueryTTLs = {0}
  QueryReads = {0}
  DefaultTTL = 1
  DefaultMaxTTLSeconds = 1
  DefaultReads = 1
  DefaultMaxReads = 2
INVARIANT SignalWipes
CHECK_DEADLOCK FALSE
