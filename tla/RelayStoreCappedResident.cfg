SPECIFICATION Spec
CONSTANTS
  k1 = k1
  k2 = k2
  c1 = c1
  c2 = c2
  c3 = c3
  h1 = h1
  Keys = {k1, k2}
  Blobs = {c1, c2, c3}
  Size <- MCSize
  Hashes = {h1}
  NoHash = NoHash
  NoEntry = NoEntry
  TTLs = {1}
  Reads = {1, 2}
  MaxStoreBytes = 3
  MaxTime = 3
SYMMETRY Symm
INVARIANT ResidentWithinCap
