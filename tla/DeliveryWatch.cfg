SPECIFICATION Spec
CONSTANTS
  NoMsg = NoMsg
  NoKey = NoKey
  m1 = m1
  m2 = m2
  r1 = r1
  r2 = r2
  Msgs = {m1}
  Recvs = {r1}
  E2E = {}
  Layer = {}
  Matched = {}
  Watch = {r1}
  BucketLen = 2
  BucketsPerHour = 3
  SlotTTL = 12
  Duration = 4
  PostTimeout = 1
  GetTimeout = 1
  Begin = 4
  MaxTime = 11
  Refusals = {}
  Setups <- WatchSetups
CHECK_DEADLOCK FALSE
INVARIANTS WatchFindsNew
PROPERTY WatchTerminates
