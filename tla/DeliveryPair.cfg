SPECIFICATION SafetySpec
CONSTANTS
  NoMsg = NoMsg
  NoKey = NoKey
  m1 = m1
  m2 = m2
  r1 = r1
  r2 = r2
  Msgs = {m1, m2}
  Recvs = {r1, r2}
  E2E = {m1}
  Layer = {r1}
  Matched = {r1}
  Watch = {}
  BucketLen = 1
  BucketsPerHour = 2
  SlotTTL = 3
  Duration = 0
  PostTimeout = 1
  GetTimeout = 1
  Begin = 3
  MaxTime = 5
  Refusals = {"503"}
  Setups <- PairSetups
CHECK_DEADLOCK FALSE
INVARIANTS AtMostOnce LossReported SendReportHonest StrictMode MissIsHonest HourSeam
