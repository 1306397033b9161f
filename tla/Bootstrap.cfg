SPECIFICATION SafetySpec
SYMMETRY InitSymm
CONSTANTS
  NoRun = NoRun
  i1 = i1
  i2 = i2
  j1 = j1
  spoken = spoken
  Initiators = {i1, i2}
  Responders = {j1}
  PA <- SamePA
  BucketLen = 1
  BucketsPerHour = 2
  SlotTTL = 10
  RepostAfter = 1
  Slack = 3
  Setups <- MCSetups
INVARIANTS Agreement NoFalseAlarm PairsInTime
CHECK_DEADLOCK FALSE
