SPECIFICATION Spec
CONSTANTS
  Procs = {1, 2}
  MinLen = 2
  NoValue = NoValue
  Confs <- MCConfs
INVARIANTS Reachable OnlyKillsBlock SameEnvironmentAgrees
PROPERTY SignalEnds
CHECK_DEADLOCK FALSE
