SPECIFICATION Spec
CONSTANTS
  p1 = p1
  p2 = p2
  p3 = p3
  Procs <- MCProcs
  Forgetters <- MCForgetters
  Uncached = {}
  Passphrases = {"x", "y"}
  Secret <- MCSecret
  Backends = {"keyutils", "keychain"}
  Ttl = 1
  MaxWraps = 2
  MaxTime = 1
SYMMETRY Alike
INVARIANTS CacheSound CacheHarmless ForgetEffective ExpiryArmed OneForgetSurvived
CHECK_DEADLOCK FALSE
