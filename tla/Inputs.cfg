SPECIFICATION Spec
CONSTANTS
  MaxScript = 4
  SecretCap = 2
  Confs <- MCConfs
  Scripts <- MCScripts
  Words <- MCWords
  EnvValue <- MCEnvValue
INVARIANTS CapsuleFromInput PBShielded SharedFDRefused
PROPERTY FedCommandEnds
CHECK_DEADLOCK FALSE
