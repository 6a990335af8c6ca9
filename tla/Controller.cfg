SPECIFICATION Spec
CONSTANTS
  Commands = {"ping", "reset", "shutdown", "reboot", "abort", "other"}
  PingPeriod = 2
  MaxStall = 1
  MaxNap = 1
  MaxBatch = 2
  MaxSignals = 1
INVARIANTS
  TypeOK
  SilenceBound
  LogCaughtUp
PROPERTIES
  StopHonoured
  LostOnlyByFailure
  SilentGroundStops
  DeafStops
