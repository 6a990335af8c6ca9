SPECIFICATION Spec
CONSTANTS
  Commands = {"ping", "reset", "shutdown", "reboot", "abort", "other"}
  PingPeriod = 2
  MaxStall = 1
  MaxNap = 1
  MaxBatch = 1
  MaxSignals = 1
PROPERTY
  StopIsFinal
