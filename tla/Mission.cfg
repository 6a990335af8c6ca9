SPECIFICATION Spec
CONSTANTS
  Codes = {0, 1}
  MaxLock = 2
  Cooldown = 1
  MaxLag = 2
  Ids = {1, 2}
  Recipes = {1}
  Periods = {1}
  Sensors = {0, 1, 2}
  LoopPeriod = 1
  MaxBatch = 2
  MaxTime = 4
INVARIANTS
  ValuesCurrent
  ServedInTime
  ResetForgets
PROPERTY
  TelemetrySpec
