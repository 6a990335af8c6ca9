SPECIFICATION Spec
CONSTANTS
  MaxBytes = 4
  MaxIters = 4
  MaxSignals = 2
  MayFail = TRUE
INVARIANTS
  TypeOK
  SafeUnlessTorn
PROPERTIES
  FlushReturns
  ChannelSpec
