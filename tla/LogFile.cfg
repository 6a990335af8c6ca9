SPECIFICATION Spec
CONSTANTS
  MaxClock = 4
  MaxTold = 7
  MaxStarts = 2
INVARIANTS
  LogInOrder
  NothingForgotten
