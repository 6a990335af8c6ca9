SPECIFICATION Spec
CONSTANTS
  Ids = {1, 2, 3}
  Recipes = {1, 2}
  Periods = {0, 1, 3}
  MaxTime = 5
INVARIANTS
  TypeOK
  SchedulesSubscribed
  ScheduleLags
  RateBound
PROPERTY
  EveryLogServed
