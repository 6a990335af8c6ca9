SPECIFICATION Spec
CONSTANTS
  Ids = {1}
  Recipes = {1}
  Periods = {2}
  MaxTime = 8
PROPERTY
  MinimumPeriod
