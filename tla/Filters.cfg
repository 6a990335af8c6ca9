SPECIFICATION Spec
CONSTANTS
  Samples = {0, 1, 3}
  Steps = {0, 1, 2}
  Window = 2
  RC = 1
  Bounds = 4
  MaxSteps = 4
INVARIANTS
  AveragesAreMeans
  VarianceIsUnbiased
  PassesStayBounded
  CalculusFits
PROPERTY
  AngleUnwraps
