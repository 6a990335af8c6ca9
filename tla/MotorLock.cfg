SPECIFICATION Spec
CONSTANTS
  Codes = {0, 1, 2, 3}
  MaxLock = 3
  Cooldown = 2
  MaxLag = 1
  MaxTime = 9
INVARIANTS
  TypeOK
  StagesInOrder
  StampTracksStages
PROPERTY
  ArmingSpec
