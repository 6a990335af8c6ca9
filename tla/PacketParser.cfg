SPECIFICATION Spec
CONSTANTS
  MaxByte = 3
  Masks = {1, 2}
  Sync1 = 3
  Sync2 = 0
  Alphabet = {0, 3}
  MaxBytes = 12
INVARIANTS
  TypeOK
  InBoundsUnlessTorn
  PacketsGenuine
  NoPacketMissed
PROPERTY
  EverythingParsed
