SPECIFICATION CodecSpec
CONSTANTS
  MaxByte = 3
  Masks = {1, 2}
  Sync1 = 3
  Sync2 = 0
  Id = 1
  Sizes = {1, 2}
  MaxFields = 3
INVARIANTS
  CodecTypeOK
  FieldsSurvive
  AllArrive
  ParserAccepts
