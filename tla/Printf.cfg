SPECIFICATION Spec
CONSTANTS
  NtoaSize = 32
  FtoaSize = 32
  MemSize = 8
  CharBits = 4
  ShortBits = 8
  IntBits = 12
  LongLongBits = 16
  Glyph <- MCGlyph
  Calls <- MCCalls
CHECK_DEADLOCK FALSE
INVARIANTS
  AsStandard
  CutToFit
  ArgumentsMatch
