SPECIFICATION Spec
CONSTANTS
  Lens <- MCLens
  MaxBytes = 7
INVARIANTS
  TypeOK
  WireInOrder
  EarlyOnlyOverAByte
  NeverStranded
  NoStrayInterrupt
PROPERTIES
  EachByteSent
