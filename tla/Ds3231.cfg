SPECIFICATION Spec
CONSTANTS
  clock = clock
  nobody = nobody
  Device = clock
  Addresses <- MCAddresses
  MAX_LOOP = 2
  REG_COUNT = 4
  Times <- MCTimes
  BackToBack = TRUE
INVARIANTS
  TypeOK
  TimeTold
  HeldIfConnected
PROPERTIES
  CallsReturn
