SPECIFICATION Spec
CONSTANTS
  HSI_FREQ = 8000
  MAX_SYSCLK = 144000
  Boards <- MCBoards
  Bauds <- MCBauds
  BusSpeeds <- MCBusSpeeds
  CanSpeeds <- MCCanSpeeds
  PwmFreqs <- MCPwmFreqs
  Duties <- MCDuties
  Delays <- MCDelays
  MainPin = 3
  IsrPin = 10
  Quiet = TRUE
INVARIANTS
  TypeOK
  FrequencyReported
  RunsAsAsked
  PinsAsSet
