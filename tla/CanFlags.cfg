SPECIFICATION Spec
CONSTANTS
  r1 = r1
  r2 = r2
  NULL = NULL
  Req <- MCReq
  MaxWait = 2
  MaxFrames = 5
PROPERTIES
  ClearsOwnFlags
