SPECIFICATION LoopSpec
CONSTANTS
  r1 = r1
  r2 = r2
  NULL = NULL
  Req <- MCReq
  MaxWait = 2
  MaxFrames = 4
  Ident <- MCIdent
  IdLists <- MCIdLists
  MAX_IDS = 4
INVARIANTS
  TypeOK
  SentOnceInOrder
  DoneMeansSent
  ToldInOrder
  AcceptsListed
PROPERTIES
  CallsReturn
