SPECIFICATION Spec
CONSTANTS
  dma_req = dma_req
  low = low
  high = high
  NULL = NULL
  Node <- MCNode
  Irq <- MCIrq
  Prio <- MCPrio
  Faulty = {}
  NestDepth = 8
  BufSize = 8
  MaxChars = 10
INVARIANTS
  TypeOK
  OneInPutchar
  NoTrap
  Accounting
  RequestFree
  WrongOnlyByOverrun
PROPERTIES
  LinesGoOut
