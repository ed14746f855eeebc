SPECIFICATION Spec
CONSTANTS
  dma_req = dma_req
  low = low
  high = high
  NULL = NULL
  Node <- MCNode
  Irq <- MCIrq
  Prio <- MCPrio
  Faulty = {}
  NestDepth = 2
  BufSize = 4
  MaxChars = 6
PROPERTIES
  LinesGoOut
CHECK_DEADLOCK FALSE
