SPECIFICATION Spec
CONSTANTS
  r1 = r1
  r2 = r2
  r3 = r3
  NULL = NULL
  Node <- MCNode
  XferLen <- MCXferLen
  Faulty <- MCFaulty
  WithCb <- MCWithCb
  CbQueues <- MCCbQueues
INVARIANTS
  TypeOK
  QueueInOrder
  ChannelServesHead
  NeverStranded
PROPERTIES
  NeverRestarted
  EachCompletes
  ImplementsService
