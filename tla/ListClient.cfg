SPECIFICATION Spec
CONSTANTS
  n1 = n1
  n2 = n2
  n3 = n3
  n4 = n4
  NULL = NULL
  Node <- MCNode
  Arrays <- MCArrays
INVARIANTS
  RingInOrder
  FreeNodesUnlinked
  TraversalEnds
