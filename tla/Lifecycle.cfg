SPECIFICATION Spec
CONSTANTS
  Node = {n0, n1, n2}
  Peers = 2
INVARIANTS
  TypeOK
  LoopOwnsSockets
CHECK_DEADLOCK FALSE
