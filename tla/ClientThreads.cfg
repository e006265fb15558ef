SPECIFICATION FairSpec
CONSTANTS
  Node = {0, 1, 2}
  Shard = {0, 1}
  NodeShard <- ByNumber
  Hardcoded <- BuiltIn
  NoNode = NoNode
  NoThread = NoThread
INVARIANTS
  NoCircularWait
  EndpointsNeverEmpty
  SocketAsksReceiver
PROPERTIES
  RequestsEnd
