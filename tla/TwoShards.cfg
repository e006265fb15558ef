\* One client that crashes, a shard with two nodes and two lists, one with one of each, and a wrong endpoint table.
CONSTANTS
  Origin = {c1}
  Word = 16
  ItemName = {bread}
  Quantity = {0, 1}
  Body <- OneBody
  NoItem = NoItem
  ItemUid = {i1}
  ListName = {unnamed, party}
  EmptyName = unnamed
  NoList = NoList
  Node = {n1, n2, n3}
  ListUid = {l1, l2, l3}
  Shard = {1, 2}
  NodeShard <- TwoShards
  ListShard <- TwoListShards
  Endpoints <- WrongTable
  Gone = Gone
  NoUid = NoUid
  UserRequests <- Creations
  GossipClients = {c1}
  CrashClients = {c1}
  HighWaterMark = 1
  MaxLate = 1
  MaxClock = 0
  SameMicrosecond = FALSE
SPECIFICATION Spec
SYMMETRY ShardSymmetry
INVARIANTS
  ShardPurity
  ReplyForCurrentRequest
