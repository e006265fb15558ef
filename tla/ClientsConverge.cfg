\* Two clients, one of which gossips, share a list through one node.
CONSTANTS
  Origin = {c1, c2}
  Word = 16
  ItemName = {bread}
  Quantity = {0, 1}
  Body <- OneBody
  NoItem = NoItem
  ItemUid = {i1}
  ListName = {unnamed, party}
  EmptyName = unnamed
  NoList = NoList
  Node = {n1}
  ListUid = {l1}
  Shard = {s1}
  NodeShard <- OneShard
  ListShard <- OneListShard
  Endpoints <- AllNodes
  Gone = Gone
  NoUid = NoUid
  UserRequests <- Additions
  GossipClients = {c1}
  CrashClients = {}
  HighWaterMark = 1
  MaxLate = 0
  MaxClock = 1
  SameMicrosecond = FALSE
SPECIFICATION ReloadingSpec
PROPERTIES
  ClientsConverge
