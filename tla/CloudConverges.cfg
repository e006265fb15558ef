\* One client edits, deletes and gossips to two nodes, messages get lost.
CONSTANTS
  Origin = {c1}
  Word = 16
  ItemName = {bread}
  Quantity = {0, 1}
  Body <- OneBody
  NoItem = NoItem
  ItemUid = {i1}
  ListName = {unnamed, party}
  EmptyName = unnamed
  NoList = NoList
  Node = {n1, n2}
  ListUid = {l1}
  Shard = {s1}
  NodeShard <- OneShard
  ListShard <- OneListShard
  Endpoints <- AllNodes
  Gone = Gone
  NoUid = NoUid
  UserRequests <- Edits
  GossipClients = {c1}
  CrashClients = {}
  HighWaterMark = 1
  MaxLate = 0
  MaxClock = 2
  SameMicrosecond = FALSE
SPECIFICATION FairSpec
PROPERTIES
  CloudConverges
