\* One client creates and deletes a list while two nodes gossip.
CONSTANTS
  Origin = {c1}
  Word = 16
  ItemName = {bread}
  Quantity = {0, 1}
  Body <- OneBody
  NoItem = NoItem
  ItemUid = {i1}
  ListName = {unnamed, party}
  EmptyName = unnamed
  NoList = NoList
  Node = {n1, n2}
  ListUid = {l1}
  Shard = {s1}
  NodeShard <- OneShard
  ListShard <- OneListShard
  Endpoints <- AllNodes
  Gone = Gone
  NoUid = NoUid
  UserRequests <- NoEdits
  GossipClients = {}
  CrashClients = {}
  HighWaterMark = 1
  MaxLate = 0
  MaxClock = 0
  SameMicrosecond = FALSE
SPECIFICATION HistorySpec
INVARIANTS
  DeletionIsFinal
