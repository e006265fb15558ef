\* Two clients edit one list at two nodes, one edit per microsecond.
CONSTANTS
  Origin = {c1, c2}
  Word = 16
  ItemName = {bread}
  Quantity = {0, 1}
  Body <- UpOrDown
  NoItem = NoItem
  ItemUid = {i1}
  ListName = {unnamed, party}
  EmptyName = unnamed
  NoList = NoList
  Node = {n1, n2}
  ListUid = {l1}
  Shard = {s1}
  NodeShard <- OneShard
  ListShard <- OneListShard
  Endpoints <- AllNodes
  Gone = Gone
  NoUid = NoUid
  UserRequests <- Updates
  GossipClients = {}
  CrashClients = {}
  HighWaterMark = 1
  MaxLate = 0
  MaxClock = 2
  SameMicrosecond = FALSE
SPECIFICATION Spec
SYMMETRY Symmetry
INVARIANTS
  TypeOK
  CopiesWellFormed
  OwnerAhead
PROPERTIES
  CopiesOnlyGrow
