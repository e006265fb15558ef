\* Two nodes and one that is added at any time; one stop and one start, or the clock set back.
CONSTANTS
  MaxNode = 2
  LastBootstrap = 1
  Shard = {0, 1}
  NodeShard <- Alternating
  Interval = 1
  Jitter <- Punctual
  Timeout = 3
  Modulus = 1000
  Unknown = Unknown
  MaxStops = 1
  MaxStarts = 1
  MaxClockSteps = 1
  MaxCommands = 2
  ClockStep = 1
  Fact = {0}
  FactShard <- FactOfNode
SPECIFICATION FairSyncSpec
INVARIANTS
  TypeOK
  ConnectionsMatch
  SocketMatches
  StoresOwnShard
PROPERTIES
  StoresMeet
  LiveNodesMeet
  DeadPeersGo
