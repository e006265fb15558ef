\* The six nodes of node/cluster.cpp and its timeout of five intervals; all timers take as long as they may.
CONSTANTS
  MaxNode = 5
  LastBootstrap = 5
  Shard = {0, 1}
  NodeShard <- Halves
  Interval = 3
  Jitter <- Longest
  Timeout = 15
  Modulus = 1000
  Unknown = Unknown
  MaxStops = 0
  MaxStarts = 0
  MaxClockSteps = 0
  MaxCommands = 0
  ClockStep = 1
SPECIFICATION FairSpec
PROPERTIES
  LivePeersStay
