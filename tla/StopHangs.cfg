\* Two nodes, both of them stopped.
CONSTANTS
  MaxNode = 1
  LastBootstrap = 1
  Shard = {0, 1}
  NodeShard <- Alternating
  Interval = 1
  Jitter <- Punctual
  Timeout = 2
  Modulus = 1000
  Unknown = Unknown
  MaxStops = 2
  MaxStarts = 0
  MaxClockSteps = 0
  MaxCommands = 2
  ClockStep = 1
SPECIFICATION FairSpec
PROPERTIES
  StopsEnd
