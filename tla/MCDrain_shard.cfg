\* Stream shards are listed once per run.
SPECIFICATION Spec
CONSTANTS
  j1 = j1
  Forever = Forever
  Events <- ThreeEvents
  Ts <- ThreeTimes
  StreamOf <- OwnStreams
  Windows = {0}
  WindowLen = 3
  Created = 0
  Margin = 1
  ChunkTarget = 1
  Concurrency = 1
  ShardStreams = 2
  MAX_STREAMS_PER_FILTER = 1
  Tos = {}
  Jobs = {j1}
  Modes = {"drain"}
  Overlap = FALSE
  Days = 2
  InitialRetention = Forever
  MaxAttempt = 2
  Corruption = FALSE
  MaxNow = 5
  MaxFaults = 0
INVARIANT ManifestComplete
