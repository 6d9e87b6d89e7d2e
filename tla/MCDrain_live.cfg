\* Progress: runs of both modes are scheduled again and again.
SPECIFICATION FairSpec
CONSTANTS
  j1 = j1
  Forever = Forever
  Events <- ThreeEvents
  Ts <- ThreeTimes
  StreamOf <- ThreeStreams
  Windows = {0}
  WindowLen = 3
  Created = 0
  Margin = 0
  ChunkTarget = 2
  Concurrency = 1
  ShardStreams = 2
  MAX_STREAMS_PER_FILTER = 2
  Tos = {3}
  Jobs = {j1}
  Modes = {"drain", "reconcile"}
  Overlap = FALSE
  Days = 9
  InitialRetention = Forever
  MaxAttempt = 3
  Corruption = TRUE
  MaxNow = 3
  MaxFaults = 1
PROPERTY EventuallyArchived
