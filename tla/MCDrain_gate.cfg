\* Two windows drained at once, reconciled, and the retention gate; two failures of any
\* kind, but no damaged manifest.
SPECIFICATION Spec
CONSTANTS
  j1 = j1
  Forever = Forever
  Events <- ThreeEvents
  Ts <- ThreeTimes
  StreamOf <- ThreeStreams
  Windows = {0, 1}
  WindowLen = 2
  Created = 0
  Margin = 1
  ChunkTarget = 2
  Concurrency = 2
  ShardStreams = 1
  MAX_STREAMS_PER_FILTER = 2
  Tos = {}
  Jobs = {j1}
  Modes = {"drain", "reconcile"}
  Overlap = FALSE
  Days = 2
  InitialRetention = Forever
  MaxAttempt = 2
  Corruption = FALSE
  MaxNow = 5
  MaxFaults = 2
INVARIANTS TypeOK ManifestProves ManifestComplete OnceInManifest ProvedKept
PROPERTY ExpiryArchived
