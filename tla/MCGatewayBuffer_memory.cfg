\* No WAL: racing requests, encode and PUT failures, shutdown.
SPECIFICATION FairSpec
CONSTANTS
  k1 = k1  k2 = k2
  e1 = e1  e2 = e2  e3 = e3
  r1 = r1  r2 = r2
  NoSeg = NoSeg  Sweeper = Sweeper  Main = Main
  Keys = {k1, k2}
  Records <- ThreeRecords
  KeyOf <- ThreeDays
  Requests <- TwoRequests
  Batch <- TwoBatches
  SegIds = {1}
  WalOn = FALSE
  FlushBytes = 3
  MaxBuffered = 2
  TornAppends = FALSE
  Disconnects = FALSE
  Encodes = TRUE
  MaxFaults = 2
INVARIANTS NoSilentLoss CapHolds
PROPERTIES AckedReachS3 ReadyRecoversIfBuffered
