\* A failed WAL write leaves a fragment behind.
SPECIFICATION Spec
CONSTANTS
  k1 = k1  k2 = k2
  e1 = e1  e2 = e2  e3 = e3
  r1 = r1  r2 = r2
  NoSeg = NoSeg  Sweeper = Sweeper  Main = Main
  Keys = {k1, k2}
  Records <- ThreeRecords
  KeyOf <- ThreeDays
  Requests <- TwoRequests
  Batch <- TwoBatches
  SegIds = {1, 2, 3, 4, 5, 6, 7, 8}
  WalOn = TRUE
  FlushBytes = 2
  MaxBuffered = 3
  TornAppends = TRUE
  Disconnects = FALSE
  Encodes = FALSE
  MaxFaults = 2
INVARIANT AckedRecoverable
