\* WAL on: two failures of any kind, clients may hang up.
SPECIFICATION Spec
CONSTANTS
  k1 = k1  k2 = k2
  e1 = e1  e2 = e2  e3 = e3
  r1 = r1  r2 = r2
  NoSeg = NoSeg  Sweeper = Sweeper  Main = Main
  Keys = {k1, k2}
  Records <- ThreeRecords
  KeyOf <- ThreeDays
  Requests <- TwoRequests
  Batch <- TwoBatches
  SegIds = {1, 2, 3, 4, 5, 6, 7, 8}
  WalOn = TRUE
  FlushBytes = 2
  MaxBuffered = 2
  TornAppends = FALSE
  Disconnects = TRUE
  Encodes = TRUE
  MaxFaults = 2
INVARIANTS TypeOK AckedRecoverable NeverOnlyInMemory DuplicatesOnlyInWindows
PROPERTY ImplementsLog
