\* Writers put three chunks while a command reads; one failure.
SPECIFICATION FairSpec
CONSTANTS
  Records <- FourRecords
  Ts <- FourTimes
  StreamOf <- FourStreams
  Size <- FourSizes
  Matches = {1, 3, 4}
  Chunks = {1, 2, 3}
  DayOf <- ThreeDays
  DayMs = 3
  FrameTarget = 2
  Commands <- FourCommands
  WrapLen = 1
  EVENT_OVERHEAD_BYTES = 1
  MAX_BATCH_EVENTS = 2
  MAX_BATCH_BYTES = 5
  MAX_BATCH_SPAN_MS = 1
  PUT_MAX_ATTEMPTS = 2
  OldBefore = 2
  ExpiredBefore = 2
  NewFrom = 4
  MaxFaults = 1
CHECK_DEADLOCK FALSE
INVARIANTS ScanExact Ordered BatchLegal NothingSkipped
PROPERTY Ends
