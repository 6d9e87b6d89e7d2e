SPECIFICATION FairSpec
CONSTANTS
  Groups <- MCGroups
  NoCreationTime = {2}
  Commands <- MCCommands
  PageLen = 1
  base_ms = 2
  cap_ms = 3
  max_attempts = 3
  U64Max = 3
  MaxChurn = 1
  WindowsOf <- MCWindowsOf
  Stored <- MCStored
  Incoming <- MCIncoming
  ingest_days = 2
  METRIC_QUERIES_PER_CALL = 1
  Keys <- MCKeys
  KeyGroup <- MCKeyGroup
  KeyWindow <- MCKeyWindow
  Objects <- MCObjects
  KeyPageLen = 2
  MaxWrites = 1
INVARIANTS
  BackoffBounded FoundComplete
  ExitTruthful FailuresIsolated RetentionAfterDrain
  PlanSound ReportHonest
PROPERTY CommandEnds
CHECK_DEADLOCK FALSE
