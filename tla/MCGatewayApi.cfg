\* Two agents on one group or on a group each; failures, hang-ups and restarts.
SPECIFICATION FairSpec
CONSTANTS
  a1 = a1  a2 = a2
  Groups = {1, 2}
  Streams = {1, 2}
  Agents = {a1, a2}
  Fleets <- SmallFleets
  Tables <- SmallTables
  Limit = 1
  MaxFaults = 2
INVARIANTS AckTruthful NoResend DescribeComplete
PROPERTY AllAcked
