\* Sizes that divide the day, that do not, and that exceed it.
SPECIFICATION FairSpec
CONSTANTS
  DayMs = 6
  MaxTs = 14
  Sizes = {1, 2, 3, 4, 5, 6, 7}
INVARIANTS SameGrid NoHole
PROPERTY Terminates
