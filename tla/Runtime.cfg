SPECIFICATION FairSpec
CONSTANTS
  ModelKeys <- SmallKeys
  Documents <- SomeDocuments
  Arguments <- SomeArguments
  Infinity = 100000
  Written <- SomeWritten
  Interval = 2
  MaxBehind = 5
INVARIANTS
  FailsClosed
  ValidatedStarts
  ProcessAlive
  KeepsPace
PROPERTIES
  StopsInOrder
CHECK_DEADLOCK FALSE
