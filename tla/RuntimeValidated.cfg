SPECIFICATION Spec
CONSTANTS
  ModelKeys <- SmallKeys
  Documents <- SomeDocuments
  Arguments <- SomeArguments
  Infinity = 100000
  Written <- SomeWritten
  Interval = 2
  MaxBehind = 5
INVARIANTS
  ValidatedStaysAlive
CHECK_DEADLOCK FALSE
