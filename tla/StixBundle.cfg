SPECIFICATION Spec
CONSTANTS
  Runs = {r1, r2}
  Lab = {r2}
  Lines <- SomeLines
  Compressed <- Spellings
  Global = {"v6", "v4"}
  PerMilli = 2
  MaxEvents = 3
  MaxSources = 2
  MaxNumber = 2
  None = None
  MaxLines = 4
  MaxClock = 1
INVARIANTS
  TypeOK
  CollectedIsSummary
  PublishedWhole
  RepackagingStable
  IndicatorKept
CHECK_DEADLOCK FALSE
