SPECIFICATION Spec
CONSTANTS
  Transports = {"udp", "tcp", "dry"}
  Rates = {0, 1, 2}
  One = 2
  Second = 2
  ConnectTimeout = 1
  SummarySeconds = 2
  MaxLines = 4
  MaxTime = 3
CHECK_DEADLOCK FALSE
INVARIANTS
  OutageSurvived
