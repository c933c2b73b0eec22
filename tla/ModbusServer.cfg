SPECIFICATION Spec
CONSTANTS
  h1 = h1
  h2 = h2
  Handlers = {h1, h2}
  MaxActive = 1
  MaxPending = 2
  MaxBytes = 6
  MaxTail = 7
  FrameBytes = 2
  IdleTimeout = 3
  IncompleteTimeout = 2
  Deliveries <- AnyDelivery
  MaxRequests = 3
SYMMETRY Symmetry
INVARIANTS
  SlotsMatchConnections
  TimersGuardConnections
  SessionBounded
  InOrder
PROPERTIES
  DeadlineRunsOn
