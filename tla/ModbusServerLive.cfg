SPECIFICATION FairSpec
CONSTANTS
  h1 = h1
  h2 = h2
  Handlers = {h1, h2}
  MaxActive = 1
  MaxPending = 2
  MaxBytes = 4
  MaxTail = 5
  FrameBytes = 2
  IdleTimeout = 2
  IncompleteTimeout = 1
  Deliveries <- DecodableDelivery
  MaxRequests = 3
INVARIANTS
  NoRequestLost
PROPERTIES
  SilentConnectionCloses
  IncompleteConnectionCloses
  QueueDrains
