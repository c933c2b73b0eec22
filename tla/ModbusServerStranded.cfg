SPECIFICATION FairSpec
CONSTANTS
  h1 = h1
  Handlers = {h1}
  MaxActive = 1
  MaxPending = 2
  MaxBytes = 6
  MaxTail = 7
  FrameBytes = 2
  IdleTimeout = 3
  IncompleteTimeout = 2
  Deliveries <- AnyDelivery
  MaxRequests = 3
PROPERTIES
  QueueDrains
