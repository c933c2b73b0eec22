SPECIFICATION Spec
CONSTANTS
  Sessions = {s1, s2}
  Anonymous = {s2}
  Map <- PartMap
  Shown <- PartShown
  Requests <- PartRequests
  None = None
  MaxRequests = 2
INVARIANTS
  TypeOK
  EventsAttributed
  SequenceTellsLoss
  OneEventPerRequest
  ServedIsReported
PROPERTIES
  AtomicWrites
  ImplementsDevice
