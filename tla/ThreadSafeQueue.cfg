SPECIFICATION FairQueueSpec
CONSTANTS
  Io = Io
  Other = Other
  Consumer = Consumer
  Producers = {Io, Other}
  MaxPushes <- Pushes
INVARIANTS
  QueueTypeOK
  FrontStays
PROPERTIES
  ImplementsFifo
  EventuallyHandled
