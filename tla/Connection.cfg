SPECIFICATION Spec
CONSTANTS
  Client = Client
  Server = Server
  Sizes = {0, 1}
  MaxSends <- ThreeToNone
  WireCap = 2
INVARIANTS
  TypeOK
  OneWritePerSocket
  WriteBufferStable
  NoStuckQueue
  ReadArmed
  DeliveredInOrder
PROPERTIES
  ImplementsChannel
CHECK_DEADLOCK FALSE
