SPECIFICATION FairSpec
CONSTANTS
  Client = Client
  Server = Server
  Sizes = {1}
  MaxSends <- OneEach
  WireCap = 1
PROPERTIES
  EventuallyDelivered
  DisconnectNoticed
CHECK_DEADLOCK FALSE
