SPECIFICATION FairSpec
CONSTANTS
  Ann = Ann
  Bob = Bob
  Cyd = Cyd
  Clients = {Ann, Bob, Cyd}
  MaxSends <- OneOneNone
  Leavers = {}
  UsersMax = 7
PROPERTIES
  ImplementsLog
  EventuallyBroadcast
CHECK_DEADLOCK FALSE
