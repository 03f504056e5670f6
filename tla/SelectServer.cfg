SPECIFICATION FairSpec
CONSTANTS
  Ann = Ann
  Bob = Bob
  Cyd = Cyd
  Clients = {Ann, Bob, Cyd}
  socket_ = socket_
  INVALID = INVALID
  FD_SETSIZE = 3
  BufSize = 2
  Room = 2
  MaxSays <- TwoOneNone
  Leavers = {Ann, Cyd}
INVARIANTS
  TypeOK
  CopyNotStale
  StreamComplete
PROPERTIES
  EventuallyShown
CHECK_DEADLOCK FALSE
