SPECIFICATION Spec
CONSTANTS
  Ann = Ann
  Bob = Bob
  Cyd = Cyd
  Clients = {Ann, Bob, Cyd}
  MaxSends <- TwoNoneNone
  Leavers = {Ann, Bob, Cyd}
  UsersMax = 7
SYMMETRY Listeners
INVARIANTS
  TypeOK
  LiveHandlers
  CompleteBroadcast
  UsersCounted
PROPERTIES
  ImplementsLog
  ClearDropsClosed
CHECK_DEADLOCK FALSE
