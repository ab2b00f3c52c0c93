SPECIFICATION Spec
CONSTANTS
  MaxConnects = 3
  MaxReads = 2
  Room = TRUE
  MaxElements = 2
CHECK_DEADLOCK FALSE
INVARIANTS
  TypeOK
  HandlesOwnTransfer
  HandshakeAlive
  ElementsOwnedOnce
  StopsReachTheirThread
PROPERTY ReadSpec
