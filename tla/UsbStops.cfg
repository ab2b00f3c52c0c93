SPECIFICATION Spec
CONSTANTS
  MaxConnects = 3
  MaxReads = 2
  Room = FALSE
  MaxElements = 2
CHECK_DEADLOCK FALSE
INVARIANTS
  TypeOK
  ElementsOwnedOnce
  StopsReachTheirThread
