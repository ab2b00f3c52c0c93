SPECIFICATION Spec
CONSTANTS
  MaxConnects = 1
  MaxReads = 1
  Room = TRUE
  MaxElements = 1
CHECK_DEADLOCK FALSE
INVARIANT ToldIsAnswered
