SPECIFICATION Spec
CONSTANTS
  Handles = {h1, h2}
  MaxAccepts = 3
  MaxCommands = 2
  Devices = {1, 2}
  AtOnce = 1
  PortMod = 3
  MaxAir = 1
  FdSetSize = 5
SYMMETRY HandleSymmetry
CHECK_DEADLOCK FALSE
INVARIANTS
  TypeOK
  RepliesInOrder
  ConnectionsMatchClients
  NothingMisdirected
  ShutdownLeavesNoConnection
