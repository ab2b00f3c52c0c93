SPECIFICATION FairSpec
CONSTANTS
  Devices = {d1}
  Clients = {c1}
  NoClient = NoClient
  PairingEvents = TRUE
CHECK_DEADLOCK FALSE
PROPERTY PairingEventEnds
