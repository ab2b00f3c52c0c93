SPECIFICATION Spec
CONSTANTS
  Devices = {d1}
  Clients = {c1}
  NoClient = NoClient
  PairingEvents = FALSE
CHECK_DEADLOCK FALSE
INVARIANT AttachedIsVisible
