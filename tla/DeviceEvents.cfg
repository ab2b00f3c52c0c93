SPECIFICATION FairSpec
CONSTANTS
  Devices = {d1, d2}
  Clients = {c1, c2}
  NoClient = NoClient
  PairingEvents = TRUE
CHECK_DEADLOCK FALSE
INVARIANTS
  NoDeviceMissed
  NotAttachedEarly
  EventsInv
PROPERTIES
  PairingEventsOfPresentDevices
  AttachedIsDetached
  VisibleIsAnnounced
