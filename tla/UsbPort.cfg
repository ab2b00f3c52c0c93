SPECIFICATION Spec
CONSTANTS
  Locations = {p}
  MaxPending = 4
INVARIANTS
  PortInv
  DeviceHasPort
  WaitingIsMonitored
  ToldArrivalComes
PROPERTIES
  MonitoringSurvives
