SPECIFICATION Spec
CONSTANTS
  Locations = {p}
  MaxPending = 4
INVARIANTS
  NoArrivalMissed
