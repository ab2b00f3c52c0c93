SPECIFICATION Spec
CONSTANTS
  Locations = {p}
  MaxPending = 3
PROPERTIES
  AlwaysIsTheUsers
