SPECIFICATION Spec
CONSTANTS
  UsbMru = 2
  DevMru = 6
  MaxPackets = 3
INVARIANTS
  TypeOK
  Reassembled
