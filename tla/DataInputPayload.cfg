SPECIFICATION Spec
CONSTANTS
  UsbMru = 2
  DevMru = 6
  MaxPackets = 2
INVARIANT
  PayloadsOwn
