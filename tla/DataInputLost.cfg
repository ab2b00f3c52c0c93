SPECIFICATION Spec
CONSTANTS
  UsbMru = 3
  DevMru = 6
  MaxPackets = 2
INVARIANT
  NoneLost
