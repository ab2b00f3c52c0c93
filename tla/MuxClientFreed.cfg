SPECIFICATION Spec
CONSTANTS
  InBufSize = 2
  MaxPacket = 1
  MaxPayload = 1
  WinUnit = 1
  SeqSpace = 4
  DevBufSize = 1
  SockBufSize = 1
  DevSizes = {}
  AppSizes = {}
  ChanBound = 1
INVARIANT ClientFreedOnce
